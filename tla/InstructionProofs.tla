-------------------------- MODULE InstructionProofs --------------------------
(***************************************************************************)
(* What the decode stage reads out of a word is what the assembler put in. *)
(***************************************************************************)
EXTENDS Instruction, TLAPS

(* The fields of a word.  The lowest may be as wide as the two below Rs.   *)
LEMMA Fields ==
  ASSUME NEW a \in Imm12, NEW b \in Register, NEW c \in Register,
         NEW d \in Register, NEW e \in Register
  PROVE  /\ Packed(a, b, c, d, e) \in Nat
         /\ Packed(a, b, c, d, e) % 4096 = a
         /\ Rt(Packed(a, b, c, d, e)) = b
         /\ Rs(Packed(a, b, c, d, e)) = c
         /\ Rd(Packed(a, b, c, d, e)) = d
         /\ Op(Packed(a, b, c, d, e)) = e
<1> DEFINE w == Packed(a, b, c, d, e)
<1>1. w = a + b * 4096 + c * 131072 + d * 4194304 + e * 134217728
  BY DEF Packed
<1> HIDE DEF w
<1>2. w \in Nat /\ w % 4096 = a
  BY <1>1, SMT DEF Register, Imm12
<1>3. w \div 4096 = b + c * 32 + d * 1024 + e * 32768
  BY <1>1, SMT DEF Register, Imm12
<1>4. w \div 131072 = c + d * 32 + e * 1024
  BY <1>1, SMT DEF Register, Imm12
<1>5. w \div 4194304 = d + e * 32
  BY <1>1, SMT DEF Register, Imm12
<1>6. w \div 134217728 = e
  BY <1>1, SMT DEF Register, Imm12
<1>7. Rt(w) = b
  BY <1>3, SMT DEF Register, Rt, Bits
<1>8. Rs(w) = c
  BY <1>4, SMT DEF Register, Rs, Bits
<1>9. Rd(w) = d
  BY <1>5, SMT DEF Register, Rd, Bits
<1>10. Op(w) = e
  BY <1>6, SMT DEF Register, Op, Bits
<1> QED
  BY <1>2, <1>7, <1>8, <1>9, <1>10 DEF w

(* What fits in a field is kept by its mask.                               *)
LEMMA Masks ==
  ASSUME NEW rs \in Register, NEW rt \in Register, NEW rd \in Register,
         NEW op \in ROp, NEW imm \in Int
  PROVE  /\ EncodeR(rs, rt, rd, imm, op) = Packed(imm % 4096, rt, rs, rd, op)
         /\ imm % 4096 \in Imm12 /\ op \in Register
<1>1. rt % 32 = rt /\ rs % 32 = rs /\ rd % 32 = rd
  BY SMT DEF Register
<1>2. op % 32 = op /\ op \in Register
  BY SMT DEF ROp, Register
<1>3. imm % 4096 \in Imm12
  BY SMT DEF Imm12
<1> QED
  BY <1>1, <1>2, <1>3 DEF EncodeR

(* An instruction with registers: decode.sv takes op, destination and both *)
(* sources from where mips.cpp 217-224 put them, whatever the immediate,   *)
(* negative ones included.                                                 *)
THEOREM RegistersDecoded ==
  ASSUME NEW rs \in Register, NEW rt \in Register, NEW rd \in Register,
         NEW op \in ROp, NEW imm \in Int
  PROVE  LET w == EncodeR(rs, rt, rd, imm, op)
         IN  Op(w) = op /\ Rd(w) = rd /\ Rs(w) = rs /\ Rt(w) = rt
<1> DEFINE a == imm % 4096
<1>1. EncodeR(rs, rt, rd, imm, op) = Packed(a, rt, rs, rd, op)
  BY Masks
<1>2. a \in Imm12 /\ op \in Register
  BY Masks
<1> HIDE DEF a
<1>3. /\ Rt(Packed(a, rt, rs, rd, op)) = rt /\ Rs(Packed(a, rt, rs, rd, op)) = rs
      /\ Rd(Packed(a, rt, rs, rd, op)) = rd /\ Op(Packed(a, rt, rs, rd, op)) = op
  BY <1>2, Fields
<1> QED
  BY <1>1, <1>3

(* The immediate of ADDI and SUBI arrives as it was written when it is not *)
(* negative; "sign extend 12 bit immediate to 32 bits" (decode.sv 174)     *)
(* holds for these only: a negative one arrives with bit 31 clear, 2^31    *)
(* less than the two's complement of what was written.                     *)
THEOREM ImmediateDecoded ==
  ASSUME NEW rs \in Register, NEW rt \in Register, NEW rd \in Register,
         NEW op \in ROp, NEW imm \in {n \in Int : -2048 <= n /\ n < 2048}
  PROVE  LET w == EncodeR(rs, rt, rd, imm, op)
         IN  ImmR(w) = IF imm >= 0 THEN Word(imm) ELSE Word(imm) - 2147483648
<1> DEFINE w == EncodeR(rs, rt, rd, imm, op)
           a == imm % 4096
<1>1. w \in Nat /\ w % 4096 = a
  <2>1. w = Packed(a, rt, rs, rd, op) /\ a \in Imm12 /\ op \in Register
    BY Masks
  <2> HIDE DEF w, a
  <2>2. Packed(a, rt, rs, rd, op) \in Nat /\ Packed(a, rt, rs, rd, op) % 4096 = a
    BY <2>1, Fields
  <2> QED
    BY <2>1, <2>2
<1>2. a = IF imm >= 0 THEN imm ELSE imm + 4096
  BY SMT
<1>3. Word(imm) = IF imm >= 0 THEN imm ELSE imm + 4294967296
  BY SMT DEF Word
<1> HIDE DEF w, a
<1>4. w % 2048 = a % 2048 /\ Bits(w, 2048, 2) = a \div 2048
  BY <1>1, SMT DEF Bits
<1>5. CASE imm >= 0
  <2>1. a % 2048 = imm /\ a \div 2048 = 0
    BY <1>2, <1>5, SMT
  <2>2. ImmR(w) = imm
    BY <1>4, <2>1, SMT DEF ImmR
  <2> QED
    BY <1>3, <1>5, <2>2 DEF w
<1>6. CASE imm < 0
  <2>1. a % 2048 = imm + 2048 /\ a \div 2048 = 1
    BY <1>2, <1>6, SMT
  <2>2. ImmR(w) = 2147483648 + imm
    BY <1>4, <2>1, SMT DEF ImmR
  <2>3. Word(imm) - 2147483648 = 2147483648 + imm
    BY <1>3, <1>6, SMT
  <2> QED
    BY <1>6, <2>2, <2>3, SMT DEF w
<1> QED
  BY <1>5, <1>6

(* LDI and STI: op, the registers and the 16 bits of the address arrive.   *)
THEOREM AddressDecoded ==
  ASSUME NEW rs \in Register, NEW rd \in Register, NEW op \in MOp, NEW imm \in Imm16
  PROVE  LET w == EncodeM(rs, rd, imm, op)
         IN  Op(w) = op /\ Rd(w) = rd /\ Rs(w) = rs /\ ImmM(w) = imm
<1> DEFINE a == imm % 4096
           b == imm \div 4096
           w == EncodeM(rs, rd, imm, op)
<1>1. a \in Imm12 /\ b \in Register /\ op \in Register /\ imm = a + b * 4096
  <2>1. imm \in Int /\ 0 <= imm /\ imm < 65536
    BY SMT DEF Imm16
  <2>2. a \in Int /\ 0 <= a /\ a < 4096 /\ b \in Int /\ imm = a + b * 4096
    BY <2>1, SMT
  <2> HIDE DEF a, b
  <2>3. 0 <= b /\ b < 32
    BY <2>1, <2>2, SMT
  <2> QED
    BY <2>2, <2>3, SMT DEF Register, Imm12, MOp
<1>2. rs % 32 = rs /\ rd % 32 = rd /\ op % 64 = op
  BY SMT DEF Register, MOp
<1>3. imm \in Int /\ 0 <= imm /\ imm < 65536
  BY SMT DEF Imm16
<1>4. imm % 65536 = imm
  <2> HIDE DEF a, b, w
  <2> QED
    BY <1>3, SMT
<1>5. w = imm + rs * 131072 + rd * 4194304 + op * 134217728
  <2>1. w = Packed(imm, 0, rs, rd, op)
    BY <1>2, <1>4 DEF EncodeM
  <2> HIDE DEF w
  <2> QED
    BY <1>3, <2>1, SMT DEF Packed, Register, MOp
<1>6. w = Packed(a, b, rs, rd, op)
  BY <1>1, <1>5, SMT DEF Packed, Register, Imm12
<1>7. Op(w) = op /\ Rd(w) = rd /\ Rs(w) = rs
  <2> HIDE DEF w, a, b
  <2>1. /\ Op(Packed(a, b, rs, rd, op)) = op /\ Rd(Packed(a, b, rs, rd, op)) = rd
        /\ Rs(Packed(a, b, rs, rd, op)) = rs
    BY <1>1, Fields
  <2> QED
    BY <1>6, <2>1
<1>8. w % 65536 = imm
  <2> DEFINE k == rs * 2 + rd * 64 + op * 2048
  <2>1. k \in Int /\ w = imm + k * 65536
    <3> HIDE DEF w
    <3> QED
      BY <1>3, <1>5, SMT DEF Register, MOp
  <2> HIDE DEF w, k
  <2> QED
    BY <1>3, <2>1, SMT
<1> HIDE DEF w
<1>9. ImmM(w) = imm
  BY <1>8 DEF ImmM
<1> QED
  BY <1>7, <1>9 DEF w

(* JMP and JAL reach the word of that number in instruction memory, which  *)
(* begins at 16'h0600 << 16.                                               *)
THEOREM JumpDecoded ==
  ASSUME NEW op \in JOp, NEW imm \in {n \in Nat : n < 16384}
  PROVE  LET w == EncodeJ(imm, op)
         IN  Op(w) = op /\ ImmJ(w) = 1536 * 65536 + 4 * imm
<1> DEFINE w == EncodeJ(imm, op)
<1>1. w = imm + op * 134217728
  BY SMT DEF EncodeJ, Packed, JOp
<1>2. /\ imm \in Int /\ 0 <= imm /\ imm < 16384 /\ op \in Int
      /\ w \in Int /\ w = imm + op * 134217728
  BY <1>1 DEF JOp
<1> HIDE DEF w
<1>3. Op(w) = op
  <2>1. w \div 134217728 = op
    BY <1>2, SMT
  <2> QED
    BY <2>1, SMT DEF Op, Bits, JOp
<1>4. ImmJ(w) = 1536 * 65536 + 4 * imm
  <2> DEFINE q == op * 8192
  <2>1. q \in Int /\ w = imm + q * 16384
    BY <1>2
  <2> HIDE DEF q
  <2>2. w % 16384 = imm
    BY <1>2, <2>1, SMT
  <2> QED
    BY <1>2, <2>2 DEF ImmJ
<1> QED
  BY <1>3, <1>4 DEF w
=============================================================================
