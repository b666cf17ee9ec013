----------------------------- MODULE Instruction -----------------------------
(***************************************************************************)
(* The instruction word between the assembler that packs it                *)
(* (class/src/mips.cpp) and the decode stage that takes it apart           *)
(* (hw/decode.sv).  A field is masked to its width, shifted and or-ed in:  *)
(* on numbers, a remainder, a product and a sum, for no two fields share a *)
(* bit.                                                                    *)
(***************************************************************************)
EXTENDS Integers

Register == 0..31
Imm12 == {n \in Nat : n < 4096}
Imm16 == {n \in Nat : n < 65536}
ROp == 0..11 \cup {13} \cup 15..19 \cup {21, 31}    \* ADD .. LD, ST, nop .. BNN, JR, RIN
MOp == {12, 14}                                     \* LDI, STI
JOp == {20, 22}                                     \* JMP, JAL

-----------------------------------------------------------------------------
(* generic_mips32_encode *)

(* Fields at bits 0, 12, 17, 22 and 27.                                    *)
Packed(a, b, c, d, e) == a + b * 4096 + c * 131072 + d * 4194304 + e * 134217728

EncodeR(rs, rt, rd, imm, op) == Packed(imm % 4096, rt % 32, rs % 32, rd % 32, op % 32)

EncodeM(rs, rd, imm, op) == Packed(imm % 65536, 0, rs % 32, rd % 32, op % 64)

EncodeJ(imm, op) == Packed(imm % 16384, 0, 0, 0, op % 64)

-----------------------------------------------------------------------------
(* decode *)

Bits(w, low, size) == (w \div low) % size

Op(w) == Bits(w, 134217728, 32)         \* instr[31:27]
Rd(w) == Bits(w, 4194304, 32)           \* instr[26:22]
Rs(w) == Bits(w, 131072, 32)            \* instr[21:17]
Rt(w) == Bits(w, 4096, 32)              \* instr[16:12]

(* ADDI and SUBI: twenty copies of bit 11 before bits 10 to 0 - 31 bits,   *)
(* so that bit 31 of imm is 0.                                             *)
ImmR(w) == Bits(w, 2048, 2) * 2048 * 1048575 + (w % 2048)
ImmM(w) == w % 65536
ImmJ(w) == 100663296 + ((w % 16384) * 4)

(* What a 32-bit register holds for an integer.                            *)
Word(n) == n % 4294967296
=============================================================================
