----------------------------- MODULE FifoProofs -----------------------------
(***************************************************************************)
(* Proofs about Fifo, for every depth, RAM size and word set: its          *)
(* registers never disagree (FifoInvariant) and it implements the bounded  *)
(* queue (FifoImplementsQueue).                                            *)
(***************************************************************************)
EXTENDS Fifo, TLAPS, SequenceTheorems

(* The inductive invariant.  To the checked invariants it adds that the    *)
(* read port always mirrors the RAM at the read pointer, and that every    *)
(* cell between the pointers holds a word somebody wrote.                  *)
Mirrored == rd_data = mem[rd_addr]
Written == \A i \in 0..(DEPTH - 1) : i < count_r => mem[Ahead(i)] \in Data

IInv == TypeOK /\ Occupancy /\ Mirrored /\ Written

LEMMA InitEstablishes == Init => IInv
  BY DepthAssumption, AlmostAssumption
     DEF Init, IInv, TypeOK, Occupancy, Mirrored, Written, Addr, Ahead

(* What one clock edge does to the counters: both move by the same amount  *)
(* in opposite directions, and neither wraps.                              *)
LEMMA CountersMove ==
  ASSUME TypeOK, Occupancy, NEW w \in BOOLEAN, NEW r \in BOOLEAN
  PROVE  /\ NextCount(w, r) = count_r + (IF ValidWr(w) THEN 1 ELSE 0)
                                      - (IF ValidRd(r) THEN 1 ELSE 0)
         /\ NextSpace(w, r) = DEPTH - NextCount(w, r)
         /\ NextCount(w, r) \in 0..DEPTH
<1>1. ValidWr(w) => count_r < DEPTH
  BY DepthAssumption DEF ValidWr, Occupancy, TypeOK
<1>2. ValidRd(r) => count_r > 0
  BY DepthAssumption DEF ValidRd, Occupancy, TypeOK
<1>3. ValidWr(w) \in BOOLEAN /\ ValidRd(r) \in BOOLEAN
  BY DEF ValidWr, ValidRd
<1>4. CASE ValidWr(w) /\ ~ValidRd(r)
  BY <1>4, <1>1, DepthAssumption
     DEF NextCount, NextSpace, CountUp, CountDown, TypeOK, Occupancy
<1>5. CASE ~ValidWr(w) /\ ValidRd(r)
  BY <1>5, <1>2, DepthAssumption
     DEF NextCount, NextSpace, CountUp, CountDown, TypeOK, Occupancy
<1>6. CASE ValidWr(w) <=> ValidRd(r)
  BY <1>6, <1>1, <1>2, DepthAssumption DEF NextCount, NextSpace, TypeOK, Occupancy
<1> QED BY <1>3, <1>4, <1>5, <1>6

(* The cells of the queue after an edge: the oldest one is gone if it was  *)
(* read, the word written is the newest, every other cell is untouched.    *)
LEMMA CellsMove ==
  ASSUME IInv, NEW w \in BOOLEAN, NEW r \in BOOLEAN, NEW d \in Data, Tick(w, r, d)
  PROVE  \A i \in 0..(DEPTH - 1) : i < count_r' =>
            mem'[Ahead(i)'] =
               LET k == IF ValidRd(r) THEN i + 1 ELSE i
               IN  IF k = count_r THEN d ELSE mem[Ahead(k)]
<1> USE DepthAssumption DEF IInv
<1> SUFFICES ASSUME NEW i \in 0..(DEPTH - 1), i < count_r'
             PROVE  mem'[Ahead(i)'] =
                      LET k == IF ValidRd(r) THEN i + 1 ELSE i
                      IN  IF k = count_r THEN d ELSE mem[Ahead(k)]
  OBVIOUS
<1> DEFINE k == IF ValidRd(r) THEN i + 1 ELSE i
<1>1. count_r' = count_r + (IF ValidWr(w) THEN 1 ELSE 0) - (IF ValidRd(r) THEN 1 ELSE 0)
  BY CountersMove DEF Tick
<1>2. rd_addr' = IF ValidRd(r) THEN Succ(rd_addr) ELSE rd_addr
  BY DEF Tick
<1>3. k \in 0..DEPTH /\ (k < count_r \/ (k = count_r /\ ValidWr(w)))
  BY <1>1 DEF TypeOK
<1>4. Ahead(i)' = Ahead(k)
  <2>1. CASE ValidRd(r)
    <3>1. count_r > 0 /\ i + 1 <= DEPTH
      BY <2>1 DEF ValidRd, Occupancy, TypeOK
    <3> QED BY <2>1, <3>1, <1>2, <1>3 DEF Ahead, Succ, TypeOK, Addr
  <2>2. CASE ~ValidRd(r)
    BY <2>2, <1>2 DEF Ahead
  <2> QED BY <2>1, <2>2
<1>5. mem' = IF ValidWr(w) THEN [mem EXCEPT ![wr_addr] = d] ELSE mem
  BY DEF Tick, BlockRam
<1>6. Ahead(k) \in Addr
  BY <1>3 DEF Ahead, Addr, TypeOK
<1>7. CASE k = count_r
  BY <1>7, <1>3, <1>4, <1>5, <1>6 DEF Occupancy, TypeOK
<1>8. CASE k < count_r
  <2>1. ValidWr(w) => Ahead(k) # wr_addr
    <3>1. ValidWr(w) => count_r < DEPTH
      BY DEF ValidWr, Occupancy, TypeOK
    <3> QED BY <3>1, <1>8, <1>3 DEF Occupancy, Ahead, TypeOK, Addr
  <2>2. mem'[Ahead(k)] = mem[Ahead(k)]
    BY <2>1, <1>5, <1>6 DEF TypeOK
  <2> QED BY <2>2, <1>4, <1>8 DEF TypeOK
<1> QED BY <1>3, <1>7, <1>8

LEMMA TickPreserves ==
  ASSUME IInv, NEW w \in BOOLEAN, NEW r \in BOOLEAN, NEW d \in Data, Tick(w, r, d)
  PROVE  IInv'
<1> USE DepthAssumption, AlmostAssumption
<1>0. TypeOK /\ Occupancy
  BY DEF IInv
<1>1. /\ count_r' \in 0..DEPTH
      /\ space_r' = DEPTH - count_r'
      /\ count_r' = count_r + (IF ValidWr(w) THEN 1 ELSE 0) - (IF ValidRd(r) THEN 1 ELSE 0)
  BY <1>0, CountersMove DEF Tick
<1>2. /\ ValidWr(w) => count_r < DEPTH
      /\ ValidRd(r) => count_r > 0
      /\ ValidWr(w) \in BOOLEAN /\ ValidRd(r) \in BOOLEAN
  BY <1>0 DEF ValidWr, ValidRd, Occupancy, TypeOK
<1>3. rd_addr' = IF ValidRd(r) THEN Succ(rd_addr) ELSE rd_addr
  BY DEF Tick
<1>4. wr_addr' = IF ValidWr(w) THEN Succ(wr_addr) ELSE wr_addr
  BY DEF Tick
<1>5. TypeOK'
  <2>1. mem' \in [Addr -> Data \cup {X}]
    BY <1>0 DEF Tick, BlockRam, TypeOK
  <2>2. wr_addr' \in Addr /\ rd_addr' \in Addr
    BY <1>0, <1>3, <1>4 DEF TypeOK, Addr, Succ
  <2>3. rd_data' \in Data \cup {X}
    BY <2>1, <2>2, <1>3 DEF Tick, BlockRam, RdAddrAdjusted
  <2> QED BY <1>1, <2>1, <2>2, <2>3 DEF TypeOK, Tick
<1>6. Occupancy'
  <2>1. wr_addr' = Ahead(count_r)'
    BY <1>0, <1>1, <1>2, <1>3, <1>4 DEF Occupancy, Ahead, Succ, TypeOK, Addr
  <2>2. /\ full' <=> count_r' = DEPTH
        /\ empty' <=> count_r' = 0
        /\ almost_full' <=> count_r' >= ALMOST_FULL_COUNT
    BY Zenon DEF Tick
  <2>3. count_r' + space_r' = DEPTH
    BY <1>1
  <2>4. full' => count_r' \in {0, DEPTH}
    BY <2>2
  <2> QED BY <2>1, <2>2, <2>3, <2>4 DEF Occupancy
<1>7. Mirrored'
  BY DEF Mirrored, Tick, BlockRam, RdAddrAdjusted
<1>8. Written'
  <2> SUFFICES ASSUME NEW i \in 0..(DEPTH - 1), i < count_r'
               PROVE  mem'[Ahead(i)'] \in Data
    BY DEF Written
  <2> DEFINE k == IF ValidRd(r) THEN i + 1 ELSE i
  <2>1. mem'[Ahead(i)'] = IF k = count_r THEN d ELSE mem[Ahead(k)]
    BY CellsMove
  <2>2. k \in 0..(DEPTH - 1) /\ k <= count_r
    BY <1>0, <1>1, <1>2 DEF TypeOK
  <2>3. k < count_r => mem[Ahead(k)] \in Data
    BY <2>2 DEF IInv, Written
  <2> QED BY <1>0, <2>1, <2>2, <2>3 DEF TypeOK
<1> QED BY <1>5, <1>6, <1>7, <1>8 DEF IInv

LEMMA ResetPreserves ==
  ASSUME IInv, Reset
  PROVE  IInv'
  BY DepthAssumption, AlmostAssumption
     DEF IInv, Reset, TypeOK, Occupancy, Mirrored, Written, Addr, Ahead

LEMMA Invariance == Spec => []IInv
<1>1. ASSUME IInv, [Next]_vars
      PROVE  IInv'
  <2>1. CASE \E w, r \in BOOLEAN, d \in Data : Tick(w, r, d)
    BY <1>1, <2>1, TickPreserves
  <2>2. CASE Reset
    BY <1>1, <2>2, ResetPreserves
  <2>3. CASE UNCHANGED vars
    BY <1>1, <2>3 DEF vars, IInv, TypeOK, Occupancy, Mirrored, Written, Ahead
  <2> QED BY <1>1, <2>1, <2>2, <2>3 DEF Next
<1> QED BY <1>1, InitEstablishes, PTL DEF Spec

(* Type correctness, the agreement of the seven occupancy registers and    *)
(* the prefetch guarantee of fifo.sv, for FIFOs of every size.             *)
THEOREM FifoInvariant == Spec => [](TypeOK /\ Occupancy /\ ReadAhead)
<1>1. IInv => TypeOK /\ Occupancy /\ ReadAhead
  <2> SUFFICES ASSUME IInv, ~empty
               PROVE  rd_data = mem[rd_addr] /\ rd_data \in Data
    BY DEF IInv, ReadAhead
  <2>1. 0 < count_r /\ 0 \in 0..(DEPTH - 1)
    BY DepthAssumption DEF IInv, TypeOK, Occupancy
  <2>2. mem[Ahead(0)] \in Data
    BY <2>1 DEF IInv, Written
  <2>3. Ahead(0) = rd_addr
    BY DepthAssumption DEF IInv, TypeOK, Addr, Ahead
  <2> QED BY <2>2, <2>3 DEF IInv, Mirrored
<1> QED BY <1>1, Invariance, PTL

-----------------------------------------------------------------------------
(* Refinement                                                              *)

LEMMA ContentsIsSeq ==
  ASSUME IInv
  PROVE  /\ Contents \in Seq(Data)
         /\ Len(Contents) = count_r
         /\ \A i \in 1..count_r : Contents[i] = mem[Ahead(i - 1)]
<1>1. count_r \in Nat /\ count_r <= DEPTH
  BY DepthAssumption DEF IInv, TypeOK
<1>2. \A i \in 1..count_r : mem[Ahead(i - 1)] \in Data
  BY <1>1, DepthAssumption DEF IInv, Written
<1> QED BY <1>1, <1>2 DEF Contents

(* An edge moves the contents as one step of the abstract queue does.      *)
LEMMA ContentsStep ==
  ASSUME IInv, IInv', NEW w \in BOOLEAN, NEW r \in BOOLEAN, NEW d \in Data, Tick(w, r, d)
  PROVE  Contents' = LET rest == IF ValidRd(r) THEN Tail(Contents) ELSE Contents
                     IN  IF ValidWr(w) THEN Append(rest, d) ELSE rest
<1> USE DepthAssumption
<1> DEFINE rest == IF ValidRd(r) THEN Tail(Contents) ELSE Contents
           new == IF ValidWr(w) THEN Append(rest, d) ELSE rest
           gone == IF ValidRd(r) THEN 1 ELSE 0
<1>0. TypeOK /\ Occupancy
  BY DEF IInv
<1>1. /\ Contents \in Seq(Data)
      /\ Len(Contents) = count_r
      /\ \A i \in 1..count_r : Contents[i] = mem[Ahead(i - 1)]
  BY ContentsIsSeq
<1>2. /\ Contents' \in Seq(Data)
      /\ Len(Contents') = count_r'
      /\ \A i \in 1..count_r' : Contents'[i] = mem'[Ahead(i - 1)']
  <2>1. /\ count_r' \in Nat /\ count_r' <= DEPTH
    BY DEF IInv, TypeOK
  <2>2. \A i \in 1..count_r' : mem'[Ahead(i - 1)'] \in Data
    BY <2>1 DEF IInv, Written
  <2>3. Contents' = [i \in 1..count_r' |-> mem'[Ahead(i - 1)']]
    BY DEF Contents, Ahead
  <2> QED BY <2>1, <2>2, <2>3
<1>3. /\ count_r' = count_r + (IF ValidWr(w) THEN 1 ELSE 0) - gone
      /\ count_r \in Nat /\ count_r' \in 0..DEPTH
      /\ ValidRd(r) => count_r > 0
  BY <1>0, CountersMove DEF Tick, TypeOK, ValidRd, Occupancy
<1>4. /\ rest \in Seq(Data)
      /\ Len(rest) = count_r - gone
      /\ \A i \in 1..(count_r - gone) : rest[i] = mem[Ahead(i + gone - 1)]
  <2>1. CASE ValidRd(r)
    <3>1. Contents # <<>>
      BY <2>1, <1>1, <1>3
    <3> QED BY <2>1, <3>1, <1>1, <1>3, HeadTailProperties
  <2>2. CASE ~ValidRd(r)
    BY <2>2, <1>1
  <2> QED BY <2>1, <2>2
<1>5. /\ new \in Seq(Data)
      /\ Len(new) = count_r'
      /\ \A i \in 1..count_r' : new[i] = IF i = count_r - gone + 1 THEN d ELSE rest[i]
  BY <1>3, <1>4
<1>6. \A i \in 1..count_r' : Contents'[i] = new[i]
  <2> TAKE i \in 1..count_r'
  <2>1. i - 1 \in 0..(DEPTH - 1) /\ i - 1 < count_r'
    BY <1>3
  <2>2. mem'[Ahead(i - 1)'] =
          IF i - 1 + gone = count_r THEN d ELSE mem[Ahead(i - 1 + gone)]
    BY <2>1, CellsMove
  <2>3. i + gone - 1 = i - 1 + gone
    BY <1>3
  <2> QED BY <2>2, <2>3, <1>2, <1>3, <1>4, <1>5
<1> HIDE DEF new
<1>7. Contents' = new
  BY <1>2, <1>5, <1>6, SeqEqual
<1> QED BY <1>7 DEF new

(* The read port is the abstract queue's output.                           *)
PortShowsOldest == (IF empty THEN X ELSE rd_data) = Queue!Peek(Contents)

LEMMA PeekIsReadPort == IInv => PortShowsOldest
<1> SUFFICES ASSUME IInv
             PROVE  (IF empty THEN X ELSE rd_data) = Queue!Peek(Contents)
  BY DEF PortShowsOldest
<1>1. /\ count_r \in Nat /\ rd_addr \in 0..(WORDS - 1)
      /\ empty <=> count_r = 0
      /\ rd_data = mem[rd_addr]
  BY DepthAssumption DEF IInv, TypeOK, Occupancy, Mirrored, Addr
<1>2. Contents \in Seq(Data) /\ Len(Contents) = count_r
  BY ContentsIsSeq
<1>3. CASE count_r = 0
  BY <1>1, <1>2, <1>3 DEF Queue!Peek
<1>4. CASE count_r > 0
  <2>1. Ahead(1 - 1) = rd_addr
    BY <1>1, DepthAssumption DEF Ahead
  <2>2. Contents[1] = mem[Ahead(1 - 1)]
    BY <1>1, <1>4, ContentsIsSeq
  <2>3. Contents # <<>> /\ Head(Contents) = Contents[1]
    BY <1>2, <1>4
  <2> QED BY <1>1, <1>4, <2>1, <2>2, <2>3 DEF Queue!Peek
<1> QED BY <1>1, <1>3, <1>4

(* fifo.sv implements the bounded queue: no interleaving of reads, writes  *)
(* and resets loses, duplicates or reorders a word, and the oldest word is *)
(* on rd_data in every cycle in which empty is low.                        *)
THEOREM FifoImplementsQueue == Spec => QueueSpec
<1> USE DepthAssumption
<1>1. Init => Queue!Init
  BY DEF Init, Queue!Init, Contents
<1>2. ASSUME IInv, IInv', [Next]_vars
      PROVE  [Queue!Next]_<<Contents, ~(full /\ count_r = 0), IF empty THEN X ELSE rd_data>>
  <2>1. ASSUME NEW w \in BOOLEAN, NEW r \in BOOLEAN, NEW d \in Data, Tick(w, r, d)
        PROVE  Queue!Clock(w, r, d)
    <3>0. /\ TypeOK /\ Occupancy /\ Len(Contents) = count_r /\ Contents \in Seq(Data)
      BY <1>2, ContentsIsSeq DEF IInv
    <3>1. ValidRd(r) <=> Queue!Removes(r)
      BY <3>0 DEF ValidRd, Queue!Removes, Occupancy, TypeOK
    <3>2. ValidWr(w) <=> Queue!Accepts(w)
      BY <3>0 DEF ValidWr, Queue!Accepts, Occupancy, TypeOK
    <3>3. Contents' = LET rest == IF Queue!Removes(r) THEN Tail(Contents) ELSE Contents
                      IN  IF Queue!Accepts(w) THEN Append(rest, d) ELSE rest
      BY <1>2, <2>1, <3>1, <3>2, ContentsStep
    <3>4. ~(full' /\ count_r' = 0)
      <4>1. full' => count_r' = DEPTH
        BY <2>1, Zenon DEF Tick
      <4> QED BY <4>1
    <3>5. (IF empty' THEN X ELSE rd_data') = Queue!Peek(Contents')
      <4>1. IInv' => PortShowsOldest'
        BY PeekIsReadPort, PTL
      <4> QED BY <1>2, <4>1 DEF PortShowsOldest, Queue!Peek
    <3> QED BY <3>3, <3>4, <3>5 DEF Queue!Clock
  <2>2. CASE Reset
    <3>1. Contents' = <<>>
      BY <2>2 DEF Reset, Contents
    <3> QED BY <2>2, <3>1 DEF Reset, Queue!Next, Queue!Reset
  <2>3. CASE UNCHANGED vars
    BY <2>3 DEF vars, Contents, Ahead
  <2> QED BY <1>2, <2>1, <2>2, <2>3 DEF Next, Queue!Next
<1> QED BY <1>1, <1>2, Invariance, PTL DEF Spec, QueueSpec, Queue!Spec
=============================================================================
