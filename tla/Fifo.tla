-------------------------------- MODULE Fifo --------------------------------
(***************************************************************************)
(* project/hw/fifo.sv: the read FIFO of the DMA.  A block RAM with a       *)
(* registered read port that prefetches the next word, two pointers, and   *)
(* occupancy counters and flags that are registers of their own.  One step *)
(* of this module is one rising edge of clk: all registers are updated     *)
(* from the values they had before the edge.                               *)
(***************************************************************************)
EXTENDS Naturals

CONSTANTS
  DEPTH,               \* capacity in words (512 in cci_dma.sv)
  WORDS,               \* 2^ADDR_WIDTH, the words of the RAM
  ALMOST_FULL_COUNT,
  Data,                \* the words a user may write
  X                    \* content of a RAM word that was never written

ASSUME DepthAssumption == DEPTH \in Nat /\ WORDS \in Nat /\ 1 < DEPTH /\ DEPTH <= WORDS
ASSUME AlmostAssumption == ALMOST_FULL_COUNT \in 1..DEPTH
ASSUME XAssumption == X \notin Data

VARIABLES
  mem, wr_addr, rd_addr, count_r, space_r, full, almost_full, empty, rd_data

vars == <<mem, wr_addr, rd_addr, count_r, space_r, full, almost_full, empty, rd_data>>

Addr == 0..(WORDS - 1)

(* Arithmetic at the width of the registers: ADDR_WIDTH bits for the       *)
(* pointers, ADDR_WIDTH+1 bits for count and space.                        *)
Succ(a) == IF a = WORDS - 1 THEN 0 ELSE a + 1
CountUp(n) == IF n = 2 * WORDS - 1 THEN 0 ELSE n + 1
CountDown(n) == IF n = 0 THEN 2 * WORDS - 1 ELSE n - 1

UncheckedWr(wr_en) == wr_en                                \* mutation of ValidWr
ValidWr(wr_en) == wr_en /\ ~full
ValidRd(rd_en) == rd_en /\ ~empty

NextCount(wr_en, rd_en) ==
  IF ValidRd(rd_en) /\ ~ValidWr(wr_en) THEN CountDown(count_r)
  ELSE IF ~ValidRd(rd_en) /\ ValidWr(wr_en) THEN CountUp(count_r)
  ELSE count_r

EagerSpace(wr_en, rd_en) ==                                \* mutation of NextSpace
  IF ValidWr(wr_en) THEN CountDown(space_r)
  ELSE IF ValidRd(rd_en) THEN CountUp(space_r) ELSE space_r

NextSpace(wr_en, rd_en) ==
  IF ValidRd(rd_en) /\ ~ValidWr(wr_en) THEN CountUp(space_r)
  ELSE IF ~ValidRd(rd_en) /\ ValidWr(wr_en) THEN CountDown(space_r)
  ELSE space_r

(* The RAM is written before it is read within the edge (blocking          *)
(* assignments), so the read port shows a word written to the address it   *)
(* is reading.                                                             *)
NoPrefetch(rd_en) == rd_addr                               \* mutation of RdAddrAdjusted
RdAddrAdjusted(rd_en) == IF ValidRd(rd_en) THEN Succ(rd_addr) ELSE rd_addr

ReadFirstRam(wr_en, rd_en, wr_data) ==                     \* mutation of BlockRam
  /\ mem' = IF ValidWr(wr_en) THEN [mem EXCEPT ![wr_addr] = wr_data] ELSE mem
  /\ rd_data' = mem[RdAddrAdjusted(rd_en)]

BlockRam(wr_en, rd_en, wr_data) ==
  /\ mem' = IF ValidWr(wr_en) THEN [mem EXCEPT ![wr_addr] = wr_data] ELSE mem
  /\ rd_data' = mem'[RdAddrAdjusted(rd_en)]

Tick(wr_en, rd_en, wr_data) ==
  LET next_count == NextCount(wr_en, rd_en)
  IN  /\ BlockRam(wr_en, rd_en, wr_data)
      /\ rd_addr' = IF ValidRd(rd_en) THEN Succ(rd_addr) ELSE rd_addr
      /\ wr_addr' = IF ValidWr(wr_en) THEN Succ(wr_addr) ELSE wr_addr
      /\ count_r' = next_count
      /\ space_r' = NextSpace(wr_en, rd_en)
      /\ full' = (next_count = DEPTH)
      /\ almost_full' = (next_count >= ALMOST_FULL_COUNT)
      /\ empty' = (next_count = 0)

(* rst is asynchronous and held over at least one edge; the RAM block has  *)
(* no reset, keeps its words and reads address 0.  full is set, so that    *)
(* nothing is written before the first edge after reset.                   *)
Reset ==
  /\ wr_addr' = 0
  /\ rd_addr' = 0
  /\ count_r' = 0
  /\ space_r' = DEPTH
  /\ full' = TRUE
  /\ almost_full' = TRUE
  /\ empty' = TRUE
  /\ mem' = mem
  /\ rd_data' = mem[0]

Init ==
  /\ wr_addr = 0
  /\ rd_addr = 0
  /\ count_r = 0
  /\ space_r = DEPTH
  /\ full = TRUE
  /\ almost_full = TRUE
  /\ empty = TRUE
  /\ mem = [a \in Addr |-> X]
  /\ rd_data = X

Next ==
  \/ \E wr_en, rd_en \in BOOLEAN, wr_data \in Data : Tick(wr_en, rd_en, wr_data)
  \/ Reset

Spec == Init /\ [][Next]_vars

-----------------------------------------------------------------------------
(* Properties                                                              *)

(* Every register stays in its range; in particular neither counter ever   *)
(* leaves 0..DEPTH, so its extra bit never wraps (next_count--,            *)
(* next_space-- of fifo.sv cannot underflow).                              *)
TypeOK ==
  /\ mem \in [Addr -> Data \cup {X}]
  /\ wr_addr \in Addr
  /\ rd_addr \in Addr
  /\ count_r \in 0..DEPTH
  /\ space_r \in 0..DEPTH
  /\ full \in BOOLEAN
  /\ almost_full \in BOOLEAN
  /\ empty \in BOOLEAN
  /\ rd_data \in Data \cup {X}

(* The address n words after the read pointer, for 0 <= n <= WORDS.        *)
Ahead(n) == IF rd_addr + n < WORDS THEN rd_addr + n ELSE rd_addr + n - WORDS

(* The two counters, the three flags and the two pointers are seven        *)
(* registers updated by separate conditions; they always tell the same     *)
(* story.  (full and almost_full are also raised by reset.)                *)
Occupancy ==
  /\ count_r + space_r = DEPTH
  /\ wr_addr = Ahead(count_r)
  /\ empty <=> count_r = 0
  /\ count_r = DEPTH => full
  /\ full => count_r \in {0, DEPTH}
  /\ count_r >= ALMOST_FULL_COUNT => almost_full

(* Whenever empty is low the read port already shows the oldest word, and  *)
(* that word was really written: the prefetching address and the           *)
(* write-first RAM together keep rd_data ahead of the reader.              *)
ReadAhead ==
  ~empty => rd_data = mem[rd_addr] /\ rd_data \in Data

(* The words in the FIFO, oldest first.                                    *)
Contents == [i \in 1..count_r |-> mem[Ahead(i - 1)]]

(* The FIFO implements the bounded queue: nothing is lost, duplicated or   *)
(* reordered, whatever the interleaving of reads, writes and resets.       *)
Queue ==
  INSTANCE BoundedQueue WITH
    Depth  <- DEPTH,
    NoData <- X,
    q      <- Contents,
    ready  <- ~(full /\ count_r = 0),
    out    <- IF empty THEN X ELSE rd_data

QueueSpec == Queue!Spec
=============================================================================
