----------------------------- MODULE DmaClient ------------------------------
(***************************************************************************)
(* The DMA engine driven by a client that keeps to the protocol described  *)
(* in project/hw/dma_if.vh: it starts transfers of any size whenever it    *)
(* likes, reads words and writes words at its own pace.  The history       *)
(* variables record what it asked for.                                     *)
(***************************************************************************)
EXTENDS CciDma

CONSTANTS
  MaxSize,      \* bound: lines of the largest transfer
  MaxWrites     \* bound: writes in flight at which the host raises c1TxAlmFull

ASSUME SizeAssumption == MaxSize \in 1..NLINES
ASSUME WritesAssumption == MaxWrites \in Nat

VARIABLES
  rd_first, rd_total,   \* first line and size of the read transfer, 0 when done
  wr_first, wr_total,   \* first line and size of the write transfer, 0 when done
  expect                \* what memory holds once every accepted write is done

history == <<rd_first, rd_total, wr_first, wr_total, expect>>
allVars == <<vars, history>>

(* What the client and the host may drive in a cycle.  A go during a       *)
(* transfer is one input only: the engine must not look at its address.    *)
ReadInputs(idle) ==
  [go : {FALSE}, addr : {0}, size : {0}, en : BOOLEAN, almFull : BOOLEAN, response : BOOLEAN]
  \cup [go : {TRUE}, addr : IF idle THEN Line ELSE {0},
        size : IF idle THEN 0..MaxSize ELSE {MaxSize},
        en : BOOLEAN, almFull : BOOLEAN, response : BOOLEAN]

WriteInputs(idle) ==
  [go : {FALSE}, addr : {0}, size : {0}, en : BOOLEAN, data : Data,
   almFull : BOOLEAN, commit : 0..Len(host_wr)]
  \cup [go : {TRUE}, addr : IF idle THEN Line ELSE {0},
        size : IF idle THEN 0..MaxSize ELSE {MaxSize},
        en : {FALSE}, data : Data, almFull : BOOLEAN, commit : 0..Len(host_wr)]

(* The client writes no word in the cycle in which it drives go, and the   *)
(* host stops it when MaxWrites writes are in flight.                      *)
Allowed(w) ==
  /\ w.go => ~w.en
  /\ Len(host_wr) + (IF c1Tx = NoReq THEN 0 ELSE 1) >= MaxWrites => w.almFull

History(r, w) ==
  /\ IF r.go /\ RdDone
     THEN rd_first' = r.addr /\ rd_total' = r.size
     ELSE IF RdDone' THEN rd_first' = 0 /\ rd_total' = 0
     ELSE UNCHANGED <<rd_first, rd_total>>
  /\ IF w.go /\ WrDone
     THEN wr_first' = w.addr /\ wr_total' = w.size
     ELSE IF WrDone' THEN wr_first' = 0 /\ wr_total' = 0
     ELSE UNCHANGED <<wr_first, wr_total>>
  /\ expect' = IF CciWrEn(w.en, w.almFull)
               THEN [expect EXCEPT ![Plus(wr_first, wr_total - cci_wr_remaining_r)] = w.data]
               ELSE expect

Step(r, w) == Allowed(w) /\ Tick(r, w) /\ History(r, w)

ClientInit ==
  /\ Init
  /\ rd_first = 0 /\ rd_total = 0 /\ wr_first = 0 /\ wr_total = 0
  /\ expect = host_mem

ClientNext == \E r \in ReadInputs(RdDone), w \in WriteInputs(WrDone) : Step(r, w)

ClientSpec == ClientInit /\ [][ClientNext]_allVars

(* A half-duplex client leaves one channel alone while the other has a     *)
(* transfer under way, so no line changes while it is being read.          *)
OnlyReads ==
  /\ WrDone
  /\ \E r \in ReadInputs(RdDone), w \in WriteInputs(WrDone) : ~w.go /\ ~w.en /\ Step(r, w)

OnlyWrites ==
  /\ RdDone
  /\ \E r \in ReadInputs(RdDone), w \in WriteInputs(WrDone) : ~r.go /\ ~r.en /\ Step(r, w)

HalfDuplexSpec == ClientInit /\ [][OnlyReads \/ OnlyWrites]_allVars

-----------------------------------------------------------------------------
(* Safety                                                                  *)

(* A response never meets a full FIFO, although the engine cannot stall    *)
(* the host once a line was requested: the lines in flight always fit in   *)
(* the space left (cci_dma.sv, comment at rd_fifo_almost_full).            *)
NoOverflow == cci_rd_pending_r + Len(fifo_q) <= FIFO_DEPTH

(* Every line of a read transfer is in exactly one place: still to be      *)
(* requested, on its way, or in the FIFO.  Hence rd_done rises only when   *)
(* all size words were taken, nothing is left behind for the next          *)
(* transfer, and go never corrupts a transfer under way.                   *)
OnTheWay == IF c0Tx = NoReq THEN host_rd ELSE Append(host_rd, c0Tx)
LinesConserved ==
  /\ cci_rd_pending_r = Len(OnTheWay)
  /\ dma_rd_remaining_r = cci_rd_remaining_r + cci_rd_pending_r + Len(fifo_q)

(* The words come in address order from the first line on: the lines in    *)
(* flight continue the FIFO, and the FIFO continues what was taken.  Of a  *)
(* half-duplex client: a write may change a line after it was fetched.     *)
Taken == rd_total - dma_rd_remaining_r
InOrder ==
  /\ \A i \in 1..Len(fifo_q) :
       fifo_q[i] = host_mem[Plus(rd_first, Taken + i - 1)]
  /\ \A i \in 1..Len(OnTheWay) :
       OnTheWay[i] = Plus(rd_first, Taken + Len(fifo_q) + i - 1)

(* wr_done is up only when every word the client got accepted is in host   *)
(* memory at the line it was meant for (dma_if.vh, "The wr_done signal is  *)
(* continuosly asserted after size cache lines have been written to        *)
(* memory").                                                               *)
WrittenWhenDone == WrDone => host_mem = expect /\ c1Tx = NoReq
=============================================================================
