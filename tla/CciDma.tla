------------------------------- MODULE CciDma -------------------------------
(***************************************************************************)
(* project/hw/cci_dma.sv: the DMA engine between the memory controller and *)
(* the host memory behind CCI-P.  A read channel that requests lines ahead *)
(* and buffers the answers in a FIFO, and a write channel.  The read FIFO  *)
(* is used through its specification BoundedQueue, which Fifo is proved to *)
(* implement.  The host side (the MPF shims and the FIU) is external: it   *)
(* answers reads in order (MPF_CONF_SORT_READ_RESPONSES) after any delay,  *)
(* and writes reach memory in any order after any delay.                   *)
(*                                                                         *)
(* One step is one rising edge of clk.  The operators named after a        *)
(* wire (CciRdEn, RdDone, ...) give its value during the cycle before the  *)
(* edge.  A line is one cache line of host memory.                         *)
(***************************************************************************)
EXTENDS Naturals, Sequences, SequencesExt

CONSTANTS
  FIFO_DEPTH,   \* words in the read FIFO (512)
  NLINES,       \* lines of host memory; line addresses wrap at NLINES
  Data,         \* contents of a line
  X,            \* read port of an empty FIFO
  NoReq         \* c0Tx or c1Tx with valid low

ASSUME DepthAssumption == FIFO_DEPTH \in Nat \ {0}
ASSUME LinesAssumption == NLINES \in Nat \ {0} /\ FIFO_DEPTH < 2 * NLINES
ASSUME NoReqAssumption ==
  NoReq \notin 0..(NLINES - 1) /\ NoReq \notin [addr : 0..(NLINES - 1), data : Data]

VARIABLES
  cci_rd_remaining_r,   \* lines still to be requested
  cci_rd_pending_r,     \* lines requested and not yet answered
  dma_rd_remaining_r,   \* words the client has still to take
  rd_addr_r,            \* next line to request
  c0Tx,                 \* registered read request: a line or NoReq
  fifo_q, fifo_ready, fifo_out,
  cci_wr_remaining_r,   \* lines the client has still to write
  wr_addr_r,            \* line of the next write
  c1Tx,                 \* registered write request or NoReq
  cci_wr_en_delayed,
  host_rd,              \* external: lines to be answered, oldest first
  host_wr,              \* external: writes accepted and not yet in memory
  host_mem              \* external: host memory

fifoVars == <<fifo_q, fifo_ready, fifo_out>>
readRegs == <<cci_rd_remaining_r, cci_rd_pending_r, dma_rd_remaining_r, rd_addr_r, c0Tx>>
writeRegs == <<cci_wr_remaining_r, wr_addr_r, c1Tx, cci_wr_en_delayed>>
hostVars == <<host_rd, host_wr, host_mem>>
vars == <<readRegs, fifoVars, writeRegs, hostVars>>

Line == 0..(NLINES - 1)
Count == 0..(2 * NLINES - 1)
Write == [addr : Line, data : Data]

(* Register arithmetic.  Counts have one bit more than line addresses.     *)
UnboundedNext(l) == l + 1                                  \* mutation of NextLine
NextLine(l) == IF l = NLINES - 1 THEN 0 ELSE l + 1
Plus(l, n) == IF l + n < NLINES THEN l + n ELSE l + n - NLINES
Inc(n) == IF n = 2 * NLINES - 1 THEN 0 ELSE n + 1
Dec(n) == IF n = 0 THEN 2 * NLINES - 1 ELSE n - 1

rd_fifo ==
  INSTANCE BoundedQueue WITH
    Depth <- FIFO_DEPTH, NoData <- X, q <- fifo_q, ready <- fifo_ready, out <- fifo_out

-----------------------------------------------------------------------------
(* Wires                                                                   *)

Empty == fifo_q = <<>>
Space == FIFO_DEPTH - Len(fifo_q)

(* Requests outstanding may use up all the space left, and no more.        *)
OffByOneAlmostFull == cci_rd_pending_r > Space             \* mutation of RdFifoAlmostFull
RdFifoAlmostFull == cci_rd_pending_r >= Space

CciRdEn(c0TxAlmFull) == cci_rd_remaining_r > 0 /\ ~c0TxAlmFull /\ ~RdFifoAlmostFull
ShortWrEn(wr_en, c1TxAlmFull) ==                           \* mutation of CciWrEn
  wr_en /\ ~c1TxAlmFull /\ cci_wr_remaining_r > 1
CciWrEn(wr_en, c1TxAlmFull) == wr_en /\ ~c1TxAlmFull /\ cci_wr_remaining_r > 0

EarlyRdDone == cci_rd_remaining_r = 0                      \* mutation of RdDone
RdDone == dma_rd_remaining_r = 0

(* c1Empty of the MPF falls two cycles after the write request.            *)
C1Empty == host_wr = <<>>
HostWrCompleted == cci_wr_en_delayed \/ ~C1Empty
HastyWrDone == cci_wr_remaining_r = 0                      \* mutation of WrDone
UndelayedWrDone == C1Empty /\ cci_wr_remaining_r = 0       \* mutation of WrDone
WrDone == ~HostWrCompleted /\ cci_wr_remaining_r = 0

-----------------------------------------------------------------------------
(* The two channels.  Where the code assigns a register twice in one edge, *)
(* the later assignment wins: a request or a write beats the load by go.   *)

(* mutations of RdPending: updates made non-blocking; answers not counted  *)
NonBlockingPending(request, response) ==
  IF response THEN Dec(cci_rd_pending_r)
  ELSE IF request THEN Inc(cci_rd_pending_r) ELSE cci_rd_pending_r
LeakyPending(request, response) ==
  IF request THEN Inc(cci_rd_pending_r) ELSE cci_rd_pending_r

RdPending(request, response) ==
  LET asked == IF request THEN Inc(cci_rd_pending_r) ELSE cci_rd_pending_r
  IN  IF response THEN Dec(asked) ELSE asked

ReadChannel(rd_go, rd_addr, rd_size, rd_en, c0TxAlmFull, response, data) ==
  LET go == rd_go /\ RdDone
      request == CciRdEn(c0TxAlmFull)
  IN  /\ c0Tx' = IF request THEN rd_addr_r ELSE NoReq
      /\ rd_addr_r' = IF request THEN NextLine(rd_addr_r)
                      ELSE IF go THEN rd_addr ELSE rd_addr_r
      /\ cci_rd_remaining_r' = IF request THEN Dec(cci_rd_remaining_r)
                               ELSE IF go THEN rd_size ELSE cci_rd_remaining_r
      /\ dma_rd_remaining_r' = IF rd_en /\ ~Empty THEN Dec(dma_rd_remaining_r)
                               ELSE IF go THEN rd_size ELSE dma_rd_remaining_r
      /\ cci_rd_pending_r' = RdPending(request, response)
      /\ rd_fifo!Clock(response, rd_en, data)

WrAddr(go, wr_addr, wr_en, c1TxAlmFull) ==
  IF wr_en /\ ~c1TxAlmFull THEN NextLine(wr_addr_r)
  ELSE IF go THEN wr_addr ELSE wr_addr_r

WriteChannel(wr_go, wr_addr, wr_size, wr_en, wr_data, c1TxAlmFull) ==
  LET go == wr_go /\ WrDone
      write == CciWrEn(wr_en, c1TxAlmFull)
  IN  /\ c1Tx' = IF write THEN [addr |-> wr_addr_r, data |-> wr_data] ELSE NoReq
      /\ wr_addr_r' = WrAddr(go, wr_addr, wr_en, c1TxAlmFull)
      /\ cci_wr_remaining_r' = IF write THEN Dec(cci_wr_remaining_r)
                               ELSE IF go THEN wr_size ELSE cci_wr_remaining_r
      /\ cci_wr_en_delayed' = write

-----------------------------------------------------------------------------
(* The host                                                                *)

HostReads(response) ==
  /\ response => host_rd # <<>>
  /\ LET rest == IF response THEN Tail(host_rd) ELSE host_rd
     IN  host_rd' = IF c0Tx = NoReq THEN rest ELSE Append(rest, c0Tx)

(* commit is the position in host_wr of the write that reaches memory now, *)
(* 0 when none does.                                                       *)
HostWrites(commit) ==
  LET rest == IF commit = 0 THEN host_wr ELSE RemoveAt(host_wr, commit)
  IN  /\ host_wr' = IF c1Tx = NoReq THEN rest ELSE Append(rest, c1Tx)
      /\ host_mem' = IF commit = 0 THEN host_mem
                     ELSE [host_mem EXCEPT ![host_wr[commit].addr] = host_wr[commit].data]

RspData == IF host_rd = <<>> THEN X ELSE host_mem[Head(host_rd)]

-----------------------------------------------------------------------------
(* The inputs of one cycle: r and w are what the client drives on the read *)
(* and the write half of dma_if, with what the host does meanwhile.        *)
Tick(r, w) ==
  /\ ReadChannel(r.go, r.addr, r.size, r.en, r.almFull, r.response, RspData)
  /\ WriteChannel(w.go, w.addr, w.size, w.en, w.data, w.almFull)
  /\ HostReads(r.response)
  /\ HostWrites(w.commit)

(* The address registers are not reset.                                    *)
Init ==
  /\ cci_rd_remaining_r = 0 /\ cci_rd_pending_r = 0 /\ dma_rd_remaining_r = 0
  /\ cci_wr_remaining_r = 0 /\ cci_wr_en_delayed = FALSE
  /\ rd_addr_r \in Line /\ wr_addr_r \in Line
  /\ c0Tx = NoReq /\ c1Tx = NoReq
  /\ rd_fifo!Init
  /\ host_rd = <<>> /\ host_wr = <<>> /\ host_mem \in [Line -> Data]

TypeOK ==
  /\ cci_rd_remaining_r \in Count /\ cci_rd_pending_r \in Count
  /\ dma_rd_remaining_r \in Count /\ cci_wr_remaining_r \in Count
  /\ rd_addr_r \in Line /\ wr_addr_r \in Line
  /\ c0Tx \in Line \cup {NoReq} /\ c1Tx \in Write \cup {NoReq}
  /\ fifo_q \in Seq(Data) /\ fifo_ready \in BOOLEAN /\ fifo_out \in Data \cup {X}
  /\ cci_wr_en_delayed \in BOOLEAN
  /\ host_rd \in Seq(Line) /\ host_wr \in Seq(Write) /\ host_mem \in [Line -> Data]
=============================================================================
