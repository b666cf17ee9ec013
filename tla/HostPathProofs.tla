--------------------------- MODULE HostPathProofs ---------------------------
(***************************************************************************)
(* Proofs about the memory controller on top of the DMA engine, for every  *)
(* memory size, FIFO depth and offset, any requester and any host.         *)
(***************************************************************************)
EXTENDS HostPath, TLAPS, SequenceTheorems

(* The read channel goes through five phases, one line at a time.          *)
Quiet ==
  /\ dma_rd_remaining_r = 0 /\ cci_rd_remaining_r = 0 /\ cci_rd_pending_r = 0
  /\ c0Tx = NoReq /\ host_rd = <<>> /\ fifo_q = <<>>

Started ==
  /\ dma_rd_remaining_r = 1 /\ cci_rd_remaining_r = 1 /\ cci_rd_pending_r = 0
  /\ rd_addr_r = Address
  /\ c0Tx = NoReq /\ host_rd = <<>> /\ fifo_q = <<>>

Requested ==
  /\ dma_rd_remaining_r = 1 /\ cci_rd_remaining_r = 0 /\ cci_rd_pending_r = 1
  /\ c0Tx = Address /\ host_rd = <<>> /\ fifo_q = <<>>

AtHost ==
  /\ dma_rd_remaining_r = 1 /\ cci_rd_remaining_r = 0 /\ cci_rd_pending_r = 1
  /\ c0Tx = NoReq /\ host_rd = <<Address>> /\ fifo_q = <<>>

Arrived ==
  /\ dma_rd_remaining_r = 1 /\ cci_rd_remaining_r = 0 /\ cci_rd_pending_r = 0
  /\ c0Tx = NoReq /\ host_rd = <<>> /\ fifo_q = <<fifo_out>>
  /\ fifo_out \in seen

(* The phases a state of the controller may find it in: the word is popped *)
(* in the first of the two cycles of FILL.                                 *)
ReadPhase ==
  \/ state = "HOSTOP" /\ req.op = "READ" /\ (Started \/ Requested \/ AtHost \/ Arrived)
  \/ state = "FILL" /\ req.op = "READ" /\ ~fill_count /\ Arrived
  \/ ~(state = "FILL" /\ req.op = "READ" /\ ~fill_count) /\ Quiet

(* What the controller is doing fits the request it serves.                *)
Serves ==
  /\ state \in {"FILL", "HOSTOP"} => req.op # "IDLE"
  /\ fill_count => state = "FILL"
  /\ bubble => state = "HOSTOP" /\ req.op = "WRITE"
  /\ state # "STARTUP" => fifo_ready

(* The value the requested line has now was recorded.                      *)
Recorded ==
  /\ req.op = "READ" =>
       /\ host_mem[CorrectedAddress(req.line)] \in seen
       /\ state = "FILL" => internal_val \in seen
  /\ req.op # "READ" => seen = {}

(* At most one write is armed or in flight.                                *)
OneWrite ==
  /\ cci_wr_remaining_r \in {0, 1}
  /\ cci_wr_en_delayed <=> c1Tx # NoReq
  /\ Len(InFlight) <= 1
  /\ cci_wr_remaining_r = 1 => InFlight = <<>>

PInv == PathTypeOK /\ Serves /\ ReadPhase /\ Recorded /\ OneWrite

(* What holds in addition as long as the requester waits for wr_done: a    *)
(* read finds every write done, so that its line has one value all the     *)
(* time, and a write finds the engine idle or armed for its own line.      *)
Waits ==
  ~overlap =>
    /\ req.op = "READ" =>
         cci_wr_remaining_r = 0 /\ InFlight = <<>>
         /\ seen \subseteq {host_mem[CorrectedAddress(req.line)]}
    /\ req.op = "WRITE" =>
         /\ InFlight = <<>>
         /\ cci_wr_remaining_r = 1 => wr_addr_r = Address
         /\ bubble => cci_wr_remaining_r = 1
         /\ state = "HOSTOP" \/ fill_count => internal_val = req.data
    /\ req.op = "IDLE" => cci_wr_remaining_r = 0

-----------------------------------------------------------------------------
(* The edge of the read channel                                            *)

ReadEdge(go, en, almFull, response) ==
  /\ ReadChannel(go, Address, 1, en, almFull, response, RspData)
  /\ HostReads(response)

LEMMA Single ==
  ASSUME NEW x
  PROVE  /\ Append(<<>>, x) = <<x>> /\ Head(<<x>>) = x /\ Tail(<<x>>) = <<>>
         /\ Len(<<x>>) = 1 /\ <<x>> # <<>> /\ <<x>>[1] = x
OBVIOUS

LEMMA AddressTyped ==
  ASSUME PathTypeOK
  PROVE  /\ \A l \in Line : CorrectedAddress(l) \in Line
         /\ Address \in Line
         /\ req.op \in {"READ", "WRITE"} => req.line \in Line /\ Address = CorrectedAddress(req.line)
         /\ req.op = "WRITE" => req.data \in Data
         /\ req.op \in {"READ", "WRITE", "IDLE"}
<1>1. 0 \in Line
  BY LinesAssumption DEF Line
<1>2. \A l \in Line : CorrectedAddress(l) \in Line
  BY LinesAssumption, PathAssumption DEF CorrectedAddress, Plus, Line
<1>3. /\ req.op \in {"READ", "WRITE"} => req.line \in Line
      /\ req.op = "WRITE" => req.data \in Data
      /\ req.op \in {"READ", "WRITE", "IDLE"}
  BY DEF PathTypeOK, memory!Requests, memory!Reads, memory!Writes, memory!Idle
<1> QED
  BY <1>1, <1>2, <1>3 DEF Address

LEMMA QuietStays ==
  ASSUME Quiet, NEW en, NEW almFull, NEW response, ReadEdge(FALSE, en, almFull, response)
  PROVE  Quiet' /\ fifo_ready' = TRUE /\ fifo_out' = X /\ rd_addr_r' = rd_addr_r
<1>1. ~CciRdEn(almFull) /\ Empty /\ ~response
  BY DEF Quiet, CciRdEn, Empty, ReadEdge, HostReads
<1>2. fifo_q' = <<>> /\ fifo_ready' = TRUE /\ fifo_out' = X
  BY <1>1 DEF ReadEdge, ReadChannel, Quiet, rd_fifo!Clock, rd_fifo!Accepts, rd_fifo!Removes,
              rd_fifo!Peek
<1> QED
  BY <1>1, <1>2 DEF Quiet, ReadEdge, ReadChannel, HostReads, RdPending

LEMMA QuietStarts ==
  ASSUME Quiet, NEW en, NEW almFull, NEW response, ReadEdge(TRUE, en, almFull, response),
         Address' = Address
  PROVE  Started' /\ fifo_ready' = TRUE /\ fifo_out' = X
<1>1. ~CciRdEn(almFull) /\ Empty /\ ~response /\ RdDone
  BY DEF Quiet, CciRdEn, Empty, ReadEdge, HostReads, RdDone
<1>2. fifo_q' = <<>> /\ fifo_ready' = TRUE /\ fifo_out' = X
  BY <1>1 DEF ReadEdge, ReadChannel, Quiet, rd_fifo!Clock, rd_fifo!Accepts, rd_fifo!Removes,
              rd_fifo!Peek
<1> QED
  BY <1>1, <1>2 DEF Quiet, Started, ReadEdge, ReadChannel, HostReads, RdPending

LEMMA StartedMoves ==
  ASSUME Started, PathTypeOK, NEW go, NEW almFull, NEW response, ReadEdge(go, FALSE, almFull, response),
         Address' = Address
  PROVE  (Started' \/ Requested') /\ fifo_ready' = TRUE /\ fifo_out' = X
<1>1. ~RdDone /\ Empty /\ ~response
  BY DEF Started, Empty, ReadEdge, HostReads, RdDone
<1>2. fifo_q' = <<>> /\ fifo_ready' = TRUE /\ fifo_out' = X
  BY <1>1 DEF ReadEdge, ReadChannel, Started, rd_fifo!Clock, rd_fifo!Accepts, rd_fifo!Removes,
              rd_fifo!Peek
<1>3. dma_rd_remaining_r' = 1 /\ host_rd' = <<>>
  BY <1>1 DEF Started, ReadEdge, ReadChannel, HostReads
<1>4. CASE CciRdEn(almFull)
  <2>1. Dec(1) = 0 /\ Inc(0) = 1
    BY LinesAssumption DEF Dec, Inc
  <2>2. cci_rd_remaining_r' = 0 /\ cci_rd_pending_r' = 1
    BY <1>1, <1>4, <2>1 DEF Started, ReadEdge, ReadChannel, RdPending
  <2>3. c0Tx' = Address'
    BY <1>4 DEF Started, ReadEdge, ReadChannel
  <2> QED
    BY <1>2, <1>3, <2>2, <2>3 DEF Requested
<1>5. CASE ~CciRdEn(almFull)
  <2>1. /\ cci_rd_remaining_r' = 1 /\ cci_rd_pending_r' = 0
        /\ c0Tx' = NoReq /\ rd_addr_r' = Address'
    BY <1>1, <1>5 DEF Started, ReadEdge, ReadChannel, RdPending
  <2> QED
    BY <1>2, <1>3, <2>1 DEF Started
<1> QED
  BY <1>2, <1>4, <1>5

LEMMA RequestedMoves ==
  ASSUME Requested, PathTypeOK, NEW go, NEW almFull, NEW response, ReadEdge(go, FALSE, almFull, response),
         Address' = Address
  PROVE  AtHost' /\ fifo_ready' = TRUE /\ fifo_out' = X
<1>1. ~RdDone /\ Empty /\ ~response /\ ~CciRdEn(almFull)
  BY DEF Requested, Empty, ReadEdge, HostReads, RdDone, CciRdEn
<1>2. fifo_q' = <<>> /\ fifo_ready' = TRUE /\ fifo_out' = X
  BY <1>1 DEF ReadEdge, ReadChannel, Requested, rd_fifo!Clock, rd_fifo!Accepts, rd_fifo!Removes,
              rd_fifo!Peek
<1>3. c0Tx # NoReq
  BY AddressTyped, NoReqAssumption DEF Requested, Line
<1>4. host_rd' = <<Address'>>
  BY <1>1, <1>3, Single DEF Requested, ReadEdge, HostReads
<1> QED
  BY <1>1, <1>2, <1>4 DEF Requested, AtHost, ReadEdge, ReadChannel, RdPending

LEMMA AtHostMoves ==
  ASSUME AtHost, PathTypeOK, fifo_ready, NEW go, NEW almFull, NEW response \in BOOLEAN,
         ReadEdge(go, FALSE, almFull, response),
         Address' = Address, host_mem[Address] \in seen'
  PROVE  (AtHost' \/ Arrived') /\ fifo_ready' = TRUE /\ fifo_out' \in {X} \cup seen'
<1>1. ~RdDone /\ Empty /\ ~CciRdEn(almFull) /\ RspData = host_mem[Address]
  BY Single DEF AtHost, Empty, RdDone, CciRdEn, RspData
<1>2. dma_rd_remaining_r' = 1 /\ cci_rd_remaining_r' = 0 /\ c0Tx' = NoReq /\ fifo_ready' = TRUE
  BY <1>1 DEF AtHost, ReadEdge, ReadChannel, rd_fifo!Clock
<1>3. CASE response
  <2>1. host_rd' = <<>>
    BY <1>3, Single DEF AtHost, ReadEdge, HostReads
  <2>2. cci_rd_pending_r' = 0
    BY <1>1, <1>3, LinesAssumption DEF AtHost, ReadEdge, ReadChannel, RdPending, Dec
  <2>3. rd_fifo!Accepts(response) /\ ~rd_fifo!Removes(FALSE)
    BY <1>3, DepthAssumption DEF AtHost, rd_fifo!Accepts, rd_fifo!Removes
  <2>4. fifo_q' = <<RspData>> /\ fifo_out' = RspData
    BY <2>3, Single DEF AtHost, ReadEdge, ReadChannel, rd_fifo!Clock, rd_fifo!Peek
  <2> QED
    BY <1>1, <1>2, <2>1, <2>2, <2>4 DEF Arrived
<1>4. CASE ~response
  <2>1. fifo_q' = <<>> /\ fifo_out' = X
    BY <1>4 DEF AtHost, ReadEdge, ReadChannel, rd_fifo!Clock, rd_fifo!Accepts, rd_fifo!Removes,
                rd_fifo!Peek
  <2>2. host_rd' = <<Address'>> /\ cci_rd_pending_r' = 1
    BY <1>1, <1>4 DEF AtHost, ReadEdge, ReadChannel, HostReads, RdPending
  <2> QED
    BY <1>2, <2>1, <2>2 DEF AtHost
<1> QED
  BY <1>3, <1>4

LEMMA ArrivedStays ==
  ASSUME Arrived, NEW go, NEW almFull, NEW response, ReadEdge(go, FALSE, almFull, response),
         seen \subseteq seen'
  PROVE  Arrived' /\ fifo_ready' = TRUE /\ fifo_out' = fifo_out
<1>1. ~RdDone /\ ~Empty /\ ~response /\ ~CciRdEn(almFull)
  BY Single DEF Arrived, Empty, ReadEdge, HostReads, RdDone, CciRdEn
<1>2. fifo_q' = fifo_q /\ fifo_ready' = TRUE
  BY <1>1 DEF ReadEdge, ReadChannel, rd_fifo!Clock, rd_fifo!Accepts, rd_fifo!Removes
<1>3. fifo_out' = fifo_out
  BY <1>2, Single DEF Arrived, ReadEdge, ReadChannel, rd_fifo!Clock, rd_fifo!Peek
<1> QED
  BY <1>1, <1>2, <1>3 DEF Arrived, ReadEdge, ReadChannel, HostReads, RdPending

LEMMA ArrivedPopped ==
  ASSUME Arrived, NEW almFull, NEW response, ReadEdge(FALSE, TRUE, almFull, response)
  PROVE  Quiet' /\ fifo_ready' = TRUE /\ fifo_out' = X
<1>1. ~Empty /\ ~response /\ ~CciRdEn(almFull)
  BY Single DEF Arrived, Empty, ReadEdge, HostReads, CciRdEn
<1>2. fifo_q' = <<>> /\ fifo_ready' = TRUE /\ fifo_out' = X
  BY <1>1, Single
     DEF Arrived, ReadEdge, ReadChannel, rd_fifo!Clock, rd_fifo!Accepts, rd_fifo!Removes,
         rd_fifo!Peek
<1>3. Dec(1) = 0
  BY LinesAssumption DEF Dec
<1> QED
  BY <1>1, <1>2, <1>3 DEF Arrived, Quiet, ReadEdge, ReadChannel, HostReads, RdPending

-----------------------------------------------------------------------------
(* The edge of the controller                                              *)

TxDone(in) == mem_ctrl!TxDone(req.op, ~in.c1)

LEMMA ControllerOutputs ==
  ASSUME PInv, NEW in \in Inputs
  PROVE  /\ mem_ctrl!HostRgo(req.op) <=> state = "HOSTOP" /\ req.op = "READ"
         /\ mem_ctrl!HostRe(req.op) <=> state = "FILL" /\ req.op = "READ"
         /\ mem_ctrl!HostWgo(req.op) <=> state = "HOSTOP" /\ req.op = "WRITE"
         /\ mem_ctrl!HostWe(req.op, ~in.c1) <=>
              state = "HOSTOP" /\ req.op = "WRITE" /\ bubble /\ ~in.c1
         /\ TxDone(in) <=>
              \/ state = "FILL" /\ req.op = "READ" /\ fill_count
              \/ state = "HOSTOP" /\ req.op = "WRITE" /\ bubble /\ ~in.c1
BY DEF mem_ctrl!HostRgo, mem_ctrl!HostRe, mem_ctrl!HostWgo, mem_ctrl!HostWe, mem_ctrl!RdValid,
       mem_ctrl!TxDone, TxDone

LEMMA ControllerMoves ==
  ASSUME PInv, NEW in \in Inputs, NEW next \in memory!Requests, Step(in, next)
  PROVE  /\ state = "STARTUP" =>
              /\ state' \in {"STARTUP", "READY"}
              /\ UNCHANGED <<fill_count, internal_val, bubble>>
         /\ state = "READY" =>
              /\ state' = CASE req.op = "READ" -> "HOSTOP" [] req.op = "WRITE" -> "FILL"
                            [] OTHER -> "READY"
              /\ UNCHANGED <<fill_count, internal_val, bubble>>
         /\ state = "FILL" =>
              /\ state' = IF ~fill_count THEN "FILL"
                          ELSE IF req.op = "WRITE" THEN "HOSTOP" ELSE "READY"
              /\ fill_count' = ~fill_count /\ bubble' = bubble
              /\ internal_val' = IF req.op = "WRITE" THEN req.data ELSE internal_val
         /\ state = "HOSTOP" /\ req.op = "READ" =>
              /\ state' = IF Empty THEN "HOSTOP" ELSE "FILL"
              /\ internal_val' = IF Empty THEN internal_val ELSE fifo_out
              /\ UNCHANGED <<fill_count, bubble>>
         /\ state = "HOSTOP" /\ req.op = "WRITE" =>
              /\ state' = IF bubble THEN "READY" ELSE "HOSTOP"
              /\ bubble' = (~bubble /\ ~in.c1)
              /\ UNCHANGED <<fill_count, internal_val>>
         /\ state \in {"STARTUP", "READY", "FILL", "HOSTOP"}
         /\ state \in {"FILL", "HOSTOP"} => req.op \in {"READ", "WRITE"}
<1>1. mem_ctrl!Clock(in.host_init, req.op, ~Empty, ~in.c1, BusIn, fifo_out)
  BY DEF Step
<1>2. /\ state \in {"STARTUP", "READY", "FILL", "HOSTOP"}
      /\ req.op \in {"READ", "WRITE", "IDLE"}
      /\ state \in {"FILL", "HOSTOP"} => req.op \in {"READ", "WRITE"}
      /\ fill_count \in BOOLEAN /\ bubble \in BOOLEAN /\ in.c1 \in BOOLEAN
  BY AddressTyped DEF PInv, Serves, PathTypeOK, mem_ctrl!TypeOK, mem_ctrl!State, Inputs
<1>3. req.op = "WRITE" => BusIn = req.data
  BY DEF BusIn
<1>4. CASE state = "STARTUP"
  BY <1>1, <1>2, <1>4
     DEF mem_ctrl!Clock, mem_ctrl!Startup, mem_ctrl!Accept, mem_ctrl!Fill, mem_ctrl!HostRead,
         mem_ctrl!HostWrite, mem_ctrl!HostWait
<1>5. CASE state = "READY"
  BY <1>1, <1>2, <1>5
     DEF mem_ctrl!Clock, mem_ctrl!Startup, mem_ctrl!Accept, mem_ctrl!Fill, mem_ctrl!HostRead,
         mem_ctrl!HostWrite, mem_ctrl!HostWait
<1>6. CASE state = "FILL"
  BY <1>1, <1>2, <1>3, <1>6
     DEF mem_ctrl!Clock, mem_ctrl!Startup, mem_ctrl!Accept, mem_ctrl!Fill, mem_ctrl!HostRead,
         mem_ctrl!HostWrite, mem_ctrl!HostWait
<1>7. CASE state = "HOSTOP"
  BY <1>1, <1>2, <1>7
     DEF mem_ctrl!Clock, mem_ctrl!Startup, mem_ctrl!Accept, mem_ctrl!Fill, mem_ctrl!HostRead,
         mem_ctrl!HostWrite, mem_ctrl!HostWait, mem_ctrl!vars
<1> QED
  BY <1>2, <1>4, <1>5, <1>6, <1>7

(* The requester holds its request while the controller works on it.       *)
LEMMA RequestHeld ==
  ASSUME PInv, NEW in \in Inputs, NEW next \in memory!Requests, Step(in, next)
  PROVE  /\ req.op # "IDLE" /\ ~TxDone(in) => req' = req /\ Address' = Address
         /\ state' \in {"FILL", "HOSTOP"} => req' = req /\ req.op # "IDLE" /\ ~TxDone(in)
<1>1. req.op # "IDLE" /\ ~TxDone(in) => req' = req
  BY DEF Step, Holds, TxDone
<1>2. req' = req => Address' = Address
  BY DEF Address
<1>3. state' \in {"FILL", "HOSTOP"} => req.op # "IDLE" /\ ~TxDone(in)
  BY ControllerMoves, ControllerOutputs DEF PInv, Serves
<1> QED
  BY <1>1, <1>2, <1>3

LEMMA ReadStep ==
  ASSUME PInv, NEW in \in Inputs, NEW next \in memory!Requests, Step(in, next)
  PROVE  ReadEdge(mem_ctrl!HostRgo(req.op), mem_ctrl!HostRe(req.op), in.c0, in.response)
BY DEF Step, Tick, RdPort, ReadEdge

-----------------------------------------------------------------------------
(* The invariant                                                           *)

LEMMA ServesStep ==
  ASSUME PInv, NEW in \in Inputs, NEW next \in memory!Requests, Step(in, next)
  PROVE  Serves'
<1>1. fifo_ready' = TRUE
  BY ReadStep DEF ReadEdge, ReadChannel, rd_fifo!Clock
<1>2. state' \in {"FILL", "HOSTOP"} => req'.op # "IDLE"
  BY RequestHeld
<1>3. fill_count' => state' = "FILL"
  BY ControllerMoves DEF PInv, Serves, PathTypeOK, mem_ctrl!TypeOK
<1>4. bubble' => state' = "HOSTOP" /\ req'.op = "WRITE"
  BY ControllerMoves, RequestHeld DEF PInv, Serves
<1> QED
  BY <1>1, <1>2, <1>3, <1>4 DEF Serves

LEMMA SeenStep ==
  ASSUME PInv, NEW in \in Inputs, NEW next \in memory!Requests, Step(in, next)
  PROVE  /\ req'.op # "READ" => seen' = {}
         /\ req'.op = "READ" => host_mem'[CorrectedAddress(req'.line)] \in seen'
         /\ req'.op = "READ" /\ ~TxDone(in) =>
              seen' = seen \cup {host_mem'[CorrectedAddress(req'.line)]}
         /\ req'.op = "READ" /\ TxDone(in) =>
              seen' = {host_mem'[CorrectedAddress(req'.line)]}
BY DEF Step, TxDone

LEMMA ReadPhaseStep ==
  ASSUME PInv, NEW in \in Inputs, NEW next \in memory!Requests, Step(in, next)
  PROVE  /\ ReadPhase' /\ fifo_out' \in {X} \cup seen \cup seen'
         /\ rd_addr_r' \in Line
<1> DEFINE go == mem_ctrl!HostRgo(req.op)
           en == mem_ctrl!HostRe(req.op)
<1>1. /\ ReadEdge(go, en, in.c0, in.response) /\ PathTypeOK
      /\ go = (state = "HOSTOP" /\ req.op = "READ")
      /\ en = (state = "FILL" /\ req.op = "READ")
      /\ in.response \in BOOLEAN
  BY ReadStep, ControllerOutputs DEF PInv, Inputs, mem_ctrl!HostRgo, mem_ctrl!HostRe, mem_ctrl!RdValid
<1> HIDE DEF go, en
<1>2. rd_addr_r' \in Line
  <2>1. rd_addr_r \in Line /\ Address \in Line
    BY <1>1, AddressTyped DEF PathTypeOK, TypeOK
  <2>2. NextLine(rd_addr_r) \in Line
    BY <2>1, LinesAssumption DEF NextLine, Line
  <2> QED
    BY <1>1, <2>1, <2>2 DEF ReadEdge, ReadChannel
<1>3. CASE req.op # "READ"
  <2>1. Quiet /\ go = FALSE
    BY <1>1, <1>3 DEF PInv, ReadPhase
  <2>2. Quiet' /\ fifo_out' = X
    BY <1>1, <2>1, QuietStays
  <2>3. ~(state' = "FILL" /\ req'.op = "READ" /\ ~fill_count')
    BY <1>3, RequestHeld
  <2> QED
    BY <1>2, <2>2, <2>3 DEF ReadPhase
<1>4. CASE req.op = "READ" /\ state \in {"STARTUP", "READY"}
  <2>1. Quiet /\ go = FALSE
    BY <1>1, <1>4 DEF PInv, ReadPhase
  <2>2. Quiet' /\ fifo_out' = X
    BY <1>1, <2>1, QuietStays
  <2>3. state' # "FILL"
    BY <1>4, ControllerMoves
  <2> QED
    BY <1>2, <2>2, <2>3 DEF ReadPhase
<1>5. CASE req.op = "READ" /\ state = "HOSTOP"
  <2>1. go = TRUE /\ en = FALSE /\ ~TxDone(in) /\ fifo_ready /\ ~fill_count
    BY <1>1, <1>5, ControllerOutputs DEF PInv, Serves
  <2>2. req' = req /\ Address' = Address /\ Address = CorrectedAddress(req.line)
    BY <1>1, <1>5, <2>1, RequestHeld, AddressTyped
  <2>3. /\ host_mem[Address] \in seen /\ seen \subseteq seen'
    BY <1>5, <2>1, <2>2, SeenStep DEF PInv, Recorded
  <2>4. /\ state' = IF Empty THEN "HOSTOP" ELSE "FILL"
        /\ ~fill_count'
    BY <1>5, <2>1, ControllerMoves
  <2>5. CASE Quiet
    <3>1. Started' /\ fifo_out' = X
      BY <1>1, <2>1, <2>2, <2>5, QuietStarts
    <3>2. state' = "HOSTOP"
      BY <2>4, <2>5 DEF Quiet, Empty
    <3> QED
      BY <1>2, <1>5, <2>2, <3>1, <3>2 DEF ReadPhase
  <2>6. CASE Started
    <3>1. (Started' \/ Requested') /\ fifo_out' = X
      BY <1>1, <2>1, <2>2, <2>6, StartedMoves
    <3>2. state' = "HOSTOP"
      BY <2>4, <2>6 DEF Started, Empty
    <3> QED
      BY <1>2, <1>5, <2>2, <3>1, <3>2 DEF ReadPhase
  <2>7. CASE Requested
    <3>1. AtHost' /\ fifo_out' = X
      BY <1>1, <2>1, <2>2, <2>7, RequestedMoves
    <3>2. state' = "HOSTOP"
      BY <2>4, <2>7 DEF Requested, Empty
    <3> QED
      BY <1>2, <1>5, <2>2, <3>1, <3>2 DEF ReadPhase
  <2>8. CASE AtHost
    <3>1. host_mem[Address] \in seen'
      BY <2>3
    <3>2. (AtHost' \/ Arrived') /\ fifo_out' \in {X} \cup seen'
      BY <1>1, <2>1, <2>2, <2>8, <3>1, AtHostMoves
    <3>3. state' = "HOSTOP"
      BY <2>4, <2>8 DEF AtHost, Empty
    <3> QED
      BY <1>2, <1>5, <2>2, <3>2, <3>3 DEF ReadPhase
  <2>9. CASE Arrived
    <3>1. Arrived' /\ fifo_out' = fifo_out
      BY <1>1, <2>1, <2>3, <2>9, ArrivedStays
    <3>2. state' = "FILL" /\ fifo_out \in seen
      BY <2>4, <2>9, Single DEF Arrived, Empty
    <3> QED
      BY <1>2, <1>5, <2>2, <2>4, <3>1, <3>2 DEF ReadPhase
  <2> QED
    BY <1>5, <2>5, <2>6, <2>7, <2>8, <2>9 DEF PInv, ReadPhase
<1>6. CASE req.op = "READ" /\ state = "FILL" /\ ~fill_count
  <2>1. Arrived /\ go = FALSE /\ en = TRUE
    BY <1>1, <1>6 DEF PInv, ReadPhase
  <2>2. Quiet' /\ fifo_out' = X
    BY <1>1, <2>1, ArrivedPopped
  <2>3. fill_count'
    BY <1>6, ControllerMoves
  <2> QED
    BY <1>2, <2>2, <2>3 DEF ReadPhase
<1>7. CASE req.op = "READ" /\ state = "FILL" /\ fill_count
  <2>1. Quiet /\ go = FALSE
    BY <1>1, <1>7 DEF PInv, ReadPhase
  <2>2. Quiet' /\ fifo_out' = X
    BY <1>1, <2>1, QuietStays
  <2>3. state' = "READY"
    BY <1>7, ControllerMoves
  <2> QED
    BY <1>2, <2>2, <2>3 DEF ReadPhase
<1> QED
  BY <1>3, <1>4, <1>5, <1>6, <1>7, ControllerMoves

LEMMA RecordedStep ==
  ASSUME PInv, NEW in \in Inputs, NEW next \in memory!Requests, Step(in, next)
  PROVE  Recorded'
<1>1. ASSUME req'.op = "READ", state' = "FILL"
      PROVE  internal_val' \in seen'
  <2>1. req' = req /\ ~TxDone(in)
    BY <1>1, RequestHeld
  <2>2. seen \subseteq seen'
    BY <1>1, <2>1, SeenStep
  <2>3. internal_val' \in seen
    <3>1. CASE state = "FILL"
      BY <1>1, <2>1, <3>1, ControllerMoves DEF PInv, Recorded
    <3>2. CASE state # "FILL"
      <4>1. state = "HOSTOP" /\ ~Empty /\ internal_val' = fifo_out
        BY <1>1, <2>1, <3>2, ControllerMoves
      <4>2. Arrived
        BY <1>1, <2>1, <4>1 DEF PInv, ReadPhase, Quiet, Started, Requested, AtHost, Empty
      <4> QED
        BY <4>1, <4>2 DEF Arrived
    <3> QED
      BY <3>1, <3>2
  <2> QED
    BY <2>2, <2>3
<1> QED
  BY <1>1, SeenStep DEF Recorded

-----------------------------------------------------------------------------
(* The edge of the write channel                                           *)

(* Where the one write may be.                                             *)
AllWritten == c1Tx = NoReq /\ host_wr = <<>>
UnderWay(w) ==
  \/ c1Tx = w /\ host_wr = <<>>
  \/ c1Tx = NoReq /\ host_wr = <<w>>

LEMMA RealWrite ==
  ASSUME NEW w \in Write
  PROVE  w # NoReq /\ w.addr \in Line /\ w.data \in Data
BY NoReqAssumption DEF Write, Line

LEMMA InFlightCases ==
  ASSUME PathTypeOK, Len(InFlight) <= 1
  PROVE  /\ \/ AllWritten /\ InFlight = <<>>
            \/ \E w \in Write : UnderWay(w) /\ InFlight = <<w>>
         /\ InFlight = <<>> <=> AllWritten
<1>1. host_wr \in Seq(Write) /\ Len(host_wr) \in Nat /\ (c1Tx = NoReq \/ c1Tx \in Write)
  BY DEF PathTypeOK, TypeOK
<1>2. CASE c1Tx = NoReq
  <2>1. InFlight = host_wr
    BY <1>2 DEF InFlight
  <2>2. CASE Len(host_wr) = 0
    <3>1. host_wr = <<>>
      BY <1>1, <2>2
    <3> QED
      BY <1>2, <2>1, <3>1 DEF AllWritten
  <2>3. CASE Len(host_wr) = 1
    <3>1. host_wr = <<host_wr[1]>> /\ host_wr[1] \in Write
      BY <1>1, <2>3
    <3> QED
      BY <1>2, <2>1, <3>1, Single DEF UnderWay, AllWritten
  <2>4. Len(host_wr) = 0 \/ Len(host_wr) = 1
    BY <1>1, <2>1
  <2> QED
    BY <2>2, <2>3, <2>4
<1>3. CASE c1Tx # NoReq
  <2>1. InFlight = Append(host_wr, c1Tx) /\ c1Tx \in Write
    BY <1>1, <1>3 DEF InFlight
  <2>2. Len(InFlight) = Len(host_wr) + 1
    BY <1>1, <2>1
  <2>3. host_wr = <<>>
    BY <1>1, <2>2
  <2> QED
    BY <1>3, <2>1, <2>3, Single DEF UnderWay, AllWritten
<1> QED
  BY <1>2, <1>3

(* At an edge the host takes the write over, keeps it, or commits it.      *)
LEMMA HostWritesMoves ==
  ASSUME PathTypeOK, Len(InFlight) <= 1,
         NEW commit \in 0..Len(host_wr), HostWrites(commit)
  PROVE  /\ host_wr' \in Seq(Write) /\ host_mem' \in [Line -> Data]
         /\ AllWritten => host_wr' = <<>> /\ host_mem' = host_mem
         /\ \A w \in Write : UnderWay(w) =>
              \/ host_wr' = <<w>> /\ host_mem' = host_mem
              \/ host_wr' = <<>> /\ host_mem' = [host_mem EXCEPT ![w.addr] = w.data]
<1>0. host_mem \in [Line -> Data] /\ <<>> \in Seq(Write)
  BY DEF PathTypeOK, TypeOK
<1>1. CASE AllWritten
  <2>1. commit = 0
    BY <1>1 DEF AllWritten
  <2>2. host_wr' = <<>> /\ host_mem' = host_mem
    BY <1>1, <2>1 DEF AllWritten, HostWrites
  <2>3. \A w \in Write : ~UnderWay(w)
    BY <1>1, Single, RealWrite DEF AllWritten, UnderWay
  <2> QED
    BY <1>0, <2>2, <2>3
<1>2. ASSUME NEW w \in Write, UnderWay(w)
      PROVE  /\ \/ host_wr' = <<w>> /\ host_mem' = host_mem
                \/ host_wr' = <<>> /\ host_mem' = [host_mem EXCEPT ![w.addr] = w.data]
             /\ ~AllWritten
  <2>1. w # NoReq /\ ~AllWritten
    BY <1>2, RealWrite, Single DEF UnderWay, AllWritten
  <2>2. CASE c1Tx = w /\ host_wr = <<>>
    <3>1. commit = 0
      BY <2>2
    <3> QED
      BY <2>1, <2>2, <3>1, Single DEF HostWrites
  <2>3. CASE c1Tx = NoReq /\ host_wr = <<w>>
    <3>1. commit \in {0, 1} /\ host_wr[1] = w
      BY <2>3, Single
    <3>2. CASE commit = 0
      BY <2>1, <2>3, <3>2 DEF HostWrites
    <3>3. CASE commit = 1
      <4>1. RemoveAt(<<w>>, 1) = <<>>
        <5>1. SubSeq(<<w>>, 1, 0) = <<>> /\ SubSeq(<<w>>, 2, 1) = <<>>
          BY Single
        <5> QED
          BY <5>1, Single DEF RemoveAt
      <4> QED
        BY <2>1, <2>3, <3>1, <3>3, <4>1 DEF HostWrites
    <3> QED
      BY <3>1, <3>2, <3>3
  <2> QED
    BY <1>2, <2>2, <2>3, <2>1 DEF UnderWay
<1>3. ASSUME NEW w \in Write
      PROVE  <<w>> \in Seq(Write) /\ [host_mem EXCEPT ![w.addr] = w.data] \in [Line -> Data]
  BY <1>0, RealWrite
<1>4. CASE ~AllWritten
  <2>1. PICK w \in Write : UnderWay(w)
    BY <1>4, InFlightCases
  <2>2. host_wr' \in Seq(Write) /\ host_mem' \in [Line -> Data]
    BY <1>0, <1>2, <1>3, <2>1
  <2> QED
    BY <1>2, <1>4, <2>2
<1> QED
  BY <1>1, <1>4

LEMMA WriteStep ==
  ASSUME PInv, NEW in \in Inputs, NEW next \in memory!Requests, Step(in, next)
  PROVE  LET go == state = "HOSTOP" /\ req.op = "WRITE" /\ WrDone
             we == state = "HOSTOP" /\ req.op = "WRITE" /\ bubble /\ ~in.c1
             write == we /\ cci_wr_remaining_r = 1
         IN  /\ write =>
                  /\ c1Tx' = [addr |-> wr_addr_r, data |-> internal_val]
                  /\ c1Tx' \in Write /\ c1Tx' # NoReq
             /\ ~write => c1Tx' = NoReq
             /\ wr_addr_r' = IF we THEN NextLine(wr_addr_r)
                             ELSE IF go THEN Address ELSE wr_addr_r
             /\ cci_wr_remaining_r' = IF write THEN 0
                                      ELSE IF go THEN 1 ELSE cci_wr_remaining_r
             /\ cci_wr_en_delayed' = write
             /\ wr_addr_r' \in Line
             /\ in.commit \in 0..Len(host_wr) /\ HostWrites(in.commit)
<1> DEFINE go == state = "HOSTOP" /\ req.op = "WRITE" /\ WrDone
           we == state = "HOSTOP" /\ req.op = "WRITE" /\ bubble /\ ~in.c1
           write == we /\ cci_wr_remaining_r = 1
<1>1. /\ WriteChannel(mem_ctrl!HostWgo(req.op), Address, 1, mem_ctrl!HostWe(req.op, ~in.c1),
                      internal_val, in.c1)
      /\ HostWrites(in.commit)
  BY DEF Step, Tick, WrPort
<1>2. /\ mem_ctrl!HostWgo(req.op) /\ WrDone <=> go
      /\ mem_ctrl!HostWe(req.op, ~in.c1) <=> we
      /\ in.c1 \in BOOLEAN /\ in.commit \in 0..Len(host_wr)
  BY ControllerOutputs DEF Inputs
<1>3. CciWrEn(mem_ctrl!HostWe(req.op, ~in.c1), in.c1) <=> write
  BY <1>2 DEF CciWrEn, PInv, OneWrite
<1>4. /\ wr_addr_r \in Line /\ internal_val \in Data /\ Address \in Line
      /\ NextLine(wr_addr_r) \in Line
  <2>1. wr_addr_r \in Line /\ internal_val \in Data /\ Address \in Line
    BY AddressTyped DEF PInv, PathTypeOK, TypeOK, mem_ctrl!TypeOK
  <2> QED
    BY <2>1, LinesAssumption DEF NextLine, Line
<1>5. [addr |-> wr_addr_r, data |-> internal_val] \in Write
  BY <1>4 DEF Write
<1>6. wr_addr_r' = IF we THEN NextLine(wr_addr_r) ELSE IF go THEN Address ELSE wr_addr_r
  BY <1>1, <1>2 DEF WriteChannel, WrAddr
<1>7. /\ write => Dec(cci_wr_remaining_r) = 0
      /\ cci_wr_en_delayed' = write
  BY <1>1, <1>2, <1>3 DEF Dec, WriteChannel, CciWrEn
<1> HIDE DEF go, we
<1>8. cci_wr_remaining_r' = IF write THEN 0 ELSE IF go THEN 1 ELSE cci_wr_remaining_r
  BY <1>1, <1>2, <1>3, <1>7 DEF WriteChannel
<1>9. /\ write => /\ c1Tx' = [addr |-> wr_addr_r, data |-> internal_val]
                  /\ c1Tx' \in Write /\ c1Tx' # NoReq
      /\ ~write => c1Tx' = NoReq
  BY <1>1, <1>3, <1>5, RealWrite DEF WriteChannel
<1>10. wr_addr_r' \in Line
  BY <1>4, <1>6
<1> QED
  BY <1>1, <1>2, <1>6, <1>7, <1>8, <1>9, <1>10 DEF go, we

LEMMA OneWriteStep ==
  ASSUME PInv, NEW in \in Inputs, NEW next \in memory!Requests, Step(in, next)
  PROVE  OneWrite' /\ host_wr' \in Seq(Write) /\ host_mem' \in [Line -> Data]
<1> DEFINE write == cci_wr_remaining_r = 1 /\ c1Tx' # NoReq
<1>1. /\ cci_wr_remaining_r' \in {0, 1}
      /\ cci_wr_en_delayed' <=> c1Tx' # NoReq
      /\ c1Tx' # NoReq => cci_wr_remaining_r = 1 /\ cci_wr_remaining_r' = 0 /\ c1Tx' \in Write
      /\ cci_wr_remaining_r' = 1 => cci_wr_remaining_r = 1 \/ WrDone
  BY WriteStep DEF PInv, OneWrite
<1>2. /\ host_wr' \in Seq(Write) /\ host_mem' \in [Line -> Data]
      /\ AllWritten => host_wr' = <<>>
      /\ \A w \in Write : UnderWay(w) => host_wr' = <<w>> \/ host_wr' = <<>>
  BY WriteStep, HostWritesMoves DEF PInv, OneWrite
<1>3. /\ AllWritten \/ \E w \in Write : UnderWay(w)
      /\ cci_wr_remaining_r = 1 => AllWritten
  BY InFlightCases DEF PInv, OneWrite
<1>4. WrDone => AllWritten
  BY DEF WrDone, HostWrCompleted, C1Empty, AllWritten, PInv, OneWrite
<1>5. Len(InFlight') <= 1
  <2>1. CASE c1Tx' = NoReq
    <3>1. InFlight' = host_wr'
      BY <2>1 DEF InFlight
    <3>2. host_wr' = <<>> \/ \E w \in Write : host_wr' = <<w>>
      BY <1>2, <1>3
    <3>3. Len(<<>>) = 0 /\ \A w \in Write : Len(<<w>>) = 1
      OBVIOUS
    <3>4. Len(host_wr') = 0 \/ Len(host_wr') = 1
      BY <3>2, <3>3, Zenon
    <3>5. Len(InFlight') = Len(host_wr')
      BY <3>1, Zenon
    <3> QED
      BY <3>4, <3>5
  <2>2. CASE c1Tx' # NoReq
    <3>1. host_wr' = <<>> /\ c1Tx' \in Write
      BY <1>1, <1>2, <1>3, <2>2
    <3>2. InFlight' = Append(host_wr', c1Tx')
      BY <2>2 DEF InFlight
    <3>3. \A w \in Write : Len(Append(<<>>, w)) = 1
      OBVIOUS
    <3> QED
      BY <3>1, <3>2, <3>3
  <2> QED
    BY <2>1, <2>2
<1>6. cci_wr_remaining_r' = 1 => InFlight' = <<>>
  BY <1>1, <1>2, <1>3, <1>4 DEF InFlight
<1> QED
  BY <1>1, <1>2, <1>5, <1>6 DEF OneWrite

-----------------------------------------------------------------------------
LEMMA TypeStep ==
  ASSUME PInv, NEW in \in Inputs, NEW next \in memory!Requests, Step(in, next)
  PROVE  PathTypeOK'
<1>1. /\ host_wr' \in Seq(Write) /\ host_mem' \in [Line -> Data]
      /\ cci_wr_remaining_r' \in {0, 1}
      /\ cci_wr_en_delayed' \in BOOLEAN
      /\ wr_addr_r' \in Line /\ c1Tx' \in Write \cup {NoReq}
  BY OneWriteStep, WriteStep DEF OneWrite
<1>2. req' \in memory!Requests
  BY DEF Step
<1>3. seen' \subseteq Data /\ seen \subseteq Data
  <2>1. seen \subseteq Data
    BY DEF PInv, PathTypeOK
  <2>2. req'.op = "READ" => CorrectedAddress(req'.line) \in Line
    BY <1>2, AddressTyped DEF memory!Requests, memory!Reads, memory!Writes, memory!Idle, PInv
  <2>3. req'.op = "READ" => host_mem'[CorrectedAddress(req'.line)] \in Data
    BY <1>1, <2>2
  <2> QED
    BY <2>1, <2>3, SeenStep
<1>4. /\ ReadPhase' /\ fifo_out' \in Data \cup {X} /\ rd_addr_r' \in Line /\ fifo_ready' = TRUE
  BY <1>3, ReadPhaseStep, ReadStep DEF ReadEdge, ReadChannel, rd_fifo!Clock
<1>5. Address' \in Line
  <2>1. 0 \in Line /\ (req'.op # "IDLE" => req'.line \in Line)
    BY <1>2, LinesAssumption
       DEF memory!Requests, memory!Reads, memory!Writes, memory!Idle, Line
  <2>2. \A l \in Line : CorrectedAddress(l) \in Line
    BY AddressTyped DEF PInv
  <2> QED
    BY <2>1, <2>2 DEF Address
<1>6. /\ cci_rd_remaining_r' \in {0, 1} /\ cci_rd_pending_r' \in {0, 1}
      /\ dma_rd_remaining_r' \in {0, 1}
      /\ c0Tx' \in Line \cup {NoReq}
      /\ host_rd' = <<>> \/ host_rd' = <<Address'>>
      /\ fifo_q' = <<>> \/ (fifo_q' = <<fifo_out'>> /\ fifo_out' \in seen')
  <2>1. Quiet' \/ Started' \/ Requested' \/ AtHost' \/ Arrived'
    BY <1>4 DEF ReadPhase
  <2> QED
    BY <1>5, <2>1 DEF Quiet, Started, Requested, AtHost, Arrived
<1>7. host_rd' \in Seq(Line) /\ fifo_q' \in Seq(Data)
  <2>1. \A l \in Line : <<l>> \in Seq(Line)
    OBVIOUS
  <2>2. \A d \in Data : <<d>> \in Seq(Data)
    OBVIOUS
  <2>3. <<>> \in Seq(Line) /\ <<>> \in Seq(Data)
    OBVIOUS
  <2> QED
    BY <1>3, <1>5, <1>6, <2>1, <2>2, <2>3
<1>8. {0, 1} \subseteq Count
  BY LinesAssumption DEF Count
<1>9. TypeOK'
  BY <1>1, <1>4, <1>6, <1>7, <1>8 DEF TypeOK
<1>10. mem_ctrl!TypeOK'
  <2>1. fifo_out \in seen => fifo_out \in Data
    BY <1>3
  <2>2. state = "HOSTOP" /\ req.op = "READ" /\ ~Empty => fifo_out \in seen
    BY DEF PInv, ReadPhase, Quiet, Started, Requested, AtHost, Arrived, Empty
  <2>3. /\ internal_val \in Data /\ fill_count \in BOOLEAN /\ bubble \in BOOLEAN
        /\ req.op = "WRITE" => req.data \in Data
    BY AddressTyped DEF PInv, PathTypeOK, mem_ctrl!TypeOK
  <2>4. internal_val' \in Data
    BY <2>1, <2>2, <2>3, ControllerMoves
  <2>5. state' \in {"STARTUP", "READY", "FILL", "HOSTOP"}
    BY ControllerMoves
  <2>6. fill_count' \in BOOLEAN /\ bubble' \in BOOLEAN
    BY <2>3, ControllerMoves
  <2> QED
    BY <2>4, <2>5, <2>6 DEF mem_ctrl!TypeOK, mem_ctrl!State
<1>11. answer' \in Data \cup {NoAnswer}
  BY DEF Step, PInv, PathTypeOK, mem_ctrl!TypeOK
<1>12. overlap' \in BOOLEAN
  BY Zenon DEF Step, PInv, PathTypeOK
<1> QED
  BY <1>2, <1>3, <1>9, <1>10, <1>11, <1>12 DEF PathTypeOK

LEMMA InitPInv == PathInit => PInv /\ Waits
<1> SUFFICES ASSUME PathInit
             PROVE  PInv /\ Waits
  OBVIOUS
<1> USE DEF PathInit, Init, mem_ctrl!Init, memory!Idle
<1>1. InFlight = <<>> /\ req.op = "IDLE"
  BY DEF InFlight
<1>2. fifo_q = <<>> /\ fifo_ready = FALSE /\ fifo_out = X
  BY DEF rd_fifo!Init
<1>3. TypeOK
  <2>1. 0 \in Count
    BY LinesAssumption DEF Count
  <2>2. /\ fifo_q \in Seq(Data) /\ host_rd \in Seq(Line) /\ host_wr \in Seq(Write)
    BY <1>2
  <2> QED
    BY <1>2, <2>1, <2>2 DEF TypeOK
<1>4. PathTypeOK
  BY <1>3, PathAssumption DEF PathTypeOK, mem_ctrl!TypeOK, mem_ctrl!State, memory!Requests
<1>5. Serves /\ ReadPhase /\ Recorded
  BY <1>1, <1>2 DEF Serves, ReadPhase, Quiet, Recorded
<1>6. OneWrite /\ Waits
  BY <1>1 DEF OneWrite, Waits
<1> QED
  BY <1>4, <1>5, <1>6 DEF PInv

LEMMA NextPInv ==
  ASSUME PInv, [PathNext]_pathVars
  PROVE  PInv'
<1>1. CASE PathNext
  <2>1. PICK next \in memory!Requests, in \in Inputs : Step(in, next)
    BY <1>1 DEF PathNext
  <2> QED
    BY <2>1, TypeStep, ServesStep, ReadPhaseStep, RecordedStep, OneWriteStep DEF PInv
<1>2. CASE UNCHANGED pathVars
  <2> USE <1>2 DEF pathVars, vars, readRegs, writeRegs, fifoVars, hostVars, ctrlVars
  <2>1. PathTypeOK'
    BY DEF PInv, PathTypeOK, TypeOK, mem_ctrl!TypeOK
  <2>2. Serves' /\ Recorded'
    BY DEF PInv, Serves, Recorded
  <2>3. Address' = Address
    BY DEF Address
  <2>4. ReadPhase'
    BY <2>3 DEF PInv, ReadPhase, Quiet, Started, Requested, AtHost, Arrived
  <2>5. OneWrite'
    BY DEF PInv, OneWrite, InFlight
  <2> QED
    BY <2>1, <2>2, <2>4, <2>5 DEF PInv
<1> QED
  BY <1>1, <1>2

-----------------------------------------------------------------------------
(* The memory the requester sees, as a function of the writes in flight    *)

View(writes, lines) ==
  [l \in Line |->
     LET hits == {i \in 1..Len(writes) : writes[i].addr = CorrectedAddress(l)}
     IN  IF hits = {} THEN lines[CorrectedAddress(l)] ELSE writes[Max(hits)].data]

LEMMA MemView == Mem = View(InFlight, host_mem) /\ Mem' = View(InFlight', host_mem')
BY DEF Mem, View, CorrectedAddress

LEMMA ViewNone ==
  ASSUME NEW lines
  PROVE  View(<<>>, lines) = [l \in Line |-> lines[CorrectedAddress(l)]]
<1>1. 1..Len(<<>>) = {}
  OBVIOUS
<1> QED
  BY <1>1 DEF View

LEMMA ViewOne ==
  ASSUME NEW w \in Write, NEW lines
  PROVE  View(<<w>>, lines) =
           [l \in Line |-> IF w.addr = CorrectedAddress(l) THEN w.data ELSE lines[CorrectedAddress(l)]]
<1>1. Max({1}) = 1
  BY DEF Max
<1>2. ASSUME NEW l \in Line
      PROVE  {i \in 1..Len(<<w>>) : <<w>>[i].addr = CorrectedAddress(l)} =
               IF w.addr = CorrectedAddress(l) THEN {1} ELSE {}
  OBVIOUS
<1>3. <<w>>[1] = w
  OBVIOUS
<1> QED
  BY <1>1, <1>2, <1>3, Zenon DEF View

(* Two lines of the requester are two lines of host memory.                *)
LEMMA CorrectedInjective ==
  ASSUME NEW l \in Line, NEW k \in Line, CorrectedAddress(l) = CorrectedAddress(k)
  PROVE  l = k
BY LinesAssumption, PathAssumption DEF CorrectedAddress, Plus, Line

(* What the host does with a write is not seen: only a new one is.         *)
LEMMA MemStable ==
  ASSUME PInv, NEW in \in Inputs, NEW next \in memory!Requests, Step(in, next), c1Tx' = NoReq
  PROVE  Mem' = Mem
<1>1. PathTypeOK /\ Len(InFlight) <= 1 /\ host_mem \in [Line -> Data]
  BY DEF PInv, OneWrite, PathTypeOK, TypeOK
<1>2. InFlight' = host_wr'
  BY DEF InFlight
<1>3. CASE AllWritten
  <2>1. InFlight = <<>> /\ InFlight' = <<>> /\ host_mem' = host_mem
    BY <1>1, <1>2, <1>3, InFlightCases, WriteStep, HostWritesMoves
  <2> QED
    BY <2>1, MemView
<1>4. CASE ~AllWritten
  <2>1. PICK w \in Write : UnderWay(w) /\ InFlight = <<w>>
    BY <1>1, <1>4, InFlightCases
  <2>2. \/ host_wr' = <<w>> /\ host_mem' = host_mem
        \/ host_wr' = <<>> /\ host_mem' = [host_mem EXCEPT ![w.addr] = w.data]
    BY <1>1, <2>1, WriteStep, HostWritesMoves
  <2>3. CASE host_wr' = <<w>> /\ host_mem' = host_mem
    BY <1>2, <2>1, <2>3, MemView
  <2>4. CASE host_wr' = <<>> /\ host_mem' = [host_mem EXCEPT ![w.addr] = w.data]
    <3>1. Mem' = [l \in Line |-> host_mem'[CorrectedAddress(l)]]
      <4>1. Mem' = View(<<>>, host_mem')
        BY <1>2, <2>4, MemView, Zenon
      <4> QED
        BY <4>1, ViewNone
    <3>2. Mem = [l \in Line |-> IF w.addr = CorrectedAddress(l) THEN w.data
                                ELSE host_mem[CorrectedAddress(l)]]
      BY <2>1, MemView, ViewOne
    <3>3. \A l \in Line : CorrectedAddress(l) \in Line
      BY <1>1, AddressTyped
    <3>4. \A l \in Line : host_mem'[CorrectedAddress(l)] =
                            IF w.addr = CorrectedAddress(l) THEN w.data
                            ELSE host_mem[CorrectedAddress(l)]
      BY <1>1, <2>4, <3>3
    <3> QED
      BY <3>1, <3>2, <3>4
  <2> QED
    BY <2>2, <2>3, <2>4
<1> QED
  BY <1>3, <1>4

LEMMA MemWritten ==
  ASSUME PInv, NEW in \in Inputs, NEW next \in memory!Requests, Step(in, next),
         c1Tx' # NoReq,
         NEW l \in Line, c1Tx'.addr = CorrectedAddress(l)
  PROVE  Mem' = [Mem EXCEPT ![l] = c1Tx'.data]
<1>1. c1Tx' \in Write /\ cci_wr_remaining_r = 1
  BY WriteStep
<1>2. AllWritten /\ InFlight = <<>>
  BY <1>1, InFlightCases DEF PInv, OneWrite
<1>3. host_wr' = <<>> /\ host_mem' = host_mem
  BY <1>2, WriteStep, HostWritesMoves DEF PInv, OneWrite
<1>4. InFlight' = <<c1Tx'>>
  <2>1. \A w \in Write : Append(<<>>, w) = <<w>>
    OBVIOUS
  <2> QED
    BY <1>1, <1>3, <2>1 DEF InFlight
<1>5. Mem = [k \in Line |-> host_mem[CorrectedAddress(k)]]
  BY <1>2, MemView, ViewNone
<1>6. Mem' = [k \in Line |-> IF c1Tx'.addr = CorrectedAddress(k) THEN c1Tx'.data
                             ELSE host_mem[CorrectedAddress(k)]]
  BY <1>1, <1>3, <1>4, MemView, ViewOne
<1>7. \A k \in Line : c1Tx'.addr = CorrectedAddress(k) <=> k = l
  BY CorrectedInjective
<1> QED
  BY <1>5, <1>6, <1>7

-----------------------------------------------------------------------------
(* A requester that waits for wr_done                                      *)

LEMMA WaitsStep ==
  ASSUME PInv, Waits, NEW in \in Inputs, NEW next \in memory!Requests, Step(in, next)
  PROVE  Waits'
<1> SUFFICES ASSUME ~overlap'
             PROVE  Waits'
  BY DEF Waits
<1> DEFINE held == Holds(TxDone(in))
<1>1. ~overlap /\ req' = next /\ (next.op # "IDLE" /\ ~held => WrDone)
  BY DEF Step, TxDone, PInv, PathTypeOK
<1>2. held <=> req.op # "IDLE" /\ ~TxDone(in)
  BY DEF Holds
<1> HIDE DEF held
<1>3. /\ req.op \in {"READ", "WRITE", "IDLE"}
      /\ req'.op \in {"READ", "WRITE", "IDLE"}
      /\ bubble \in BOOLEAN /\ cci_wr_remaining_r \in {0, 1}
  BY <1>1, AddressTyped
     DEF PInv, OneWrite, PathTypeOK, mem_ctrl!TypeOK, memory!Requests, memory!Reads, memory!Writes,
         memory!Idle
<1>4. /\ req.op # "WRITE" => cci_wr_remaining_r' = 0 /\ c1Tx' = NoReq
      /\ req.op = "WRITE" /\ ~TxDone(in) => c1Tx' = NoReq
      /\ req.op = "WRITE" /\ TxDone(in) => cci_wr_remaining_r = 1 /\ cci_wr_remaining_r' = 0
  BY <1>1, <1>3, WriteStep, ControllerOutputs DEF Waits
<1>5. WrDone => AllWritten /\ cci_wr_remaining_r = 0
  BY DEF WrDone, HostWrCompleted, C1Empty, AllWritten, PInv, OneWrite
<1>6. /\ AllWritten <=> InFlight = <<>>
      /\ AllWritten => host_wr' = <<>> /\ host_mem' = host_mem
  BY WriteStep, HostWritesMoves, InFlightCases DEF PInv, OneWrite
<1>7. c1Tx' = NoReq /\ AllWritten => InFlight' = <<>>
  BY <1>6 DEF InFlight
<1>8. next.op # "IDLE" /\ ~held => req.op # "WRITE" /\ AllWritten
  BY <1>1, <1>2, <1>4, <1>5
<1>9. ASSUME req'.op = "READ"
      PROVE  /\ cci_wr_remaining_r' = 0 /\ InFlight' = <<>>
             /\ seen' \subseteq {host_mem'[CorrectedAddress(req'.line)]}
  <2>1. CASE held
    <3>1. req' = req /\ ~TxDone(in)
      BY <1>2, <2>1, RequestHeld
    <3>2. AllWritten /\ seen \subseteq {host_mem[CorrectedAddress(req.line)]}
      BY <1>1, <1>6, <1>9, <3>1 DEF Waits
    <3>3. seen' = seen \cup {host_mem'[CorrectedAddress(req'.line)]}
      BY <1>9, <3>1, SeenStep
    <3>4. seen' \subseteq {host_mem'[CorrectedAddress(req'.line)]}
      BY <1>6, <3>1, <3>2, <3>3
    <3> QED
      BY <1>4, <1>7, <1>9, <3>1, <3>2, <3>4
  <2>2. CASE ~held
    <3>1. req.op # "WRITE" /\ AllWritten
      BY <1>1, <1>8, <1>9, <2>2
    <3>2. seen' \subseteq {host_mem'[CorrectedAddress(req'.line)]}
      <4>1. CASE TxDone(in)
        BY <1>9, <4>1, SeenStep
      <4>2. CASE ~TxDone(in)
        <5>1. seen = {}
          BY <1>2, <2>2, <4>2 DEF PInv, Recorded
        <5> QED
          BY <1>9, <4>2, <5>1, SeenStep
      <4> QED
        BY <4>1, <4>2
    <3> QED
      BY <1>4, <1>7, <3>1, <3>2
  <2> QED
    BY <2>1, <2>2
<1>10. ASSUME req'.op = "WRITE"
       PROVE  /\ InFlight' = <<>>
              /\ cci_wr_remaining_r' = 1 => wr_addr_r' = Address'
              /\ bubble' => cci_wr_remaining_r' = 1
              /\ state' = "HOSTOP" \/ fill_count' => internal_val' = req'.data
  <2>1. CASE held
    <3>1. req' = req /\ ~TxDone(in) /\ Address' = Address
      BY <1>2, <2>1, RequestHeld
    <3>2. /\ AllWritten
          /\ cci_wr_remaining_r = 1 => wr_addr_r = Address
          /\ state = "HOSTOP" \/ fill_count => internal_val = req.data
      BY <1>1, <1>6, <1>10, <3>1 DEF Waits
    <3>3. WrDone <=> cci_wr_remaining_r = 0
      BY <3>2 DEF WrDone, HostWrCompleted, C1Empty, AllWritten, PInv, OneWrite
    <3>4. ~(state = "HOSTOP" /\ req.op = "WRITE" /\ bubble /\ ~in.c1)
      BY <3>1, ControllerOutputs
    <3>5. /\ wr_addr_r' = IF state = "HOSTOP" /\ WrDone THEN Address ELSE wr_addr_r
          /\ cci_wr_remaining_r' = IF state = "HOSTOP" /\ WrDone THEN 1 ELSE cci_wr_remaining_r
      BY <1>10, <3>1, <3>4, WriteStep
    <3>6. cci_wr_remaining_r' = 1 => wr_addr_r' = Address'
      BY <3>1, <3>2, <3>5
    <3>7. bubble' => cci_wr_remaining_r' = 1
      <4>1. bubble' => state = "HOSTOP"
        BY <1>10, <3>1, ControllerMoves DEF PInv, Serves
      <4> QED
        BY <1>3, <3>3, <3>5, <4>1
    <3>8. state' = "HOSTOP" \/ fill_count' => internal_val' = req'.data
      BY <1>10, <3>1, <3>2, ControllerMoves DEF PInv, Serves
    <3> QED
      BY <1>4, <1>7, <1>10, <3>1, <3>2, <3>6, <3>7, <3>8
  <2>2. CASE ~held
    <3>1. req.op # "WRITE" /\ AllWritten
      BY <1>1, <1>8, <1>10, <2>2
    <3>2. state' \notin {"FILL", "HOSTOP"}
      BY <1>2, <2>2, RequestHeld
    <3>3. ~fill_count' /\ ~bubble'
      BY <3>2, ServesStep DEF Serves
    <3> QED
      BY <1>4, <1>7, <3>1, <3>2, <3>3
  <2> QED
    BY <2>1, <2>2
<1>11. ASSUME req'.op = "IDLE"
       PROVE  cci_wr_remaining_r' = 0
  <2>1. ~held
    BY <1>2, <1>11, RequestHeld
  <2> QED
    BY <1>2, <1>3, <1>4, <2>1
<1> QED
  BY <1>9, <1>10, <1>11 DEF Waits

(* One cycle, as a requester that waits for wr_done sees it.               *)
LEMMA StepRefines ==
  ASSUME PInv, Waits, NEW in \in Inputs, NEW next \in memory!Requests, Step(in, next), ~overlap'
  PROVE  memory!Next
<1>1. /\ ~overlap /\ req' \in memory!Requests
      /\ answer' = IF TxDone(in) THEN internal_val ELSE NoAnswer
  BY DEF Step, TxDone, PInv, PathTypeOK
<1>2. CASE req.op = "IDLE"
  <2>1. req = memory!Idle
    BY <1>2 DEF PInv, PathTypeOK, memory!Requests, memory!Reads, memory!Writes, memory!Idle
  <2>2. ~TxDone(in)
    BY <1>2, ControllerOutputs
  <2>3. c1Tx' = NoReq
    BY <1>2, WriteStep
  <2> QED
    BY <1>1, <2>1, <2>2, <2>3, MemStable DEF memory!Next, memory!Issue
<1>3. ASSUME req.op # "IDLE", ~TxDone(in)
      PROVE  memory!Wait
  <2>1. req' = req /\ answer' = NoAnswer
    BY <1>1, <1>3, RequestHeld
  <2>2. c1Tx' = NoReq
    BY <1>3, WriteStep, ControllerOutputs
  <2>3. req # memory!Idle
    BY <1>3 DEF memory!Idle
  <2> QED
    BY <2>1, <2>2, <2>3, MemStable DEF memory!Wait
<1>4. CASE req.op = "READ" /\ TxDone(in)
  <2>1. c1Tx' = NoReq
    BY <1>4, WriteStep
  <2>2. internal_val = host_mem[CorrectedAddress(req.line)]
    BY <1>1, <1>4, ControllerOutputs DEF PInv, Recorded, Waits
  <2>3. Mem = [l \in Line |-> host_mem[CorrectedAddress(l)]]
    BY <1>1, <1>4, MemView, ViewNone DEF Waits
  <2>4. Mem[req.line] = internal_val
    BY <1>4, <2>2, <2>3, AddressTyped DEF PInv
  <2> QED
    BY <1>1, <1>4, <2>1, <2>4, MemStable DEF memory!Next, memory!Read
<1>5. CASE req.op = "WRITE" /\ TxDone(in)
  <2>1. state = "HOSTOP" /\ bubble /\ ~in.c1
    BY <1>5, ControllerOutputs
  <2>2. cci_wr_remaining_r = 1 /\ wr_addr_r = Address /\ internal_val = req.data
    BY <1>1, <1>5, <2>1 DEF Waits
  <2>3. c1Tx' = [addr |-> Address, data |-> req.data] /\ c1Tx' # NoReq
    BY <1>5, <2>1, <2>2, WriteStep
  <2>4. Address = CorrectedAddress(req.line) /\ req.line \in Line
    BY <1>5, AddressTyped DEF PInv
  <2>5. Mem' = [Mem EXCEPT ![req.line] = req.data]
    BY <2>3, <2>4, MemWritten
  <2> QED
    BY <1>1, <1>5, <2>2, <2>5 DEF memory!Next, memory!Write
<1> QED
  BY <1>2, <1>3, <1>4, <1>5, AddressTyped DEF PInv, memory!Next

LEMMA InitRefines ==
  ASSUME PathInit
  PROVE  memory!Init
<1>1. PInv /\ InFlight = <<>>
  BY InitPInv DEF PathInit, Init, InFlight
<1>2. Mem = [l \in Line |-> host_mem[CorrectedAddress(l)]]
  BY <1>1, MemView, ViewNone
<1>3. Mem \in [Line -> Data]
  BY <1>1, <1>2, AddressTyped DEF PInv, PathTypeOK, TypeOK
<1> QED
  BY <1>3 DEF PathInit, memory!Init

LEMMA NextWaits ==
  ASSUME PInv, Waits, [PathNext]_pathVars
  PROVE  Waits'
<1>1. CASE PathNext
  BY <1>1, WaitsStep DEF PathNext
<1>2. CASE UNCHANGED pathVars
  BY <1>2 DEF pathVars, vars, readRegs, writeRegs, fifoVars, hostVars, ctrlVars, Waits, InFlight,
              Address
<1> QED
  BY <1>1, <1>2

LEMMA NextRefines ==
  ASSUME PInv, Waits, [PathNext]_pathVars
  PROVE  [overlap' \/ memory!Next]_(memory!vars)
<1>1. CASE PathNext
  BY <1>1, StepRefines DEF PathNext
<1>2. CASE UNCHANGED pathVars
  <2>1. InFlight' = InFlight /\ host_mem' = host_mem
    BY <1>2 DEF pathVars, vars, writeRegs, hostVars, InFlight
  <2>2. Mem' = Mem
    BY <2>1, MemView
  <2> QED
    BY <1>2, <2>2 DEF pathVars, memory!vars
<1> QED
  BY <1>1, <1>2

-----------------------------------------------------------------------------
LEMMA Invariants == PathSpec => [](PInv /\ Waits)
<1>1. PathInit => PInv /\ Waits
  BY InitPInv
<1>2. PInv /\ Waits /\ [PathNext]_pathVars => (PInv /\ Waits)'
  BY NextPInv, NextWaits
<1> QED
  BY <1>1, <1>2, PTL DEF PathSpec

(* The registers of the path stay in their ranges.                         *)
THEOREM PathTypeCorrect == PathSpec => []PathTypeOK
<1>1. PInv => PathTypeOK
  BY DEF PInv
<1> QED
  BY <1>1, Invariants, PTL

(* A line handed to the requester is one its own address had in host       *)
(* memory while the request was there.                                     *)
THEOREM ReadsAreRegular == PathSpec => []RegularRead
<1>1. PInv => RegularRead
  BY DEF PInv, Recorded, RegularRead
<1> QED
  BY <1>1, Invariants, PTL

(* A read leaves nothing behind in the channel for the next one, although  *)
(* rd_go stays high and the FIFO is popped twice.                          *)
THEOREM ReadsDrain == PathSpec => []ReadDrained
<1>1. PInv => ReadDrained
  BY DEF PInv, ReadPhase, Quiet, ReadDrained, RdDone, Empty
<1> QED
  BY <1>1, Invariants, PTL

(* A write waits until the one before it is in memory, so the host cannot  *)
(* reorder them.                                                           *)
THEOREM WritesDoNotOverlap == PathSpec => []OneWriteInFlight
<1>1. PInv => OneWriteInFlight
  BY DEF PInv, OneWrite, OneWriteInFlight
<1> QED
  BY <1>1, Invariants, PTL

(* The path implements a memory of lines for a requester that waits for    *)
(* wr_done.                                                                *)
THEOREM PathImplementsLineMemory == PathSpec => LineMemorySpec
<1>1. PathInit => memory!Init
  BY InitRefines
<1>2. PInv /\ Waits /\ [PathNext]_pathVars => [overlap' \/ memory!Next]_(memory!vars)
  BY NextRefines
<1> QED
  BY <1>1, <1>2, Invariants, PTL DEF PathSpec, LineMemorySpec
=============================================================================
