----------------------------- MODULE ArbiterPath -----------------------------
(***************************************************************************)
(* The arbiter between its sources and the memory controller, as afu.sv    *)
(* wires them.  Source 3 is the controller that fetches the configuration  *)
(* of the filter unit; the others are requesters that keep their op until  *)
(* they see tx_done ("they will be kept high", mem_arbiter.sv 53), and may *)
(* ask again, or for something else, in the very next cycle (mem_arbiter.sv*)
(* 65-69).  Such a request still sees the latched tx_done of the one       *)
(* before, and takes it for an answer.                                     *)
(*                                                                         *)
(* The model ends at the DMA engine: a read returns the line its request   *)
(* was fetched for, and is known by it; a write is handed to the engine    *)
(* with host_we, which may still drop it (HostPath, WriteTakesEffect).     *)
(***************************************************************************)
EXTENDS Naturals, Sequences

CONSTANTS
  Line,         \* addresses; as data: what is read there
  Config,       \* address of the filter unit's configuration
  Data,         \* contents of lines
  Zero,
  X,            \* what a latch shows that was never open
  Asks          \* the requests a source may make

Requester == {1, 2, 4}
Idle == [op |-> "IDLE"]
Reading(l) == [op |-> "READ", line |-> l]
Writing(l, d) == [op |-> "WRITE", line |-> l, data |-> d]

ASSUME DataAssumption == Line \subseteq Data /\ Zero \in Data /\ X \notin Data /\ Config \in Line
ASSUME AsksAssumption ==
  \A s \in Requester :
    Asks[s] \subseteq {Reading(l) : l \in Line} \cup {Writing(l, d) : l \in Line, d \in Data}

VARIABLES
  state, fill_count, internal_val, bubble,      \* mem_ctrl
  current, held,                                \* mem_arbiter
  mmio, mapped, request,                        \* fpu_mmio_ctrl and its loader
  req,          \* of every requester
  open,         \* history: a request is made that has seen tx_done low
  carried,      \* history: the lines read for the present request of a source
  overtaken     \* history: answers to others since the request was made

mem_ctrl == INSTANCE MemCtrl
arbiter == INSTANCE MemArbiter
fpu_mmio == INSTANCE FpuMmioCtrl

vars == <<mem_ctrl!vars, arbiter!vars, fpu_mmio!vars, request, req, open, carried, overtaken>>

Src == arbiter!Src

-----------------------------------------------------------------------------
(* Wires                                                                   *)

Asked(s) == IF s # 3 THEN req[s] ELSE IF fpu_mmio!Busy THEN Reading(Config) ELSE Idle
Selected == Asked(current)
TxDone(in) == mem_ctrl!TxDone(Selected.op, in)
BusIn == IF Selected.op = "WRITE" THEN Selected.data ELSE Zero
HostIn == IF Selected.op = "READ" THEN Selected.line ELSE Zero

(* The one input of the host that the controller looks at in its state:    *)
(* host_init, host_rd_ready for a read or host_wr_ready for a write.       *)
Inputs == BOOLEAN

(* What passes between the controller and the DMA engine in a cycle: the   *)
(* line of a read, or the line of a write.                                 *)
Reads(in) == mem_ctrl!HostRgo(Selected.op) /\ in
Hands(in) == mem_ctrl!HostWe(Selected.op, in)
Handed == Writing(Selected.line, internal_val)

Answered(s, in) == Asked(s) # Idle /\ IF s = 3 THEN TxDone(in)
                                      ELSE arbiter!TxDoneSrc(s, TxDone(in))

(* The line that source s is shown.                                        *)
Shown(s) ==
  IF s = 3 THEN fpu_mmio!MappedData(arbiter!WriteOutSrc(3, internal_val))
  ELSE arbiter!WriteOutSrc(s, internal_val)

-----------------------------------------------------------------------------
(* What a requester may drive in the next cycle.                           *)
Drives(s, in) ==
  IF req[s] # Idle /\ ~arbiter!TxDoneSrc(s, TxDone(in)) THEN {req[s]}
  ELSE Asks[s] \cup {Idle}

Requesters(in) ==
  \E r1 \in Drives(1, in), r2 \in Drives(2, in), r4 \in Drives(4, in) :
    req' = [s \in Requester |-> CASE s = 1 -> r1 [] s = 2 -> r2 [] s = 4 -> r4]

(* The loader holds its request until mapped_data_valid.                   *)
Loader(in) ==
  request' \in IF request THEN {~fpu_mmio!Valid(TxDone(in))} ELSE BOOLEAN

(* History: a request begins, is carried out, is overtaken.                *)
Begins(s) == Asked(s) = Idle
Histories(in) ==
  /\ open' = [s \in Src |-> ~Begins(s) /\ ~Answered(s, in)]
  /\ carried' = [s \in Src |->
       IF Begins(s) \/ Answered(s, in) THEN <<>>
       ELSE IF s = current /\ Reads(in) THEN Append(carried[s], Selected)
       ELSE carried[s]]
  /\ overtaken' = [s \in Src |->
       IF Begins(s) \/ Answered(s, in) THEN 0
       ELSE IF s # current /\ TxDone(in) THEN overtaken[s] + 1
       ELSE overtaken[s]]

Step(in) ==
  /\ mem_ctrl!Clock(in, Selected.op, in, in, BusIn, HostIn)
  /\ arbiter!Clock(Selected.op, TxDone(in), internal_val)
  /\ fpu_mmio!Clock(request, TxDone(in), arbiter!WriteOutSrc(3, internal_val))
  /\ Requesters(in)
  /\ Loader(in)
  /\ Histories(in)

Init ==
  /\ mem_ctrl!Init
  /\ arbiter!Init
  /\ fpu_mmio!Init
  /\ request = FALSE
  /\ req = [s \in Requester |-> Idle]
  /\ open = [s \in Src |-> FALSE]
  /\ carried = [s \in Src |-> <<>>]
  /\ overtaken = [s \in Src |-> 0]

Next == \E in \in Inputs : Step(in)

(* Software writes go, the host answers, and is not for ever full in the   *)
(* second of the two cycles of a write (see HostPath).  A step with either *)
(* input can be taken in every state, so the first part is the weak        *)
(* fairness of Step(TRUE) and the second the strong fairness of            *)
(* bubble /\ Step(TRUE), written without ENABLED.                          *)
Fairness ==
  /\ []<><<Step(TRUE)>>_vars
  /\ []<>bubble => []<><<bubble /\ Step(TRUE)>>_vars

Spec == Init /\ [][Next]_vars /\ Fairness

-----------------------------------------------------------------------------
(* A request that has seen tx_done low and now sees it high has been       *)
(* served: its own transaction ends, a read was fetched once and is the    *)
(* line shown, a write is handed to the DMA engine in this very cycle, and *)
(* only now - although tx_done and the data come through latches that also *)
(* show what earlier transactions left there (mem_arbiter.sv 74-114).  The *)
(* configuration is right when the transaction that ends is its own        *)
(* (fpu_mmio_ctrl.sv 50-52).  Nothing is said of a request that is made    *)
(* while the latch of its source is still up: it is answered at once.      *)
AnswerAfterLow ==
  \A in \in Inputs, s \in Src :
    open[s] /\ Answered(s, in) /\ (s = 3 => current = 3) =>
      /\ current = s
      /\ Selected.op = "READ" => carried[s] = <<Selected>> /\ Shown(s) = Selected.line
      /\ Selected.op = "WRITE" => Hands(in) /\ Handed = Selected

(* In the middle of a transaction the controller keeps seeing the same     *)
(* request: the arbiter does not turn to another source and the source     *)
(* does not change its mind (mem_ctrl.sv 87-208 takes op, address and data *)
(* as they come, cycle by cycle).                                          *)
TransactionHeld ==
  [][(state \in {"HOSTOP", "FILL"} /\ state' # "READY") => Selected' = Selected]_vars

(* Round robin (mem_arbiter.sv 2): a source waits for one transaction of   *)
(* each other source at most.                                              *)
Turns == \A s \in Src : overtaken[s] <= 3

(* Every request that was not answered by the latch when it was made is    *)
(* answered in the end, the fetch of the configuration included.           *)
RequestsAnswered == \A s \in Src : open[s] ~> ~open[s]
=============================================================================
