------------------------------ MODULE HostPath ------------------------------
(***************************************************************************)
(* The path from a requester to host memory: the memory controller         *)
(* (mem_ctrl.sv) wired to the DMA engine (cci_dma.sv) as afu.sv does, with *)
(* transfers of one line (class/src/mmem.cpp sets MMIO_SIZE to 1).  The    *)
(* requester stands for the port of the arbiter: it holds its request      *)
(* until tx_done ("they will be kept high", mem_arbiter.sv) and may issue  *)
(* the next one in the very next cycle.                                    *)
(*                                                                         *)
(* A request is what mem_ctrl has on its ports, and its line what is on    *)
(* raw_address.  afu.sv 275 connects that port to cpu_addr, a net nothing  *)
(* drives, and not to the DMA_Addr the arbiter selects: as built, every    *)
(* request has one and the same line, one of the requesters modelled here. *)
(* That the line is the one a source of the arbiter asked for is nowhere   *)
(* stated.                                                                 *)
(***************************************************************************)
EXTENDS CciDma

CONSTANTS
  Zero,         \* reset value of the controller's line buffer
  MaxWrites,    \* bound: writes in flight at which the host raises c1TxAlmFull
  Offset,       \* address_offset, the base line software wrote to memory_map
  NoAnswer      \* no tx_done in the last cycle

VARIABLES
  state, fill_count, internal_val, bubble,    \* mem_ctrl
  req, answer,                                \* the requester
  seen,         \* history: values the line being read had in host memory
  overlap       \* history: a request was made while a write was not done

ASSUME PathAssumption ==
  Zero \in Data /\ NoAnswer \notin Data /\ Offset \in Line
  /\ MaxWrites \in Nat

ctrlVars == <<state, fill_count, internal_val, bubble>>
pathVars == <<vars, ctrlVars, req, answer, seen, overlap>>

mem_ctrl == INSTANCE MemCtrl

(* corrected_address: what is on raw_address, as mem_ctrl corrects it.     *)
CorrectedAddress(l) == Plus(Offset, l)
Address == CorrectedAddress(IF req.op = "IDLE" THEN 0 ELSE req.line)

(* One cycle.  c0 and c1 are the host's almost-full flags, next is the     *)
(* request driven from the next cycle on, once this one is done.           *)
Inputs ==
  [host_init : BOOLEAN, c0 : BOOLEAN, c1 : BOOLEAN, response : BOOLEAN,
   commit : 0..Len(host_wr)]

RdPort(in) ==
  [go |-> mem_ctrl!HostRgo(req.op), addr |-> Address, size |-> 1,
   en |-> mem_ctrl!HostRe(req.op), almFull |-> in.c0, response |-> in.response]

WrPort(in) ==
  [go |-> mem_ctrl!HostWgo(req.op), addr |-> Address, size |-> 1,
   en |-> mem_ctrl!HostWe(req.op, ~in.c1), data |-> internal_val,
   almFull |-> in.c1, commit |-> in.commit]

BusIn == IF req.op = "WRITE" THEN req.data ELSE Zero

(* Writes accepted by the DMA engine and not yet in memory, oldest first.  *)
InFlight == IF c1Tx = NoReq THEN host_wr ELSE Append(host_wr, c1Tx)

(* The host raises c1TxAlmFull at MaxWrites writes at the latest.          *)
HostAllows(in) == Len(InFlight) >= MaxWrites => in.c1

(* The requester holds its request until tx_done.                          *)
Holds(tx_done) == req.op # "IDLE" /\ ~tx_done

Step(in, next) ==
  LET tx_done == mem_ctrl!TxDone(req.op, ~in.c1)
  IN  /\ req' = next
      /\ Holds(tx_done) => next = req
      /\ HostAllows(in)
      /\ mem_ctrl!Clock(in.host_init, req.op, ~Empty, ~in.c1, BusIn, fifo_out)
      /\ Tick(RdPort(in), WrPort(in))
      /\ answer' = IF tx_done THEN internal_val ELSE NoAnswer
      /\ seen' = IF next.op # "READ" THEN {}
                 ELSE (IF tx_done THEN {} ELSE seen)
                      \cup {host_mem'[CorrectedAddress(next.line)]}
      /\ overlap' = (overlap \/ (next.op # "IDLE" /\ ~Holds(tx_done) /\ ~WrDone))

-----------------------------------------------------------------------------
(* The memory as the requester sees it: host memory under the writes that  *)
(* are on their way, of which the latest to a line counts.                 *)
Mem ==
  [l \in Line |->
     LET writes == {i \in 1..Len(InFlight) : InFlight[i].addr = CorrectedAddress(l)}
     IN  IF writes = {} THEN host_mem[CorrectedAddress(l)] ELSE InFlight[Max(writes)].data]

memory ==
  INSTANCE LineMemory WITH Lines <- Line, mem <- Mem

PathInit ==
  /\ Init
  /\ mem_ctrl!Init
  /\ req = memory!Idle /\ answer = NoAnswer
  /\ seen = {} /\ overlap = FALSE

PathNext == \E next \in memory!Requests, in \in Inputs : Step(in, next)

(* Software writes go.  The host some time accepts a read request, answers *)
(* one and completes a write; it does not for ever raise c1TxAlmFull just  *)
(* in the second of the two cycles in which a write needs it low.          *)
Fairness ==
  /\ WF_pathVars(\E next \in memory!Requests, in \in Inputs : in.host_init /\ Step(in, next))
  /\ WF_pathVars(\E next \in memory!Requests, in \in Inputs : ~in.c0 /\ Step(in, next))
  /\ WF_pathVars(\E next \in memory!Requests, in \in Inputs : in.response /\ Step(in, next))
  /\ WF_pathVars(\E next \in memory!Requests, in \in Inputs : in.commit > 0 /\ Step(in, next))
  /\ WF_pathVars(\E next \in memory!Requests, in \in Inputs : ~in.c1 /\ Step(in, next))
  /\ SF_pathVars(\E next \in memory!Requests, in \in Inputs : ~in.c1 /\ bubble /\ Step(in, next))

PathSpec == PathInit /\ [][PathNext]_pathVars /\ Fairness

-----------------------------------------------------------------------------
(* Types of the controller, the requester and the engine.                  *)
PathTypeOK ==
  /\ TypeOK /\ mem_ctrl!TypeOK
  /\ req \in memory!Requests /\ answer \in Data \cup {NoAnswer}
  /\ seen \subseteq Data /\ overlap \in BOOLEAN

(* As long as the requester waits for wr_done after a write, the path is a *)
(* memory of lines: a read answers with the last line written to its       *)
(* address, a write is there when tx_done says so, and nothing else        *)
(* changes (afu.sv, comment at tx_done).                                   *)
LineMemorySpec == memory!Init /\ [][overlap' \/ memory!Next]_(memory!vars)

(* Whatever the requester does, a read answers with a value its own line   *)
(* had in host memory while the request was there, never with a line       *)
(* fetched for another request or before it.                               *)
RegularRead ==
  req.op = "READ" /\ state = "FILL" => internal_val \in seen

(* When the controller can take a request the read channel is at rest: no  *)
(* line is left in the FIFO or on its way, although the controller drives  *)
(* rd_go for as long as the read takes and pops the FIFO twice.            *)
ReadDrained ==
  state = "READY" => RdDone /\ cci_rd_pending_r = 0 /\ Empty

(* Two writes are never in flight together, so the host, which may commit  *)
(* them in any order, cannot leave the older line in memory.               *)
OneWriteInFlight == Len(InFlight) <= 1

(* Every request is answered, also when the host throttles it and a write  *)
(* has to start over.                                                      *)
RequestsServed == req.op # "IDLE" ~> answer # NoAnswer

(* tx_done means the write is complete: its line is in memory or on its    *)
(* way there (afu.sv, "notifies CPU when ever a read or write is           *)
(* complete").                                                             *)
WriteTakesEffect ==
  [][req.op = "WRITE" /\ answer' # NoAnswer => Mem'[req.line] = req.data]_pathVars
=============================================================================
