------------------------ MODULE InterruptController -------------------------
(***************************************************************************)
(* project/hw/InterruptController.sv: collects the interrupt requests of   *)
(* the devices, picks the one of the highest priority and injects NoOps    *)
(* and a jump to its service routine into the pipeline of the CPU.         *)
(*                                                                         *)
(* A register of eight bits is the set of the devices whose bit is set,    *)
(* and an injected instruction is NoOp or the device whose routine the     *)
(* jump goes to.  Clock is one rising edge of clk.                         *)
(***************************************************************************)
EXTENDS Naturals, FiniteSetsExt

CONSTANTS
  Devices,      \* lines of IO in use; the lowest number has priority
  NoOp          \* the injected NoOp

ASSUME DevicesAssumption == Devices \subseteq 0..7 /\ Devices # {} /\ NoOp \notin Devices

VARIABLES
  state, counter,
  IMR,          \* Interrupt Mask Register
  IRR,          \* Interrupt Request Register
  ISR           \* Interrupt Service Register

vars == <<state, counter, IMR, IRR, ISR>>

State == {"IDLE", "SERV_REQ", "NOOPS", "INSTR", "WAIT", "CLR", "WAIT_CLR"}

-----------------------------------------------------------------------------
(* Outputs                                                                 *)

INT == state = "SERV_REQ"
INT_INSTR == IF state = "INSTR" /\ ISR # {} THEN CHOOSE d \in ISR : TRUE ELSE NoOp

-----------------------------------------------------------------------------
(* Registers                                                               *)

LowestFirst ==                                             \* mutation of ISR_in
  IF IRR \cap IMR = {} THEN {} ELSE {Max(IRR \cap IMR)}
ISR_in == IF IRR \cap IMR = {} THEN {} ELSE {Min(IRR \cap IMR)}

(* A request and a clear in the same cycle: the clear is lost.             *)
ClearAll == IF state = "CLR" THEN IRR ELSE {}              \* mutation of Cleared
Cleared == IF state = "CLR" THEN ISR ELSE {}
Requests(IO) == IF IO # {} THEN IRR \cup IO ELSE IRR \ Cleared

Unsaturated == IF state # "NOOPS" THEN 1 ELSE counter + 1  \* mutation of Count
Count ==
  IF state # "NOOPS" THEN 1
  ELSE IF counter = 5 THEN 5 ELSE counter + 1

Registers(IO, IMR_in) ==
  /\ IRR' = Requests(IO)
  /\ ISR' = ISR_in
  /\ IMR' = IMR_in
  /\ counter' = Count

-----------------------------------------------------------------------------
(* The state machine                                                       *)

Idle ==
  /\ state = "IDLE"
  /\ state' = IF ISR # {} THEN "SERV_REQ" ELSE "IDLE"

ServReq(ACK) ==
  /\ state = "SERV_REQ"
  /\ state' = IF ACK THEN "NOOPS" ELSE "SERV_REQ"

NeverSix ==                                                \* mutation of Noops
  /\ state = "NOOPS"
  /\ state' = IF counter = 6 THEN "INSTR" ELSE "NOOPS"
Noops ==
  /\ state = "NOOPS"
  /\ state' = IF counter = 5 THEN "INSTR" ELSE "NOOPS"

Instr ==
  /\ state = "INSTR"
  /\ state' = "WAIT"

Wait(ACK) ==
  /\ state = "WAIT"
  /\ state' = IF ACK THEN "CLR" ELSE "WAIT"

StraightToIdle ==                                          \* mutation of Clr
  /\ state = "CLR"
  /\ state' = "IDLE"
Clr ==
  /\ state = "CLR"
  /\ state' = "WAIT_CLR"

WaitClr ==
  /\ state = "WAIT_CLR"
  /\ state' = "IDLE"

Control(ACK) ==
  Idle \/ ServReq(ACK) \/ Noops \/ Instr \/ Wait(ACK) \/ Clr \/ WaitClr

Clock(IO, ACK, IMR_in) == Control(ACK) /\ Registers(IO, IMR_in)

(* Bit 7 of the mask is reset to 0: {7{1'b1}} has seven bits.              *)
Init ==
  /\ state = "IDLE" /\ counter = 1
  /\ IMR = Devices \ {7} /\ IRR = {} /\ ISR = {}

TypeOK ==
  /\ state \in State /\ counter \in 1..5
  /\ IMR \subseteq Devices /\ IRR \subseteq Devices
  /\ \E d \in Devices : ISR \subseteq {d}
=============================================================================
