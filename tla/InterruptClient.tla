-------------------------- MODULE InterruptClient ---------------------------
(***************************************************************************)
(* The interrupt controller between devices that request at any time and a *)
(* processor that acknowledges at any time, the way InterruptController_tb *)
(* drives it: once to accept the interrupt, once when it is done.  The     *)
(* mask is a constant of the instance, as in afu.sv.                       *)
(***************************************************************************)
EXTENDS InterruptController

CONSTANTS Enabled       \* IMR_in

ASSUME EnabledAssumption == Enabled \subseteq Devices

VARIABLES
  served,       \* the device of the last jump, NoOp before the first
  overtaken     \* a request of higher priority came in after that jump

clientVars == <<vars, served, overtaken>>

ClientInit ==
  /\ Init
  /\ served = NoOp /\ overtaken = FALSE

Cycle(IO, ACK) ==
  /\ Clock(IO, ACK, Enabled)
  /\ served' = IF INT_INSTR # NoOp THEN INT_INSTR ELSE served
  /\ overtaken' = IF state \in {"INSTR", "WAIT"} THEN \E d \in IRR \cap Enabled : d < served'
                  ELSE overtaken

ClientNext == \E IO \in SUBSET Devices, ACK \in BOOLEAN : Cycle(IO, ACK)

ClientSpec ==
  /\ ClientInit /\ [][ClientNext]_clientVars
  /\ WF_clientVars(\E IO \in SUBSET Devices : Cycle(IO, TRUE))

-----------------------------------------------------------------------------
(* From the service request to the jump the controller holds exactly one   *)
(* request that is pending and enabled, so the NoOps are always followed   *)
(* by a jump (the processor leaves INJECTION on a jump only).              *)
JumpForPending ==
  state \in {"SERV_REQ", "NOOPS", "INSTR"} => ISR # {} /\ ISR \subseteq IRR \cap Enabled

(* The controller forgets a request only after its routine was entered,    *)
(* unless a more urgent one came in during the service.                    *)
ClearServedOnly ==
  [][IRR \subseteq IRR' \/ overtaken \/ IRR \ IRR' = {served}]_clientVars

(* The most urgent device is entered once the idle controller has latched  *)
(* its request, however many requests come in meanwhile.                   *)
UrgentServed ==
  \A d \in Enabled :
    (state = "IDLE" /\ ISR = {d} /\ d = Min(Enabled)) ~> (INT_INSTR = d)
=============================================================================
