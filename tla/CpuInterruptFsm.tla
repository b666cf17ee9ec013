-------------------------- MODULE CpuInterruptFsm ---------------------------
(***************************************************************************)
(* project/hw/CPU_interrupt_fsm.sv: the processor's side of an interrupt.  *)
(* It fills the pipeline with NoOps, saves the special registers, acknow-  *)
(* ledges, lets the controller inject its jump, and restores the registers *)
(* when the routine ends with RIN.  LR and FL are saved and restored on    *)
(* the same edges, so one variable stands for both.                        *)
(***************************************************************************)
EXTENDS Naturals

CONSTANTS
  ResetPC, ResetFL      \* reset values of PC_before_int and FL_before_int

VARIABLES
  state, counter,
  PC_before_int, FL_before_int

vars == <<state, counter, PC_before_int, FL_before_int>>

State == {"NORMAL_OPERATION", "CLEAR_PIPELINE_INT", "SAVE_REGS", "ACK_INT", "INJECTION",
          "RESTORE_REGS", "CLEAR_PIPELINE_RIN"}
Clearing == {"CLEAR_PIPELINE_INT", "CLEAR_PIPELINE_RIN"}

-----------------------------------------------------------------------------
(* Outputs                                                                 *)

UseCpuInjection == state \in Clearing \cup {"SAVE_REGS", "ACK_INT", "RESTORE_REGS"}
UseIntInstr == state = "INJECTION"
EarlyAck == state = "SAVE_REGS"                            \* mutation of Ack
Ack == state = "ACK_INT"
Restore == state = "RESTORE_REGS"

-----------------------------------------------------------------------------
(* The state machine                                                       *)

NormalOperation(INT, RIN) ==
  /\ state = "NORMAL_OPERATION"
  /\ state' = CASE INT -> "CLEAR_PIPELINE_INT"
                [] ~INT /\ RIN -> "CLEAR_PIPELINE_RIN"
                [] OTHER -> "NORMAL_OPERATION"

ClearPipelineInt ==
  /\ state = "CLEAR_PIPELINE_INT"
  /\ state' = IF counter = 6 THEN "SAVE_REGS" ELSE "CLEAR_PIPELINE_INT"

SaveRegs ==
  /\ state = "SAVE_REGS"
  /\ state' = "ACK_INT"

AckInt ==
  /\ state = "ACK_INT"
  /\ state' = "INJECTION"

(* jump: the injected instruction has the opcode of J.                     *)
Injection(jump) ==
  /\ state = "INJECTION"
  /\ state' = IF jump THEN "NORMAL_OPERATION" ELSE "INJECTION"

NeverSeven ==                                              \* mutation of ClearPipelineRin
  /\ state = "CLEAR_PIPELINE_RIN"
  /\ state' = IF counter = 7 THEN "RESTORE_REGS" ELSE "CLEAR_PIPELINE_RIN"
ClearPipelineRin ==
  /\ state = "CLEAR_PIPELINE_RIN"
  /\ state' = IF counter = 6 THEN "RESTORE_REGS" ELSE "CLEAR_PIPELINE_RIN"

RestoreRegs ==
  /\ state = "RESTORE_REGS"
  /\ state' = "NORMAL_OPERATION"

FewNoOps == IF state \in Clearing THEN 6 ELSE 1            \* mutation of Count
Overrun == IF state \in Clearing THEN counter + 1 ELSE 1   \* mutation of Count
Count ==
  IF state \notin Clearing THEN 1
  ELSE IF counter = 6 THEN 5 ELSE counter + 1

EarlySave(current_PC, current_FL) ==                       \* mutation of Save
  IF state = "CLEAR_PIPELINE_INT" /\ counter = 1
  THEN PC_before_int' = current_PC /\ FL_before_int' = current_FL
  ELSE UNCHANGED <<PC_before_int, FL_before_int>>
EagerSave(current_PC, current_FL) ==                       \* mutation of Save
  IF state \in Clearing
  THEN PC_before_int' = current_PC /\ FL_before_int' = current_FL
  ELSE UNCHANGED <<PC_before_int, FL_before_int>>
Save(current_PC, current_FL) ==
  IF state = "SAVE_REGS"
  THEN PC_before_int' = current_PC /\ FL_before_int' = current_FL
  ELSE UNCHANGED <<PC_before_int, FL_before_int>>

Control(INT, RIN, jump) ==
  \/ NormalOperation(INT, RIN)
  \/ ClearPipelineInt \/ SaveRegs \/ AckInt \/ Injection(jump)
  \/ ClearPipelineRin \/ RestoreRegs

Clock(INT, RIN, jump, current_PC, current_FL) ==
  /\ Control(INT, RIN, jump)
  /\ counter' = Count
  /\ Save(current_PC, current_FL)

Init ==
  /\ state = "NORMAL_OPERATION" /\ counter = 1
  /\ PC_before_int = ResetPC /\ FL_before_int = ResetFL
=============================================================================
