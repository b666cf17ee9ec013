--------------------------- MODULE InterruptPath ----------------------------
(***************************************************************************)
(* The interrupt controller and the processor's interrupt FSM wired as in  *)
(* afu.sv and cpu.sv, with the fetch stage and the pipeline registers that *)
(* the injected instructions go through.  An instruction is what it does   *)
(* on its way:                                                             *)
(*    OP    writes the flags            BR   is a taken branch             *)
(*    RIN   returns from interrupt      J    is the injected jump          *)
(*    NOOP  none of these                                                  *)
(* with the flags it writes or the address it goes to.  FL stands for FL   *)
(* and LR.                                                                 *)
(*                                                                         *)
(* What the instruction memory shows in a cycle is any word: in the cycle  *)
(* in which it is done before it has looked at the address                 *)
(* (cpu_cache_ctrl.sv 69-75) it shows the word of an access before, and    *)
(* the PC moves on all the same.  So nothing is stated about the order in  *)
(* which the words of a program are executed.                              *)
(***************************************************************************)
EXTENDS Naturals

CONSTANTS
  Devices, NoOp,
  NADDR,        \* number of instruction addresses, which wrap
  Flags,        \* values of FL, 0 after reset
  Entry         \* address of the routine of every device

Addr == 0..NADDR - 1

ASSUME LinesAssumption == Devices \subseteq 0..7 /\ Devices # {} /\ NoOp \notin Devices

ASSUME CodeAssumption ==
  NADDR \in Nat \ {0} /\ 0 \in Flags /\ Entry \in [Devices -> Addr]

VARIABLES
  int_state, int_counter, IMR, IRR, ISR,                  \* InterruptController
  cpu_state, cpu_counter, PC_before_int, FL_before_int,   \* CPU_interrupt_fsm
  PC, FeDe, DeEx, ExMe, MeWb, FL,                         \* the pipeline
  interrupted, main_fl, left, clean                       \* history, see Record

intVars == <<int_state, int_counter, IMR, IRR, ISR>>
fsmVars == <<cpu_state, cpu_counter, PC_before_int, FL_before_int>>
pipeVars == <<PC, FeDe, DeEx, ExMe, MeWb, FL>>
history == <<interrupted, main_fl, left, clean>>
vars == <<intVars, fsmVars, pipeVars, history>>

controller ==
  INSTANCE InterruptController WITH state <- int_state, counter <- int_counter

fsm ==
  INSTANCE CpuInterruptFsm WITH
    state <- cpu_state, counter <- cpu_counter, ResetPC <- 0, ResetFL <- 0

-----------------------------------------------------------------------------
(* Instructions                                                            *)

NOP == [kind |-> "NOOP", arg |-> 0]
J(a) == [kind |-> "J", arg |-> a]
Words ==
  {NOP, [kind |-> "RIN", arg |-> 0]}
    \cup [kind : {"OP"}, arg : Flags] \cup [kind : {"BR"}, arg : Addr]
Slots == Words \cup {J(a) : a \in Addr}

-----------------------------------------------------------------------------
(* Wires                                                                   *)

NextAddr(a) == (a + 1) % NADDR

flush == ExMe.kind \in {"BR", "J"}

(* fetch.sv: what the fetch stage hands to FeDe; word is instr_mem.        *)
Instr(word) ==
  IF fsm!UseCpuInjection THEN NOP
  ELSE IF fsm!UseIntInstr
       THEN IF controller!INT_INSTR = NoOp THEN NOP ELSE J(Entry[controller!INT_INSTR])
       ELSE word

(* The FSM looks for RIN in the same instruction, also during a stall.     *)
RIN(word) == Instr(word).kind = "RIN"

(* While instructions are injected the PC stands still, also when a branch *)
(* in ExMe wants to move it.                                               *)
RunningPc(stall) ==                                        \* mutation of PcNext
  IF fsm!Restore THEN PC_before_int
  ELSE IF (stall /\ ~flush) \/ fsm!UseIntInstr THEN PC
  ELSE IF flush THEN ExMe.arg ELSE NextAddr(PC)
PcNext(stall) ==
  IF fsm!Restore THEN PC_before_int
  ELSE IF (stall /\ ~flush) \/ fsm!UseCpuInjection \/ fsm!UseIntInstr THEN PC
  ELSE IF flush THEN ExMe.arg ELSE NextAddr(PC)

-----------------------------------------------------------------------------
(* The pipeline registers.  flush resets FeDe and DeEx at once, so that    *)
(* ExMe takes a NOP in the same cycle.                                     *)
Pipeline(stall, word) ==
  /\ PC' = PcNext(stall)
  /\ FeDe' = IF flush THEN NOP ELSE IF stall THEN FeDe ELSE Instr(word)
  /\ DeEx' = IF flush THEN NOP ELSE IF stall THEN DeEx ELSE FeDe
  /\ ExMe' = IF stall THEN ExMe ELSE IF flush THEN NOP ELSE DeEx
  /\ MeWb' = IF stall THEN MeWb ELSE ExMe
  /\ FL' = IF fsm!Restore THEN FL_before_int
           ELSE IF MeWb.kind = "OP" THEN MeWb.arg ELSE FL

(* History.  interrupted: the injected jump has left ExMe and the regis-   *)
(* ters are not restored yet.  main_fl: the flags as the instructions that *)
(* left ExMe outside of that time wrote them, kept while clean.  left: the *)
(* PC when the last injection for an interrupt began.  clean: no stall has *)
(* fallen into an injection so far.                                        *)
Record(stall) ==
  /\ interrupted' = (~fsm!Restore /\ (interrupted \/ (~stall /\ ExMe.kind = "J")))
  /\ clean' = (clean /\ (stall => cpu_state = "NORMAL_OPERATION"))
  /\ main_fl' = IF ~clean' THEN 0
                ELSE IF interrupted THEN main_fl
                ELSE IF fsm!Restore THEN FL_before_int
                ELSE IF ~stall /\ ExMe.kind = "OP" THEN ExMe.arg ELSE main_fl
  /\ left' = IF cpu_state = "NORMAL_OPERATION" /\ cpu_state' = "CLEAR_PIPELINE_INT"
             THEN PC' ELSE left

(* stall: the instruction or the data memory is not done.                  *)
Cycle(IO, stall, word) ==
  /\ controller!Clock(IO, fsm!Ack, Devices)
  /\ fsm!Clock(controller!INT, RIN(word), controller!INT_INSTR # NoOp, PC, FL)
  /\ Pipeline(stall, word)
  /\ Record(stall)

Init ==
  /\ controller!Init /\ fsm!Init
  /\ PC = 0 /\ FL = 0
  /\ FeDe = NOP /\ DeEx = NOP /\ ExMe = NOP /\ MeWb = NOP
  /\ interrupted = FALSE /\ main_fl = 0 /\ left = 0 /\ clean = TRUE

Next ==
  \E IO \in SUBSET Devices, stall \in BOOLEAN, word \in Words : Cycle(IO, stall, word)

(* Clocks tick and the memories answer.                                    *)
Fairness == WF_vars(\E IO \in SUBSET Devices, word \in Words : Cycle(IO, FALSE, word))

Spec == Init /\ [][Next]_vars /\ Fairness

-----------------------------------------------------------------------------
(* Types of both machines, of the pipeline and of the history.             *)
PathTypeOK ==
  /\ controller!TypeOK
  /\ cpu_state \in fsm!State /\ cpu_counter \in 1..6
  /\ PC_before_int \in Addr /\ FL_before_int \in Flags
  /\ PC \in Addr /\ FL \in Flags
  /\ {FeDe, DeEx, ExMe, MeWb} \subseteq Slots
  /\ main_fl \in Flags /\ left \in Addr
  /\ interrupted \in BOOLEAN /\ clean \in BOOLEAN

(* The two machines, which share only INT, ACK and INT_INSTR, keep step:   *)
(* the controller holds INT until it is acknowledged and sends its NoOps   *)
(* and its jump exactly while the processor listens.                       *)
Handshake ==
  /\ cpu_state \in {"CLEAR_PIPELINE_INT", "SAVE_REGS", "ACK_INT"} => int_state = "SERV_REQ"
  /\ cpu_state = "INJECTION" <=> int_state \in {"NOOPS", "INSTR"}

(* When the special registers are saved, and when they are restored, every *)
(* instruction before has left the pipeline, branches included             *)
(* (CPU_interrupt_fsm.sv, "injects 6 NoOps into the CPU pipeline to clear  *)
(* it").  The FSM counts cycles and not instructions, so that a stall in   *)
(* an injection breaks this: nothing is said after one.                    *)
PipelineCleared ==
  clean /\ cpu_state \in {"SAVE_REGS", "RESTORE_REGS"} =>
    {FeDe, DeEx, ExMe, MeWb} = {NOP}

(* Outside of an injection and of a routine the flags are those the        *)
(* program wrote last, whatever a routine did in between.                  *)
FlagsPreserved ==
  clean /\ ~interrupted /\ cpu_state = "NORMAL_OPERATION" /\ MeWb.kind # "OP" =>
    FL = main_fl

(* No interrupt is taken inside a routine: there is one save slot.         *)
NoNesting ==
  [][interrupted => UNCHANGED <<PC_before_int, FL_before_int>>]_vars

(* The return brings the fetch back to the address it was at when the      *)
(* injection began, although that address is saved only eight cycles later *)
(* and stays in the save slot for the whole routine.                       *)
FetchResumes == [][interrupted /\ ~interrupted' => PC' = left]_vars

(* A request that finds the controller idle gets the jump to a routine     *)
(* through the pipeline (unless a stall falls into the injection, which    *)
(* may swallow it), and the processor never hangs in an injection.         *)
RequestEntersRoutine == IRR # {} /\ int_state = "IDLE" ~> interrupted \/ ~clean
InjectionEnds == cpu_state # "NORMAL_OPERATION" ~> cpu_state = "NORMAL_OPERATION"

(* When the routine has returned, the controller clears the request and    *)
(* can serve the next one (InterruptController.sv, "WAIT: Waiting for CPU  *)
(* to execute the service routine", "CLR: Clear interrupt request").       *)
ServiceCompletes ==
  interrupted /\ clean /\ cpu_state = "RESTORE_REGS" /\ int_state = "WAIT"
    ~> int_state = "CLR"
=============================================================================
