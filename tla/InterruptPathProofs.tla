------------------------ MODULE InterruptPathProofs -------------------------
(***************************************************************************)
(* Proofs about the interrupt controller, the processor's interrupt FSM    *)
(* and the pipeline together, for every set of devices, whatever words the *)
(* instruction memory shows and whenever the pipeline stalls.              *)
(***************************************************************************)
EXTENDS InterruptPath, TLAPS

(* The mask is open from the first edge on; before it nothing is pending.  *)
Masked == IMR = Devices \/ (int_state = "IDLE" /\ IRR = {} /\ ISR = {})

(* The processor acknowledges once, so the controller never leaves WAIT;   *)
(* hence requests are never cleared, and a device once in service stays    *)
(* pending.                                                                *)
Pending ==
  /\ int_state \notin {"CLR", "WAIT_CLR"}
  /\ ISR \subseteq IRR
  /\ int_state \in {"SERV_REQ", "NOOPS", "INSTR"} => ISR # {}

(* The jump is under way, or the routine runs: the controller waits.       *)
Entered ==
  /\ \A i \in {FeDe, DeEx, ExMe} : i.kind = "J" => int_state = "WAIT"
  /\ interrupted => int_state = "WAIT"

PInv == PathTypeOK /\ Masked /\ Pending /\ Handshake /\ Entered

-----------------------------------------------------------------------------
(* The controller                                                          *)

(* ISR_in is the set of one of the pending, enabled devices, if any.       *)
LEMMA OneInService ==
  ASSUME IMR \subseteq Devices
  PROVE  \/ IRR \cap IMR = {} /\ controller!ISR_in = {}
         \/ \E d \in IRR \cap IMR : controller!ISR_in = {d}
<1> DEFINE S == IRR \cap IMR
<1>1. CASE S = {}
  BY <1>1 DEF controller!ISR_in
<1>2. CASE S # {}
  <2>1. \A x \in S : x \in {0, 1, 2, 3, 4, 5, 6, 7}
    <3>1. S \subseteq 0..7
      BY LinesAssumption
    <3> HIDE DEF S
    <3> QED
      BY <3>1
  <2>2. \E x \in S : \A y \in S : x <= y
    <3> SUFFICES ASSUME \A x \in S : \E y \in S : y < x
                 PROVE  FALSE
      BY <2>1
    <3> HIDE DEF S
    <3>1. 0 \notin S /\ 1 \notin S /\ 2 \notin S /\ 3 \notin S
      BY <2>1
    <3>2. 4 \notin S /\ 5 \notin S /\ 6 \notin S /\ 7 \notin S
      BY <2>1, <3>1
    <3> QED
      BY <1>2, <2>1, <3>1, <3>2
  <2>3. controller!Min(S) \in S
    BY <2>2 DEF controller!Min
  <2>4. controller!ISR_in = {controller!Min(S)}
    BY <1>2 DEF controller!ISR_in
  <2> QED
    BY <2>3, <2>4
<1> QED
  BY <1>1, <1>2

(* The controller injects a jump in INSTR and only then.                   *)
LEMMA JumpInInstr ==
  ASSUME PInv
  PROVE  /\ int_state = "INSTR" => controller!INT_INSTR \in Devices
         /\ controller!INT_INSTR # NoOp <=> int_state = "INSTR"
<1>1. ISR \subseteq Devices
  BY DEF PInv, Pending, PathTypeOK, controller!TypeOK
<1>2. CASE int_state = "INSTR"
  <2>1. controller!INT_INSTR \in ISR
    BY <1>2 DEF PInv, Pending, controller!INT_INSTR
  <2> QED
    BY <1>1, <1>2, <2>1, LinesAssumption
<1>3. CASE int_state # "INSTR"
  BY <1>3 DEF controller!INT_INSTR
<1> QED
  BY <1>2, <1>3

-----------------------------------------------------------------------------
(* Types                                                                   *)

LEMMA Instructions ==
  /\ 0 \in Addr /\ NOP \in Slots /\ Words \subseteq Slots
  /\ \A a \in Addr : NextAddr(a) \in Addr /\ J(a) \in Slots
  /\ \A i \in Slots : i.kind \in {"BR", "J"} => i.arg \in Addr
  /\ \A i \in Slots : i.kind = "OP" => i.arg \in Flags
  /\ \A i \in Words : i.kind # "J"
<1>1. 0 \in Addr /\ NOP \in Slots /\ Words \subseteq Slots
  BY CodeAssumption DEF Addr, Words, Slots
<1>2. \A a \in Addr : NextAddr(a) \in Addr
  BY CodeAssumption, SMT DEF Addr, NextAddr
<1>3. \A a \in Addr : J(a) \in Slots
  BY DEF Slots
<1>4. \A i \in Words : /\ i.kind # "J"
                       /\ i.kind = "BR" => i.arg \in Addr
                       /\ i.kind = "OP" => i.arg \in Flags
  BY DEF Words, NOP
<1>5. \A a \in Addr : J(a).kind = "J" /\ J(a).arg = a
  BY DEF J
<1> QED
  BY <1>1, <1>2, <1>3, <1>4, <1>5 DEF Slots

(* A J enters the pipeline in INSTR only: no word of memory is one.        *)
LEMMA FetchedSlot ==
  ASSUME PInv, NEW word \in Words
  PROVE  Instr(word) \in Slots /\ (Instr(word).kind = "J" => int_state = "INSTR")
<1>1. CASE Instr(word) = NOP
  BY <1>1, Instructions DEF NOP
<1>2. CASE controller!INT_INSTR # NoOp /\ Instr(word) = J(Entry[controller!INT_INSTR])
  BY <1>2, JumpInInstr, Instructions, CodeAssumption
<1>3. CASE Instr(word) = word
  BY <1>3, Instructions
<1> QED
  BY <1>1, <1>2, <1>3 DEF Instr

LEMMA ControllerTypes ==
  ASSUME PInv, NEW IO \in SUBSET Devices, NEW stall \in BOOLEAN, NEW word \in Words,
         Cycle(IO, stall, word)
  PROVE  controller!TypeOK'
<1> USE DEF PInv, PathTypeOK, Cycle, controller!Clock, controller!Registers, controller!TypeOK
<1>1. int_state' \in controller!State
  BY DEF controller!Control, controller!Idle, controller!ServReq, controller!Noops,
         controller!Instr, controller!Wait, controller!Clr, controller!WaitClr, controller!State
<1>2. int_counter' \in 1..5
  BY DEF controller!Count
<1>3. IMR' \subseteq Devices /\ IRR' \subseteq Devices
  BY DEF controller!Requests
<1>4. \E d \in Devices : ISR' \subseteq {d}
  BY OneInService, LinesAssumption
<1> QED
  BY <1>1, <1>2, <1>3, <1>4

LEMMA PipelineTypes ==
  ASSUME PInv, NEW IO \in SUBSET Devices, NEW stall \in BOOLEAN, NEW word \in Words,
         Cycle(IO, stall, word)
  PROVE  PathTypeOK'
<1>1. controller!TypeOK'
  BY ControllerTypes
<1>2. cpu_state' \in fsm!State /\ cpu_counter' \in 1..6
  <2>1. cpu_state' \in fsm!State
    BY DEF Cycle, fsm!Clock, fsm!Control, fsm!NormalOperation, fsm!ClearPipelineInt,
           fsm!SaveRegs, fsm!AckInt, fsm!Injection, fsm!ClearPipelineRin, fsm!RestoreRegs,
           fsm!State
  <2>2. cpu_counter' \in 1..6
    BY DEF PInv, PathTypeOK, Cycle, fsm!Clock, fsm!Count
  <2> QED
    BY <2>1, <2>2
<1>3. PC_before_int' \in Addr /\ FL_before_int' \in Flags
  BY DEF PInv, PathTypeOK, Cycle, fsm!Clock, fsm!Save
<1>4. {FeDe', DeEx', ExMe', MeWb'} \subseteq Slots
  BY FetchedSlot, Instructions DEF PInv, PathTypeOK, Cycle, Pipeline
<1>5. PC' \in Addr
  BY Instructions DEF PInv, PathTypeOK, Cycle, Pipeline, PcNext, flush
<1>6. FL' \in Flags
  BY Instructions DEF PInv, PathTypeOK, Cycle, Pipeline
<1>7. /\ main_fl' \in Flags /\ left' \in Addr
      /\ interrupted' \in BOOLEAN /\ clean' \in BOOLEAN
  <2>1. Record(stall)
    BY DEF Cycle
  <2>2. interrupted' \in BOOLEAN /\ clean' \in BOOLEAN
    BY <2>1 DEF Record
  <2>3. main_fl' \in Flags
    BY <2>1, Instructions, CodeAssumption DEF PInv, PathTypeOK, Record
  <2>4. left' \in Addr
    BY <2>1, <1>5 DEF PInv, PathTypeOK, Record
  <2> QED
    BY <2>2, <2>3, <2>4
<1> QED
  BY <1>1, <1>2, <1>3, <1>4, <1>5, <1>6, <1>7 DEF PathTypeOK

-----------------------------------------------------------------------------
(* The two machines                                                        *)

LEMMA MachinesStep ==
  ASSUME PInv, NEW IO \in SUBSET Devices, NEW stall \in BOOLEAN, NEW word \in Words,
         Cycle(IO, stall, word)
  PROVE  /\ Handshake' /\ int_state' \notin {"CLR", "WAIT_CLR"}
         /\ int_state = "INSTR" => int_state' = "WAIT"
         /\ int_state = "WAIT" => int_state' = "WAIT"
<1> DEFINE rin == RIN(word)
<1>1. controller!Control(fsm!Ack)
  BY DEF Cycle, controller!Clock
<1>2. fsm!Control(controller!INT, rin, controller!INT_INSTR # NoOp)
  BY DEF Cycle, fsm!Clock
<1>3. fsm!Ack <=> cpu_state = "ACK_INT"
  BY DEF fsm!Ack
<1>4. controller!INT <=> int_state = "SERV_REQ"
  BY DEF controller!INT
<1>5. controller!INT_INSTR # NoOp <=> int_state = "INSTR"
  BY JumpInInstr
<1>6. Handshake /\ int_state \notin {"CLR", "WAIT_CLR"}
  BY DEF PInv, Pending
<1>7. /\ int_state = "INSTR" => int_state' = "WAIT"
      /\ int_state = "WAIT" => int_state' = "WAIT"
      /\ int_state = "NOOPS" => int_state' \in {"NOOPS", "INSTR"}
      /\ int_state = "IDLE" => int_state' \in {"IDLE", "SERV_REQ"}
      /\ int_state = "SERV_REQ" /\ cpu_state # "ACK_INT" => int_state' = "SERV_REQ"
      /\ int_state = "SERV_REQ" /\ cpu_state = "ACK_INT" => int_state' = "NOOPS"
      /\ int_state \in {"IDLE", "SERV_REQ", "NOOPS", "INSTR", "WAIT"}
  BY <1>1, <1>3, <1>6
     DEF Handshake, controller!Control, controller!Idle, controller!ServReq,
         controller!Noops, controller!Instr, controller!Wait, controller!Clr, controller!WaitClr
<1>8. /\ cpu_state = "NORMAL_OPERATION" =>
           /\ cpu_state' \in {"CLEAR_PIPELINE_INT", "CLEAR_PIPELINE_RIN", "NORMAL_OPERATION"}
           /\ cpu_state' = "CLEAR_PIPELINE_INT" => int_state = "SERV_REQ"
      /\ cpu_state = "CLEAR_PIPELINE_INT" => cpu_state' \in {"SAVE_REGS", "CLEAR_PIPELINE_INT"}
      /\ cpu_state = "SAVE_REGS" => cpu_state' = "ACK_INT"
      /\ cpu_state = "ACK_INT" => cpu_state' = "INJECTION"
      /\ cpu_state = "INJECTION" /\ int_state = "INSTR" => cpu_state' = "NORMAL_OPERATION"
      /\ cpu_state = "INJECTION" /\ int_state # "INSTR" => cpu_state' = "INJECTION"
      /\ cpu_state = "CLEAR_PIPELINE_RIN" => cpu_state' \in {"RESTORE_REGS", "CLEAR_PIPELINE_RIN"}
      /\ cpu_state = "RESTORE_REGS" => cpu_state' = "NORMAL_OPERATION"
      /\ cpu_state \in {"NORMAL_OPERATION", "CLEAR_PIPELINE_INT", "SAVE_REGS", "ACK_INT",
                        "INJECTION", "CLEAR_PIPELINE_RIN", "RESTORE_REGS"}
  BY <1>2, <1>4, <1>5
     DEF fsm!Control, fsm!NormalOperation, fsm!ClearPipelineInt, fsm!SaveRegs, fsm!AckInt,
         fsm!Injection, fsm!ClearPipelineRin, fsm!RestoreRegs
<1> HIDE DEF rin
<1>9. Handshake'
  BY <1>6, <1>7, <1>8 DEF Handshake
<1>10. int_state' \notin {"CLR", "WAIT_CLR"}
  BY <1>7
<1> QED
  BY <1>7, <1>9, <1>10

LEMMA PendingStep ==
  ASSUME PInv, NEW IO \in SUBSET Devices, NEW stall \in BOOLEAN, NEW word \in Words,
         Cycle(IO, stall, word)
  PROVE  Masked' /\ Pending'
<1>1. IMR' = Devices /\ IRR' = controller!Requests(IO) /\ ISR' = controller!ISR_in
  BY DEF Cycle, controller!Clock, controller!Registers
<1>2. IRR \subseteq IRR'
  BY <1>1 DEF PInv, Pending, controller!Requests, controller!Cleared
<1>3. IMR \subseteq Devices /\ IRR \subseteq Devices
  BY DEF PInv, PathTypeOK, controller!TypeOK
<1>4. ISR' \subseteq IRR /\ (IRR \cap IMR # {} => ISR' # {})
  BY <1>1, <1>3, OneInService
<1>5. int_state' \in {"SERV_REQ", "NOOPS", "INSTR"} => ISR # {}
  BY DEF PInv, Pending, Cycle, controller!Clock, controller!Control, controller!Idle,
         controller!ServReq, controller!Noops, controller!Instr, controller!Wait,
         controller!Clr, controller!WaitClr
<1>6. ISR # {} => IRR \cap IMR # {}
  BY <1>3 DEF PInv, Masked, Pending
<1> QED
  BY <1>1, <1>2, <1>4, <1>5, <1>6, MachinesStep DEF Masked, Pending

LEMMA EnteredStep ==
  ASSUME PInv, NEW IO \in SUBSET Devices, NEW stall \in BOOLEAN, NEW word \in Words,
         Cycle(IO, stall, word)
  PROVE  Entered'
<1>1. \A i \in {FeDe, DeEx, ExMe} : i.kind = "J" => int_state' = "WAIT"
  BY MachinesStep DEF PInv, Entered
<1>2. Instr(word).kind = "J" => int_state' = "WAIT"
  BY FetchedSlot, MachinesStep
<1>3. NOP.kind # "J"
  BY DEF NOP
<1>4. /\ FeDe' \in {NOP, FeDe, Instr(word)} /\ DeEx' \in {NOP, DeEx, FeDe}
      /\ ExMe' \in {ExMe, NOP, DeEx}
  BY DEF Cycle, Pipeline
<1>5. \A i \in {FeDe', DeEx', ExMe'} : i.kind = "J" => int_state' = "WAIT"
  BY <1>1, <1>2, <1>3, <1>4
<1>6. interrupted' => ExMe.kind = "J" \/ interrupted
  BY DEF Cycle, Record
<1>7. interrupted => int_state' = "WAIT"
  BY MachinesStep DEF PInv, Entered
<1> QED
  BY <1>1, <1>5, <1>6, <1>7 DEF Entered

-----------------------------------------------------------------------------
(* The invariant                                                           *)

LEMMA InitPInv == Init => PInv
<1> SUFFICES ASSUME Init
             PROVE  PInv
  OBVIOUS
<1>1. 0 \in Addr /\ NOP \in Slots
  BY Instructions
<1>2. controller!TypeOK
  <2>1. \E d \in Devices : ISR \subseteq {d}
    BY LinesAssumption DEF Init, controller!Init
  <2> QED
    BY <2>1 DEF Init, controller!Init, controller!TypeOK, controller!State
<1>3. PathTypeOK
  <2>1. cpu_state \in fsm!State /\ cpu_counter \in 1..6
    BY DEF Init, fsm!Init, fsm!State
  <2>2. /\ PC_before_int \in Addr /\ FL_before_int \in Flags
        /\ PC \in Addr /\ FL \in Flags /\ main_fl \in Flags /\ left \in Addr
    BY <1>1, CodeAssumption DEF Init, fsm!Init
  <2>3. {FeDe, DeEx, ExMe, MeWb} \subseteq Slots
    BY <1>1 DEF Init
  <2>4. interrupted \in BOOLEAN /\ clean \in BOOLEAN
    BY DEF Init
  <2> QED
    BY <1>2, <2>1, <2>2, <2>3, <2>4 DEF PathTypeOK
<1>4. Masked /\ Pending /\ Handshake
  BY DEF Init, controller!Init, fsm!Init, Masked, Pending, Handshake
<1>5. Entered
  BY DEF Init, Entered, NOP
<1> QED
  BY <1>3, <1>4, <1>5 DEF PInv

LEMMA NextPInv == PInv /\ [Next]_vars => PInv'
<1> SUFFICES ASSUME PInv, [Next]_vars
             PROVE  PInv'
  OBVIOUS
<1>1. CASE Next
  <2>1. PICK IO \in SUBSET Devices, stall \in BOOLEAN, word \in Words : Cycle(IO, stall, word)
    BY <1>1 DEF Next
  <2> QED
    BY <2>1, PipelineTypes, MachinesStep, PendingStep, EnteredStep DEF PInv
<1>2. CASE UNCHANGED vars
  BY <1>2 DEF vars, intVars, fsmVars, pipeVars, history, PInv, PathTypeOK, controller!TypeOK,
              Masked, Pending, Handshake, Entered
<1> QED
  BY <1>1, <1>2

-----------------------------------------------------------------------------
(* One edge of the processor's FSM: where it goes, what it counts, saves   *)
(* and injects.                                                            *)
LEMMA FsmMoves ==
  ASSUME PInv, NEW IO \in SUBSET Devices, NEW stall \in BOOLEAN, NEW word \in Words,
         Cycle(IO, stall, word)
  PROVE  /\ cpu_state \in fsm!State /\ cpu_counter \in 1..6
         /\ cpu_state = "NORMAL_OPERATION" =>
              /\ cpu_counter' = 1
              /\ cpu_state' \in {"NORMAL_OPERATION", "CLEAR_PIPELINE_INT", "CLEAR_PIPELINE_RIN"}
              /\ cpu_state' = "CLEAR_PIPELINE_INT" => int_state = "SERV_REQ"
         /\ cpu_state \in fsm!Clearing =>
              IF cpu_counter = 6
              THEN cpu_state' = IF cpu_state = "CLEAR_PIPELINE_INT" THEN "SAVE_REGS" ELSE "RESTORE_REGS"
              ELSE cpu_state' = cpu_state /\ cpu_counter' = cpu_counter + 1
         /\ cpu_state = "SAVE_REGS" => cpu_state' = "ACK_INT"
         /\ cpu_state = "ACK_INT" => cpu_state' = "INJECTION"
         /\ cpu_state = "INJECTION" =>
              cpu_state' = IF int_state = "INSTR" THEN "NORMAL_OPERATION" ELSE "INJECTION"
         /\ cpu_state = "RESTORE_REGS" => cpu_state' = "NORMAL_OPERATION"
         /\ IF cpu_state = "SAVE_REGS" THEN PC_before_int' = PC /\ FL_before_int' = FL
                                       ELSE UNCHANGED <<PC_before_int, FL_before_int>>
         /\ cpu_state \notin {"NORMAL_OPERATION", "INJECTION"} => Instr(word) = NOP
         /\ cpu_state = "INJECTION" /\ int_state # "INSTR" => Instr(word) = NOP
<1> DEFINE rin == RIN(word)
<1>1. /\ cpu_state \in fsm!State /\ cpu_counter \in 1..6
      /\ controller!INT <=> int_state = "SERV_REQ"
      /\ controller!INT_INSTR # NoOp <=> int_state = "INSTR"
  BY JumpInInstr DEF PInv, PathTypeOK, controller!INT
<1>2. /\ fsm!Control(controller!INT, rin, controller!INT_INSTR # NoOp)
      /\ cpu_counter' = fsm!Count
      /\ fsm!Save(PC, FL)
  BY DEF Cycle, fsm!Clock
<1>3. /\ cpu_state \notin {"NORMAL_OPERATION", "INJECTION"} => Instr(word) = NOP
      /\ cpu_state = "INJECTION" /\ int_state # "INSTR" => Instr(word) = NOP
  BY <1>1 DEF Instr, fsm!UseCpuInjection, fsm!UseIntInstr, fsm!Clearing, fsm!State
<1> HIDE DEF rin
<1> QED
  BY <1>1, <1>2, <1>3
     DEF fsm!Control, fsm!NormalOperation, fsm!ClearPipelineInt, fsm!SaveRegs, fsm!AckInt,
         fsm!Injection, fsm!ClearPipelineRin, fsm!RestoreRegs, fsm!Count, fsm!Clearing, fsm!Save

-----------------------------------------------------------------------------
(* Pipeline and flags, as long as no stall has fallen into an injection    *)

(* Each NoOp the FSM counts has cleared one more stage.                    *)
Drained ==
  /\ cpu_state \in fsm!Clearing =>
       /\ cpu_counter >= 2 => FeDe = NOP
       /\ cpu_counter >= 3 => DeEx = NOP
       /\ cpu_counter >= 4 => ExMe = NOP
       /\ cpu_counter >= 5 => MeWb = NOP
  /\ cpu_state \in {"SAVE_REGS", "ACK_INT", "INJECTION", "RESTORE_REGS"} =>
       FeDe = NOP /\ DeEx = NOP /\ ExMe = NOP /\ MeWb = NOP

JumpUnderWay == \E i \in {FeDe, DeEx, ExMe} : i.kind = "J"

(* Nothing of the program is before the jump in the pipeline.              *)
JumpAlone ==
  /\ FeDe.kind = "J" => DeEx = NOP /\ ExMe = NOP
  /\ DeEx.kind = "J" => ExMe = NOP

(* From the acknowledge to the restore the saved flags are those the       *)
(* program left.                                                           *)
Saved ==
  interrupted \/ JumpUnderWay \/ cpu_state \in {"ACK_INT", "INJECTION"} =>
    FL_before_int = main_fl

(* Outside of the routine the flags are the program's, once its last       *)
(* instruction has written them.                                           *)
Written == ~interrupted => main_fl = IF MeWb.kind = "OP" THEN MeWb.arg ELSE FL

CleanInv == clean => Drained /\ JumpAlone /\ Saved /\ Written

(* A cycle that leaves the history clean: the pipeline stands or is        *)
(* flushed, in normal operation, or moves on.                              *)
Stands ==
  /\ cpu_state = "NORMAL_OPERATION" /\ UNCHANGED <<ExMe, MeWb, main_fl, interrupted>>
  /\ UNCHANGED <<FeDe, DeEx>> \/ (flush /\ FeDe' = NOP /\ DeEx' = NOP)

Moves(word) ==
  /\ MeWb' = ExMe
  /\ \/ flush /\ FeDe' = NOP /\ DeEx' = NOP /\ ExMe' = NOP
     \/ ~flush /\ FeDe' = Instr(word) /\ DeEx' = FeDe /\ ExMe' = DeEx
  /\ interrupted' <=> cpu_state # "RESTORE_REGS" /\ (interrupted \/ ExMe.kind = "J")
  /\ main_fl' = IF interrupted THEN main_fl
                ELSE IF cpu_state = "RESTORE_REGS" THEN FL_before_int
                ELSE IF ExMe.kind = "OP" THEN ExMe.arg ELSE main_fl

FlagsMove ==
  FL' = IF cpu_state = "RESTORE_REGS" THEN FL_before_int
        ELSE IF MeWb.kind = "OP" THEN MeWb.arg ELSE FL

LEMMA CleanCycle ==
  ASSUME PInv, NEW IO \in SUBSET Devices, NEW stall \in BOOLEAN, NEW word \in Words,
         Cycle(IO, stall, word), clean'
  PROVE  clean /\ FlagsMove /\ (Stands \/ Moves(word))
<1>1. Pipeline(stall, word) /\ Record(stall)
  BY DEF Cycle
<1>2. clean /\ (stall => cpu_state = "NORMAL_OPERATION")
  BY <1>1 DEF Record
<1>3. FlagsMove
  BY <1>1 DEF Pipeline, FlagsMove, fsm!Restore
<1>4. interrupted \in BOOLEAN
  BY DEF PInv, PathTypeOK
<1>5. CASE stall
  <2>1. UNCHANGED <<main_fl, interrupted>>
    BY <1>1, <1>2, <1>4, <1>5 DEF Record, fsm!Restore
  <2> QED
    BY <1>1, <1>2, <1>3, <1>5, <2>1 DEF Pipeline, Stands
<1>6. CASE ~stall
  <2>1. /\ interrupted' <=> cpu_state # "RESTORE_REGS" /\ (interrupted \/ ExMe.kind = "J")
        /\ main_fl' = IF interrupted THEN main_fl
                      ELSE IF cpu_state = "RESTORE_REGS" THEN FL_before_int
                      ELSE IF ExMe.kind = "OP" THEN ExMe.arg ELSE main_fl
    BY <1>1, <1>6 DEF Record, fsm!Restore
  <2>2. MeWb' = ExMe /\ \/ flush /\ FeDe' = NOP /\ DeEx' = NOP /\ ExMe' = NOP
                        \/ ~flush /\ FeDe' = Instr(word) /\ DeEx' = FeDe /\ ExMe' = DeEx
    BY <1>1, <1>6 DEF Pipeline
  <2> QED
    BY <1>2, <1>3, <2>1, <2>2 DEF Moves
<1> QED
  BY <1>5, <1>6

LEMMA DrainedStep ==
  ASSUME PInv, CleanInv, NEW IO \in SUBSET Devices, NEW stall \in BOOLEAN, NEW word \in Words,
         Cycle(IO, stall, word), clean'
  PROVE  Drained'
<1>1. Drained /\ (Stands \/ Moves(word))
  BY CleanCycle DEF CleanInv
<1>2. ~(NOP.kind \in {"BR", "J"})
  BY DEF NOP
<1>3. CASE cpu_state = "NORMAL_OPERATION"
  BY <1>3, FsmMoves DEF Drained, fsm!Clearing
<1>4. CASE Moves(word) /\ cpu_state \in fsm!Clearing
  <2>1. /\ MeWb' = ExMe /\ FeDe' = NOP
        /\ DeEx' \in {NOP, FeDe} /\ ExMe' \in {NOP, DeEx}
    BY <1>4, FsmMoves DEF Moves, fsm!Clearing
  <2>2. /\ cpu_counter >= 2 => FeDe = NOP
        /\ cpu_counter >= 3 => DeEx = NOP
        /\ cpu_counter >= 4 => ExMe = NOP
    BY <1>1, <1>4 DEF Drained
  <2>3. IF cpu_counter = 6 THEN cpu_state' \in {"SAVE_REGS", "RESTORE_REGS"}
        ELSE cpu_state' \in fsm!Clearing /\ cpu_counter' = cpu_counter + 1
    BY <1>4, FsmMoves
  <2>4. cpu_counter \in 1..6
    BY FsmMoves
  <2> QED
    BY <2>1, <2>2, <2>3, <2>4 DEF Drained, fsm!Clearing
<1>5. CASE Moves(word) /\ cpu_state \in {"SAVE_REGS", "ACK_INT", "INJECTION", "RESTORE_REGS"}
  <2>1. FeDe = NOP /\ DeEx = NOP /\ ExMe = NOP
    BY <1>1, <1>5 DEF Drained
  <2>2. MeWb' = NOP /\ DeEx' = NOP /\ ExMe' = NOP /\ FeDe' \in {NOP, Instr(word)}
    BY <1>5, <2>1 DEF Moves
  <2>3. /\ cpu_state' \in {"ACK_INT", "INJECTION", "NORMAL_OPERATION"}
        /\ Instr(word) = NOP \/ cpu_state' = "NORMAL_OPERATION"
    BY <1>5, FsmMoves
  <2> QED
    BY <2>2, <2>3 DEF Drained, fsm!Clearing
<1> QED
  BY <1>1, <1>3, <1>4, <1>5, FsmMoves DEF fsm!State, fsm!Clearing, Stands

LEMMA JumpAloneStep ==
  ASSUME PInv, CleanInv, NEW IO \in SUBSET Devices, NEW stall \in BOOLEAN, NEW word \in Words,
         Cycle(IO, stall, word), clean'
  PROVE  JumpAlone'
<1>1. Drained /\ JumpAlone /\ (Stands \/ Moves(word))
  BY CleanCycle DEF CleanInv
<1>2. NOP.kind # "J"
  BY DEF NOP
<1>3. CASE Stands
  BY <1>1, <1>2, <1>3 DEF Stands, JumpAlone
<1>4. CASE Moves(word) /\ flush
  BY <1>2, <1>4 DEF Moves, JumpAlone
<1>5. CASE Moves(word) /\ ~flush
  <2>1. FeDe' = Instr(word) /\ DeEx' = FeDe /\ ExMe' = DeEx
    BY <1>5 DEF Moves
  <2>2. Instr(word).kind = "J" => FeDe = NOP /\ DeEx = NOP
    BY <1>1, FetchedSlot DEF PInv, Handshake, Drained
  <2>3. FeDe.kind = "J" => DeEx = NOP
    BY <1>1 DEF JumpAlone
  <2> QED
    BY <2>1, <2>2, <2>3 DEF JumpAlone
<1> QED
  BY <1>1, <1>3, <1>4, <1>5

(* A jump under way after the step was so before, or comes from the        *)
(* controller into an empty pipeline.                                      *)
LEMMA JumpMoves ==
  ASSUME PInv, CleanInv, NEW IO \in SUBSET Devices, NEW stall \in BOOLEAN, NEW word \in Words,
         Cycle(IO, stall, word), clean', JumpUnderWay'
  PROVE  JumpUnderWay \/ cpu_state = "INJECTION"
<1>1. /\ FeDe' \in {NOP, FeDe, Instr(word)} /\ DeEx' \in {NOP, DeEx, FeDe}
      /\ ExMe' \in {ExMe, NOP, DeEx}
  BY DEF Cycle, Pipeline
<1>2. NOP.kind # "J"
  BY DEF NOP
<1>3. Instr(word).kind = "J" => cpu_state = "INJECTION"
  BY FetchedSlot DEF PInv, Handshake
<1> QED
  BY <1>1, <1>2, <1>3 DEF JumpUnderWay

LEMMA SavedStep ==
  ASSUME PInv, CleanInv, NEW IO \in SUBSET Devices, NEW stall \in BOOLEAN, NEW word \in Words,
         Cycle(IO, stall, word), clean'
  PROVE  Saved'
<1> SUFFICES ASSUME interrupted' \/ JumpUnderWay' \/ cpu_state' \in {"ACK_INT", "INJECTION"}
             PROVE  FL_before_int' = main_fl'
  BY DEF Saved
<1>1. Drained /\ JumpAlone /\ Saved /\ Written /\ (Stands \/ Moves(word))
  BY CleanCycle DEF CleanInv
<1>2. NOP.kind = "NOOP"
  BY DEF NOP
<1>3. CASE cpu_state = "SAVE_REGS"
  <2>1. ~interrupted
    BY <1>3 DEF PInv, Handshake, Entered
  <2>2. Moves(word) /\ ExMe = NOP /\ MeWb = NOP
    BY <1>1, <1>3 DEF Stands, Drained
  <2>3. FL = main_fl
    BY <1>1, <1>2, <2>1, <2>2 DEF Written
  <2>4. main_fl' = main_fl
    BY <1>2, <1>3, <2>1, <2>2 DEF Moves
  <2>5. FL_before_int' = FL
    BY <1>3, FsmMoves
  <2> QED
    BY <2>3, <2>4, <2>5
<1>4. CASE cpu_state # "SAVE_REGS"
  <2>1. FL_before_int' = FL_before_int
    BY <1>4, FsmMoves
  <2>2. interrupted' => interrupted \/ JumpUnderWay
    BY <1>1 DEF Stands, Moves, JumpUnderWay
  <2>3. cpu_state' \in {"ACK_INT", "INJECTION"} => cpu_state \in {"ACK_INT", "INJECTION"}
    BY <1>4, FsmMoves DEF fsm!State, fsm!Clearing
  <2>4. interrupted \/ JumpUnderWay \/ cpu_state \in {"ACK_INT", "INJECTION"}
    BY <2>2, <2>3, JumpMoves
  <2>5. FL_before_int = main_fl
    BY <1>1, <2>4 DEF Saved
  <2>6. CASE interrupted
    BY <1>1, <2>1, <2>5, <2>6 DEF Stands, Moves
  <2>7. CASE ~interrupted
    <3>1. ExMe.kind # "OP"
      BY <1>1, <1>2, <2>4, <2>7 DEF Drained, JumpAlone, JumpUnderWay
    <3>2. main_fl' \in {main_fl, FL_before_int}
      BY <1>1, <3>1 DEF Stands, Moves
    <3> QED
      BY <2>1, <2>5, <3>2
  <2> QED
    BY <2>6, <2>7
<1> QED
  BY <1>3, <1>4

LEMMA WrittenStep ==
  ASSUME PInv, CleanInv, NEW IO \in SUBSET Devices, NEW stall \in BOOLEAN, NEW word \in Words,
         Cycle(IO, stall, word), clean'
  PROVE  Written'
<1> SUFFICES ASSUME ~interrupted'
             PROVE  main_fl' = IF MeWb'.kind = "OP" THEN MeWb'.arg ELSE FL'
  BY DEF Written
<1>1. Drained /\ Saved /\ Written /\ FlagsMove /\ (Stands \/ Moves(word))
  BY CleanCycle DEF CleanInv
<1>2. CASE cpu_state = "RESTORE_REGS"
  <2>1. Moves(word) /\ ExMe = NOP
    BY <1>1, <1>2 DEF Stands, Drained
  <2>2. MeWb'.kind # "OP"
    BY <2>1 DEF Moves, NOP
  <2>3. main_fl' = FL_before_int
    BY <1>1, <1>2, <2>1 DEF Moves, Saved
  <2> QED
    BY <1>1, <1>2, <2>2, <2>3 DEF FlagsMove
<1>3. CASE cpu_state # "RESTORE_REGS"
  <2>1. ~interrupted
    BY <1>1, <1>3 DEF Stands, Moves
  <2>2. main_fl = FL'
    BY <1>1, <1>3, <2>1 DEF Written, FlagsMove
  <2>3. CASE Stands
    BY <1>1, <2>1, <2>2, <2>3 DEF Stands, Written
  <2>4. CASE Moves(word)
    BY <1>3, <2>1, <2>2, <2>4 DEF Moves
  <2> QED
    BY <1>1, <2>3, <2>4
<1> QED
  BY <1>2, <1>3

LEMMA InitCleanInv == Init => CleanInv
<1> SUFFICES ASSUME Init PROVE Drained /\ JumpAlone /\ Saved /\ Written
  BY DEF CleanInv
<1>1. /\ FeDe = NOP /\ DeEx = NOP /\ ExMe = NOP /\ MeWb = NOP
      /\ NOP.kind = "NOOP"
      /\ cpu_state = "NORMAL_OPERATION" /\ ~interrupted /\ main_fl = 0 /\ FL = 0
  BY DEF Init, fsm!Init, NOP
<1> QED
  BY <1>1 DEF Drained, JumpAlone, Saved, JumpUnderWay, Written, fsm!Clearing

LEMMA NextCleanInv == PInv /\ CleanInv /\ [Next]_vars => CleanInv'
<1> SUFFICES ASSUME PInv, CleanInv, [Next]_vars
             PROVE  CleanInv'
  OBVIOUS
<1>1. CASE Next
  <2>1. PICK IO \in SUBSET Devices, stall \in BOOLEAN, word \in Words : Cycle(IO, stall, word)
    BY <1>1 DEF Next
  <2> QED
    BY <2>1, DrainedStep, JumpAloneStep, SavedStep, WrittenStep DEF CleanInv
<1>2. CASE UNCHANGED vars
  BY <1>2 DEF vars, intVars, fsmVars, pipeVars, history, CleanInv, Drained, JumpAlone,
              JumpUnderWay, Saved, Written
<1> QED
  BY <1>1, <1>2

-----------------------------------------------------------------------------
(* The way back: the address the injection found in the PC stays there     *)
(* until it is saved, and in the save slot until it is restored.           *)
WayBack ==
  /\ cpu_state \in {"CLEAR_PIPELINE_INT", "SAVE_REGS"} => PC = left
  /\ cpu_state \in {"ACK_INT", "INJECTION"} \/ int_state = "WAIT" => PC_before_int = left

LEMMA WayBackStep ==
  ASSUME PInv, WayBack, NEW IO \in SUBSET Devices, NEW stall \in BOOLEAN, NEW word \in Words,
         Cycle(IO, stall, word)
  PROVE  WayBack'
<1>1. /\ cpu_state = "NORMAL_OPERATION" /\ cpu_state' = "CLEAR_PIPELINE_INT" => left' = PC'
      /\ cpu_state # "NORMAL_OPERATION" \/ cpu_state' # "CLEAR_PIPELINE_INT" => left' = left
  BY DEF Cycle, Record
<1>2. cpu_state \in {"CLEAR_PIPELINE_INT", "SAVE_REGS"} => PC' = PC
  BY DEF Cycle, Pipeline, PcNext, fsm!Restore, fsm!UseCpuInjection, fsm!Clearing
<1>3. /\ cpu_state' = "CLEAR_PIPELINE_INT" => cpu_state \in {"NORMAL_OPERATION", "CLEAR_PIPELINE_INT"}
      /\ cpu_state' = "SAVE_REGS" => cpu_state = "CLEAR_PIPELINE_INT"
      /\ cpu_state' = "ACK_INT" => cpu_state = "SAVE_REGS"
      /\ cpu_state' = "INJECTION" => cpu_state \in {"ACK_INT", "INJECTION"}
      /\ IF cpu_state = "SAVE_REGS" THEN PC_before_int' = PC ELSE PC_before_int' = PC_before_int
  BY FsmMoves DEF fsm!State, fsm!Clearing
<1>4. int_state' = "WAIT" => cpu_state = "INJECTION" \/ int_state = "WAIT"
  BY DEF PInv, Handshake, Cycle, controller!Clock, controller!Control, controller!Idle,
         controller!ServReq, controller!Noops, controller!Instr, controller!Wait,
         controller!Clr, controller!WaitClr
<1>5. int_state = "WAIT" => cpu_state # "SAVE_REGS" /\ cpu_state' # "CLEAR_PIPELINE_INT"
  BY FsmMoves DEF PInv, Handshake, fsm!State, fsm!Clearing
<1>6. cpu_state' \in {"CLEAR_PIPELINE_INT", "SAVE_REGS"} => PC' = left'
  BY <1>1, <1>2, <1>3 DEF WayBack
<1>7. cpu_state' \in {"ACK_INT", "INJECTION"} \/ int_state' = "WAIT" => PC_before_int' = left'
  <2>1. CASE cpu_state = "SAVE_REGS"
    BY <1>1, <1>3, <2>1 DEF WayBack
  <2>2. CASE cpu_state # "SAVE_REGS"
    BY <1>1, <1>3, <1>4, <1>5, <2>2 DEF WayBack
  <2> QED
    BY <2>1, <2>2
<1> QED
  BY <1>6, <1>7 DEF WayBack

LEMMA NextWayBack == PInv /\ WayBack /\ [Next]_vars => WayBack'
<1> SUFFICES ASSUME PInv, WayBack, [Next]_vars
             PROVE  WayBack'
  OBVIOUS
<1>1. CASE Next
  BY <1>1, WayBackStep DEF Next
<1>2. CASE UNCHANGED vars
  BY <1>2 DEF vars, intVars, fsmVars, pipeVars, history, WayBack
<1> QED
  BY <1>1, <1>2

-----------------------------------------------------------------------------
(* For every set of devices and any words of the instruction memory: both  *)
(* machines, the pipeline and the history keep their types, and the        *)
(* interrupt controller and the processor's FSM, which share three wires,  *)
(* keep step.                                                              *)
THEOREM PathInvariant == Spec => [](PathTypeOK /\ Handshake)
<1>1. PInv => PathTypeOK /\ Handshake
  BY DEF PInv
<1> QED
  BY <1>1, InitPInv, NextPInv, PTL DEF Spec

(* As above: the saved registers of CPU_interrupt_fsm.sv are not           *)
(* overwritten while a routine runs.                                       *)
THEOREM SaveSlotKept == Spec => NoNesting
<1>1. PInv /\ [Next]_vars =>
        [interrupted => UNCHANGED <<PC_before_int, FL_before_int>>]_vars
  BY DEF PInv, Entered, Handshake, Next, Cycle, fsm!Clock, fsm!Save
<1> QED
  BY <1>1, InitPInv, NextPInv, PTL DEF Spec, NoNesting

(* For every pattern of requests, words and stalls: once the controller    *)
(* waits for the routine it waits for ever, so the code serves one         *)
(* interrupt per reset.                                                    *)
THEOREM OneInterrupt == Spec => [][int_state = "WAIT" => int_state' = "WAIT"]_vars
<1>1. PInv /\ [Next]_vars => [int_state = "WAIT" => int_state' = "WAIT"]_vars
  BY MachinesStep DEF Next
<1> QED
  BY <1>1, InitPInv, NextPInv, PTL DEF Spec

(* As above, as long as no stall falls into an injection: when             *)
(* CPU_interrupt_fsm.sv saves or restores the special registers, its       *)
(* NoOps have cleared the pipeline, also when a branch was under way.      *)
THEOREM PipelineIsCleared == Spec => []PipelineCleared
<1>1. CleanInv => PipelineCleared
  BY DEF CleanInv, Drained, PipelineCleared
<1> QED
  BY <1>1, InitPInv, NextPInv, InitCleanInv, NextCleanInv, PTL DEF Spec

(* As above: after the return the program finds the flags it left,         *)
(* whatever the routine did with them.                                     *)
THEOREM FlagsArePreserved == Spec => []FlagsPreserved
<1>1. CleanInv => FlagsPreserved
  BY DEF CleanInv, Written, FlagsPreserved
<1> QED
  BY <1>1, InitPInv, NextPInv, InitCleanInv, NextCleanInv, PTL DEF Spec

(* For every pattern of requests, words and stalls: the fetch goes on      *)
(* after the restore where it was when the injection began (fetch.sv 94,   *)
(* CPU_interrupt_fsm.sv 140-150).                                          *)
THEOREM FetchReturns == Spec => FetchResumes
<1>1. Init => WayBack
  BY DEF Init, controller!Init, fsm!Init, WayBack
<1>2. PInv /\ WayBack /\ [Next]_vars => [interrupted /\ ~interrupted' => PC' = left]_vars
  <2> SUFFICES ASSUME PInv, WayBack, Next, interrupted, ~interrupted'
               PROVE  PC' = left
    OBVIOUS
  <2>1. PICK IO \in SUBSET Devices, stall \in BOOLEAN, word \in Words : Cycle(IO, stall, word)
    BY DEF Next
  <2>2. fsm!Restore
    BY <2>1 DEF Cycle, Record
  <2>3. PC' = PC_before_int
    BY <2>1, <2>2 DEF Cycle, Pipeline, PcNext
  <2>4. int_state = "WAIT"
    BY DEF PInv, Entered
  <2> QED
    BY <2>3, <2>4 DEF WayBack
<1> QED
  BY <1>1, <1>2, InitPInv, NextPInv, NextWayBack, PTL DEF Spec, FetchResumes
=============================================================================
