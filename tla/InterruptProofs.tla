-------------------------- MODULE InterruptProofs ---------------------------
(***************************************************************************)
(* Proofs about the interrupt controller between any devices, any mask and *)
(* a processor that acknowledges at any time.                              *)
(***************************************************************************)
EXTENDS InterruptClient, TLAPS

(* The mask is the one afu.sv ties from the first edge on; before it       *)
(* nothing is pending.                                                     *)
Masked == IMR = Enabled \/ (state = "IDLE" /\ IRR = {} /\ ISR = {})

(* The device in service is pending, except in the cycle after it has been *)
(* cleared, when ISR still shows what IRR was.                             *)
InService == state # "WAIT_CLR" => ISR \subseteq IRR \cap Enabled

(* From the jump to the clear the request that was jumped for is pending,  *)
(* and it is the one in service unless a more urgent one came in.          *)
Serving ==
  state \in {"WAIT", "CLR"} =>
    served \in IRR \cap Enabled /\ (overtaken \/ ISR = {served})

IInv ==
  /\ TypeOK
  /\ served \in Devices \cup {NoOp} /\ overtaken \in BOOLEAN
  /\ Masked /\ InService /\ JumpForPending /\ Serving

-----------------------------------------------------------------------------
(* The priority logic                                                      *)

LEMMA MinIsLeast ==
  ASSUME NEW S \in SUBSET (0..7), S # {}
  PROVE  Min(S) \in S /\ \A y \in S : Min(S) <= y
<1>1. \E x \in S : \A y \in S : x <= y
  <2> SUFFICES ASSUME \A x \in S : \E y \in S : y < x
               PROVE  FALSE
    OBVIOUS
  <2>1. 0 \notin S /\ 1 \notin S /\ 2 \notin S /\ 3 \notin S
    OBVIOUS
  <2>2. 4 \notin S /\ 5 \notin S /\ 6 \notin S /\ 7 \notin S
    BY <2>1
  <2>3. PICK x \in S : x \in 0..7
    OBVIOUS
  <2>4. x \in {0, 1, 2, 3, 4, 5, 6, 7}
    BY <2>3
  <2> QED
    BY <2>1, <2>2, <2>4
<1> QED
  BY <1>1 DEF Min

(* ISR_in is empty when nothing is pending and enabled, else it is the     *)
(* most urgent such device.                                                *)
LEMMA MostUrgent ==
  ASSUME TypeOK
  PROVE  \/ IRR \cap IMR = {} /\ ISR_in = {}
         \/ \E d \in IRR \cap IMR : ISR_in = {d} /\ \A e \in IRR \cap IMR : d <= e
<1>1. IRR \cap IMR \in SUBSET (0..7)
  BY DevicesAssumption DEF TypeOK
<1>2. CASE IRR \cap IMR = {}
  BY <1>2 DEF ISR_in
<1>3. CASE IRR \cap IMR # {}
  <2>1. ISR_in = {Min(IRR \cap IMR)}
    BY <1>3 DEF ISR_in
  <2> QED
    BY <1>1, <1>3, <2>1, MinIsLeast
<1> QED
  BY <1>2, <1>3

(* The jump goes to the device in service.                                 *)
LEMMA JumpTarget ==
  ASSUME IInv
  PROVE  /\ state = "INSTR" => INT_INSTR \in ISR /\ INT_INSTR # NoOp
         /\ state # "INSTR" => INT_INSTR = NoOp
BY DevicesAssumption, Zenon DEF IInv, JumpForPending, INT_INSTR, TypeOK

(* Requests are forgotten in CLR only, and only the one in service.        *)
LEMMA Forgotten ==
  ASSUME NEW IO \in SUBSET Devices
  PROVE  /\ state # "CLR" => IRR \subseteq Requests(IO)
         /\ IRR \ Requests(IO) \subseteq ISR
BY DEF Requests, Cleared

-----------------------------------------------------------------------------
(* The invariant                                                           *)

LEMMA InitIInv == ClientInit => IInv
<1> SUFFICES ASSUME ClientInit
             PROVE  IInv
  OBVIOUS
<1>1. TypeOK
  <2>1. \E d \in Devices : ISR \subseteq {d}
    BY DevicesAssumption DEF ClientInit, Init
  <2> QED
    BY <2>1 DEF ClientInit, Init, TypeOK, State
<1>2. served \in Devices \cup {NoOp} /\ overtaken \in BOOLEAN
  BY DEF ClientInit
<1>3. Masked /\ InService /\ JumpForPending /\ Serving
  BY DEF ClientInit, Init, Masked, InService, JumpForPending, Serving
<1> QED
  BY <1>1, <1>2, <1>3 DEF IInv

LEMMA TypeStep ==
  ASSUME IInv, NEW IO \in SUBSET Devices, NEW ACK \in BOOLEAN, Cycle(IO, ACK)
  PROVE  TypeOK' /\ served' \in Devices \cup {NoOp} /\ overtaken' \in BOOLEAN
<1> USE DEF IInv, Cycle, Clock, Registers
<1>1. state' \in State
  BY DEF Control, Idle, ServReq, Noops, Instr, Wait, Clr, WaitClr, State
<1>2. counter' \in 1..5
  BY DEF Count, TypeOK
<1>3. IMR' \subseteq Devices /\ IRR' \subseteq Devices
  BY EnabledAssumption DEF TypeOK, Requests
<1>4. \E d \in Devices : ISR' \subseteq {d}
  BY MostUrgent, DevicesAssumption DEF TypeOK
<1>5. served' \in Devices \cup {NoOp}
  BY JumpTarget DEF TypeOK
<1>6. overtaken' \in BOOLEAN
  BY Zenon
<1> QED
  BY <1>1, <1>2, <1>3, <1>4, <1>5, <1>6 DEF TypeOK

LEMMA ServiceStep ==
  ASSUME IInv, NEW IO \in SUBSET Devices, NEW ACK \in BOOLEAN, Cycle(IO, ACK)
  PROVE  Masked' /\ InService' /\ JumpForPending' /\ Serving'
<1>1. /\ IMR' = Enabled /\ IRR' = Requests(IO) /\ ISR' = ISR_in
      /\ served' = (IF INT_INSTR # NoOp THEN INT_INSTR ELSE served)
      /\ state \in {"INSTR", "WAIT"} => overtaken' = \E d \in IRR \cap Enabled : d < served'
  BY DEF Cycle, Clock, Registers
<1>2. \/ IRR \cap Enabled = {} /\ ISR' = {}
      \/ \E d \in IRR \cap Enabled : ISR' = {d} /\ \A e \in IRR \cap Enabled : d <= e
      \/ state = "IDLE" /\ ISR = {} /\ ISR' = {}
  BY <1>1, MostUrgent DEF IInv, Masked
<1>3. state # "CLR" => IRR \subseteq IRR'
  BY <1>1, Forgotten
<1>4. ISR' \subseteq IRR \cap Enabled
  BY <1>2
<1>5. /\ state' = "WAIT_CLR" <=> state = "CLR"
      /\ state' \in {"SERV_REQ", "NOOPS", "INSTR"} =>
           state \in {"SERV_REQ", "NOOPS"} \/ (state = "IDLE" /\ ISR # {})
      /\ state' = "WAIT" => state \in {"INSTR", "WAIT"}
      /\ state' = "CLR" => state = "WAIT"
  BY DEF Cycle, Clock, Control, Idle, ServReq, Noops, Instr, Wait, Clr, WaitClr
<1>6. InService'
  BY <1>1, <1>3, <1>4, <1>5 DEF InService
<1>7. JumpForPending'
  <2> SUFFICES ASSUME state' \in {"SERV_REQ", "NOOPS", "INSTR"}
               PROVE  ISR' # {} /\ ISR' \subseteq IRR' \cap Enabled
    BY DEF JumpForPending
  <2>1. ISR # {} /\ ISR \subseteq IRR \cap Enabled
    BY <1>5 DEF IInv, InService, JumpForPending
  <2> QED
    BY <1>2, <1>3, <1>4, <1>5, <2>1
<1>8. Serving'
  <2> SUFFICES ASSUME state' \in {"WAIT", "CLR"}
               PROVE  served' \in IRR' \cap Enabled /\ (overtaken' \/ ISR' = {served'})
    BY DEF Serving
  <2>1. state \in {"INSTR", "WAIT"}
    BY <1>5
  <2>2. served' \in IRR \cap Enabled
    <3>1. CASE state = "INSTR"
      BY <1>1, <3>1, JumpTarget DEF IInv, InService
    <3>2. CASE state = "WAIT"
      BY <1>1, <3>2, JumpTarget DEF IInv, Serving
    <3> QED
      BY <2>1, <3>1, <3>2
  <2>3. \A e \in IRR \cap Enabled : e \in 0..7
    BY DevicesAssumption, EnabledAssumption
  <2>4. PICK d \in IRR \cap Enabled : ISR' = {d} /\ \A e \in IRR \cap Enabled : d <= e
    BY <1>2, <2>1, <2>2
  <2>5. d = served' \/ d < served'
    BY <2>2, <2>3, <2>4
  <2>6. d < served' => overtaken'
    BY <1>1, <2>1, <2>4
  <2> QED
    BY <1>3, <2>1, <2>2, <2>4, <2>5, <2>6
<1> QED
  BY <1>1, <1>6, <1>7, <1>8 DEF Masked

LEMMA NextIInv == IInv /\ [ClientNext]_clientVars => IInv'
<1> SUFFICES ASSUME IInv, [ClientNext]_clientVars
             PROVE  IInv'
  OBVIOUS
<1>1. CASE ClientNext
  <2>1. PICK IO \in SUBSET Devices, ACK \in BOOLEAN : Cycle(IO, ACK)
    BY <1>1 DEF ClientNext
  <2> QED
    BY <2>1, TypeStep, ServiceStep DEF IInv
<1>2. CASE UNCHANGED clientVars
  BY <1>2 DEF clientVars, vars, IInv, TypeOK, Masked, InService, JumpForPending, Serving
<1> QED
  BY <1>1, <1>2

-----------------------------------------------------------------------------
(* For every set of devices and every mask: the registers of the interrupt *)
(* controller keep their types (at most one device is in service), and     *)
(* from the service request to the jump there is a pending, enabled        *)
(* request to jump for, whatever requests and acknowledges come in.        *)
THEOREM ControllerInvariant == ClientSpec => [](TypeOK /\ JumpForPending)
<1>1. IInv => TypeOK /\ JumpForPending
  BY DEF IInv
<1> QED
  BY <1>1, InitIInv, NextIInv, PTL DEF ClientSpec

(* For every set of devices and every mask: InterruptController.sv forgets *)
(* the request it has served, and another one only when that came in       *)
(* during the service and is more urgent.                                  *)
THEOREM OnlyServedCleared == ClientSpec => ClearServedOnly
<1>1. IInv /\ [ClientNext]_clientVars =>
        [IRR \subseteq IRR' \/ overtaken \/ IRR \ IRR' = {served}]_clientVars
  <2> SUFFICES ASSUME IInv, ClientNext
               PROVE  IRR \subseteq IRR' \/ overtaken \/ IRR \ IRR' = {served}
    OBVIOUS
  <2>1. PICK IO \in SUBSET Devices, ACK \in BOOLEAN : Cycle(IO, ACK)
    BY DEF ClientNext
  <2>2. IRR' = Requests(IO)
    BY <2>1 DEF Cycle, Clock, Registers
  <2> QED
    BY <2>2, Forgotten DEF IInv, Serving
<1> QED
  BY <1>1, InitIInv, NextIInv, PTL DEF ClientSpec, ClearServedOnly

(* The safety half of UrgentServed: once the most urgent device is in      *)
(* service it stays there until it has been cleared, whatever requests     *)
(* come in, and the jump goes to its routine.                              *)
THEOREM UrgentKept ==
  ClientSpec =>
    [][\A d \in Enabled :
         d = Min(Enabled) /\ ISR = {d} =>
           /\ state # "WAIT_CLR" => ISR' = {d}
           /\ state = "INSTR" => INT_INSTR = d]_clientVars
<1> DEFINE kept ==
      \A d \in Enabled :
        d = Min(Enabled) /\ ISR = {d} =>
          /\ state # "WAIT_CLR" => ISR' = {d}
          /\ state = "INSTR" => INT_INSTR = d
<1>1. IInv /\ [ClientNext]_clientVars => [kept]_clientVars
  <2> SUFFICES ASSUME IInv, ClientNext,
                      NEW d \in Enabled, d = Min(Enabled), ISR = {d}
               PROVE  /\ state # "WAIT_CLR" => ISR' = {d}
                      /\ state = "INSTR" => INT_INSTR = d
    OBVIOUS
  <2>1. PICK IO \in SUBSET Devices, ACK \in BOOLEAN : Cycle(IO, ACK)
    BY DEF ClientNext
  <2>2. Enabled \in SUBSET (0..7) /\ \A e \in Enabled : d <= e
    <3>1. Enabled \in SUBSET (0..7) /\ Enabled # {}
      BY DevicesAssumption, EnabledAssumption
    <3> QED
      BY <3>1, MinIsLeast
  <2>3. ASSUME state # "WAIT_CLR"
        PROVE  ISR' = {d}
    <3>1. d \in IRR \cap IMR /\ IMR = Enabled
      BY <2>3 DEF IInv, InService, Masked
    <3>2. PICK e \in IRR \cap IMR : ISR_in = {e} /\ \A f \in IRR \cap IMR : e <= f
      BY <3>1, MostUrgent DEF IInv
    <3>3. e <= d /\ d <= e /\ e \in 0..7 /\ d \in 0..7
      BY <2>2, <3>1, <3>2
    <3>4. e = d
      BY <3>3
    <3> QED
      BY <2>1, <3>2, <3>4 DEF Cycle, Clock, Registers
  <2> QED
    BY <2>3, JumpTarget
<1> QED
  BY <1>1, InitIInv, NextIInv, PTL DEF ClientSpec
=============================================================================
