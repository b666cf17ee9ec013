---------------------------- MODULE ArbiterProofs ----------------------------
(***************************************************************************)
(* AnswerAfterLow, TransactionHeld and Turns, for any requests, lines and  *)
(* data.                                                                   *)
(*                                                                         *)
(* AnswerAfterLow is not inductive: that a source which sees tx_done has   *)
(* been served rests on what is on its way while it waits (Working), and   *)
(* on the latched tx_done of a source with an open request being low       *)
(* (Quiet).                                                                *)
(***************************************************************************)
EXTENDS ArbiterPath, TLAPS

TypeInv ==
  /\ state \in mem_ctrl!State /\ fill_count \in BOOLEAN /\ bubble \in BOOLEAN
  /\ current \in Src /\ DOMAIN held = Src
  /\ \A s \in Src : held[s].tx_done \in BOOLEAN
  /\ mmio \in {"READY", "BUSY"}
  /\ \A s \in Requester : req[s] \in Asks[s] \cup {Idle}

(* A source whose request is open and waits unselected sees tx_done low.   *)
Quiet == \A s \in Requester : open[s] /\ s # current => ~held[s].tx_done

(* The controller works for the selected source, and has for it what the   *)
(* history says.                                                           *)
Working ==
  /\ state \in {"HOSTOP", "FILL"} => Selected.op # "IDLE"
  /\ \A s \in Src : s # current => carried[s] = <<>>
  /\ carried[current] =
       IF state = "FILL" /\ Selected.op = "READ" THEN <<Selected>> ELSE <<>>
  /\ state = "FILL" /\ Selected.op = "READ" => internal_val = Selected.line
  /\ state = "HOSTOP" /\ Selected.op = "WRITE" => internal_val = Selected.data

IInv == TypeInv /\ Quiet /\ Working

-----------------------------------------------------------------------------
(* What a source asks is nothing, a read or a write.                       *)
LEMMA Shape ==
  ASSUME TypeInv, NEW s \in Src
  PROVE  /\ Asked(s).op \in {"IDLE", "READ", "WRITE"}
         /\ Asked(s).op = "IDLE" <=> Asked(s) = Idle
         /\ Asked(s).op = "READ" => Asked(s) = Reading(Asked(s).line)
         /\ Asked(s).op = "WRITE" => Asked(s) = Writing(Asked(s).line, Asked(s).data)
<1>1. \/ Asked(s) = Idle
      \/ \E l \in Line : Asked(s) = Reading(l)
      \/ \E l \in Line, d \in Data : Asked(s) = Writing(l, d)
  <2>1. CASE s = 3
    BY <2>1, DataAssumption DEF Asked
  <2>2. CASE s # 3
    <3>1. s \in Requester
      BY <2>2 DEF Src, arbiter!Src, Requester
    <3>2. Asked(s) \in Asks[s] \cup {Idle}
      BY <2>2, <3>1 DEF Asked, TypeInv
    <3> QED
      BY <3>1, <3>2, AsksAssumption
  <2> QED
    BY <2>1, <2>2
<1>2. CASE Asked(s) = Idle
  BY <1>2 DEF Idle
<1>3. CASE \E l \in Line : Asked(s) = Reading(l)
  BY <1>3 DEF Idle, Reading
<1>4. CASE \E l \in Line, d \in Data : Asked(s) = Writing(l, d)
  BY <1>4 DEF Idle, Writing
<1> QED
  BY <1>1, <1>2, <1>3, <1>4

(* When the controller answers.                                            *)
LEMMA DoneWhen ==
  ASSUME NEW in \in Inputs
  PROVE  /\ TxDone(in) => \/ state = "FILL" /\ Selected.op = "READ" /\ fill_count
                          \/ state = "HOSTOP" /\ Selected.op = "WRITE" /\ Hands(in)
         /\ Hands(in) => TxDone(in)
         /\ state = "FILL" /\ Selected.op = "READ" /\ fill_count => TxDone(in)
         /\ Hands(in) => state = "HOSTOP" /\ Selected.op = "WRITE" /\ bubble
         /\ Reads(in) <=> state = "HOSTOP" /\ Selected.op = "READ" /\ in
         /\ TxDone(in) \in BOOLEAN
  BY DEF TxDone, mem_ctrl!TxDone, mem_ctrl!RdValid, mem_ctrl!HostWe, mem_ctrl!HostWgo,
         Hands, Reads, mem_ctrl!HostRgo, Inputs

(* The controller, by state.                                               *)
LEMMA ControllerStep ==
  ASSUME NEW in \in Inputs, Step(in), TypeInv
  PROVE  /\ state' \in mem_ctrl!State /\ fill_count' \in BOOLEAN /\ bubble' \in BOOLEAN
         /\ state = "STARTUP" => state' \in {"STARTUP", "READY"}
         /\ state = "READY" => state' = IF Selected.op = "READ" THEN "HOSTOP"
                                   ELSE IF Selected.op = "WRITE" THEN "FILL" ELSE "READY"
         /\ state = "FILL" /\ Selected.op = "READ" =>
              state' = (IF fill_count THEN "READY" ELSE "FILL") /\ internal_val' = internal_val
         /\ state = "FILL" /\ Selected.op = "WRITE" =>
              state' \in {"FILL", "HOSTOP"} /\ internal_val' = Selected.data
         /\ state = "HOSTOP" /\ Selected.op = "READ" =>
              IF in THEN state' = "FILL" /\ internal_val' = Selected.line ELSE state' = "HOSTOP"
         /\ state = "HOSTOP" /\ Selected.op = "WRITE" =>
              /\ state' = (IF bubble THEN "READY" ELSE "HOSTOP")
              /\ internal_val' = internal_val
<1>1. mem_ctrl!Clock(in, Selected.op, in, in, BusIn, HostIn)
  BY DEF Step
<1>2. in \in BOOLEAN
  BY DEF Inputs
<1> QED
  BY <1>1, <1>2 DEF mem_ctrl!Clock, mem_ctrl!Startup, mem_ctrl!Accept, mem_ctrl!Fill,
     mem_ctrl!HostRead, mem_ctrl!HostWrite, mem_ctrl!HostWait, mem_ctrl!vars,
     TypeInv, mem_ctrl!State, BusIn, HostIn

-----------------------------------------------------------------------------
(* In a transaction that does not end, the source stays selected and keeps *)
(* its request.                                                            *)
LEMMA Hold ==
  ASSUME NEW in \in Inputs, Step(in), TypeInv, Selected.op # "IDLE", ~TxDone(in)
  PROVE  current' = current /\ Selected' = Selected
<1>1. current \in Src /\ Selected # Idle
  BY DEF TypeInv, Idle
<1>2. current' = current
  BY DEF Step, arbiter!Clock, arbiter!Next
<1>3. CASE current = 3
  <2>1. fpu_mmio!Busy
    BY <1>1, <1>3 DEF Selected, Asked
  <2>2. mmio' = "BUSY"
    BY <2>1 DEF Step, fpu_mmio!Clock
  <2> QED
    BY <1>2, <1>3, <2>1, <2>2 DEF Selected, Asked, fpu_mmio!Busy
<1>4. CASE current # 3
  <2>1. current \in Requester /\ req[current] # Idle
    BY <1>1, <1>4 DEF Src, arbiter!Src, Requester, Selected, Asked
  <2>2. ~arbiter!TxDoneSrc(current, TxDone(in))
    BY DEF arbiter!TxDoneSrc
  <2>3. Drives(current, in) = {req[current]}
    BY <2>1, <2>2 DEF Drives
  <2>4. req'[current] = req[current]
    BY <2>1, <2>3 DEF Step, Requesters, Requester
  <2> QED
    BY <1>2, <1>4, <2>4 DEF Selected, Asked
<1> QED
  BY <1>3, <1>4

(* Without a request, or with its end, the next source has its turn, and   *)
(* the controller is free for it.                                          *)
LEMMA Move ==
  ASSUME NEW in \in Inputs, Step(in), TypeInv, Working, Selected.op = "IDLE" \/ TxDone(in)
  PROVE  current' \in Src /\ current' # current /\ state' \in {"STARTUP", "READY"}
<1>1. current' \in Src /\ current' # current
  <2>1. current' = (current % 4) + 1
    BY DEF Step, arbiter!Clock, arbiter!Next
  <2>2. current \in {1, 2, 3, 4}
    BY DEF TypeInv, Src, arbiter!Src
  <2> QED
    BY <2>1, <2>2, SMT DEF Src, arbiter!Src
<1>2. CASE Selected.op = "IDLE"
  <2>1. state \in {"STARTUP", "READY"}
    BY <1>2 DEF TypeInv, mem_ctrl!State, Working
  <2> QED
    BY <1>1, <1>2, <2>1, ControllerStep
<1>3. CASE TxDone(in)
  <2>1. \/ state = "FILL" /\ Selected.op = "READ" /\ fill_count
        \/ state = "HOSTOP" /\ Selected.op = "WRITE" /\ bubble
    BY <1>3, DoneWhen
  <2> QED
    BY <1>1, <2>1, ControllerStep
<1> QED
  BY <1>1, <1>2, <1>3

(* The parts of the invariant, one by one.                                 *)
LEMMA TypeStep ==
  ASSUME NEW in \in Inputs, Step(in), TypeInv, Working
  PROVE  TypeInv'
<1>1. state' \in mem_ctrl!State /\ fill_count' \in BOOLEAN /\ bubble' \in BOOLEAN
  BY ControllerStep
<1>2. current' \in Src
  <2>1. CASE Selected.op = "IDLE" \/ TxDone(in)
    BY <2>1, Move
  <2>2. CASE Selected.op # "IDLE" /\ ~TxDone(in)
    BY <2>2, Hold DEF TypeInv
  <2> QED
    BY <2>1, <2>2
<1>3. DOMAIN held' = Src /\ \A s \in Src : held'[s].tx_done \in BOOLEAN
  <2>1. held' = [held EXCEPT ![current] =
                   [tx_done |-> TxDone(in), write_out |-> internal_val]]
    BY DEF Step, arbiter!Clock
  <2> QED
    BY <2>1, DoneWhen DEF TypeInv
<1>4. mmio' \in {"READY", "BUSY"}
  BY DEF Step, fpu_mmio!Clock
<1>5. \A s \in Requester : req'[s] \in Asks[s] \cup {Idle}
  <2> TAKE s \in Requester
  <2>1. req'[s] \in Drives(s, in)
    BY DEF Step, Requesters, Requester
  <2>2. req[s] \in Asks[s] \cup {Idle}
    BY DEF TypeInv
  <2> QED
    BY <2>1, <2>2 DEF Drives
<1> QED
  BY <1>1, <1>2, <1>3, <1>4, <1>5 DEF TypeInv

LEMMA QuietStep ==
  ASSUME NEW in \in Inputs, Step(in), TypeInv, Working, Quiet
  PROVE  Quiet'
<1> SUFFICES ASSUME NEW s \in Requester, open'[s], s # current'
             PROVE  ~held'[s].tx_done
  BY DEF Quiet
<1>1. held' = [held EXCEPT ![current] =
                 [tx_done |-> TxDone(in), write_out |-> internal_val]]
  BY DEF Step, arbiter!Clock
<1>2. s \in Src
  BY DEF Requester, Src, arbiter!Src
<1>3. ~Begins(s) /\ ~Answered(s, in)
  BY <1>2 DEF Step, Histories
<1>4. ~arbiter!TxDoneSrc(s, TxDone(in))
  BY <1>3 DEF Begins, Answered, Requester
<1>5. CASE s = current
  BY <1>1, <1>2, <1>4, <1>5 DEF TypeInv, arbiter!TxDoneSrc
<1>6. CASE s # current
  BY <1>1, <1>2, <1>4, <1>6 DEF TypeInv, arbiter!TxDoneSrc
<1> QED
  BY <1>5, <1>6

LEMMA WorkingStep ==
  ASSUME NEW in \in Inputs, Step(in), TypeInv, Working
  PROVE  Working'
<1>c. \A s \in Src : carried'[s] =
        IF Begins(s) \/ Answered(s, in) THEN <<>>
        ELSE IF s = current /\ Reads(in) THEN Append(carried[s], Selected)
        ELSE carried[s]
  BY DEF Step, Histories
<1>o. \A s \in Src : s # current => carried'[s] = <<>>
  BY <1>c DEF Working
<1>s. current \in Src /\ state \in {"STARTUP", "READY", "HOSTOP", "FILL"}
  BY DEF TypeInv, mem_ctrl!State
<1>1. CASE Selected.op = "IDLE" \/ TxDone(in)
  <2>1. current' \in Src /\ current' # current /\ state' \in {"STARTUP", "READY"}
    BY <1>1, Move
  <2>2. carried'[current] = <<>>
    <3>1. CASE Selected.op = "IDLE"
      <4>1. Begins(current)
        BY <3>1, <1>s, Shape DEF Begins, Selected
      <4> QED
        BY <4>1, <1>c, <1>s
    <3>2. CASE Selected.op # "IDLE" /\ TxDone(in)
      <4>1. Answered(current, in)
        BY <3>2, <1>s, Shape DEF Answered, Selected, arbiter!TxDoneSrc
      <4> QED
        BY <4>1, <1>c, <1>s
    <3> QED
      BY <1>1, <3>1, <3>2
  <2>3. \A s \in Src : carried'[s] = <<>>
    BY <1>o, <2>2
  <2> QED
    BY <2>1, <2>3 DEF Working
<1>2. CASE Selected.op # "IDLE" /\ ~TxDone(in)
  <2>1. current' = current /\ Selected' = Selected
    BY <1>2, Hold
  <2>2. ~Begins(current) /\ ~Answered(current, in)
    BY <1>2, <1>s, Shape DEF Begins, Answered, Selected, arbiter!TxDoneSrc
  <2>4. carried'[current] = IF Reads(in) THEN Append(carried[current], Selected)
                                         ELSE carried[current]
    BY <1>c, <1>s, <2>2
  <2>5. Selected.op \in {"READ", "WRITE"} /\ "READ" # "WRITE"
    BY <1>2, <1>s, Shape DEF Selected
  <2>6. Reads(in) <=> state = "HOSTOP" /\ Selected.op = "READ" /\ in
    BY DoneWhen
  <2>w. /\ state' \in {"HOSTOP", "FILL"} => Selected.op # "IDLE"
        /\ carried'[current] =
             IF state' = "FILL" /\ Selected.op = "READ" THEN <<Selected>> ELSE <<>>
        /\ state' = "FILL" /\ Selected.op = "READ" => internal_val' = Selected.line
        /\ state' = "HOSTOP" /\ Selected.op = "WRITE" => internal_val' = Selected.data
    <3>1. CASE state = "STARTUP"
      <4>1. state' \in {"STARTUP", "READY"}
        BY <3>1, ControllerStep
      <4> QED
        BY <3>1, <4>1, <1>2, <2>4, <2>6 DEF Working
    <3>2. CASE state = "READY"
      <4>1. state' = IF Selected.op = "READ" THEN "HOSTOP" ELSE "FILL"
        BY <3>2, <2>5, ControllerStep
      <4> QED
        BY <3>2, <4>1, <1>2, <2>4, <2>5, <2>6 DEF Working
    <3>3. CASE state = "FILL" /\ Selected.op = "READ"
      <4>1. ~fill_count
        BY <3>3, <1>2, DoneWhen
      <4>2. state' = "FILL" /\ internal_val' = internal_val
        BY <3>3, <4>1, ControllerStep
      <4> QED
        BY <3>3, <4>2, <2>4, <2>6 DEF Working
    <3>4. CASE state = "FILL" /\ Selected.op = "WRITE"
      <4>1. state' \in {"FILL", "HOSTOP"} /\ internal_val' = Selected.data
        BY <3>4, ControllerStep
      <4> QED
        BY <3>4, <4>1, <2>4, <2>6 DEF Working
    <3>5. CASE state = "HOSTOP" /\ Selected.op = "READ" /\ in
      <4>1. state' = "FILL" /\ internal_val' = Selected.line
        BY <3>5, ControllerStep
      <4>2. carried[current] = <<>>
        BY <3>5 DEF Working
      <4>3. carried'[current] = <<Selected>>
        BY <3>5, <2>4, <2>6, <4>2
      <4> QED
        BY <3>5, <4>1, <4>3
    <3>6. CASE state = "HOSTOP" /\ Selected.op = "READ" /\ ~in
      <4>1. state' = "HOSTOP"
        BY <3>6, ControllerStep
      <4> QED
        BY <3>6, <4>1, <2>4, <2>6 DEF Working
    <3>7. CASE state = "HOSTOP" /\ Selected.op = "WRITE"
      <4>1. state' \in {"READY", "HOSTOP"} /\ internal_val' = internal_val
        BY <3>7, ControllerStep
      <4> QED
        BY <3>7, <4>1, <2>4, <2>6 DEF Working
    <3> QED
      BY <1>s, <2>5, <3>1, <3>2, <3>3, <3>4, <3>5, <3>6, <3>7
  <2> QED
    BY <1>o, <2>1, <2>w DEF Working
<1> QED
  BY <1>1, <1>2

(* The invariant holds at first, and a step that changes nothing keeps it. *)
LEMMA InitIInv == Init => IInv
<1> SUFFICES ASSUME Init PROVE IInv
  OBVIOUS
<1>1. state = "STARTUP" /\ fill_count = FALSE /\ bubble = FALSE
  BY DEF Init, mem_ctrl!Init
<1>2. current = 1 /\ held \in [Src -> [tx_done : BOOLEAN, write_out : {X}]]
  BY DEF Init, arbiter!Init, Src
<1>3. mmio = "READY"
  BY DEF Init, fpu_mmio!Init
<1>4. /\ \A s \in Requester : req[s] = Idle
      /\ \A s \in Src : carried[s] = <<>> /\ ~open[s]
  BY DEF Init
<1>5. TypeInv
  <2>1. current \in Src /\ DOMAIN held = Src /\ \A s \in Src : held[s].tx_done \in BOOLEAN
    BY <1>2 DEF Src, arbiter!Src
  <2> QED
    BY <1>1, <1>3, <1>4, <2>1 DEF TypeInv, mem_ctrl!State
<1>6. Quiet
  BY <1>4 DEF Quiet, Requester, Src, arbiter!Src
<1>7. Working
  BY <1>1, <1>2, <1>4 DEF Working, Src, arbiter!Src
<1> QED
  BY <1>5, <1>6, <1>7 DEF IInv

LEMMA NextIInv == IInv /\ [Next]_vars => IInv'
<1> SUFFICES ASSUME IInv, [Next]_vars PROVE IInv'
  OBVIOUS
<1>1. CASE Next
  <2>1. PICK in \in Inputs : Step(in)
    BY <1>1 DEF Next
  <2> QED
    BY <2>1, TypeStep, QuietStep, WorkingStep DEF IInv
<1>2. CASE UNCHANGED vars
  <2>1. Selected' = Selected
    BY <1>2 DEF vars, arbiter!vars, fpu_mmio!vars, Selected, Asked, fpu_mmio!Busy
  <2> QED
    BY <1>2, <2>1 DEF vars, mem_ctrl!vars, arbiter!vars, fpu_mmio!vars,
       IInv, TypeInv, Quiet, Working
<1> QED
  BY <1>1, <1>2

LEMMA Invariance == Spec => []IInv
BY InitIInv, NextIInv, PTL DEF Spec

-----------------------------------------------------------------------------
(* A request that has seen tx_done low is served when it sees it high,     *)
(* whatever the requests and the answers of the host, and although sources *)
(* may ask again at once (mem_arbiter.sv 74-114).                          *)
THEOREM ArbiterAnswers == Spec => []AnswerAfterLow
<1>1. IInv => AnswerAfterLow
  <2> SUFFICES ASSUME IInv, NEW in \in Inputs, NEW s \in Src,
                      open[s], Answered(s, in), s = 3 => current = 3
               PROVE  /\ current = s
                      /\ Selected.op = "READ" =>
                           carried[s] = <<Selected>> /\ Shown(s) = Selected.line
                      /\ Selected.op = "WRITE" => Hands(in) /\ Handed = Selected
    BY DEF AnswerAfterLow
  <2>t. TypeInv /\ Quiet /\ Working
    BY DEF IInv
  <2>1. current = s
    <3>1. CASE s = 3
      BY <3>1
    <3>2. CASE s # 3
      <4>1. s \in Requester
        BY <3>2 DEF Src, arbiter!Src, Requester
      <4>2. req[s] # Idle /\ arbiter!TxDoneSrc(s, TxDone(in))
        BY <3>2 DEF Answered, Asked
      <4> QED
        BY <4>1, <4>2, <2>t DEF Quiet, arbiter!TxDoneSrc
    <3> QED
      BY <3>1, <3>2
  <2>2. TxDone(in)
    BY <2>1 DEF Answered, arbiter!TxDoneSrc
  <2>3. \/ state = "FILL" /\ Selected.op = "READ"
        \/ state = "HOSTOP" /\ Selected.op = "WRITE" /\ Hands(in)
    BY <2>2, DoneWhen
  <2>4. CASE state = "FILL" /\ Selected.op = "READ"
    <3>1. carried[s] = <<Selected>> /\ internal_val = Selected.line
      BY <2>1, <2>4, <2>t DEF Working
    <3>2. Shown(s) = internal_val
      <4>1. s = 3 => fpu_mmio!Busy
        BY DEF Answered, Asked
      <4> QED
        BY <2>1, <4>1 DEF Shown, fpu_mmio!MappedData, arbiter!WriteOutSrc
    <3> QED
      BY <2>1, <2>4, <3>1, <3>2
  <2>5. CASE state = "HOSTOP" /\ Selected.op = "WRITE" /\ Hands(in)
    <3>1. internal_val = Selected.data
      BY <2>1, <2>5, <2>t DEF Working
    <3>2. Selected = Writing(Selected.line, Selected.data)
      BY <2>5, <2>t, Shape DEF Selected, TypeInv
    <3> QED
      BY <2>1, <2>5, <3>1, <3>2 DEF Handed
  <2> QED
    BY <2>3, <2>4, <2>5
<1> QED
  BY <1>1, Invariance, PTL

(* The controller sees one request from the beginning of a transaction to  *)
(* its end (mem_arbiter.sv 2-3, mem_ctrl.sv 87-208).                       *)
THEOREM ArbiterTransactionHeld == Spec => TransactionHeld
<1>1. IInv /\ [Next]_vars =>
        [(state \in {"HOSTOP", "FILL"} /\ state' # "READY") => Selected' = Selected]_vars
  <2> SUFFICES ASSUME IInv, Next, state \in {"HOSTOP", "FILL"}, state' # "READY"
               PROVE  Selected' = Selected
    OBVIOUS
  <2>1. PICK in \in Inputs : Step(in)
    BY DEF Next
  <2>2. Selected.op # "IDLE"
    BY DEF IInv, Working
  <2>3. ~TxDone(in)
    <3> SUFFICES ASSUME TxDone(in) PROVE FALSE
      OBVIOUS
    <3>1. \/ state = "FILL" /\ Selected.op = "READ" /\ fill_count
          \/ state = "HOSTOP" /\ Selected.op = "WRITE" /\ bubble
      BY DoneWhen
    <3> QED
      BY <2>1, <3>1, ControllerStep DEF IInv
  <2> QED
    BY <2>1, <2>2, <2>3, Hold DEF IInv
<1> QED
  BY <1>1, Invariance, PTL DEF Spec, TransactionHeld

-----------------------------------------------------------------------------
(* How many sources have had their turn since source s had it: no source   *)
(* has been overtaken more often than that.                                *)
Behind(s) == IF current > s THEN current - s - 1 ELSE current + 3 - s
InTurn == \A s \in Src : overtaken[s] \in Nat /\ overtaken[s] <= Behind(s)

LEMMA InTurnStep ==
  ASSUME NEW in \in Inputs, Step(in), IInv, InTurn
  PROVE  InTurn'
<1> SUFFICES ASSUME NEW s \in Src
             PROVE  overtaken'[s] \in Nat /\ overtaken'[s] <= Behind(s)'
  BY DEF InTurn
<1>1. overtaken'[s] = IF Begins(s) \/ Answered(s, in) THEN 0
                      ELSE IF s # current /\ TxDone(in) THEN overtaken[s] + 1
                      ELSE overtaken[s]
  BY DEF Step, Histories
<1>2. /\ current \in {1, 2, 3, 4} /\ s \in {1, 2, 3, 4}
      /\ overtaken[s] \in Nat /\ overtaken[s] <= Behind(s)
  BY DEF IInv, TypeInv, InTurn, Src, arbiter!Src
<1>3. CASE s = current /\ Selected.op # "IDLE" /\ ~TxDone(in)
  <2>1. current' = current
    BY <1>3, Hold DEF IInv
  <2>2. overtaken'[s] = 0 \/ overtaken'[s] = overtaken[s]
    BY <1>1, <1>3
  <2> QED
    BY <1>2, <2>1, <2>2, SMT DEF Behind
<1>4. CASE s = current /\ (Selected.op = "IDLE" \/ TxDone(in))
  <2>1. Begins(s) \/ Answered(s, in)
    <3>1. Asked(s) = Selected
      BY <1>4 DEF Selected
    <3>2. Selected.op = "IDLE" => Begins(s)
      BY <3>1, Shape DEF IInv, Begins
    <3> QED
      BY <1>4, <3>1, <3>2 DEF Begins, Answered, arbiter!TxDoneSrc
  <2>2. overtaken'[s] = 0
    BY <1>1, <2>1
  <2>3. current' = (current % 4) + 1
    BY <1>4 DEF Step, arbiter!Clock, arbiter!Next
  <2> QED
    BY <1>2, <2>2, <2>3, SMT DEF Behind
<1>5. CASE s # current /\ Selected.op # "IDLE" /\ ~TxDone(in)
  <2>1. current' = current
    BY <1>5, Hold DEF IInv
  <2>2. overtaken'[s] = 0 \/ overtaken'[s] = overtaken[s]
    BY <1>1, <1>5
  <2> QED
    BY <1>2, <2>1, <2>2, SMT DEF Behind
<1>6. CASE s # current /\ (Selected.op = "IDLE" \/ TxDone(in))
  <2>1. current' = (current % 4) + 1
    BY <1>6 DEF Step, arbiter!Clock, arbiter!Next
  <2>2. \/ overtaken'[s] = 0
        \/ overtaken'[s] = overtaken[s]
        \/ overtaken'[s] = overtaken[s] + 1
    BY <1>1
  <2> QED
    BY <1>2, <1>6, <2>1, <2>2, SMT DEF Behind
<1> QED
  BY <1>3, <1>4, <1>5, <1>6

(* Round robin, whoever asks and however often (mem_arbiter.sv 2): a       *)
(* source that asks is overtaken three times at most.                      *)
THEOREM ArbiterTurns == Spec => []Turns
<1>1. Init => IInv /\ InTurn
  <2> SUFFICES ASSUME Init PROVE InTurn
    BY InitIInv
  <2>1. current = 1 /\ \A s \in Src : overtaken[s] = 0
    BY DEF Init, arbiter!Init
  <2>2. \A s \in Src : s \in {1, 2, 3, 4}
    BY DEF Src, arbiter!Src
  <2> QED
    BY <2>1, <2>2, SMT DEF InTurn, Behind
<1>2. IInv /\ InTurn /\ [Next]_vars => (IInv /\ InTurn)'
  <2> SUFFICES ASSUME IInv, InTurn, [Next]_vars PROVE InTurn'
    BY NextIInv
  <2>1. CASE Next
    <3>1. PICK in \in Inputs : Step(in)
      BY <2>1 DEF Next
    <3> QED
      BY <3>1, InTurnStep
  <2>2. CASE UNCHANGED vars
    BY <2>2 DEF vars, arbiter!vars, InTurn, Behind
  <2> QED
    BY <2>1, <2>2
<1>3. IInv /\ InTurn => Turns
  <2> SUFFICES ASSUME IInv, InTurn, NEW s \in Src PROVE overtaken[s] <= 3
    BY DEF Turns
  <2>1. /\ current \in {1, 2, 3, 4} /\ s \in {1, 2, 3, 4}
        /\ overtaken[s] \in Nat /\ overtaken[s] <= Behind(s)
    BY DEF IInv, TypeInv, InTurn, Src, arbiter!Src
  <2> QED
    BY <2>1, SMT DEF Behind
<1> QED
  BY <1>1, <1>2, <1>3, PTL DEF Spec
=============================================================================
