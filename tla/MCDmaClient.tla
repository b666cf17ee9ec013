---------------------------- MODULE MCDmaClient -----------------------------
(* Instance of DmaClient for TLC, with a half-duplex client.               *)
EXTENDS DmaClient, TLC

CONSTANTS d1, d2

MCData == {d1, d2}
Symmetric == Permutations(MCData)

(* A channel that is left alone.                                           *)
QuietRead == [go |-> FALSE, addr |-> 0, size |-> 0, en |-> FALSE,
              almFull |-> FALSE, response |-> FALSE]
QuietWrite == [go |-> FALSE, addr |-> 0, size |-> 0, en |-> FALSE, data |-> d1,
               almFull |-> TRUE, commit |-> 0]

(* Infinitely often the host accepts a request, answers one, commits a     *)
(* write, and the client takes or writes a word: a channel that is almost  *)
(* full drains, a memory answers, and a client that started a transfer     *)
(* goes through with it.                                                   *)
Fairness ==
  /\ WF_allVars(WrDone /\ \E r \in ReadInputs(RdDone) : ~r.almFull /\ Step(r, QuietWrite))
  /\ WF_allVars(WrDone /\ \E r \in ReadInputs(RdDone) : r.response /\ Step(r, QuietWrite))
  /\ WF_allVars(WrDone /\ \E r \in ReadInputs(RdDone) : r.en /\ Step(r, QuietWrite))
  /\ WF_allVars(RdDone /\ \E w \in WriteInputs(WrDone) : w.en /\ ~w.almFull /\ Step(QuietRead, w))
  /\ WF_allVars(RdDone /\ \E w \in WriteInputs(WrDone) : w.commit > 0 /\ Step(QuietRead, w))

MCSpec == HalfDuplexSpec /\ Fairness

(* Every transfer ends: the read channel neither stops requesting for lack *)
(* of space the client frees, nor loses a line; the write channel reports  *)
(* done after the last word.                                               *)
ReadsFinish == ~RdDone ~> RdDone
WritesFinish == ~WrDone ~> WrDone
=============================================================================
