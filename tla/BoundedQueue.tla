---------------------------- MODULE BoundedQueue ----------------------------
(***************************************************************************)
(* What the FIFO of project/hw/fifo.sv promises its users, with no RAM, no *)
(* pointers and no counters: a queue of at most Depth words, whose oldest  *)
(* word is visible on `out' in every cycle in which the queue is not empty *)
(* (header of fifo.sv, "provides the output on the same cycle that empty   *)
(* is cleared").  One step is one rising edge of the clock.                *)
(***************************************************************************)
EXTENDS Naturals, Sequences

CONSTANTS
  Depth,    \* capacity, in words
  Data,     \* the words
  NoData    \* what `out' is worth when the queue is empty

VARIABLES
  q,        \* the words, oldest first
  ready,    \* FALSE only between reset and the first clock edge
  out       \* the word offered to the reader

Peek(s) == IF s = <<>> THEN NoData ELSE Head(s)

Init ==
  /\ q = <<>>
  /\ ready = FALSE
  /\ out = NoData

Accepts(wr_en) == wr_en /\ ready /\ Len(q) < Depth
Removes(rd_en) == rd_en /\ q # <<>>

(* A write is dropped when the queue is full at the start of the cycle, a  *)
(* read is ignored when it is empty; both may happen in one cycle.         *)
Clock(wr_en, rd_en, d) ==
  LET rest == IF Removes(rd_en) THEN Tail(q) ELSE q
  IN  /\ q' = IF Accepts(wr_en) THEN Append(rest, d) ELSE rest
      /\ ready' = TRUE
      /\ out' = Peek(q')

Reset ==
  /\ q' = <<>>
  /\ ready' = FALSE
  /\ out' = NoData

Next ==
  \/ \E wr_en, rd_en \in BOOLEAN, d \in Data : Clock(wr_en, rd_en, d)
  \/ Reset

Spec == Init /\ [][Next]_<<q, ready, out>>
=============================================================================
