------------------------------- MODULE MCFifo -------------------------------
(* Instance of Fifo for TLC: a FIFO of three words in a RAM of four, so    *)
(* that the pointers wrap at a different point than the counters.          *)
EXTENDS Fifo, FiniteSets, TLC

CONSTANTS d1, d2

MCData == {d1, d2}
Symmetric == Permutations(MCData)

=============================================================================
