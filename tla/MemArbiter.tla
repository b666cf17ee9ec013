----------------------------- MODULE MemArbiter -----------------------------
(***************************************************************************)
(* project/hw/memory/mem_arbiter.sv: gives the memory controller to one of *)
(* four sources at a time.  The outputs to a source are assigned only      *)
(* while it is selected, so they are latches: an unselected source keeps   *)
(* seeing what it saw last.  rd_valid is latched in the same way, but no   *)
(* source reads it.                                                        *)
(***************************************************************************)
EXTENDS Naturals

CONSTANT X          \* what a latch shows that was never open

VARIABLES
  current,          \* the selected source
  held              \* per source: the latched tx_done and write_out

vars == <<current, held>>

Src == 1..4

(* Mutations of Next: leave a source that waits; skip a source.            *)
HastyNext(op, tx_done) == (current % 4) + 1
SkippingNext(op, tx_done) ==
  IF op # "IDLE" /\ ~tx_done THEN current ELSE IF current = 4 THEN 2 ELSE current + 1

(* Round robin; a source that asks keeps the controller until tx_done.     *)
Next(op, tx_done) == IF op # "IDLE" /\ ~tx_done THEN current ELSE (current % 4) + 1

(* mutation of TxDoneSrc: tx_done to all sources                           *)
GlobalTxDone(s, tx_done) == tx_done

(* What source s sees in a cycle.                                          *)
TxDoneSrc(s, tx_done) == IF s = current THEN tx_done ELSE held[s].tx_done
WriteOutSrc(s, write_out) == IF s = current THEN write_out ELSE held[s].write_out

Clock(op, tx_done, write_out) ==
  /\ current' = Next(op, tx_done)
  /\ held' = [held EXCEPT ![current] = [tx_done |-> tx_done, write_out |-> write_out]]

Init ==
  /\ current = 1
  /\ held \in [Src -> [tx_done : BOOLEAN, write_out : {X}]]
=============================================================================
