--------------------------- MODULE MCArbiterPath ---------------------------
EXTENDS ArbiterPath, TLC
CONSTANTS a, b, conf, z

MCLine == {a, b, conf}
MCData == MCLine \cup {z}

(* The fetch only reads, the data cache reads and writes, the filter unit  *)
(* writes.  What is written looks like a line read elsewhere, so that the  *)
(* latches have few contents to show: a and that of the configuration.     *)
MCAsks ==
  (1 :> {Reading(a)}) @@ (2 :> {Reading(a), Writing(a, a)}) @@ (4 :> {Writing(b, a)})
=============================================================================
