----------------------------- MODULE MCHostPath -----------------------------
(* Instance of HostPath for TLC.                                           *)
EXTENDS HostPath

CONSTANTS d1, d2

MCData == {d1, d2}
=============================================================================
