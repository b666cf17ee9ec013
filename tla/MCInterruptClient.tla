------------------------- MODULE MCInterruptClient --------------------------
(* Instance of InterruptClient for TLC: two devices in use and one masked. *)
EXTENDS InterruptClient

MCDevices == 0..2
MCEnabled == {0, 2}
=============================================================================
