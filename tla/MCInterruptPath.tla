-------------------------- MODULE MCInterruptPath ---------------------------
(* Instance of InterruptPath for TLC: two addresses, two values of the     *)
(* flags, and the one device that is wired.                                *)
EXTENDS InterruptPath, TLC

MCDevices == {0}
MCFlags == 0..1
MCEntry == 0 :> 1
=============================================================================
