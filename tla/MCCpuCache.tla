----------------------------- MODULE MCCpuCache -----------------------------
(* Instance of CpuCache for TLC: two lines, two addresses for each.         *)
EXTENDS CpuCache
CONSTANTS i1, i2, t0, t1, w0, w1

MCIndex == {i1, i2}
MCTag == {t0, t1}
MCWord == {w0, w1}
=============================================================================
