----------------------------- MODULE FpuMmioCtrl -----------------------------
(***************************************************************************)
(* project/hw/memory/fpu_mmio_ctrl.sv: fetches the configuration line of   *)
(* the filter unit through the arbiter.  It ends on the controller's       *)
(* tx_done (afu.sv), whoever's transaction that ends.  mapped_data and     *)
(* mapped_data_valid are latches, open in BUSY only.                       *)
(***************************************************************************)
CONSTANT X          \* what a latch shows that was never open

VARIABLES
  mmio,             \* current
  mapped            \* the latches: mapped_data, mapped_data_valid

vars == <<mmio, mapped>>

Busy == mmio = "BUSY"
Op == IF Busy THEN "READ" ELSE "IDLE"

(* What the unit's loader sees in a cycle.                                 *)
Valid(tx_done) == IF Busy THEN tx_done ELSE mapped.valid
MappedData(write_out) == IF Busy THEN write_out ELSE mapped.data

Clock(request, tx_done, write_out) ==
  /\ mmio' = IF Busy THEN IF tx_done THEN "READY" ELSE "BUSY"
                     ELSE IF request THEN "BUSY" ELSE "READY"
  /\ mapped' = [valid |-> Valid(tx_done), data |-> MappedData(write_out)]

Init ==
  /\ mmio = "READY"
  /\ mapped \in [valid : BOOLEAN, data : {X}]
=============================================================================
