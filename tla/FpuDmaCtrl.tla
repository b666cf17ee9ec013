----------------------------- MODULE FpuDmaCtrl -----------------------------
(***************************************************************************)
(* project/hw/memory/fpu_dma_ctrl.sv: turns the requests of the filter     *)
(* unit (FPUDRAM_if.sv) into ops of the arbiter, a line at a time.  It     *)
(* counts every tx_done of the memory controller (afu.sv), whoever's       *)
(* transaction that ends, and after its first request it goes from DONE    *)
(* straight back to ACTIVE, without waiting for another one.               *)
(* Addresses and data are passed on as they are and left out.              *)
(***************************************************************************)
EXTENDS Naturals

VARIABLES
  current,
  req_counter       \* lines done, 8 bits

vars == <<current, req_counter>>

-----------------------------------------------------------------------------
(* Outputs                                                                 *)

Op(rd_wr, fpu_ready) ==
  IF current = "ACTIVE" /\ fpu_ready THEN IF rd_wr THEN "WRITE" ELSE "READ" ELSE "IDLE"

DramReady(rd_wr, tx_done) ==
  \/ current = "START"
  \/ current = "ACTIVE" /\ (rd_wr \/ tx_done)

RequestDone == current = "DONE"

-----------------------------------------------------------------------------
Clock(request, fpu_ready, request_size, tx_done) ==
  /\ current' =
       CASE current = "START" -> IF request THEN "ACTIVE" ELSE "START"
         [] current = "ACTIVE" -> IF req_counter = request_size THEN "DONE" ELSE "ACTIVE"
         [] current = "DONE" -> IF fpu_ready THEN "ACTIVE" ELSE "DONE"
  /\ req_counter' =
       IF current # "ACTIVE" THEN 0
       ELSE IF tx_done THEN (req_counter + 1) % 256 ELSE req_counter

Init == current = "START" /\ req_counter = 0
=============================================================================
