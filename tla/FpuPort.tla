------------------------------- MODULE FpuPort -------------------------------
(***************************************************************************)
(* The request controller of the filter unit on the DMA controller that    *)
(* the design gives it (FPU.sv, afu.sv 189-200), where its test bench has  *)
(* a memory of its own.  The sequencer is its order of requests: a buffer  *)
(* is read, then results are written and more is read.  tx_done is the     *)
(* memory controller's: it may come in any cycle, for another source.      *)
(***************************************************************************)
EXTENDS FpuRequest

CONSTANT
  Width         \* of the result: columns of a row written, 1..MEM_BUFFER_WIDTH

VARIABLES
  current, req_counter,     \* fpu_dma_ctrl
  filled,                   \* the sequencer has its first buffer
  kind                      \* history: what the present request asks for

dma == INSTANCE FpuDmaCtrl

portVars == <<vars, current, req_counter, filled, kind>>

(* What the sequencer may ask for.                                         *)
Req ==
  [read : BOOLEAN, write : {FALSE, filled}, width : {Width}, height : {COL_WIDTH - 2},
   read_address : {0}, write_address : {0}, input_row_width : {0}, output_row_width : {0}]

Step(req, tx_done) ==
  /\ Clock(req, dma!DramReady(RdWr, tx_done), dma!RequestDone, 0, Junk)
  /\ dma!Clock(Request, FpuReady, request_size, tx_done)
  /\ filled' = (filled \/ (cap_read /\ state # "IDLE" /\ state' = "IDLE"))
  /\ kind' = IF Request THEN (IF RdWr THEN "WRITE" ELSE "READ") ELSE kind

PortInit ==
  /\ Init
  /\ dma!Init
  /\ filled = FALSE
  /\ kind = "READ"

PortNext == \E req \in Req, tx_done \in BOOLEAN : Step(req, tx_done)

PortSpec == PortInit /\ [][PortNext]_portVars

-----------------------------------------------------------------------------
(* The DMA controller asks memory for what the unit asked it for:          *)
(* "request type specified by rd_wr", "high = wr, low = read"              *)
(* (FPUDRAM_if.sv 2, 3).                                                   *)
RequestKind == dma!Op(RdWr, FpuReady) \in {"IDLE", kind}
=============================================================================
