--------------------------------- MODULE Fpu ---------------------------------
(***************************************************************************)
(* FPU/FPU.sv: the filter unit - sequencer, request controller, buffers    *)
(* and filter - between software, which writes the configuration and       *)
(* starts it, and the DRAM side of FPUDRAM_if.sv.  Both are modelled as    *)
(* the unit's test bench test/FPU/FPU_tb.sv drives them, every delay being *)
(* any number of cycles.                                                   *)
(*                                                                         *)
(* The image lies in input memory with a border of one pixel, so a row     *)
(* has 3 * (width + 2) bytes; the result has 3 * width + 4 bytes per row   *)
(* and goes to a memory of its own.  One step is one edge of clk.          *)
(***************************************************************************)
EXTENDS Integers, Sequences, FiniteSets

CONSTANTS
  COL_WIDTH, MEM_BUFFER_WIDTH, CL_WIDTH, WORD, Junk,
  Images        \* the configurations software may load

VARIABLES
  state, load, conf, rd_buffer_sel, wr_buffer_sel, read_address, write_address,
  base_read_address, base_write_address, read_col_address, write_col_address,
  remaining_height, remaining_width,                    \* FPUController
  r_state, address, cap_read, cap_height, cap_rd_addr, request_size, rd_row,
  rd_col, wr_row, wr_col, load_count, sent_lines, read_cl, buffer_write_data,
  write_data,                                           \* FPURequestController
  rb, rb_out, byte_sel, wb, wb_out, last_read_sel, last_rd_buffer_sel,
  last_wr_buffer_sel, read_col, col, mac,               \* FPURequestBuffer .. FPUMAC
  start, image, mapped_data_valid,      \* software: image is what it configured
  phase,        \* DRAM: what it is at
  dram,         \* DRAM: the request it serves
  dram_ready, request_done, read_data,
  filtered      \* DRAM: addresses of the lines that hold the right results

control == INSTANCE FpuController
requests == INSTANCE FpuRequest WITH state <- r_state
buffers == INSTANCE FpuBuffers

software == <<start, image, mapped_data_valid>>
memory == <<phase, dram, dram_ready, request_done, read_data, filtered>>
vars == <<control!vars, requests!vars, buffers!vars, software, memory>>

ASSUME WidthAssumption ==
  /\ COL_WIDTH \in Nat /\ COL_WIDTH > 2
  /\ MEM_BUFFER_WIDTH \in Nat /\ MEM_BUFFER_WIDTH > 3 * control!DELAY
  /\ {CL_WIDTH, WORD} \subseteq Nat \ {0}
  /\ MEM_BUFFER_WIDTH % CL_WIDTH = 0 /\ CL_WIDTH % WORD = 0
  /\ CL_WIDTH \div WORD > 1
ASSUME JunkAssumption == Junk \notin Nat
ASSUME ImagesAssumption ==
  Images \subseteq [image_width : Nat, image_height : Nat, start_address : Nat, result_address : Nat]

-----------------------------------------------------------------------------
(* The filter unit                                                         *)

ReqIf ==
  [read |-> control!Read, write |-> control!Write,
   width |-> control!Width, height |-> control!Height,
   read_address |-> read_address, write_address |-> write_address,
   input_row_width |-> control!TotalWidth, output_row_width |-> control!ResultWidth]

BufferIn ==
  [wr_en_rd_buffer |-> requests!WrEnRdBuffer, wr_row |-> wr_row, wr_col |-> wr_col,
   data |-> buffer_write_data, rd_row |-> rd_row, rd_col |-> rd_col,
   rd_buffer_sel |-> rd_buffer_sel, wr_buffer_sel |-> wr_buffer_sel,
   read_col_address |-> read_col_address, write_col_address |-> write_col_address,
   wr_en_wr_buffer |-> control!WrEnWrBuffer, shift_cols |-> control!ShiftCols,
   width |-> control!TotalWidth]

Unit ==
  /\ control!Clock(start, requests!MakingRequest, mapped_data_valid, image)
  /\ requests!Clock(ReqIf, dram_ready, request_done, read_data, buffers!RequestDataOut)

-----------------------------------------------------------------------------
(* Software: sets an image up while the unit is idle, holds start until    *)
(* the configuration is loaded, and answers the unit's request for it.     *)
NewImage == start' /\ ~start

Software ==
  /\ mapped_data_valid' \in {FALSE, control!MappedDataRequest}
  /\ \/ start /\ start' = ~control!LoadConfigDone /\ UNCHANGED image
     \/ ~start /\ UNCHANGED <<start, image>>
     \/ ~start /\ state = "IDLE" /\ start' = TRUE /\ image' \in Images

-----------------------------------------------------------------------------
(* DRAM                                                                    *)

InRow == 3 * (image.image_width + 2)
OutRow == 3 * image.image_width + 4
At == dram.base + CL_WIDTH * dram.count        \* address of the current line

(* The line written holds the results of the filter that belong there.     *)
Right ==
  \E i \in 0..(image.image_height - 1) :
    LET offset == At - (image.result_address + i * OutRow)
    IN  /\ 0 <= offset /\ offset + CL_WIDTH <= OutRow
        /\ \A b \in 0..(CL_WIDTH - 1) :
             write_data[b + 1] = image.start_address + i * InRow + offset + b

Overlaps(a, b) == a - b \in (1 - CL_WIDTH)..(CL_WIDTH - 1)

Store ==
  filtered' = {a \in filtered : ~Overlaps(a, At)} \cup (IF Right THEN {At} ELSE {})

(* The last line of a write ends it.                                       *)
Counted == [dram EXCEPT !.count = @ + 1]
Stored ==
  /\ phase' = "READY" /\ dram_ready' = TRUE
  /\ dram' = Counted /\ request_done' = (dram.count + 1 = dram.num)

Fetched ==
  /\ phase' = "ANSWERED" /\ dram_ready' = TRUE
  /\ read_data' = At

Accept ==
  /\ phase = "READY" /\ requests!Request
  /\ dram' = [rd_wr |-> requests!RdWr, base |-> address, num |-> request_size, count |-> 0]
  /\ dram_ready' = requests!RdWr /\ request_done' = FALSE
  /\ UNCHANGED <<phase, read_data, filtered>>

Serve(delay) ==
  /\ phase = "READY" /\ ~requests!Request
  /\ IF ~requests!FpuReady
     THEN /\ dram_ready' = dram.rd_wr /\ request_done' = FALSE
          /\ UNCHANGED <<phase, dram, read_data, filtered>>
     ELSE IF dram.rd_wr
     THEN /\ Store /\ UNCHANGED read_data
          /\ IF delay THEN /\ phase' = "WRITING" /\ dram_ready' = FALSE
                           /\ request_done' = FALSE /\ UNCHANGED dram
                      ELSE Stored
     ELSE /\ request_done' = FALSE /\ UNCHANGED <<dram, filtered>>
          /\ IF delay THEN /\ phase' = "READING" /\ dram_ready' = FALSE
                           /\ UNCHANGED read_data
                      ELSE Fetched

Delayed(delay) ==
  /\ phase \in {"READING", "WRITING"}
  /\ UNCHANGED filtered
  /\ IF delay THEN UNCHANGED memory
     ELSE IF phase = "WRITING" THEN Stored /\ UNCHANGED read_data
     ELSE Fetched /\ UNCHANGED <<dram, request_done>>

(* All lines of a read have been handed over: request_done after a while,  *)
(* until the unit is ready.                                                *)
Answered(delay) ==
  /\ phase \in {"ANSWERED", "ENDING"}
  /\ dram_ready' = FALSE
  /\ dram' = IF phase = "ANSWERED" THEN Counted ELSE dram
  /\ phase' = IF dram'.count # requests!RequestLines THEN "READY"
              ELSE IF delay THEN "ENDING" ELSE "DONE"
  /\ request_done' = (phase' = "DONE")
  /\ UNCHANGED <<read_data, filtered>>

ReadDone ==
  /\ phase = "DONE"
  /\ phase' = IF requests!FpuReady THEN "READY" ELSE "DONE"
  /\ request_done' = ~requests!FpuReady
  /\ UNCHANGED <<dram, dram_ready, read_data, filtered>>

Dram(delay) ==
  Accept \/ Serve(delay) \/ Delayed(delay) \/ Answered(delay) \/ ReadDone

-----------------------------------------------------------------------------
Init ==
  /\ control!Init
  /\ requests!Init
  /\ buffers!Init
  /\ start = FALSE /\ image = control!NoConf /\ mapped_data_valid = FALSE
  /\ phase = "READY" /\ dram = [rd_wr |-> FALSE, base |-> 0, num |-> 0, count |-> 0]
  /\ dram_ready = FALSE /\ request_done = FALSE /\ read_data = 0
  /\ filtered = {}

(* With a new image every byte in the unit is one of an old image.         *)
Step(delay) ==
  /\ Unit
  /\ Software
  /\ IF NewImage
     THEN /\ buffers!Forget
          /\ filtered' = {}
          /\ UNCHANGED <<phase, dram, dram_ready, request_done, read_data>>
     ELSE buffers!Clock(BufferIn) /\ Dram(delay)

Next == \E delay \in BOOLEAN : Step(delay)

(* The memory answers some time, and so does the configuration.            *)
Fairness ==
  /\ WF_vars(Step(FALSE))
  /\ WF_vars(Next /\ mapped_data_valid')

Spec == Init /\ [][Next]_vars /\ Fairness

-----------------------------------------------------------------------------
FrameLines ==
  {image.result_address + i * OutRow + k * CL_WIDTH :
     i \in 0..(image.image_height - 1), k \in 0..(OutRow \div CL_WIDTH - 1)}

(* done comes when the whole filtered image is in memory (the comparison   *)
(* of FPU_tb.sv at done).  Result rows are whole lines, as the demo pads   *)
(* its images.                                                             *)
FrameComplete == control!Done => FrameLines \subseteq filtered

(* Every line the unit ever writes is a line of the frame and holds the    *)
(* results that belong there: none is written early from a bank still in   *)
(* use, shifted by a column after a pause, or beyond the frame.            *)
RightLines ==
  phase = "READY" /\ dram.rd_wr /\ requests!FpuReady => Right

(* The requests that the sequencer makes for one cycle only, without       *)
(* waiting, find the request controller idle.                              *)
NoLostRequest == state \in {"FILL_BUFF1", "CHUNK_DONE"} => ~requests!MakingRequest

(* The banks change hands only between requests; in the middle of one only *)
(* the read banks may, when no row is left to be computed.                 *)
BanksHeld ==
  [][requests!MakingRequest =>
       /\ wr_buffer_sel' = wr_buffer_sel
       /\ rd_buffer_sel' = rd_buffer_sel \/ state' = "PRE_FINAL"]_vars

(* Every image started is finished.                                        *)
FrameEnds == start ~> control!Done
=============================================================================
