---------------------------- MODULE FpuController ----------------------------
(***************************************************************************)
(* FPU/FPUController.sv and FPU/FPUControllerConfigurationLoader.sv: the   *)
(* filter unit's sequencer.  It reads an image column by column out of one *)
(* buffer while the request controller fills the other and empties the     *)
(* buffer of results before.  A row group is COL_WIDTH rows high, of which *)
(* COL_WIDTH - 2 are new; a chunk of it is MEM_BUFFER_WIDTH columns wide.  *)
(*                                                                         *)
(* The outputs that the code sets on "case(next)" and clears otherwise are *)
(* high exactly in the states in whose branch they are set: they are       *)
(* operators (ShiftCols, Read, ...) on the state.                          *)
(* A column is a byte: three to a pixel.                                   *)
(***************************************************************************)
EXTENDS Naturals

CONSTANTS
  COL_WIDTH,          \* rows of a read buffer (10)
  MEM_BUFFER_WIDTH    \* columns of a buffer (512)

VARIABLES
  state, load,                  \* the sequencer's and the loader's state
  conf,                         \* the loaded configuration, without the filter
  rd_buffer_sel, wr_buffer_sel,
  read_address, write_address,  \* req_if: of the next request
  base_read_address, base_write_address,
  read_col_address, write_col_address,
  remaining_height, remaining_width

addrs == <<read_address, write_address, base_read_address, base_write_address>>
counts == <<read_col_address, write_col_address, remaining_height, remaining_width>>
vars == <<state, load, conf, rd_buffer_sel, wr_buffer_sel, addrs, counts>>

DELAY == 6      \* columns between a buffer's output and the filter's result

-----------------------------------------------------------------------------
(* Wires                                                                   *)

TotalWidth == (conf.image_width + 2) * 3
ResultWidth == conf.image_width * 3 + 4

(* The remaining_ counters are unsigned (19 bits, the height 17).          *)
Minus(n, m) == IF n >= m THEN n - m ELSE n + 2^19 - m
OneLate == remaining_width < MEM_BUFFER_WIDTH              \* mutation of LastButOne
LastButOne == Minus(remaining_width, MEM_BUFFER_WIDTH) < MEM_BUFFER_WIDTH

Width ==
  IF MEM_BUFFER_WIDTH > Minus(remaining_width, 2)
  THEN Minus(remaining_width, 2) ELSE MEM_BUFFER_WIDTH
Height == IF COL_WIDTH > remaining_height THEN Minus(remaining_height, 2) ELSE COL_WIDTH - 2

MappedDataRequest == load = "WAIT_READY"
LoadConfigDone == load = "DONE"
Done == state = "DONE"

Read == state \in {"FILL_BUFF1", "FILL_BUFF2", "CHUNK_DONE", "ROW_DONE_WAIT"}
Write == state \in {"CHUNK_DONE", "ROW_DONE_WAIT", "FINAL_REQUEST"}
Operating == state \in {"OPERATE", "CHUNK_END", "UPDATE_BASE", "CHUNK_DONE"}
ShiftCols == Operating \/ state \in {"NEW_ROW", "PRE_CHUNK_END3", "ROW_END"}
Refill == {"PRE_CHUNK_END2", "PRE_CHUNK_END2_5", "PRE_CHUNK_END3"}
ReadInc == Operating \/ state \in {"NEW_ROW", "PRE_PAUSE"} \cup Refill
WriteInc == Operating \/ state \in {"PRE_PAUSE", "ROW_END"} \cup Refill
WrEnWrBuffer == Operating \/ state \in {"PRE_PAUSE", "PRE_PAUSE2", "ROW_END"}
Reset == state \in {"FILL_BUFF2", "UPDATE_WRITE"}          \* read_rst, write_rst
Rewind == state = "PRE_CHUNK_END1"                         \* read_dec, write_dec

-----------------------------------------------------------------------------
(* The next state (FPUController.sv 49-129).  UPDATE_HEIGHT has no         *)
(* predecessor.                                                            *)
Goto(from, to) == state = from /\ state' = to
Stay(from, leave, to) == Goto(from, IF leave THEN to ELSE from)

Loading(start) ==
  \/ Stay("IDLE", start, "LOAD_CONFIG")
  \/ Stay("LOAD_CONFIG", LoadConfigDone, "FILL_BUFF1")
  \/ Goto("FILL_BUFF1", IF TotalWidth > MEM_BUFFER_WIDTH THEN "ADDR_ALL" ELSE "ADDR_CHUNK")
  \/ Goto("ADDR_ALL", "FILL_BUFF2")
  \/ Goto("ADDR_CHUNK", "FILL_BUFF2")

Filling(making_request) ==
  \/ Stay("FILL_BUFF2", ~making_request, "FILL_BUFF_FLIP")
  \/ Goto("FILL_BUFF_FLIP", "NEW_ROW")
  \/ Stay("NEW_ROW", read_col_address = 3 + DELAY, "OPERATE")

(* mutation of RunsOut: a chunk ends whether or not the request is over    *)
NeverRunsOut(making_request) == FALSE

(* The buffer being filled will not be there in time.                      *)
RunsOut(making_request) ==
  /\ remaining_width # MEM_BUFFER_WIDTH - 1
  /\ read_col_address = MEM_BUFFER_WIDTH - (1 + DELAY)
  /\ making_request

Operate(making_request) ==
  Goto("OPERATE",
       IF read_col_address >= remaining_width THEN "ROW_END"
       ELSE IF RunsOut(making_request) THEN "PRE_PAUSE"
       ELSE IF read_col_address = MEM_BUFFER_WIDTH - 1 THEN "CHUNK_END"
       ELSE "OPERATE")

Pausing(making_request) ==
  \/ Stay("PRE_PAUSE", read_col_address = MEM_BUFFER_WIDTH - 2, "PRE_PAUSE2")
  \/ Goto("PRE_PAUSE2", "PAUSE_CHUNK")
  \/ Stay("PAUSE_CHUNK", ~making_request, "PRE_CHUNK_END1")
  \/ Goto("PRE_CHUNK_END1", "PRE_CHUNK_END2")
  \/ Goto("PRE_CHUNK_END2", "PRE_CHUNK_END2_5")
  \/ Goto("PRE_CHUNK_END2_5", "PRE_CHUNK_END3")
  \/ Stay("PRE_CHUNK_END3", read_col_address = MEM_BUFFER_WIDTH - 1, "CHUNK_END")

EndingChunk ==
  \/ Stay("CHUNK_END", write_col_address = MEM_BUFFER_WIDTH - 1, "UPDATE_BASE")
  \/ Goto("UPDATE_BASE", "CHUNK_DONE")
  \/ Goto("CHUNK_DONE", IF Minus(remaining_width, MEM_BUFFER_WIDTH) < 3
                        THEN "WAIT_FINAL" ELSE "OPERATE")

NotAwaited(making_request) == TRUE      \* mutation of RowsSent and of AllSent
RowsSent(making_request) == ~making_request

EndingRow(making_request) ==
  \/ Stay("ROW_END", write_col_address >= Minus(remaining_width, 2),
          IF remaining_height > COL_WIDTH THEN "UPDATE_READ" ELSE "PRE_FINAL")
  \/ Goto("UPDATE_READ", "ROW_DONE_WAIT")
  \/ Stay("ROW_DONE_WAIT", RowsSent(making_request), "UPDATE_WRITE")
  \/ Goto("UPDATE_WRITE", "NEW_ROW")

AllSent(making_request) == ~making_request

Finishing(making_request) ==
  \/ Goto("PRE_FINAL", "FINAL_REQUEST")
  \/ Stay("FINAL_REQUEST", ~making_request, "FINAL_FLIP")
  \/ Goto("FINAL_FLIP", "WAIT_FINAL")
  \/ Stay("WAIT_FINAL", AllSent(making_request), "DONE")
  \/ Goto("DONE", "IDLE")

NextState(start, making_request) ==
  \/ Loading(start)
  \/ Filling(making_request)
  \/ Operate(making_request)
  \/ Pausing(making_request)
  \/ EndingChunk
  \/ EndingRow(making_request)
  \/ Finishing(making_request)

-----------------------------------------------------------------------------
(* The loader: asks for the configuration line and keeps it.               *)
Loader(valid, config) ==
  /\ load' = CASE load = "IDLE" -> IF state = "LOAD_CONFIG" THEN "WAIT_READY" ELSE "IDLE"
               [] load = "WAIT_READY" -> IF valid THEN "CAPTURE" ELSE "WAIT_READY"
               [] load = "CAPTURE" -> "DONE"
               [] load = "DONE" -> "IDLE"
  /\ conf' = IF load' = "CAPTURE" THEN config ELSE conf

(* The bank selects.  A select names the bank that is computed on; the     *)
(* request controller works on the other.                                  *)
BankSelects ==
  /\ rd_buffer_sel' =
       CASE state' = "FILL_BUFF1" -> 1
         [] state' = "FILL_BUFF_FLIP" -> 0
         [] state' = "CHUNK_END" -> 1 - wr_buffer_sel
         [] state' \in {"UPDATE_WRITE", "PRE_FINAL"} -> 1 - rd_buffer_sel
         [] OTHER -> rd_buffer_sel
  /\ wr_buffer_sel' =
       CASE state' = "FILL_BUFF1" -> 0
         [] state' = "UPDATE_BASE" -> rd_buffer_sel
         [] state' \in {"UPDATE_WRITE", "FINAL_FLIP"} -> 1 - wr_buffer_sel
         [] OTHER -> wr_buffer_sel

NextGroup == TotalWidth * (COL_WIDTH - 2)

Addresses ==
  /\ read_address' =
       CASE state' = "FILL_BUFF1" -> conf.start_address
         [] state' = "ADDR_ALL" -> read_address + MEM_BUFFER_WIDTH
         [] state' = "ADDR_CHUNK" -> read_address + NextGroup
         [] state' = "CHUNK_DONE" -> IF LastButOne THEN base_read_address
                                     ELSE read_address + MEM_BUFFER_WIDTH
         [] state' = "UPDATE_READ" -> read_address +
              (IF TotalWidth > MEM_BUFFER_WIDTH THEN MEM_BUFFER_WIDTH ELSE NextGroup)
         [] OTHER -> read_address
  /\ base_read_address' =
       CASE state' = "FILL_BUFF1" -> conf.start_address
         [] state' = "ADDR_CHUNK" \/ (state' = "UPDATE_BASE" /\ LastButOne)
              -> base_read_address + NextGroup
         [] OTHER -> base_read_address
  /\ base_write_address' =
       CASE state' = "FILL_BUFF1" -> conf.result_address
         [] state' = "UPDATE_WRITE" -> base_write_address + ResultWidth * (COL_WIDTH - 2)
         [] OTHER -> base_write_address
  (* update_write_address *)
  /\ write_address' =
       CASE state = "FILL_BUFF1" -> conf.result_address
         [] state = "CHUNK_DONE" -> write_address + MEM_BUFFER_WIDTH
         [] state = "UPDATE_WRITE" -> base_write_address
         [] OTHER -> write_address

(* A column counter: wraps at the buffer's width.                          *)
ShortColumn(col, inc) ==                                   \* mutation of Column
  IF Reset THEN 0
  ELSE IF inc THEN (col + 1) % MEM_BUFFER_WIDTH
  ELSE IF Rewind THEN (col + MEM_BUFFER_WIDTH - DELAY) % MEM_BUFFER_WIDTH
  ELSE col

Column(col, inc) ==
  IF Reset THEN 0
  ELSE IF inc THEN (col + 1) % MEM_BUFFER_WIDTH
  ELSE IF Rewind THEN (col + MEM_BUFFER_WIDTH - (DELAY + 1)) % MEM_BUFFER_WIDTH
  ELSE col

Counters ==
  /\ read_col_address' = Column(read_col_address, ReadInc)
  /\ write_col_address' = Column(write_col_address, WriteInc)
  /\ remaining_height' =
       CASE state = "FILL_BUFF1" -> conf.image_height + 2
         [] state = "UPDATE_WRITE" -> remaining_height - (COL_WIDTH - 2)
         [] OTHER -> remaining_height
  /\ remaining_width' =
       CASE state \in {"FILL_BUFF1", "UPDATE_WRITE"} -> TotalWidth
         [] state = "CHUNK_DONE" -> Minus(remaining_width, MEM_BUFFER_WIDTH)
         [] OTHER -> remaining_width

Clock(start, making_request, valid, config) ==
  /\ NextState(start, making_request)
  /\ Loader(valid, config)
  /\ BankSelects
  /\ Addresses
  /\ Counters

NoConf == [image_width |-> 0, image_height |-> 0, start_address |-> 0, result_address |-> 0]

Init ==
  /\ state = "IDLE" /\ load = "IDLE" /\ conf = NoConf
  /\ rd_buffer_sel = 0 /\ wr_buffer_sel = 0
  /\ read_address = 0 /\ write_address = 0
  /\ base_read_address = 0 /\ base_write_address = 0
  /\ read_col_address = 0 /\ write_col_address = 0
  /\ remaining_height = 0 /\ remaining_width = 0
=============================================================================
