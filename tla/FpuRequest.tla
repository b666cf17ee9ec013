----------------------------- MODULE FpuRequest -----------------------------
(***************************************************************************)
(* FPU/FPURequestController.sv: carries out the requests of the sequencer. *)
(* A read fills COL_WIDTH rows of a read buffer, one DRAM request per row; *)
(* a write sends up to COL_WIDTH - 2 rows of results; a write may be       *)
(* followed by a read.  As in FpuController, outputs that are set on       *)
(* "case(next)" and cleared otherwise are operators on the state.          *)
(* cap_width, cap_wr_addr and rows_sent are read nowhere and left out.     *)
(***************************************************************************)
EXTENDS Integers

CONSTANTS
  COL_WIDTH, MEM_BUFFER_WIDTH,
  CL_WIDTH,     \* columns (bytes) of a DRAM line (64)
  WORD,         \* columns of a word of a read buffer (8)
  Junk          \* a byte or word that is no part of the image

VARIABLES
  state,
  address,                              \* dram_if: of the current row
  cap_read, cap_height, cap_rd_addr,    \* the request, as captured when idle
  request_size,                         \* dram_if: lines of a row
  rd_row, rd_col, wr_row, wr_col,       \* position in the buffers
  load_count,                           \* columns or words of the current line
  sent_lines,
  read_cl,                              \* what is left of the line read
  buffer_write_data,
  write_data                            \* dram_if: the line to be written

captured == <<cap_read, cap_height, cap_rd_addr, request_size>>
position == <<rd_row, rd_col, wr_row, wr_col, load_count, sent_lines>>
data == <<read_cl, buffer_write_data, write_data>>
vars == <<state, address, captured, position, data>>

RequestLines == MEM_BUFFER_WIDTH \div CL_WIDTH             \* of a read (8)
JunkLine == [i \in 1..CL_WIDTH |-> Junk]

-----------------------------------------------------------------------------
(* Wires                                                                   *)

MakingRequest == state # "IDLE"
Request == state \in {"START_WRITE_REQUEST", "START_READ_REQUEST"}
RdWr == state = "START_WRITE_REQUEST"                      \* high: write
BusyAtEnd ==                                               \* mutation of FpuReady
  state \in {"SEND_WRITE_CL", "WAIT_DRAM_READY", "FPU_READY"}
FpuReady ==
  state \in {"SEND_WRITE_CL", "WAIT_DRAM_READY", "FPU_READY",
             "WAIT_READ_DONE", "WAIT_READ_DONE_LINE"}
WrEnRdBuffer == state \in {"FIRST_SAVE", "SAVE_DATA"}

-----------------------------------------------------------------------------
(* The next state (FPURequestController.sv 43-111)                         *)
Goto(from, to) == state = from /\ state' = to
Stay(from, leave, to) == Goto(from, IF leave THEN to ELSE from)

LastRow == rd_row = cap_height - 1

Writing(dram_ready, request_done) ==
  \/ Goto("SAVE_WRITE_ADDR", "START_WRITE_REQUEST")
  \/ Goto("START_WRITE_REQUEST", "FIRST_LOAD")
  \/ Goto("FIRST_LOAD", "LOAD_WRITE_DATA")
  \/ Stay("LOAD_WRITE_DATA", load_count = CL_WIDTH, "LAST_SHIFT")
  \/ Goto("LAST_SHIFT", "WAIT_DRAM_READY_WRITE")
  \/ Stay("WAIT_DRAM_READY_WRITE", dram_ready, "SEND_WRITE_CL")
  \/ Goto("SEND_WRITE_CL", IF sent_lines = request_size THEN "WAIT_WRITE_DONE" ELSE "FIRST_LOAD")
  \/ Stay("WAIT_WRITE_DONE", request_done,
          IF ~LastRow THEN "UPDATE_WRITE_ADDRESS"
          ELSE IF cap_read THEN "WRITE_TO_READ" ELSE "IDLE")
  \/ Goto("UPDATE_WRITE_ADDRESS", "START_WRITE_REQUEST")
  \/ Goto("WRITE_TO_READ", "START_READ_REQUEST")

Reading(dram_ready, request_done) ==
  \/ Goto("SAVE_READ_ADDR", "START_READ_REQUEST")
  \/ Goto("START_READ_REQUEST", "WAIT_DRAM_READY")
  \/ Stay("WAIT_DRAM_READY", dram_ready, "GET_CL")
  \/ Goto("GET_CL", "FIRST_SAVE")
  \/ Goto("FIRST_SAVE", "SAVE_DATA")
  \/ Stay("SAVE_DATA", load_count = CL_WIDTH \div WORD - 1, "SAVE_END")
  \/ Goto("SAVE_END", "FPU_READY")
  \/ Goto("FPU_READY",
          IF sent_lines # RequestLines THEN "WAIT_DRAM_READY"
          ELSE IF wr_row = COL_WIDTH - 1
               THEN IF request_done THEN "IDLE" ELSE "WAIT_READ_DONE"
               ELSE IF request_done THEN "UPDATE_READ_ADDRESS" ELSE "WAIT_READ_DONE_LINE")
  \/ Stay("WAIT_READ_DONE", request_done, "IDLE")
  \/ Stay("WAIT_READ_DONE_LINE", request_done, "UPDATE_READ_ADDRESS")
  \/ Goto("UPDATE_READ_ADDRESS", "START_READ_REQUEST")

NextState(req, dram_ready, request_done) ==
  \/ Goto("IDLE", IF req.write THEN "SAVE_WRITE_ADDR"
                  ELSE IF req.read THEN "SAVE_READ_ADDR" ELSE "IDLE")
  \/ Writing(dram_ready, request_done)
  \/ Reading(dram_ready, request_done)

-----------------------------------------------------------------------------
(* The registers.  They follow the state that is entered.                  *)

Capture(req) ==
  IF state = "IDLE"
  THEN /\ cap_read' = req.read
       /\ cap_height' = req.height
       /\ cap_rd_addr' = req.read_address
       /\ request_size' =
            IF req.write THEN (req.width + CL_WIDTH - 1) \div CL_WIDTH ELSE CL_WIDTH \div WORD
  ELSE UNCHANGED captured

Address(req) ==
  address' =
    CASE state' = "SAVE_WRITE_ADDR" -> req.write_address
      [] state' = "SAVE_READ_ADDR" -> req.read_address
      [] state' = "WRITE_TO_READ" -> cap_rd_addr
      [] state' = "UPDATE_WRITE_ADDRESS" -> address + req.output_row_width
      [] state' = "UPDATE_READ_ADDRESS" -> address + req.input_row_width
      [] OTHER -> address

(* Idle sets both rows to all ones, so that the first row is 0.            *)
WrRowTop == -1
Rows ==
  /\ rd_row' = CASE state' = "IDLE" -> COL_WIDTH - 3
                 [] state' = "START_WRITE_REQUEST" -> (rd_row + 1) % (COL_WIDTH - 2)
                 [] OTHER -> rd_row
  /\ wr_row' = CASE state' \in {"IDLE", "WRITE_TO_READ"} -> WrRowTop
                 [] state' = "START_READ_REQUEST" -> wr_row + 1
                 [] OTHER -> wr_row

Columns ==
  /\ rd_col' = CASE state' = "START_WRITE_REQUEST" -> 0
                 [] state' \in {"FIRST_LOAD", "LOAD_WRITE_DATA"} -> (rd_col + 1) % MEM_BUFFER_WIDTH
                 [] OTHER -> rd_col
  /\ wr_col' = CASE state' = "START_READ_REQUEST" -> 0
                 [] state' \in {"SAVE_DATA", "SAVE_END"} -> (wr_col + WORD) % MEM_BUFFER_WIDTH
                 [] OTHER -> wr_col

Counts ==
  /\ load_count' =
       CASE state' \in {"START_WRITE_REQUEST", "START_READ_REQUEST", "LAST_SHIFT", "GET_CL"} -> 0
         [] state' \in {"FIRST_LOAD", "LOAD_WRITE_DATA", "SAVE_DATA", "SAVE_END"} -> load_count + 1
         [] OTHER -> load_count
  /\ sent_lines' =
       CASE Request' -> 0
         [] state' \in {"SEND_WRITE_CL", "FPU_READY"} -> sent_lines + 1
         [] OTHER -> sent_lines

(* write_data, shifted by one column.                                      *)
Shifted(column) == [j \in 1..CL_WIDTH |-> IF j = CL_WIDTH THEN column ELSE write_data[j + 1]]

(* read_cl stands for the address of its first byte: a line is shifted out *)
(* a word at a time.                                                       *)
Data(read_data, buffer_read_data) ==
  /\ read_cl' = CASE state' = "GET_CL" -> read_data
                  [] state' \in {"FIRST_SAVE", "SAVE_DATA"} -> read_cl + WORD
                  [] OTHER -> read_cl
  /\ buffer_write_data' = IF state' \in {"FIRST_SAVE", "SAVE_DATA"} THEN read_cl ELSE Junk
  /\ write_data' =
       CASE state' \in {"LOAD_WRITE_DATA", "LAST_SHIFT"} -> Shifted(buffer_read_data)
         [] state' = "WAIT_WRITE_DONE" -> JunkLine
         [] OTHER -> write_data

Clock(req, dram_ready, request_done, read_data, buffer_read_data) ==
  /\ NextState(req, dram_ready, request_done)
  /\ Capture(req)
  /\ Address(req)
  /\ Rows
  /\ Columns
  /\ Counts
  /\ Data(read_data, buffer_read_data)

Init ==
  /\ state = "IDLE" /\ address = 0
  /\ cap_read = FALSE /\ cap_height = 0 /\ cap_rd_addr = 0 /\ request_size = 0
  /\ rd_row = 0 /\ rd_col = 0 /\ wr_row = 0 /\ wr_col = 0
  /\ load_count = 0 /\ sent_lines = 0
  /\ read_cl = 0 /\ buffer_write_data = Junk /\ write_data = JunkLine
=============================================================================
