------------------------------- MODULE FpuFrame -------------------------------
(***************************************************************************)
(* What the filter unit keeps while it goes through an image: where the    *)
(* row group and the chunk are, what each bank and each register of the    *)
(* pipeline holds, how far a request has come and what is in memory.       *)
(* Together an inductive invariant, from which RightLines and              *)
(* FrameComplete follow.                                                   *)
(***************************************************************************)
EXTENDS Fpu

M == MEM_BUFFER_WIDTH
LineWords == CL_WIDTH \div WORD         \* words of a line
RowWords == M \div WORD                 \* words of a row of a read bank
Lines == requests!RequestLines

-----------------------------------------------------------------------------
(* The images that the unit can filter: result rows are whole lines, and   *)
(* the last chunk of a row has at least three columns and is at its end    *)
(* when the sequencer looks whether it has to pause.                       *)
Whole(n) == \E q \in 0..n : n = q * CL_WIDTH
Ends(n) == \E k \in 0..n : n - k * M \in 3..(M - 7)
Supported(i) ==
  /\ i.image_height > 0
  /\ Whole(3 * i.image_width + 4)
  /\ Ends(3 * (i.image_width + 2))

-----------------------------------------------------------------------------
(* The states of the sequencer by what it is at.                           *)
Quiet == {"IDLE", "LOAD_CONFIG"}
Early == Quiet \cup {"FILL_BUFF1"}
First == {"ADDR_ALL", "ADDR_CHUNK", "FILL_BUFF2"}
Pauses ==
  {"PRE_PAUSE", "PRE_PAUSE2", "PAUSE_CHUNK", "PRE_CHUNK_END1", "PRE_CHUNK_END2",
   "PRE_CHUNK_END2_5", "PRE_CHUNK_END3"}
Crossing == {"UPDATE_BASE", "CHUNK_DONE"}
NextRow == {"UPDATE_READ", "ROW_DONE_WAIT", "UPDATE_WRITE"}
Final == {"PRE_FINAL", "FINAL_REQUEST", "FINAL_FLIP", "WAIT_FINAL", "DONE"}

Typed ==
  /\ {image, conf} \subseteq
       [image_width : Nat, image_height : Nat, start_address : Nat, result_address : Nat]
  /\ {read_address, write_address, base_read_address, base_write_address, address, cap_rd_addr}
       \subseteq Int

(* The image is the one configured, as soon as the loader has it.          *)
ImageInv ==
  /\ load \in {"IDLE", "WAIT_READY", "CAPTURE", "DONE"}
  /\ start \/ state # "IDLE" => image \in Images
  /\ load # "IDLE" => state = "LOAD_CONFIG"
  /\ load \in {"CAPTURE", "DONE"} => conf = image
  /\ state \notin Quiet => conf = image /\ Supported(image)

-----------------------------------------------------------------------------
(* Place in the image: the top row of the group, the column where the      *)
(* chunk begins, and the addresses of the first byte of both.              *)
Top == image.image_height + 2 - remaining_height
Left == InRow - remaining_width
RowBase == image.start_address + Top * InRow
Base == RowBase + Left
RowEnd == RowBase + InRow
Group == InRow * (COL_WIDTH - 2)
NextBase == IF remaining_width > M THEN Base + M ELSE RowBase + Group

(* The chunk after the next, and the second chunk of the next group.       *)
Second == IF remaining_width > 2 * M THEN Base + 2 * M ELSE RowBase + Group
NextSecond == RowBase + Group + (IF InRow > M THEN M ELSE Group)

Geometry ==
  state \notin Early =>
    /\ remaining_height \in 3..(image.image_height + 2)
    /\ remaining_width \in 3..InRow /\ Ends(remaining_width) /\ Whole(remaining_width - 2)
    /\ state \in Pauses \cup Crossing \cup {"CHUNK_END"} => remaining_width > M
    /\ state \in {"ROW_END"} \cup NextRow \cup Final => remaining_width < M
    /\ state \in NextRow => remaining_height > COL_WIDTH
    /\ state \in Final => remaining_height <= COL_WIDTH
    /\ state \in First \cup {"FILL_BUFF_FLIP", "NEW_ROW"} => remaining_width = InRow
    /\ state \in First => remaining_height = image.image_height + 2
    /\ state = "ADDR_ALL" => InRow > M
    /\ state = "ADDR_CHUNK" => InRow <= M

ReadAddress ==
  CASE state = "CHUNK_DONE" -> Second
    [] state \in NextRow -> NextSecond
    [] OTHER -> NextBase
BaseReadAddress ==
  IF remaining_width > (IF state \in Crossing THEN 2 * M ELSE M) THEN RowBase ELSE RowBase + Group
BaseWriteTop == IF state = "UPDATE_WRITE" THEN Top + (COL_WIDTH - 2) ELSE Top

AddressInv ==
  /\ state = "FILL_BUFF1" =>
       /\ read_address = image.start_address /\ base_read_address = image.start_address
       /\ base_write_address = image.result_address
  /\ state \notin Early =>
       /\ base_write_address = image.result_address + BaseWriteTop * OutRow
       /\ write_address = image.result_address + Top * OutRow + Left
  /\ state \notin Early \cup Final =>
       /\ read_address = ReadAddress
       /\ InRow > M => base_read_address = BaseReadAddress

SelectInv ==
  /\ {rd_buffer_sel, wr_buffer_sel} \subseteq {0, 1}
  /\ state \in First \cup {"FILL_BUFF1"} => rd_buffer_sel = 1 /\ wr_buffer_sel = 0
  /\ state \in {"FILL_BUFF_FLIP", "NEW_ROW", "OPERATE", "ROW_END", "FINAL_FLIP"}
                 \cup Pauses \cup Crossing \cup NextRow => rd_buffer_sel = wr_buffer_sel
  /\ state \in {"CHUNK_END", "PRE_FINAL", "FINAL_REQUEST"} => rd_buffer_sel = 1 - wr_buffer_sel

-----------------------------------------------------------------------------
(* The request controller and the memory                                   *)
Sending ==
  {"SAVE_WRITE_ADDR", "START_WRITE_REQUEST", "FIRST_LOAD", "LOAD_WRITE_DATA", "LAST_SHIFT",
   "WAIT_DRAM_READY_WRITE", "SEND_WRITE_CL", "WAIT_WRITE_DONE", "UPDATE_WRITE_ADDRESS"}
Loading == {"FIRST_LOAD", "LOAD_WRITE_DATA"}
Loaded == {"LAST_SHIFT", "WAIT_DRAM_READY_WRITE", "SEND_WRITE_CL"}
Prelude == {"SAVE_READ_ADDR", "WRITE_TO_READ"}
Saving == {"GET_CL", "FIRST_SAVE", "SAVE_DATA", "SAVE_END"}
Fetching == Saving \cup {"WAIT_DRAM_READY", "FPU_READY", "WAIT_READ_DONE", "WAIT_READ_DONE_LINE"}
Filling == Prelude \cup {"START_READ_REQUEST", "UPDATE_READ_ADDRESS"} \cup Fetching
AtRest ==
  {"IDLE", "START_READ_REQUEST", "UPDATE_READ_ADDRESS", "SAVE_WRITE_ADDR",
   "START_WRITE_REQUEST", "UPDATE_WRITE_ADDRESS"} \cup Prelude

SentLines == IF r_state = "SEND_WRITE_CL" THEN sent_lines - 1 ELSE sent_lines

(* How far the memory has come with the request.                           *)
WriteMemory ==
  r_state \in Loading \cup Loaded \cup {"WAIT_WRITE_DONE"} =>
    /\ dram.rd_wr /\ dram.base = address /\ dram.num = request_size
    /\ SentLines \in Nat
    /\ \/ phase = "READY" /\ dram.count = SentLines
       \/ /\ phase = "WRITING" /\ ~dram_ready /\ ~request_done /\ dram.count = SentLines - 1
          /\ r_state # "SEND_WRITE_CL"

ReadMemory ==
  /\ r_state \in Fetching => ~dram.rd_wr /\ dram.base = address /\ sent_lines \in 0..Lines
  /\ r_state = "WAIT_DRAM_READY" =>
       /\ phase \in {"READY", "READING", "ANSWERED"}
       /\ dram.count = sent_lines /\ sent_lines < Lines
       /\ dram_ready <=> phase = "ANSWERED"
       /\ phase = "ANSWERED" => read_data = At
  /\ r_state \in Saving =>
       /\ dram.count = sent_lines + 1 /\ sent_lines < Lines
       /\ phase \in IF sent_lines + 1 = Lines THEN {"ENDING", "DONE"} ELSE {"READY"}
  /\ r_state = "FPU_READY" =>
       /\ dram.count = sent_lines
       /\ phase \in IF sent_lines = Lines THEN {"ENDING", "DONE"} ELSE {"READY"}
  /\ r_state \in {"WAIT_READ_DONE", "WAIT_READ_DONE_LINE"} =>
       phase \in {"ENDING", "DONE"} /\ dram.count = Lines /\ sent_lines = Lines

MemoryInv ==
  /\ dram = [rd_wr |-> dram.rd_wr, base |-> dram.base, num |-> dram.num, count |-> dram.count]
  /\ sent_lines \in Nat
  /\ requests!Request => sent_lines = 0
  /\ phase = "DONE" <=> (request_done /\ r_state \in Fetching)
  /\ r_state \in AtRest => phase = "READY"
  /\ WriteMemory
  /\ ReadMemory

(* The word of the row that is written next.                               *)
Word == LineWords * sent_lines + (IF r_state \in Saving THEN load_count ELSE 0)
WordInv ==
  /\ r_state = "UPDATE_READ_ADDRESS" => sent_lines = Lines
  /\ r_state \in {"START_READ_REQUEST"} \cup Fetching =>
       wr_col = IF Word = RowWords THEN 0 ELSE WORD * Word
  /\ r_state \in {"GET_CL", "FIRST_SAVE"} => load_count = 0
  /\ r_state = "SAVE_DATA" => load_count \in 1..(LineWords - 1)
  /\ r_state = "SAVE_END" => load_count = LineWords
  /\ r_state = "GET_CL" => read_cl = address + WORD * Word
  /\ r_state \in {"FIRST_SAVE", "SAVE_DATA"} =>
       /\ buffer_write_data = address + WORD * Word
       /\ read_cl = address + WORD * Word + WORD

-----------------------------------------------------------------------------
(* The read banks                                                          *)

(* The banks keep their shape.                                             *)
ReadShape ==
  \A b \in buffers!Bank :
    DOMAIN rb[b] = buffers!Row /\ \A r \in buffers!Row : DOMAIN rb[b][r] = 0..(RowWords - 1)
WriteShape == \A b \in buffers!Bank : DOMAIN wb[b] = 0..(M - 1)

(* The first n words of row r hold the bytes from address a on.            *)
RowHas(b, r, a, n) == \A w \in 0..(RowWords - 1) : w < n => rb[b][r][w] = a + w * WORD
Holds(b, a) == \A r \in buffers!Row : RowHas(b, r, a + r * InRow, RowWords)

FillInv ==
  /\ r_state = "IDLE" /\ state # "IDLE" => rd_row = COL_WIDTH - 3 /\ wr_row = -1
  /\ r_state \in Prelude => wr_row = -1 /\ address = cap_rd_addr
  /\ r_state \in Filling \ Prelude =>
       /\ wr_row \in buffers!Row
       /\ address = cap_rd_addr + (IF r_state = "UPDATE_READ_ADDRESS" THEN wr_row + 1 ELSE wr_row) * InRow
  /\ r_state \in {"WAIT_READ_DONE_LINE", "UPDATE_READ_ADDRESS"} => wr_row < COL_WIDTH - 1
  /\ r_state = "WAIT_READ_DONE" => wr_row = COL_WIDTH - 1

FilledInv ==
  r_state \in Filling \ Prelude /\ state \notin Final =>
    /\ \A r \in buffers!Row : r < wr_row => RowHas(1 - rd_buffer_sel, r, cap_rd_addr + r * InRow, RowWords)
    /\ RowHas(1 - rd_buffer_sel, wr_row, cap_rd_addr + wr_row * InRow, Word)

(* The bank not computed on has, or will have, the bytes from a on.        *)
Fetches(a) ==
  \/ r_state = "IDLE" /\ Holds(1 - rd_buffer_sel, a)
  \/ r_state \in Sending /\ cap_read /\ cap_rd_addr = a
  \/ r_state \in Filling /\ cap_rd_addr = a

(* The bank that is computed on holds the bytes of the present chunk, and  *)
(* the other one holds those of the next, or will when the request under   *)
(* way is over: the next of the row or, behind the last, the first of the  *)
(* next row group.  From CHUNK_END to CHUNK_DONE the bank read is that of  *)
(* the next chunk already.                                                 *)
BankInv ==
  /\ state \in First => Fetches(Base)
  /\ state \in {"FILL_BUFF_FLIP", "NEW_ROW", "OPERATE", "ROW_END", "UPDATE_READ", "ROW_DONE_WAIT"}
                 \cup Pauses => Holds(rd_buffer_sel, Base) /\ Fetches(NextBase)
  /\ state \in Crossing \cup {"CHUNK_END"} => Holds(rd_buffer_sel, NextBase)
  /\ state = "UPDATE_WRITE" => Holds(rd_buffer_sel, NextBase) /\ Fetches(NextSecond)

-----------------------------------------------------------------------------
(* The pipeline                                                            *)
Column(a, width) == [r \in buffers!Row |-> a + r * width]
Results(a, width) == [r \in buffers!ResultRow |-> a + r * width]

(* The result written next is that of the window at a; columns before lo   *)
(* and behind the end of the row do not count.                             *)
Counts(a, lo) == lo <= a /\ a < RowEnd
Pipeline(a, lo) ==
  /\ \A i \in 1..5 : lo <= a + 5 - i /\ a + 7 - i < RowEnd => mac[i] = Results(a + 5 - i, InRow)
  /\ \A j \in 1..3 : Counts(a + 4 + j, lo) => col[j] = Column(a + 4 + j, InRow)
  /\ Counts(a + 8, lo) => read_col = Column(a + 8, InRow)
  /\ Counts(a + 9, lo) => buffers!ReadColOut = Column(a + 9, InRow)

(* In a pause the columns stand still, eleven before the end of the chunk. *)
Stop == Base + M - 11
Frozen == \A j \in 1..3 : col[j] = Column(Stop - 1 + j, InRow)
Least(a, b) == IF a < b THEN a ELSE b

PipeInv ==
  /\ state = "OPERATE" => read_col_address >= 10
  /\ state = "NEW_ROW" => Pipeline(Base + read_col_address - 10, RowBase)
  /\ state \in {"OPERATE", "CHUNK_END", "ROW_END"} => Pipeline(Base + write_col_address, RowBase)
  /\ state \in Crossing => Pipeline(Base + M + write_col_address, RowBase)
  /\ state \in {"PRE_PAUSE", "PRE_PAUSE2"} =>
       \A i \in 1..5 : mac[i] = Results(Least(Base + write_col_address + 5 - i, Stop), InRow)
  /\ state \in Pauses \ {"PRE_CHUNK_END3"} => Frozen
  /\ state = "PRE_CHUNK_END2_5" => buffers!ReadColOut = Column(Base + M - 8, InRow)
  /\ state = "PRE_CHUNK_END3" => Pipeline(Base + write_col_address, Stop)
  /\ state = "ROW_END" => write_col_address + 10 >= remaining_width

(* The first n columns of a write bank hold the results from a on.         *)
Kept(b, a, n) ==
  \A x \in 0..(M - 1) : x < n /\ a + x + 2 < RowEnd => wb[b][x] = Results(a + x, InRow)
ResultInv ==
  /\ state \in {"OPERATE", "PRE_PAUSE", "PRE_PAUSE2", "CHUNK_END", "ROW_END"} =>
       Kept(wr_buffer_sel, Base, write_col_address)
  /\ state \in Pauses \ {"PRE_PAUSE", "PRE_PAUSE2"} => Kept(wr_buffer_sel, Base, M - 10)
  /\ state \in Crossing =>
       Kept(1 - wr_buffer_sel, Base, M) /\ Kept(wr_buffer_sel, Base + M, write_col_address)
  /\ state \in {"UPDATE_READ", "ROW_DONE_WAIT", "PRE_FINAL", "FINAL_REQUEST"} =>
       Kept(wr_buffer_sel, Base, M)

-----------------------------------------------------------------------------
(* Sending                                                                 *)
RowAt ==
  CASE r_state = "SAVE_WRITE_ADDR" -> 0
    [] r_state = "UPDATE_WRITE_ADDRESS" -> rd_row + 1
    [] OTHER -> rd_row

(* The request is for results of the window at column k of row i, and the  *)
(* bank holds them.                                                        *)
Sends(i, k) ==
  /\ cap_height \in 1..(COL_WIDTH - 2) /\ i + cap_height <= image.image_height
  /\ request_size \in 1..Lines
  /\ k + request_size * CL_WIDTH <= OutRow /\ Whole(k)
  /\ RowAt < cap_height
  /\ address = image.result_address + (i + RowAt) * OutRow + k
  /\ \A x \in 0..(request_size * CL_WIDTH - 1) :
       wb[1 - wr_buffer_sel][x] = Results(image.start_address + i * InRow + k + x, InRow)

FirstColumn == CL_WIDTH * SentLines                     \* of the current line
Cell(x) == wb[1 - wr_buffer_sel][x][rd_row]
SendInv ==
  r_state \in Sending =>
    /\ \E i \in 0..image.image_height, k \in 0..OutRow : Sends(i, k)
    /\ rd_row \in buffers!ResultRow
    /\ r_state = "SAVE_WRITE_ADDR" => rd_row = COL_WIDTH - 3
    /\ r_state = "START_WRITE_REQUEST" => rd_col = 0 /\ load_count = 0 /\ sent_lines = 0
    /\ r_state \in Loading \cup Loaded => SentLines < request_size
    /\ r_state = "FIRST_LOAD" => load_count = 1
    /\ r_state = "LOAD_WRITE_DATA" => load_count \in 2..CL_WIDTH
    /\ r_state \in Loading =>
         /\ rd_col = (FirstColumn + load_count) % M
         /\ last_wr_buffer_sel = wr_buffer_sel
         /\ last_read_sel[1 - wr_buffer_sel] = rd_row
         /\ wb_out[1 - wr_buffer_sel] = wb[1 - wr_buffer_sel][FirstColumn + load_count - 1]
         /\ \A j \in 1..(load_count - 1) :
              write_data[CL_WIDTH - load_count + 1 + j] = Cell(FirstColumn + j - 1)
    /\ r_state \in Loaded =>
         /\ rd_col = (FirstColumn + CL_WIDTH) % M /\ load_count = 0
         /\ \A j \in 1..CL_WIDTH : write_data[j] = Cell(FirstColumn + j - 1)
    /\ r_state = "WAIT_WRITE_DONE" => sent_lines = request_size

-----------------------------------------------------------------------------
(* The lines of rows and columns that the sequencer has passed are in      *)
(* memory, or the request under way will write them.                       *)
Passed(i, x) ==
  \/ i < Top
  \/ /\ i < Top + COL_WIDTH - 2
     /\ x < Left \/ state \in {"UPDATE_WRITE", "FINAL_FLIP", "WAIT_FINAL", "DONE"}
LinesDone ==
  IF r_state \in {"SAVE_WRITE_ADDR", "START_WRITE_REQUEST", "UPDATE_WRITE_ADDRESS"} THEN 0
  ELSE SentLines
Pending(a) ==
  /\ r_state \in Sending
  /\ \E r \in RowAt..(cap_height - 1), l \in 0..(request_size - 1) :
       /\ a = address + (r - RowAt) * OutRow + l * CL_WIDTH
       /\ r = RowAt => l >= LinesDone
LineAddress(i, l) == image.result_address + i * OutRow + l * CL_WIDTH
FrameInv ==
  state \notin Early =>
    \A i \in 0..(image.image_height - 1), l \in 0..(OutRow \div CL_WIDTH - 1) :
      Passed(i, l * CL_WIDTH) =>
        LineAddress(i, l) \in filtered \/ Pending(LineAddress(i, l))
=============================================================================
