----------------------------- MODULE FpuBuffers -----------------------------
(***************************************************************************)
(* FPU/FPURequestBuffer.sv with its banks (ReadBank.sv, WriteBank.sv,      *)
(* Single_RAM.sv), FPU/FPUBuffers.sv and FPU/FPUMAC.sv: the data path from *)
(* the words read to the bytes written.                                    *)
(*                                                                         *)
(* A byte is known by where it comes from: an input byte by its address, a *)
(* result by the address of the top left byte of its 3 x 3 window, all     *)
(* else is Junk.  A word is known by its first byte.  The filter gives a   *)
(* result when its nine inputs are such a window of the image, and Junk    *)
(* otherwise; its arithmetic is in FilterMac.                              *)
(***************************************************************************)
EXTENDS Naturals

CONSTANTS COL_WIDTH, MEM_BUFFER_WIDTH, WORD, Junk

VARIABLES
  rb, rb_out, byte_sel,     \* read banks: RAMs, their output words, the byte of it
  wb, wb_out,               \* write banks: RAMs, their output columns
  last_read_sel,            \* row of the output column of each write bank
  last_rd_buffer_sel, last_wr_buffer_sel,
  read_col,                 \* registered column of the selected read bank
  col,                      \* FPUBuffers: <<col0, col1, col2>>
  mac                       \* FilterMAC: its registers, first to last

bytes == <<rb, rb_out, wb, wb_out, read_col, col, mac>>
selects == <<byte_sel, last_read_sel, last_rd_buffer_sel, last_wr_buffer_sel>>
vars == <<bytes, selects>>

Bank == {0, 1}
Row == 0..(COL_WIDTH - 1)
ResultRow == 0..(COL_WIDTH - 3)

JunkCol == [r \in Row |-> Junk]
JunkResults == [r \in ResultRow |-> Junk]

-----------------------------------------------------------------------------
(* Wires                                                                   *)

(* FPURequestBuffer.sv 42, 43: what the banks show.                        *)
ReadColOut ==
  LET b == last_rd_buffer_sel
  IN  [r \in Row |-> IF rb_out[b][r] = Junk THEN Junk ELSE rb_out[b][r] + byte_sel[b]]
RequestDataOut ==
  LET b == 1 - last_wr_buffer_sel
  IN  wb_out[b][last_read_sel[b]]

(* The last of the filter's registers is result_pixel, the column to be    *)
(* written.                                                                *)
WriteCol == mac[5]

(* The nine bytes of rows r, r+1, r+2 are a window of rows of this width.  *)
Window(r, width) ==
  LET a == col[1][r]
  IN  IF /\ a # Junk
         /\ \A i \in 0..2, j \in 0..2 : col[j + 1][r + i] = a + i * width + j
      THEN a ELSE Junk

-----------------------------------------------------------------------------
(* A synchronous single-port RAM for each row: a write shows the old word. *)

(* Bank 0 is filled when rd_buffer_sel is high, bank 1 when it is low.     *)
Filled(b, wr_en_rd_buffer, rd_buffer_sel) == wr_en_rd_buffer /\ rd_buffer_sel # b

ReadBanks(in) ==
  LET fills(b) == Filled(b, in.wr_en_rd_buffer, in.rd_buffer_sel)
      addr(b) == IF fills(b) THEN in.wr_col ELSE in.read_col_address
  IN  /\ rb' = [b \in Bank |->
                  IF fills(b) THEN [rb[b] EXCEPT ![in.wr_row][addr(b) \div WORD] = in.data]
                  ELSE rb[b]]
      /\ rb_out' = [b \in Bank |-> [r \in Row |-> rb[b][r][addr(b) \div WORD]]]
      /\ byte_sel' = [b \in Bank |-> addr(b) % WORD]

WriteBanks(in) ==
  LET stores(b) == in.wr_en_wr_buffer /\ in.wr_buffer_sel = b
      addr(b) == IF stores(b) THEN in.write_col_address ELSE in.rd_col
  IN  /\ wb' = [b \in Bank |-> IF stores(b) THEN [wb[b] EXCEPT ![addr(b)] = WriteCol] ELSE wb[b]]
      /\ wb_out' = [b \in Bank |-> wb[b][addr(b)]]
      /\ last_read_sel' = [b \in Bank |-> in.rd_row]

(* The three columns and the filter: five registers deep.                  *)
Columns(in) ==
  /\ read_col' = ReadColOut
  /\ col' = IF in.shift_cols THEN <<col[2], col[3], read_col>> ELSE col
  /\ mac' = <<[r \in ResultRow |-> Window(r, in.width)], mac[1], mac[2], mac[3], mac[4]>>

Clock(in) ==
  /\ ReadBanks(in)
  /\ WriteBanks(in)
  /\ Columns(in)
  /\ last_rd_buffer_sel' = in.rd_buffer_sel
  /\ last_wr_buffer_sel' = in.wr_buffer_sel

(* No byte of the image: after reset, and when an image is new.            *)
EmptyRead == [b \in Bank |-> [r \in Row |-> [w \in 0..(MEM_BUFFER_WIDTH \div WORD - 1) |-> Junk]]]
EmptyWrite == [b \in Bank |-> [c \in 0..(MEM_BUFFER_WIDTH - 1) |-> JunkResults]]
EmptyMac == <<JunkResults, JunkResults, JunkResults, JunkResults, JunkResults>>

Forget ==
  /\ rb' = EmptyRead /\ rb_out' = [b \in Bank |-> JunkCol]
  /\ wb' = EmptyWrite /\ wb_out' = [b \in Bank |-> JunkResults]
  /\ read_col' = JunkCol /\ col' = <<JunkCol, JunkCol, JunkCol>> /\ mac' = EmptyMac
  /\ UNCHANGED selects

Init ==
  /\ rb = EmptyRead /\ rb_out = [b \in Bank |-> JunkCol]
  /\ wb = EmptyWrite /\ wb_out = [b \in Bank |-> JunkResults]
  /\ read_col = JunkCol /\ col = <<JunkCol, JunkCol, JunkCol>> /\ mac = EmptyMac
  /\ byte_sel = [b \in Bank |-> 0] /\ last_read_sel = [b \in Bank |-> 0]
  /\ last_rd_buffer_sel = 0 /\ last_wr_buffer_sel = 0
=============================================================================
