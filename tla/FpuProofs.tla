------------------------------ MODULE FpuProofs ------------------------------
(***************************************************************************)
(* Proofs about the filter unit, for every size of its buffers and any     *)
(* delays of the memory: its sequencer never asks a busy request           *)
(* controller, nor takes a bank from it (NoRequestLost, BanksKept); its    *)
(* arithmetic is exact (FilterMacExact); and, for every image it supports, *)
(* the bytes it computes on are those of the chunk, each line it sends is  *)
(* right, and at done the frame is complete (BanksAreFilled,               *)
(* LinesAreRight, FrameIsComplete).                                        *)
(*                                                                         *)
(* The frame rests on FilterInv, the conjunction of the parts that         *)
(* FpuFrame states.  Each part has a section with its step lemma; the last *)
(* section puts them together.                                             *)
(***************************************************************************)
EXTENDS FpuFrame, FilterMac, TLAPS

(* The states between the pause and the next chunk, and those around the   *)
(* start of an image: no request is under way and none is made.            *)
Resuming ==
  {"PRE_CHUNK_END1", "PRE_CHUNK_END2", "PRE_CHUNK_END2_5", "PRE_CHUNK_END3",
   "CHUNK_END", "UPDATE_BASE"}
Starting == {"IDLE", "LOAD_CONFIG", "DONE"}
Idle == state \in Resuming \cup Starting \cup {"FILL_BUFF1", "CHUNK_DONE"} => r_state = "IDLE"

(* In the last columns of a chunk that has a successor the request for it  *)
(* is over: when it was not, the sequencer paused seven columns before.    *)
Late == read_col_address >= M - 6 /\ remaining_width # M - 1
Ready == state = "OPERATE" /\ Late => r_state = "IDLE"

(* The results are written ten columns behind the columns read, as long as *)
(* both counters run.                                                      *)
InStep ==
  state \in Resuming \cup {"OPERATE", "CHUNK_DONE", "PRE_PAUSE", "PRE_PAUSE2", "PAUSE_CHUNK"} =>
    read_col_address = IF write_col_address + 10 < M THEN write_col_address + 10
                       ELSE write_col_address + 10 - M

(* Where the columns are in each state.                                    *)
Places ==
  /\ state \in {"FILL_BUFF_FLIP", "NEW_ROW"} => write_col_address = 0
  /\ state = "FILL_BUFF_FLIP" => read_col_address = 0
  /\ state = "NEW_ROW" => read_col_address <= 9
  /\ state = "PRE_PAUSE" => read_col_address \in (M - 6)..(M - 2)
  /\ state \in {"PRE_PAUSE2", "PAUSE_CHUNK", "PRE_CHUNK_END1"} => read_col_address = M - 1
  /\ state = "PRE_CHUNK_END2" => read_col_address = M - 8
  /\ state = "PRE_CHUNK_END2_5" => read_col_address = M - 7
  /\ state = "PRE_CHUNK_END3" => read_col_address >= M - 6
  /\ state = "CHUNK_END" => read_col_address <= 9
  /\ state = "UPDATE_BASE" => read_col_address = 10
  /\ state = "CHUNK_DONE" => read_col_address = 11

ColInv ==
  /\ read_col_address \in 0..(M - 1) /\ write_col_address \in 0..(M - 1)
  /\ Idle /\ Ready /\ InStep /\ Places

-----------------------------------------------------------------------------
(* The counters                                                            *)

LEMMA Wraps ==
  ASSUME NEW a \in Nat, a < M
  PROVE  a % M = a /\ (a + M) % M = a
BY WidthAssumption DEF M

(* A counter steps, wraps, or is set back by seven.                        *)
Wrapped(c) == IF c < M THEN c ELSE c - M
Moves(c, inc) ==
  IF control!Reset THEN 0
  ELSE IF inc THEN Wrapped(c + 1)
  ELSE IF control!Rewind THEN Wrapped(c + M - 7)
  ELSE c

LEMMA Width19 == M \in Nat /\ M > 18
BY WidthAssumption DEF M, control!DELAY

LEMMA ColumnMoves ==
  ASSUME NEW c \in 0..(M - 1), NEW inc \in BOOLEAN
  PROVE  control!Column(c, inc) = Moves(c, inc) /\ Moves(c, inc) \in 0..(M - 1)
<1>1. ASSUME NEW n \in Nat, n < 2 * M
      PROVE  n % M = Wrapped(n)
  <2>1. CASE n < M
    BY <1>1, <2>1, Wraps DEF Wrapped
  <2>2. CASE n >= M
    <3>1. n - M \in Nat /\ n - M < M /\ (n - M) + M = n
      BY <1>1, <2>2, Width19
    <3> QED
      BY <2>2, <3>1, Wraps, Width19 DEF Wrapped
  <2> QED
    BY <2>1, <2>2, Width19
<1>2. /\ (c + 1) % M = Wrapped(c + 1)
      /\ (c + M - 7) % M = Wrapped(c + M - 7)
  <2>1. /\ c + 1 \in Nat /\ c + 1 < 2 * M
        /\ c + M - 7 \in Nat /\ c + M - 7 < 2 * M
    BY Width19
  <2> QED
    BY <1>1, <2>1
<1>3. control!Column(c, inc) = Moves(c, inc)
  <2>1. c + MEM_BUFFER_WIDTH - (control!DELAY + 1) = c + M - 7
    BY Width19 DEF M, control!DELAY
  <2> QED
    BY <1>2, <2>1 DEF control!Column, Moves, M
<1>4. Moves(c, inc) \in 0..(M - 1)
  BY Width19 DEF Moves, Wrapped
<1> QED
  BY <1>3, <1>4

-----------------------------------------------------------------------------
(* One clock edge                                                          *)

(* What the step says about the states and counters.                       *)
Making == r_state # "IDLE"
Asks == control!Read \/ control!Write
Sequence ==
  /\ control!NextState(start, Making)
  /\ read_col_address' = Moves(read_col_address, control!ReadInc)
  /\ write_col_address' = Moves(write_col_address, control!WriteInc)
  /\ read_col_address' \in 0..(M - 1) /\ write_col_address' \in 0..(M - 1)
  /\ state \notin {"FILL_BUFF1", "UPDATE_WRITE", "CHUNK_DONE"} => remaining_width' = remaining_width
  /\ r_state = "IDLE" /\ ~Asks => r_state' = "IDLE"

LEMMA StepSequence ==
  ASSUME ColInv, NEW delay \in BOOLEAN, Step(delay)
  PROVE  Sequence
<1>1. /\ control!Clock(start, requests!MakingRequest, mapped_data_valid, image)
      /\ requests!Clock(ReqIf, dram_ready, request_done, read_data, buffers!RequestDataOut)
  BY DEF Step, Unit
<1>2. requests!MakingRequest = Making
  BY DEF requests!MakingRequest, Making
<1>3. control!NextState(start, Making)
  BY <1>1, <1>2 DEF control!Clock
<1>4. /\ read_col_address' = control!Column(read_col_address, control!ReadInc)
      /\ write_col_address' = control!Column(write_col_address, control!WriteInc)
      /\ state \notin {"FILL_BUFF1", "UPDATE_WRITE", "CHUNK_DONE"} => remaining_width' = remaining_width
  BY <1>1 DEF control!Clock, control!Counters
<1>5. control!ReadInc \in BOOLEAN /\ control!WriteInc \in BOOLEAN
  BY DEF control!ReadInc, control!WriteInc
<1>6. read_col_address \in 0..(M - 1) /\ write_col_address \in 0..(M - 1)
  BY DEF ColInv
<1>7. r_state = "IDLE" /\ ~Asks => r_state' = "IDLE"
  <2>1. requests!NextState(ReqIf, dram_ready, request_done)
    BY <1>1 DEF requests!Clock
  <2>2. ReqIf.read = control!Read /\ ReqIf.write = control!Write
    BY DEF ReqIf
  <2> QED
    BY <2>1, <2>2 DEF Asks, requests!NextState, requests!Writing, requests!Reading,
                      requests!Goto, requests!Stay
<1> QED
  BY <1>3, <1>4, <1>5, <1>6, <1>7, ColumnMoves DEF Sequence

-----------------------------------------------------------------------------
(* The invariant                                                           *)

(* Where each state leads: the ones that matter for the requests.          *)
LEMMA Leads ==
  ASSUME Sequence
  PROVE  /\ state = "IDLE" => state' \in {"IDLE", "LOAD_CONFIG"}
         /\ state = "LOAD_CONFIG" => state' \in {"LOAD_CONFIG", "FILL_BUFF1"}
         /\ state = "FILL_BUFF2" => state' = IF Making THEN "FILL_BUFF2" ELSE "FILL_BUFF_FLIP"
         /\ state = "FILL_BUFF_FLIP" => state' = "NEW_ROW"
         /\ state = "NEW_ROW" => state' = IF read_col_address = 9 THEN "OPERATE" ELSE "NEW_ROW"
         /\ state = "OPERATE" =>
              \/ state' = "ROW_END"
              \/ state' = "PRE_PAUSE" /\ read_col_address = M - 7
              \/ state' = "CHUNK_END" /\ read_col_address = M - 1 /\ ~(M - 1 >= remaining_width)
              \/ /\ state' = "OPERATE" /\ read_col_address # M - 1
                 /\ read_col_address = M - 7 /\ remaining_width # M - 1 => ~Making
         /\ state = "PRE_PAUSE" => state' = IF read_col_address = M - 2 THEN "PRE_PAUSE2" ELSE "PRE_PAUSE"
         /\ state = "PRE_PAUSE2" => state' = "PAUSE_CHUNK"
         /\ state = "PAUSE_CHUNK" => state' = IF Making THEN "PAUSE_CHUNK" ELSE "PRE_CHUNK_END1"
         /\ state = "PRE_CHUNK_END1" => state' = "PRE_CHUNK_END2"
         /\ state = "PRE_CHUNK_END2" => state' = "PRE_CHUNK_END2_5"
         /\ state = "PRE_CHUNK_END2_5" => state' = "PRE_CHUNK_END3"
         /\ state = "PRE_CHUNK_END3" => state' = IF read_col_address = M - 1 THEN "CHUNK_END" ELSE "PRE_CHUNK_END3"
         /\ state = "CHUNK_END" => state' = IF write_col_address = M - 1 THEN "UPDATE_BASE" ELSE "CHUNK_END"
         /\ state = "UPDATE_BASE" => state' = "CHUNK_DONE"
         /\ state = "CHUNK_DONE" => state' \in {"WAIT_FINAL", "OPERATE"}
         /\ state = "UPDATE_WRITE" => state' = "NEW_ROW"
         /\ state = "WAIT_FINAL" => state' = IF Making THEN "WAIT_FINAL" ELSE "DONE"
         /\ state = "DONE" => state' = "IDLE"
<1> USE DEF Sequence, control!NextState, control!Loading, control!Filling, control!Operate,
            control!Pausing, control!EndingChunk, control!EndingRow, control!Finishing,
            control!Goto, control!Stay
<1>1. /\ state = "IDLE" => state' \in {"IDLE", "LOAD_CONFIG"}
      /\ state = "LOAD_CONFIG" => state' \in {"LOAD_CONFIG", "FILL_BUFF1"}
      /\ state = "FILL_BUFF2" => state' = IF Making THEN "FILL_BUFF2" ELSE "FILL_BUFF_FLIP"
      /\ state = "FILL_BUFF_FLIP" => state' = "NEW_ROW"
  OBVIOUS
<1>2. state = "NEW_ROW" => state' = IF read_col_address = 9 THEN "OPERATE" ELSE "NEW_ROW"
  BY DEF control!DELAY
<1>3. state = "OPERATE" =>
        \/ state' = "ROW_END"
        \/ state' = "PRE_PAUSE" /\ read_col_address = M - 7
        \/ state' = "CHUNK_END" /\ read_col_address = M - 1 /\ ~(M - 1 >= remaining_width)
        \/ /\ state' = "OPERATE" /\ read_col_address # M - 1
           /\ read_col_address = M - 7 /\ remaining_width # M - 1 => ~Making
  BY DEF control!DELAY, control!RunsOut, M
<1>4. /\ state = "PRE_PAUSE" => state' = IF read_col_address = M - 2 THEN "PRE_PAUSE2" ELSE "PRE_PAUSE"
      /\ state = "PRE_PAUSE2" => state' = "PAUSE_CHUNK"
      /\ state = "PAUSE_CHUNK" => state' = IF Making THEN "PAUSE_CHUNK" ELSE "PRE_CHUNK_END1"
      /\ state = "PRE_CHUNK_END1" => state' = "PRE_CHUNK_END2"
      /\ state = "PRE_CHUNK_END2" => state' = "PRE_CHUNK_END2_5"
      /\ state = "PRE_CHUNK_END2_5" => state' = "PRE_CHUNK_END3"
      /\ state = "PRE_CHUNK_END3" => state' = IF read_col_address = M - 1 THEN "CHUNK_END" ELSE "PRE_CHUNK_END3"
  BY DEF M
<1>5. /\ state = "CHUNK_END" => state' = IF write_col_address = M - 1 THEN "UPDATE_BASE" ELSE "CHUNK_END"
      /\ state = "UPDATE_BASE" => state' = "CHUNK_DONE"
      /\ state = "CHUNK_DONE" => state' \in {"WAIT_FINAL", "OPERATE"}
      /\ state = "UPDATE_WRITE" => state' = "NEW_ROW"
      /\ state = "WAIT_FINAL" => state' = IF control!AllSent(Making) THEN "DONE" ELSE "WAIT_FINAL"
      /\ state = "DONE" => state' = "IDLE"
  BY DEF M
<1> QED
  BY ONLY <1>1, <1>2, <1>3, <1>4, <1>5 DEF control!AllSent

(* The states that no state above leads to.                                *)
LEMMA Arrives ==
  ASSUME Sequence
  PROVE  /\ state' \in {"PRE_PAUSE", "CHUNK_END", "ROW_END"} =>
              state \in {"OPERATE", "PRE_PAUSE", "PRE_CHUNK_END3", "CHUNK_END", "ROW_END"}
         /\ state' = "OPERATE" => state \in {"NEW_ROW", "OPERATE", "CHUNK_DONE"}
         /\ state' \in {"FILL_BUFF_FLIP", "NEW_ROW"} =>
              state \in {"FILL_BUFF2", "FILL_BUFF_FLIP", "NEW_ROW", "UPDATE_WRITE"}
         /\ state' \in {"PRE_PAUSE2", "PAUSE_CHUNK"} => state \in {"PRE_PAUSE", "PRE_PAUSE2", "PAUSE_CHUNK"}
         /\ state' \in Resuming \ {"CHUNK_END"} => state \in Resuming \cup {"PAUSE_CHUNK"}
         /\ state' = "CHUNK_DONE" => state = "UPDATE_BASE"
         /\ state' \in Starting \cup {"FILL_BUFF1"} => state \in Starting \cup {"WAIT_FINAL"}
<1> USE DEF Sequence, control!NextState, control!Loading, control!Filling, control!Operate,
            control!Pausing, control!EndingChunk, control!EndingRow, control!Finishing,
            control!Goto, control!Stay, Resuming, Starting
<1> QED
  OBVIOUS

(* How the counters move in the states of a row.                           *)
Running ==
  {"OPERATE", "CHUNK_END", "UPDATE_BASE", "CHUNK_DONE", "PRE_PAUSE",
   "PRE_CHUNK_END2", "PRE_CHUNK_END2_5", "PRE_CHUNK_END3"}

LEMMA Motion ==
  ASSUME Sequence
  PROVE  /\ state \in Running =>
              /\ read_col_address' = Wrapped(read_col_address + 1)
              /\ write_col_address' = Wrapped(write_col_address + 1)
         /\ state = "NEW_ROW" =>
              /\ read_col_address' = Wrapped(read_col_address + 1)
              /\ write_col_address' = write_col_address
         /\ state \in {"PRE_PAUSE2", "PAUSE_CHUNK", "FILL_BUFF_FLIP"} =>
              UNCHANGED <<read_col_address, write_col_address>>
         /\ state = "PRE_CHUNK_END1" =>
              /\ read_col_address' = Wrapped(read_col_address + M - 7)
              /\ write_col_address' = Wrapped(write_col_address + M - 7)
         /\ state \in {"FILL_BUFF2", "UPDATE_WRITE"} =>
              read_col_address' = 0 /\ write_col_address' = 0
         /\ state \in Resuming \cup Starting \cup {"OPERATE", "PAUSE_CHUNK", "WAIT_FINAL"} => ~Asks
BY DEF Sequence, Moves, Running, Resuming, Starting, Asks, control!Read, control!Write,
       control!ReadInc, control!WriteInc, control!Operating, control!Refill, control!Reset,
       control!Rewind

(* What must wait for the request: the sequencer goes on to these states   *)
(* only when none is under way.                                            *)
LEMMA Awaits ==
  ASSUME ColInv, Sequence,
         state' \in Resuming \cup Starting \cup {"FILL_BUFF1", "CHUNK_DONE"}
  PROVE  r_state = "IDLE" /\ ~Asks
<1>1. read_col_address \in 0..(M - 1) /\ Idle /\ Ready
  BY DEF ColInv
<1>2. CASE state' \in Starting \cup {"FILL_BUFF1"}
  <2>1. state \in Starting \cup {"WAIT_FINAL"} /\ ~Asks
    BY <1>2, Arrives, Motion
  <2> QED
    BY <1>1, <1>2, <2>1, Leads DEF Idle, Starting, Making
<1>3. CASE state' \in Resuming \ {"CHUNK_END"}
  <2>1. state \in Resuming \cup {"PAUSE_CHUNK"} /\ ~Asks
    BY <1>3, Arrives, Motion
  <2> QED
    BY <1>1, <1>3, <2>1, Leads DEF Idle, Resuming, Making
<1>4. CASE state' = "CHUNK_DONE"
  <2>1. state = "UPDATE_BASE"
    BY <1>4, Arrives
  <2> QED
    BY <1>1, <2>1, Motion DEF Idle, Resuming
(* The last column of a chunk is a late one, unless the row ends there.    *)
<1>5. CASE state' = "CHUNK_END"
  <2>1. state \in {"OPERATE", "PRE_CHUNK_END3", "CHUNK_END"}
    BY <1>5, Arrives, Leads DEF Sequence, control!NextState, control!EndingRow, control!Loading,
       control!Filling, control!Operate, control!Pausing, control!EndingChunk, control!Finishing,
       control!Goto, control!Stay
  <2>2. CASE state = "OPERATE"
    <3>1. read_col_address = M - 1 /\ remaining_width # M - 1
      BY <1>5, <2>2, Leads, Width19
    <3>2. Late
      BY <3>1, Width19 DEF Late
    <3> QED
      BY <1>1, <2>2, <3>2, Motion DEF Ready
  <2>3. CASE state \in {"PRE_CHUNK_END3", "CHUNK_END"}
    BY <1>1, <2>3, Motion DEF Idle, Resuming
  <2> QED
    BY <2>1, <2>2, <2>3
<1> QED
  BY <1>2, <1>3, <1>4, <1>5

LEMMA IdleStep ==
  ASSUME ColInv, Sequence
  PROVE  Idle'
<1>1. r_state = "IDLE" /\ ~Asks => r_state' = "IDLE"
  BY DEF Sequence
<1> QED
  BY <1>1, Awaits DEF Idle

LEMMA ReadyStep ==
  ASSUME ColInv, Sequence
  PROVE  Ready'
<1> SUFFICES ASSUME state' = "OPERATE", Late'
             PROVE  r_state' = "IDLE"
  BY DEF Ready
<1>1. /\ r_state = "IDLE" /\ ~Asks => r_state' = "IDLE"
      /\ read_col_address \in 0..(M - 1) /\ Ready /\ Places
      /\ state \in {"NEW_ROW", "OPERATE", "CHUNK_DONE"}
      /\ read_col_address' >= M - 6 /\ remaining_width' # M - 1
  BY Arrives DEF Sequence, ColInv, Late
<1>2. state = "OPERATE"
  <2>1. CASE state = "NEW_ROW"
    <3>1. read_col_address' = 10
      BY <1>1, <2>1, Motion, Leads, Width19 DEF Wrapped
    <3> QED
      BY <1>1, <3>1, Width19
  <2>2. CASE state = "CHUNK_DONE"
    <3>1. read_col_address' = 12
      BY <1>1, <2>2, Motion, Width19 DEF Wrapped, Places, Running
    <3> QED
      BY <1>1, <3>1, Width19
  <2> QED
    BY <1>1, <2>1, <2>2
<1>3. remaining_width # M - 1
  BY <1>1, <1>2 DEF Sequence
<1>4. read_col_address # M - 1 /\ read_col_address' = Wrapped(read_col_address + 1)
  BY <1>2, Leads, Motion DEF Running
<1>5. read_col_address' = read_col_address + 1
  BY <1>1, <1>4, Width19 DEF Wrapped
<1>6. r_state = "IDLE"
  <2>1. CASE read_col_address = M - 7
    BY <1>2, <1>3, <2>1, Leads, Width19 DEF Making
  <2>2. CASE read_col_address # M - 7
    <3>1. Late
      BY <1>1, <1>3, <1>5, <2>2, Width19 DEF Late
    <3> QED
      BY <1>1, <1>2, <3>1 DEF Ready
  <2> QED
    BY <2>1, <2>2
<1> QED
  BY <1>1, <1>2, <1>6, Motion

LEMMA InStepStep ==
  ASSUME ColInv, Sequence
  PROVE  InStep'
<1> DEFINE Ten(w) == IF w + 10 < M THEN w + 10 ELSE w + 10 - M
           Rows == Resuming \cup {"OPERATE", "CHUNK_DONE", "PRE_PAUSE", "PRE_PAUSE2", "PAUSE_CHUNK"}
<1> SUFFICES ASSUME state' \in Rows
             PROVE  read_col_address' = Ten(write_col_address')
  BY DEF InStep
<1>1. /\ read_col_address \in 0..(M - 1) /\ write_col_address \in 0..(M - 1)
      /\ InStep /\ Places
  BY DEF ColInv
<1>2. state \in Rows \cup {"NEW_ROW"}
  BY Arrives, Leads DEF Resuming, Sequence, control!NextState, control!EndingRow, control!Loading,
       control!Filling, control!Operate, control!Pausing, control!EndingChunk, control!Finishing,
       control!Goto, control!Stay
<1>3. CASE state = "NEW_ROW"
  <2>1. read_col_address = 9
    BY <1>3, Leads DEF Resuming
  <2>2. write_col_address' = 0 /\ read_col_address' = 10
    BY <1>1, <1>3, <2>1, Motion, Width19 DEF Places, Wrapped
  <2> QED
    BY <2>2, Width19
<1>4. CASE state \in Rows
  <2>1. read_col_address = Ten(write_col_address)
    BY <1>1, <1>4 DEF InStep
  <2>2. CASE state \in Running
    <3>1. /\ read_col_address' = Wrapped(read_col_address + 1)
          /\ write_col_address' = Wrapped(write_col_address + 1)
      BY <2>2, Motion
    <3> HIDE DEF Rows
    <3> QED
      BY <1>1, <2>1, <3>1, Width19 DEF Wrapped
  <2>3. CASE state \in {"PRE_PAUSE2", "PAUSE_CHUNK"}
    BY <2>1, <2>3, Motion
  <2>4. CASE state = "PRE_CHUNK_END1"
    <3>1. /\ read_col_address' = Wrapped(read_col_address + M - 7)
          /\ write_col_address' = Wrapped(write_col_address + M - 7)
      BY <2>4, Motion
    <3> HIDE DEF Rows
    <3> QED
      BY <1>1, <2>1, <3>1, Width19 DEF Wrapped
  <2> QED
    BY <1>4, <2>2, <2>3, <2>4 DEF Running, Resuming
<1> QED
  BY <1>2, <1>3, <1>4

LEMMA PlacesStep ==
  ASSUME ColInv, Sequence
  PROVE  Places'
<1>1. /\ read_col_address \in 0..(M - 1) /\ write_col_address \in 0..(M - 1)
      /\ InStep /\ Places
  BY DEF ColInv
<1>2. /\ state' \in {"FILL_BUFF_FLIP", "NEW_ROW"} => write_col_address' = 0
      /\ state' = "FILL_BUFF_FLIP" => read_col_address' = 0
      /\ state' = "NEW_ROW" => read_col_address' <= 9
  <2> SUFFICES ASSUME state' \in {"FILL_BUFF_FLIP", "NEW_ROW"}
               PROVE  /\ write_col_address' = 0 /\ read_col_address' <= 9
                      /\ state' = "FILL_BUFF_FLIP" => read_col_address' = 0
    OBVIOUS
  <2>1. state \in {"FILL_BUFF2", "FILL_BUFF_FLIP", "NEW_ROW", "UPDATE_WRITE"}
    BY Arrives
  <2>2. CASE state \in {"FILL_BUFF2", "UPDATE_WRITE"}
    BY <2>2, Motion
  <2>3. CASE state = "FILL_BUFF_FLIP"
    BY <1>1, <2>3, Motion, Leads DEF Places
  <2>4. CASE state = "NEW_ROW"
    <3>1. read_col_address <= 9 /\ read_col_address # 9 /\ write_col_address = 0 /\ state' = "NEW_ROW"
      BY <1>1, <2>4, Leads DEF Places
    <3>2. read_col_address' = read_col_address + 1 /\ write_col_address' = 0
      BY <1>1, <2>4, <3>1, Motion, Width19 DEF Wrapped
    <3> QED
      BY <1>1, <3>1, <3>2
  <2> QED
    BY <2>1, <2>2, <2>3, <2>4
<1>3. /\ state' = "PRE_PAUSE" => read_col_address' \in (M - 6)..(M - 2)
      /\ state' \in {"PRE_PAUSE2", "PAUSE_CHUNK"} => read_col_address' = M - 1
  <2> SUFFICES ASSUME state' \in {"PRE_PAUSE", "PRE_PAUSE2", "PAUSE_CHUNK"}
               PROVE  /\ state' = "PRE_PAUSE" => read_col_address' \in (M - 6)..(M - 2)
                      /\ state' # "PRE_PAUSE" => read_col_address' = M - 1
    OBVIOUS
  <2>1. state \in {"OPERATE", "PRE_PAUSE", "PRE_PAUSE2", "PAUSE_CHUNK"}
    BY Arrives, Leads DEF Sequence, control!NextState, control!EndingRow, control!Loading,
       control!Filling, control!Operate, control!Pausing, control!EndingChunk, control!Finishing,
       control!Goto, control!Stay
  <2>2. CASE state = "OPERATE"
    <3>1. state' = "PRE_PAUSE" /\ read_col_address = M - 7
      BY <2>2, Leads
    <3>2. read_col_address' = M - 6
      BY <1>1, <2>2, <3>1, Motion, Width19 DEF Wrapped, Running
    <3> QED
      BY <3>1, <3>2, Width19
  <2>3. CASE state = "PRE_PAUSE"
    <3>1. /\ read_col_address \in (M - 6)..(M - 2)
          /\ state' = IF read_col_address = M - 2 THEN "PRE_PAUSE2" ELSE "PRE_PAUSE"
      BY <1>1, <2>3, Leads DEF Places
    <3>2. read_col_address' = read_col_address + 1
      BY <2>3, <3>1, Motion, Width19 DEF Wrapped, Running
    <3> QED
      BY <3>1, <3>2, Width19
  <2>4. CASE state \in {"PRE_PAUSE2", "PAUSE_CHUNK"}
    BY <1>1, <2>4, Motion, Leads DEF Places
  <2> QED
    BY <2>1, <2>2, <2>3, <2>4
<1>4. state' = "PRE_CHUNK_END1" => read_col_address' = M - 1
  BY <1>1, Arrives, Leads, Motion DEF Resuming, Places
<1>5. state' = "PRE_CHUNK_END2" => read_col_address' = M - 8
  <2> SUFFICES ASSUME state' = "PRE_CHUNK_END2"
               PROVE  read_col_address' = M - 8
    OBVIOUS
  <2>1. state = "PRE_CHUNK_END1"
    BY Arrives, Leads DEF Resuming
  <2> QED
    BY <1>1, <2>1, Motion, Width19 DEF Places, Wrapped
<1>6. state' = "PRE_CHUNK_END2_5" => read_col_address' = M - 7
  <2> SUFFICES ASSUME state' = "PRE_CHUNK_END2_5"
               PROVE  read_col_address' = M - 7
    OBVIOUS
  <2>1. state = "PRE_CHUNK_END2"
    BY Arrives, Leads DEF Resuming
  <2> QED
    BY <1>1, <2>1, Motion, Width19 DEF Places, Wrapped, Running
<1>7. state' = "PRE_CHUNK_END3" => read_col_address' >= M - 6
  <2> SUFFICES ASSUME state' = "PRE_CHUNK_END3"
               PROVE  read_col_address' >= M - 6
    OBVIOUS
  <2>1. state = "PRE_CHUNK_END2_5" \/ (state = "PRE_CHUNK_END3" /\ read_col_address # M - 1)
    BY Arrives, Leads DEF Resuming
  <2> QED
    BY <1>1, <2>1, Motion, Width19 DEF Places, Wrapped, Running
<1>8. state' = "CHUNK_END" => read_col_address' <= 9
  <2> SUFFICES ASSUME state' = "CHUNK_END"
               PROVE  read_col_address' <= 9
    OBVIOUS
  <2>1. state \in {"OPERATE", "PRE_CHUNK_END3", "CHUNK_END"}
    BY Arrives, Leads DEF Sequence, control!NextState, control!EndingRow, control!Loading,
       control!Filling, control!Operate, control!Pausing, control!EndingChunk, control!Finishing,
       control!Goto, control!Stay
  <2>2. CASE state \in {"OPERATE", "PRE_CHUNK_END3"}
    <3>1. read_col_address = M - 1
      BY <2>2, Leads
    <3> QED
      BY <2>2, <3>1, Motion, Width19 DEF Wrapped, Running
  <2>3. CASE state = "CHUNK_END"
    <3>1. read_col_address <= 9 /\ write_col_address # M - 1
      BY <1>1, <2>3, Leads DEF Places
    <3>2. read_col_address # 9
      BY <1>1, <2>3, <3>1, Width19 DEF InStep, Resuming
    <3> QED
      BY <1>1, <2>3, <3>1, <3>2, Motion, Width19 DEF Wrapped, Running
  <2> QED
    BY <2>1, <2>2, <2>3
<1>9. state' = "UPDATE_BASE" => read_col_address' = 10
  <2> SUFFICES ASSUME state' = "UPDATE_BASE"
               PROVE  read_col_address' = 10
    OBVIOUS
  <2>1. state = "CHUNK_END" /\ write_col_address = M - 1
    BY Arrives, Leads DEF Resuming
  <2>2. read_col_address = 9
    BY <1>1, <2>1, Width19 DEF InStep, Resuming
  <2> QED
    BY <2>1, <2>2, Motion, Width19 DEF Wrapped, Running
<1>10. state' = "CHUNK_DONE" => read_col_address' = 11
  <2> SUFFICES ASSUME state' = "CHUNK_DONE"
               PROVE  read_col_address' = 11
    OBVIOUS
  <2>1. state = "UPDATE_BASE" /\ read_col_address = 10
    BY <1>1, Arrives DEF Places
  <2> QED
    BY <2>1, Motion, Width19 DEF Wrapped, Running
<1> QED
  BY <1>2, <1>3, <1>4, <1>5, <1>6, <1>7, <1>8, <1>9, <1>10 DEF Places

LEMMA InitColInv == Init => ColInv
<1> SUFFICES ASSUME Init
             PROVE  ColInv
  OBVIOUS
<1>1. state = "IDLE" /\ r_state = "IDLE" /\ read_col_address = 0 /\ write_col_address = 0
  BY DEF Init, control!Init, requests!Init
<1> QED
  BY <1>1, Width19 DEF ColInv, Idle, Ready, InStep, Places, Resuming

LEMMA NextColInv == ColInv /\ [Next]_vars => ColInv'
<1> SUFFICES ASSUME ColInv, [Next]_vars
             PROVE  ColInv'
  OBVIOUS
<1>1. CASE Next
  <2>1. Sequence
    BY <1>1, StepSequence DEF Next
  <2> QED
    BY <2>1, IdleStep, ReadyStep, InStepStep, PlacesStep DEF ColInv, Sequence
<1>2. CASE UNCHANGED vars
  BY <1>2 DEF vars, control!vars, control!counts, requests!vars, ColInv, Idle, Ready, Late,
              InStep, Places
<1> QED
  BY <1>1, <1>2

-----------------------------------------------------------------------------
(* For all sizes of the buffers, images and delays: the requests that the  *)
(* sequencer makes for one cycle find the request controller idle.         *)
THEOREM NoRequestLost == Spec => []NoLostRequest
<1>1. ColInv => NoLostRequest
  BY DEF ColInv, Idle, NoLostRequest, requests!MakingRequest
<1> QED
  BY <1>1, InitColInv, NextColInv, PTL DEF Spec

(* As above: while a request is carried out the banks it works on keep     *)
(* their place, but for the read banks after the last row.                 *)
THEOREM BanksKept == Spec => BanksHeld
<1> DEFINE held ==
      requests!MakingRequest =>
        /\ wr_buffer_sel' = wr_buffer_sel
        /\ rd_buffer_sel' = rd_buffer_sel \/ state' = "PRE_FINAL"
<1>1. ColInv /\ [Next]_vars => [held]_vars
  <2> SUFFICES ASSUME ColInv, Next, requests!MakingRequest
               PROVE  /\ wr_buffer_sel' = wr_buffer_sel
                      /\ rd_buffer_sel' = rd_buffer_sel \/ state' = "PRE_FINAL"
    OBVIOUS
  <2>1. PICK delay \in BOOLEAN : Step(delay)
    BY DEF Next
  <2>2. Sequence /\ Making /\ ColInv'
    BY <2>1, StepSequence, NextColInv DEF Making, requests!MakingRequest
  <2>3. control!BankSelects
    BY <2>1 DEF Step, Unit, control!Clock
  <2>4. state' \notin {"FILL_BUFF1", "FILL_BUFF_FLIP", "CHUNK_END", "UPDATE_BASE",
                       "UPDATE_WRITE", "FINAL_FLIP"}
    <3>1. state' \notin {"FILL_BUFF1", "CHUNK_END", "UPDATE_BASE"}
      BY <2>2, Awaits DEF Making, Resuming
    <3>2. state' \notin {"FILL_BUFF_FLIP", "UPDATE_WRITE", "FINAL_FLIP"}
      BY <2>2 DEF Sequence, control!NextState, control!Loading, control!Filling, control!Operate,
            control!Pausing, control!EndingChunk, control!EndingRow, control!Finishing,
            control!RowsSent, control!Goto, control!Stay
    <3> QED
      BY <3>1, <3>2
  <2> QED
    BY <2>3, <2>4 DEF control!BankSelects
<1> QED
  BY <1>1, InitColInv, NextColInv, PTL DEF Spec, BanksHeld

-----------------------------------------------------------------------------
(* The arithmetic of FilterMAC.sv: no register is too narrow.              *)

(* What fits a register is kept.                                           *)
LEMMA SignedFits ==
  ASSUME NEW half, NEW n, -half <= n, n < half
  PROVE  Signed(n, half) = n
BY Zenon DEF Signed

(* A product of a pixel and a coefficient fits 16 bits.                    *)
LEMMA ProductFits ==
  ASSUME NEW p \in Pixel, NEW c \in Coefficient
  PROVE  p * c \in Int /\ -32640 <= p * c /\ p * c <= 32385 /\ Product(p * c) = p * c
<1>1. p \in Int /\ c \in Int /\ 0 <= p /\ p <= 255 /\ -128 <= c /\ c <= 127
  BY SMT DEF Pixel, Coefficient
<1>2. p * c \in Int /\ -32640 <= p * c /\ p * c <= 32385
  <2>1. p * c <= p * 127
    BY <1>1, SMT
  <2>2. p * (-128) <= p * c
    BY <1>1, SMT
  <2> QED
    BY <1>1, <2>1, <2>2, SMT
<1>3. -32768 <= p * c /\ p * c < 32768
  BY <1>2, SMT
<1>4. Product(p * c) = Signed(p * c, 32768)
  BY SMT DEF Product
<1> QED
  BY <1>2, <1>3, <1>4, SignedFits, SMT

(* A sum that 20 bits hold is kept as it is.                               *)
LEMMA SumFits ==
  ASSUME NEW n \in Int, -524288 <= n, n <= 524287
  PROVE  Sum(n) = n
<1>1. -524288 <= n /\ n < 524288
  BY SMT
<1>2. Sum(n) = Signed(n, 524288)
  BY SMT DEF Sum
<1> QED
  BY <1>1, <1>2, SignedFits, SMT

(* The clamp on the bits is the clamp on the number.                       *)
LEMMA SaturateClamps ==
  ASSUME NEW n \in Int, -524288 <= n, n <= 524287
  PROVE  Saturate(n) = Clamp(n)
<1>1. CASE n < 0
  BY <1>1, SMT DEF Saturate, Clamp
<1>2. CASE 0 <= n /\ n <= 255
  <2>1. n \div 256 = 0 /\ n % 256 = n
    BY <1>2, SMT
  <2> QED
    BY <1>2, <2>1, SMT DEF Saturate, Clamp
<1>3. CASE n > 255
  <2>1. n \div 256 # 0
    BY <1>3, SMT
  <2> QED
    BY <1>3, <2>1, SMT DEF Saturate, Clamp
<1> QED
  BY <1>1, <1>2, <1>3, SMT

(* The result pixel of the unit is the clamped convolution, as the test    *)
(* bench computes it with unbounded integers.                              *)
THEOREM FilterMacExact ==
  ASSUME NEW pixel \in [0..8 -> Pixel], NEW filter \in [0..8 -> Coefficient]
  PROVE  ResultPixel(pixel, filter) = Clamp(Convolution(pixel, filter))
<1> DEFINE m == MultRes(pixel, filter)
<1>1. \A i \in 0..8 : /\ m[i] = pixel[i] * filter[i]
                      /\ m[i] \in Int /\ -32640 <= m[i] /\ m[i] <= 32385
  BY ProductFits, SMT DEF MultRes
<1> HIDE DEF m
<1> DEFINE a1 == m[0] + m[1]
           a2 == m[2] + m[3]
           a3 == m[4] + m[5]
           a4 == m[6] + m[7] + m[8]
<1>2. /\ a1 \in Int /\ -65280 <= a1 /\ a1 <= 65280
      /\ a2 \in Int /\ -65280 <= a2 /\ a2 <= 65280
      /\ a3 \in Int /\ -65280 <= a3 /\ a3 <= 65280
      /\ a4 \in Int /\ -97920 <= a4 /\ a4 <= 97920
  BY <1>1, SMT
<1>3. Sum(a1) = a1 /\ Sum(a2) = a2 /\ Sum(a3) = a3 /\ Sum(a4) = a4
  BY <1>2, SumFits, SMT
<1>4. Sum(a1 + a2) = a1 + a2 /\ Sum(a3 + a4) = a3 + a4
  BY <1>2, SumFits, SMT
<1>5. Sum((a1 + a2) + (a3 + a4)) = (a1 + a2) + (a3 + a4)
  BY <1>2, SumFits, SMT
<1>6. AddRes(m) = (a1 + a2) + (a3 + a4)
  BY <1>3, <1>4, <1>5, SMT DEF AddRes
<1>7. (a1 + a2) + (a3 + a4) = Convolution(pixel, filter)
  BY <1>1, SMT DEF Convolution
<1>8. Saturate((a1 + a2) + (a3 + a4)) = Clamp((a1 + a2) + (a3 + a4))
  BY <1>2, SaturateClamps, SMT
<1> QED
  BY <1>6, <1>7, <1>8, SMT DEF ResultPixel, m

-----------------------------------------------------------------------------
(* The frame: sizes                                                        *)

(* Quotient and remainder are determined by the product and the rest.      *)
LEMMA DivUnique ==
  ASSUME NEW d \in Nat \ {0}, NEW q \in Nat, NEW r \in 0..(d - 1)
  PROVE  (d * q + r) \div d = q /\ (d * q + r) % d = r
OBVIOUS

(* Division with remainder, for the solver.                                *)
LEMMA Divides ==
  ASSUME NEW d \in Nat \ {0}, NEW n \in Nat
  PROVE  n = d * (n \div d) + (n % d) /\ n \div d \in Nat /\ n % d \in 0..(d - 1)
OBVIOUS

(* How the sizes of buffer, line and word fit.                             *)
LEMMA Sizes ==
  /\ {M, CL_WIDTH, WORD, COL_WIDTH, LineWords, RowWords, Lines} \subseteq Nat
  /\ COL_WIDTH > 2 /\ M > 18 /\ CL_WIDTH > 0 /\ WORD > 0 /\ LineWords > 1 /\ Lines > 0 /\ RowWords > 0
  /\ M = CL_WIDTH * Lines /\ CL_WIDTH = WORD * LineWords
  /\ M = WORD * RowWords /\ RowWords = LineWords * Lines
<1>1. /\ {M, CL_WIDTH, WORD, COL_WIDTH} \subseteq Nat
      /\ COL_WIDTH > 2 /\ M > 18 /\ CL_WIDTH > 0 /\ WORD > 0 /\ LineWords > 1
      /\ M % CL_WIDTH = 0 /\ CL_WIDTH % WORD = 0
  BY WidthAssumption DEF M, LineWords, control!DELAY
<1>2. Lines = M \div CL_WIDTH /\ LineWords = CL_WIDTH \div WORD /\ RowWords = M \div WORD
  BY DEF Lines, requests!RequestLines, M, LineWords, RowWords
<1>3. M = CL_WIDTH * Lines /\ Lines \in Nat
  <2>1. M = CL_WIDTH * (M \div CL_WIDTH) + (M % CL_WIDTH) /\ M \div CL_WIDTH \in Nat
    <3>1. M \in Nat /\ CL_WIDTH \in Nat \ {0}
      BY <1>1
    <3> QED
      BY ONLY <3>1, Divides
  <2> QED
    BY <1>1, <1>2, <2>1
<1>4. CL_WIDTH = WORD * LineWords /\ LineWords \in Nat
  <2>1. CL_WIDTH = WORD * (CL_WIDTH \div WORD) + (CL_WIDTH % WORD) /\ CL_WIDTH \div WORD \in Nat
    <3>1. CL_WIDTH \in Nat /\ WORD \in Nat \ {0}
      BY <1>1
    <3> QED
      BY ONLY <3>1, Divides
  <2> QED
    BY <1>1, <1>2, <2>1
<1>5. M = WORD * (LineWords * Lines) /\ LineWords * Lines \in Nat
  BY <1>1, <1>3, <1>4
<1>6. RowWords = LineWords * Lines
  <2> DEFINE q == LineWords * Lines
  <2>1. (WORD * q + 0) \div WORD = q
    <3> HIDE DEF q
    <3> QED
      BY <1>1, <1>5, DivUnique DEF q
  <2> QED
    BY <1>1, <1>2, <1>5, <2>1
<1>7. Lines > 0 /\ RowWords > 0
  <2>1. Lines # 0
    BY <1>1, <1>3
  <2>2. RowWords # 0
    BY <1>1, <1>5, <1>6
  <2> QED
    BY <1>3, <1>5, <1>6, <2>1, <2>2
<1> QED
  BY <1>1, <1>3, <1>4, <1>5, <1>6, <1>7

(* The difference of whole numbers of lines is one.                        *)
LEMMA WholeMinus ==
  ASSUME NEW n \in Nat, NEW m \in Nat, Whole(n), Whole(m), m <= n
  PROVE  Whole(n - m)
<1>1. PICK q \in 0..n : n = q * CL_WIDTH
  BY DEF Whole
<1>2. PICK p \in 0..m : m = p * CL_WIDTH
  BY DEF Whole
<1>3. CL_WIDTH \in Nat /\ CL_WIDTH > 0
  BY Sizes
<1>4. p <= q
  BY <1>1, <1>2, <1>3
<1>5. q - p \in Nat /\ n - m = (q - p) * CL_WIDTH
  BY <1>1, <1>2, <1>3, <1>4
<1>6. q - p \in 0..(n - m)
  BY <1>3, <1>5
<1> QED
  BY <1>5, <1>6 DEF Whole

(* A buffer is a whole number of lines.                                    *)
LEMMA WholeBuffer == Whole(M) /\ Whole(0)
<1>1. M = Lines * CL_WIDTH /\ Lines \in Nat /\ CL_WIDTH \in Nat /\ CL_WIDTH > 0
  BY Sizes
<1>2. Lines \in 0..M
  BY <1>1
<1> QED
  BY <1>1, <1>2 DEF Whole

(* A supported row never leaves a chunk of M - 6 to M + 2 columns, and     *)
(* what remains behind a whole chunk is supported.                         *)
LEMMA Chunks ==
  ASSUME NEW n \in Nat, Ends(n)
  PROVE  /\ n >= 3 /\ (n < M - 6 \/ n > M + 2) /\ (n < 2 * M - 6 \/ n > 2 * M + 2)
         /\ n > M => Ends(n - M)
<1>1. PICK k \in 0..n : n - k * M \in 3..(M - 7)
  BY DEF Ends
<1>2. M \in Nat /\ M > 18
  BY Sizes
<1> DEFINE p == k * M
<1>3. p \in Nat
  BY <1>2
<1>4. CASE k = 0
  <2>1. p = 0
    BY <1>2, <1>4
  <2> HIDE DEF p
  <2> QED
    BY <1>1, <1>2, <2>1 DEF p
<1>5. CASE k > 0
  <2>1. p = (k - 1) * M + M /\ (k - 1) * M \in Nat
    BY <1>2, <1>5
  <2> DEFINE s == (k - 1) * M
  <2>2. n - p \in 3..(M - 7) /\ p = s + M /\ s \in Nat
    BY <1>1, <2>1
  <2>3. CASE k = 1
    <3>1. s = 0
      BY <1>2, <2>3
    <3>2. Ends(n - M)
      <4> HIDE DEF s, p
      <4>1. 0 \in 0..(n - M) /\ (n - M) - 0 * M \in 3..(M - 7)
        BY <1>2, <2>2, <3>1
      <4> QED
        BY <4>1 DEF Ends
    <3> HIDE DEF s, p
    <3> QED
      BY <1>2, <2>2, <3>1, <3>2
  <2>4. CASE k > 1
    <3>1. s = (k - 2) * M + M /\ (k - 2) * M \in Nat
      BY <1>2, <2>4
    <3>2. Ends(n - M)
      <4>1. k - 1 \in 0..(n - M)
        <5>1. k - 1 <= s
          BY <1>2, <2>4
        <5> HIDE DEF s, p
        <5> QED
          BY <1>2, <2>2, <2>4, <5>1
      <4>2. (n - M) - (k - 1) * M \in 3..(M - 7)
        <5>1. (n - M) - s = n - p
          <6> HIDE DEF s, p
          <6> QED
            BY <1>2, <2>2
        <5> QED
          BY <2>2, <5>1
      <4> QED
        BY <4>1, <4>2 DEF Ends
    <3> DEFINE t == (k - 2) * M
    <3>3. s = t + M /\ t \in Nat
      BY <3>1
    <3> HIDE DEF s, p, t
    <3> QED
      BY <1>2, <2>2, <3>2, <3>3
  <2> QED
    BY <1>5, <2>3, <2>4
<1> QED
  BY <1>4, <1>5

-----------------------------------------------------------------------------
(* The frame: one clock edge, and the image                                *)

(* What one edge does, register by register.                               *)
LEMMA Edge ==
  ASSUME NEW delay \in BOOLEAN, Step(delay)
  PROVE  /\ control!NextState(start, Making)
         /\ control!Loader(mapped_data_valid, image) /\ control!BankSelects
         /\ control!Addresses /\ control!Counters
         /\ requests!NextState(ReqIf, dram_ready, request_done)
         /\ requests!Capture(ReqIf) /\ requests!Address(ReqIf)
         /\ requests!Rows /\ requests!Columns /\ requests!Counts
         /\ requests!Data(read_data, buffers!RequestDataOut)
<1>1. requests!MakingRequest = Making
  BY DEF requests!MakingRequest, Making
<1> QED
  BY <1>1 DEF Step, Unit, control!Clock, requests!Clock

(* Outside IDLE the image stays, the buffers are clocked and the memory    *)
(* moves.                                                                  *)
LEMMA Still ==
  ASSUME NEW delay \in BOOLEAN, Step(delay), state # "IDLE"
  PROVE  /\ image' = image /\ InRow' = InRow /\ OutRow' = OutRow
         /\ buffers!Clock(BufferIn) /\ Dram(delay)
<1>1. Software
  BY DEF Step
<1>2. image' = image /\ ~NewImage
  BY <1>1 DEF Software, NewImage
<1> QED
  BY <1>2 DEF Step, InRow, OutRow

(* After loading, the sizes the sequencer computes are those of the image. *)
LEMMA Alike ==
  ASSUME ImageInv, state \notin Quiet
  PROVE  /\ image.image_width \in Nat /\ image.image_height \in Nat
         /\ image.start_address \in Nat /\ image.result_address \in Nat
         /\ control!TotalWidth = InRow /\ control!ResultWidth = OutRow
         /\ InRow \in Nat /\ OutRow \in Nat /\ OutRow + 2 = InRow /\ InRow > 5
         /\ image.image_height > 0 /\ Whole(OutRow) /\ Ends(InRow)
<1>1. /\ image \in [image_width : Nat, image_height : Nat, start_address : Nat, result_address : Nat]
      /\ conf = image /\ Supported(image)
  BY ImagesAssumption DEF ImageInv, Quiet
<1>2. /\ image.image_width \in Nat /\ image.image_height \in Nat
      /\ image.start_address \in Nat /\ image.result_address \in Nat
  BY <1>1
<1>3. control!TotalWidth = InRow /\ control!ResultWidth = OutRow
  BY <1>1, <1>2 DEF control!TotalWidth, control!ResultWidth, InRow, OutRow
<1>4. InRow \in Nat /\ OutRow \in Nat /\ OutRow + 2 = InRow /\ InRow > 5
  BY <1>2 DEF InRow, OutRow
<1>5. image.image_height > 0 /\ Whole(OutRow) /\ Ends(InRow)
  BY <1>1 DEF Supported, InRow, OutRow
<1> QED
  BY <1>2, <1>3, <1>4, <1>5

(* A step keeps ImageInv: software changes the image in IDLE only, and the *)
(* loader takes it before the sequencer goes on.                           *)
LEMMA ImageStep ==
  ASSUME NEW delay \in BOOLEAN, Step(delay), ImageInv, \A i \in Images : Supported(i)
  PROVE  ImageInv'
<1>1. /\ control!NextState(start, Making) /\ control!Loader(mapped_data_valid, image)
      /\ Software
  BY Edge DEF Step
<1>2. /\ start' \/ state' # "IDLE" => image' \in Images
      /\ state # "IDLE" => image' = image
      /\ state' \notin Quiet => state # "IDLE"
      /\ state' = "LOAD_CONFIG" \/ state' = "IDLE" \/ state \notin Quiet \/ load = "DONE"
      /\ load = "DONE" /\ state = "LOAD_CONFIG" => state' = "FILL_BUFF1"
      /\ state = "LOAD_CONFIG" /\ load # "DONE" => state' = "LOAD_CONFIG"
  BY <1>1 DEF ImageInv, Software, Quiet, control!NextState, control!Loading, control!Filling,
     control!Operate, control!Pausing, control!EndingChunk, control!EndingRow, control!Finishing,
     control!Goto, control!Stay, control!LoadConfigDone
<1>3. /\ load' \in {"IDLE", "WAIT_READY", "CAPTURE", "DONE"}
      /\ load' # "IDLE" => state = "LOAD_CONFIG" /\ load # "DONE"
      /\ load' = "DONE" => load = "CAPTURE"
      /\ conf' = IF load' = "CAPTURE" THEN image ELSE conf
  BY <1>1 DEF ImageInv, control!Loader
<1>4. load' \in {"CAPTURE", "DONE"} => conf' = image'
  BY <1>2, <1>3 DEF ImageInv
<1>5. state' \notin Quiet => conf' = image' /\ Supported(image')
  BY <1>2, <1>3 DEF ImageInv, Quiet
<1> QED
  BY <1>2, <1>3, <1>4, <1>5 DEF ImageInv, Quiet

-----------------------------------------------------------------------------
(* The place in the image                                                  *)

WithinRow == {"ROW_END"} \cup NextRow
Active ==
  {"FILL_BUFF1", "FILL_BUFF_FLIP", "NEW_ROW", "OPERATE", "CHUNK_END"}
    \cup First \cup Pauses \cup Crossing \cup WithinRow \cup Final

(* Where the sequencer goes from each state, and from where it comes.      *)
LEMMA Turns ==
  ASSUME Sequence
  PROVE  /\ state \in Quiet \cup Active
         /\ state = "FILL_BUFF1" =>
              state' = IF control!TotalWidth > M THEN "ADDR_ALL" ELSE "ADDR_CHUNK"
         /\ state \in {"ADDR_ALL", "ADDR_CHUNK"} => state' = "FILL_BUFF2"
         /\ state = "OPERATE" =>
              /\ state' = "ROW_END" <=> read_col_address >= remaining_width
              /\ state' = "PRE_PAUSE" => remaining_width # M - 1 /\ Making
         /\ state = "CHUNK_DONE" =>
              state' = IF control!Minus(remaining_width, M) < 3 THEN "WAIT_FINAL" ELSE "OPERATE"
         /\ state = "ROW_END" =>
              state' = IF write_col_address >= control!Minus(remaining_width, 2)
                       THEN IF remaining_height > COL_WIDTH THEN "UPDATE_READ" ELSE "PRE_FINAL"
                       ELSE "ROW_END"
         /\ state = "UPDATE_READ" => state' = "ROW_DONE_WAIT"
         /\ state = "ROW_DONE_WAIT" => state' = IF Making THEN "ROW_DONE_WAIT" ELSE "UPDATE_WRITE"
         /\ state = "PRE_FINAL" => state' = "FINAL_REQUEST"
         /\ state = "FINAL_REQUEST" => state' = IF Making THEN "FINAL_REQUEST" ELSE "FINAL_FLIP"
         /\ state = "FINAL_FLIP" => state' = "WAIT_FINAL"
<1> USE DEF Sequence, control!NextState, control!Loading, control!Filling, control!Operate,
            control!Pausing, control!EndingChunk, control!EndingRow, control!Finishing,
            control!Goto, control!Stay
<1>1. state \in Quiet \cup Active
  BY DEF Quiet, Active, First, Pauses, Crossing, WithinRow, NextRow, Final
<1>2. /\ state = "FILL_BUFF1" =>
           state' = IF control!TotalWidth > M THEN "ADDR_ALL" ELSE "ADDR_CHUNK"
      /\ state \in {"ADDR_ALL", "ADDR_CHUNK"} => state' = "FILL_BUFF2"
      /\ state = "CHUNK_DONE" =>
           state' = IF control!Minus(remaining_width, M) < 3 THEN "WAIT_FINAL" ELSE "OPERATE"
  BY DEF M
<1>3. state = "OPERATE" =>
        /\ state' = "ROW_END" <=> read_col_address >= remaining_width
        /\ state' = "PRE_PAUSE" => remaining_width # M - 1 /\ Making
  BY DEF M, control!RunsOut
<1>4. /\ state = "ROW_END" =>
           state' = IF write_col_address >= control!Minus(remaining_width, 2)
                    THEN IF remaining_height > COL_WIDTH THEN "UPDATE_READ" ELSE "PRE_FINAL"
                    ELSE "ROW_END"
      /\ state = "UPDATE_READ" => state' = "ROW_DONE_WAIT"
      /\ state = "ROW_DONE_WAIT" => state' = IF Making THEN "ROW_DONE_WAIT" ELSE "UPDATE_WRITE"
  BY DEF control!RowsSent
<1>5. /\ state = "PRE_FINAL" => state' = "FINAL_REQUEST"
      /\ state = "FINAL_REQUEST" => state' = IF Making THEN "FINAL_REQUEST" ELSE "FINAL_FLIP"
      /\ state = "FINAL_FLIP" => state' = "WAIT_FINAL"
  OBVIOUS
<1> QED
  BY ONLY <1>1, <1>2, <1>3, <1>4, <1>5

(* The counters' subtraction is exact when the difference is not negative. *)
LEMMA Subtracts ==
  ASSUME NEW n \in Nat, NEW m \in Nat, m <= n
  PROVE  control!Minus(n, m) = n - m
BY DEF control!Minus

(* The remaining rows and columns after a step.                            *)
LEMMA Remains ==
  ASSUME NEW delay \in BOOLEAN, Step(delay), ImageInv, state \notin Quiet
  PROVE  /\ remaining_height' =
              CASE state = "FILL_BUFF1" -> image.image_height + 2
                [] state = "UPDATE_WRITE" -> remaining_height - (COL_WIDTH - 2)
                [] OTHER -> remaining_height
         /\ remaining_width' =
              CASE state \in {"FILL_BUFF1", "UPDATE_WRITE"} -> InRow
                [] state = "CHUNK_DONE" -> control!Minus(remaining_width, M)
                [] OTHER -> remaining_width
<1>1. control!Counters /\ control!TotalWidth = InRow /\ conf = image
  BY Edge, Alike DEF ImageInv
<1> QED
  BY <1>1 DEF control!Counters, M

(* A step keeps Geometry: the counters of rows and columns never pass      *)
(* zero.                                                                   *)
LEMMA GeometryStep ==
  ASSUME NEW delay \in BOOLEAN, Step(delay), ImageInv, Geometry, ColInv
  PROVE  Geometry'
<1> SUFFICES ASSUME state' \notin Early
             PROVE  Geometry'
  BY DEF Geometry
<1>0. Sequence
  BY StepSequence
<1>1. state \notin Quiet
  BY <1>0, Leads DEF Quiet, Early
<1>2. /\ M \in Nat /\ M > 18 /\ COL_WIDTH \in Nat /\ COL_WIDTH > 2
      /\ InRow \in Nat /\ image.image_height \in Nat /\ InRow > 5 /\ image.image_height > 0
      /\ Ends(InRow) /\ Whole(InRow - 2)
  <2>1. InRow - 2 = OutRow
    BY <1>1, Alike
  <2> QED
    BY <1>1, <2>1, Alike, Sizes
<1>3. image' = image /\ InRow' = InRow
  BY <1>1, Still DEF Quiet
<1>4. /\ remaining_height' =
           CASE state = "FILL_BUFF1" -> image.image_height + 2
             [] state = "UPDATE_WRITE" -> remaining_height - (COL_WIDTH - 2)
             [] OTHER -> remaining_height
      /\ remaining_width' =
           CASE state \in {"FILL_BUFF1", "UPDATE_WRITE"} -> InRow
             [] state = "CHUNK_DONE" -> control!Minus(remaining_width, M)
             [] OTHER -> remaining_width
  BY <1>1, Remains
<1>5. CASE state = "FILL_BUFF1"
  <2>1. remaining_height' = image.image_height + 2 /\ remaining_width' = InRow
    BY <1>4, <1>5
  <2>2. state' = IF InRow > M THEN "ADDR_ALL" ELSE "ADDR_CHUNK"
    BY <1>0, <1>1, <1>5, Turns, Alike
  <2> QED
    BY <1>2, <1>3, <2>1, <2>2 DEF Geometry, First, Pauses, Crossing, NextRow, Final
<1>6. ASSUME state # "FILL_BUFF1"
      PROVE  /\ state \in Active \ {"FILL_BUFF1"}
             /\ remaining_height \in 3..(image.image_height + 2)
             /\ remaining_width \in 3..InRow /\ Ends(remaining_width) /\ Whole(remaining_width - 2)
             /\ remaining_width < M - 6 \/ remaining_width > M + 2
             /\ remaining_width > M => Ends(remaining_width - M)
  <2>1. state \notin Early
    BY <1>1, <1>6 DEF Early
  <2>2. /\ remaining_height \in 3..(image.image_height + 2)
        /\ remaining_width \in 3..InRow /\ Ends(remaining_width) /\ Whole(remaining_width - 2)
    BY <2>1 DEF Geometry
  <2>3. remaining_width \in Nat
    BY <1>2, <2>2
  <2> QED
    BY <1>0, <1>1, <1>6, <2>2, <2>3, Turns, Chunks
<1>7. CASE state = "UPDATE_WRITE"
  <2>1. /\ remaining_height' = remaining_height - (COL_WIDTH - 2) /\ remaining_width' = InRow
        /\ state' = "NEW_ROW" /\ remaining_height > COL_WIDTH
    BY <1>0, <1>4, <1>7, Leads DEF Geometry, NextRow, Early, Quiet
  <2>2. remaining_height' \in 3..(image.image_height + 2)
    BY <1>2, <1>6, <1>7, <2>1
  <2> QED
    BY <1>2, <1>3, <2>1, <2>2 DEF Geometry, First, Pauses, Crossing, NextRow, Final
<1>8. CASE state = "CHUNK_DONE"
  <2>1. remaining_width > M
    BY <1>8 DEF Geometry, Crossing, Early, Quiet
  <2>2. control!Minus(remaining_width, M) = remaining_width - M /\ remaining_width - M > 2
    <3>1. remaining_width \in Nat /\ M \in Nat /\ M <= remaining_width /\ remaining_width > M + 2
      BY <1>2, <1>6, <1>8, <2>1
    <3>2. control!Minus(remaining_width, M) = remaining_width - M
      BY ONLY <3>1, Subtracts
    <3> QED
      BY <3>1, <3>2
  <2>3. /\ remaining_height' = remaining_height /\ remaining_width' = remaining_width - M
        /\ state' = "OPERATE"
    <3>1. ~(remaining_width - M < 3)
      BY <1>2, <1>6, <1>8, <2>2
    <3> QED
      BY <1>0, <1>4, <1>8, <2>2, <3>1, Turns
  <2>4. Whole((remaining_width - M) - 2)
    <3> DEFINE n == remaining_width - 2
    <3>1. n \in Nat /\ Whole(n) /\ M \in Nat /\ Whole(M) /\ M <= n
      BY <1>2, <1>6, <1>8, <2>1, WholeBuffer
    <3>2. Whole(n - M)
      BY ONLY <3>1, WholeMinus
    <3>3. n - M = (remaining_width - M) - 2
      BY <1>2, <1>6, <1>8
    <3> QED
      BY <3>2, <3>3
  <2>5. remaining_width - M \in 3..InRow /\ Ends(remaining_width - M)
    BY <1>2, <1>6, <1>8, <2>1, <2>2
  <2> QED
    BY <1>3, <1>6, <1>8, <2>3, <2>4, <2>5 DEF Geometry, First, Pauses, Crossing, NextRow, Final
<1>9. CASE state \notin {"FILL_BUFF1", "UPDATE_WRITE", "CHUNK_DONE"}
  <2>1. remaining_height' = remaining_height /\ remaining_width' = remaining_width
    BY <1>4, <1>9
  <2>2. /\ state' \in Pauses \cup Crossing \cup {"CHUNK_END"} => remaining_width > M
        /\ state' \in {"ROW_END"} \cup NextRow \cup Final => remaining_width < M
    <3>1. CASE state = "OPERATE"
      <4>1. /\ state' = "ROW_END" => read_col_address >= remaining_width
            /\ state' \in {"PRE_PAUSE", "CHUNK_END"} => ~(read_col_address >= remaining_width)
            /\ state' = "PRE_PAUSE" => read_col_address = M - 7 /\ remaining_width # M - 1
            /\ state' = "CHUNK_END" => read_col_address = M - 1
            /\ state' \in {"ROW_END", "PRE_PAUSE", "CHUNK_END", "OPERATE"}
        BY <1>0, <3>1, Turns, Leads
      <4>2. read_col_address \in 0..(M - 1)
        BY DEF ColInv
      <4>3. /\ state' = "ROW_END" => remaining_width < M
            /\ state' \in {"PRE_PAUSE", "CHUNK_END"} => remaining_width > M
        BY <1>2, <1>6, <3>1, <4>1, <4>2
      <4> QED
        BY <4>1, <4>3 DEF Pauses, Crossing, NextRow, Final
    <3>2. CASE state # "OPERATE"
      <4>1. /\ state' \in Pauses \cup Crossing \cup {"CHUNK_END"} =>
                 state \in Pauses \cup Crossing \cup {"CHUNK_END"}
            /\ state' \in {"ROW_END"} \cup NextRow \cup Final => state \in {"ROW_END"} \cup NextRow \cup Final
        BY <1>0, <1>1, <1>9, <3>2, Turns, Leads DEF Quiet, Active, First, Pauses, Crossing,
           WithinRow, NextRow, Final
      <4> QED
        BY <1>1, <1>9, <4>1 DEF Geometry, Early
    <3> QED
      BY <3>1, <3>2
  <2>3. /\ state' \in NextRow => remaining_height > COL_WIDTH
        /\ state' \in Final => remaining_height <= COL_WIDTH
    <3>1. CASE state = "ROW_END"
      BY <1>0, <1>2, <1>6, <3>1, Turns DEF NextRow, Final
    <3>2. CASE state # "ROW_END"
      <4>1. /\ state' \in NextRow => state \in NextRow
            /\ state' \in Final => state \in Final
        BY <1>0, <1>1, <1>9, <3>2, Turns, Leads DEF Quiet, Active, First, Pauses, Crossing,
           WithinRow, NextRow, Final
      <4> QED
        BY <1>1, <1>9, <4>1 DEF Geometry, Early
    <3> QED
      BY <3>1, <3>2
  <2>4. /\ state' \in First \cup {"FILL_BUFF_FLIP", "NEW_ROW"} =>
             state \in First \cup {"FILL_BUFF_FLIP", "NEW_ROW"}
        /\ state' \in First => state \in First
        /\ state' \notin {"ADDR_ALL", "ADDR_CHUNK"}
    BY <1>0, <1>1, <1>9, Turns, Leads DEF Quiet, Active, First, Pauses, Crossing, WithinRow, NextRow,
       Final
  <2>5. /\ state' \in First \cup {"FILL_BUFF_FLIP", "NEW_ROW"} => remaining_width = InRow
        /\ state' \in First => remaining_height = image.image_height + 2
    BY <1>1, <1>9, <2>4 DEF Geometry, Early
  <2> QED
    BY <1>3, <1>6, <1>9, <2>1, <2>2, <2>3, <2>4, <2>5 DEF Geometry
<1> QED
  BY <1>5, <1>7, <1>8, <1>9

(* The place in the image as numbers.                                      *)
LEMMA PlaceNow ==
  ASSUME ImageInv, Geometry, state \notin Early
  PROVE  /\ Top \in Nat /\ Top < image.image_height /\ Top = image.image_height + 2 - remaining_height
         /\ Left \in Nat /\ Left + remaining_width = InRow
         /\ RowBase \in Nat /\ RowBase >= image.start_address
         /\ Base \in Nat /\ Base = RowBase + Left /\ Group \in Nat
         /\ RowEnd \in Nat /\ RowEnd = Base + remaining_width /\ RowEnd = RowBase + InRow
         /\ remaining_width \in Nat /\ remaining_width >= 3
         /\ remaining_width < M - 6 \/ remaining_width > M + 2
         /\ remaining_width < 2 * M - 6 \/ remaining_width > 2 * M + 2
         /\ state \notin Quiet
<1>1. state \notin Quiet
  BY DEF Early
<1>2. /\ image.image_height \in Nat /\ image.start_address \in Nat /\ InRow \in Nat
      /\ M \in Nat /\ COL_WIDTH \in Nat /\ COL_WIDTH > 2
  BY <1>1, Alike, Sizes
<1>3. /\ remaining_height \in 3..(image.image_height + 2)
      /\ remaining_width \in 3..InRow /\ Ends(remaining_width)
  BY DEF Geometry
<1>4. /\ Top \in Nat /\ Top < image.image_height /\ Left \in Nat /\ Left + remaining_width = InRow
      /\ remaining_width \in Nat /\ remaining_width >= 3
  BY <1>2, <1>3 DEF Top, Left
<1>5. Top * InRow \in Nat /\ Group \in Nat
  BY <1>2, <1>4 DEF Group
<1>6. /\ RowBase \in Nat /\ RowBase >= image.start_address
      /\ Base \in Nat /\ Base = RowBase + Left
      /\ RowEnd \in Nat /\ RowEnd = RowBase + InRow
  <2> DEFINE p == Top * InRow
  <2>1. RowBase = image.start_address + p
    BY DEF RowBase
  <2> HIDE DEF p
  <2> QED
    BY <1>2, <1>4, <1>5, <2>1 DEF p, Base, RowEnd
<1>7. RowEnd = Base + remaining_width
  BY <1>2, <1>4, <1>6
<1>8. /\ remaining_width < M - 6 \/ remaining_width > M + 2
      /\ remaining_width < 2 * M - 6 \/ remaining_width > 2 * M + 2
  BY <1>3, <1>4, Chunks
<1> QED
  BY <1>1, <1>4, <1>5, <1>6, <1>7, <1>8 DEF Top

Placed == <<Top, Left, RowBase, Base, RowEnd, Group, NextBase, Second, NextSecond, remaining_width, remaining_height>>

(* Only three states move the place.                                       *)
LEMMA PlaceStays ==
  ASSUME NEW delay \in BOOLEAN, Step(delay), ImageInv, state \notin Quiet,
         state \notin {"FILL_BUFF1", "UPDATE_WRITE", "CHUNK_DONE"}
  PROVE  UNCHANGED Placed /\ UNCHANGED <<image, InRow, OutRow>>
<1>1. /\ remaining_height' = remaining_height /\ remaining_width' = remaining_width
      /\ image' = image /\ InRow' = InRow /\ OutRow' = OutRow
  BY Remains, Still DEF Quiet
<1>2. UNCHANGED <<Top, Left, RowBase, Base, RowEnd, Group>>
  BY <1>1 DEF Top, Left, RowBase, Base, RowEnd, Group
<1> QED
  BY <1>1, <1>2 DEF Placed, NextBase, Second, NextSecond

(* FILL_BUFF1 goes to the first chunk.                                     *)
LEMMA PlaceStarts ==
  ASSUME NEW delay \in BOOLEAN, Step(delay), ImageInv, state = "FILL_BUFF1"
  PROVE  /\ Top' = 0 /\ Left' = 0 /\ RowBase' = image.start_address /\ Base' = image.start_address
         /\ remaining_width' = InRow /\ Group' = Group
         /\ UNCHANGED <<image, InRow, OutRow>>
<1>1. state \notin Quiet
  BY DEF Quiet
<1>2. /\ remaining_height' = image.image_height + 2 /\ remaining_width' = InRow
      /\ image' = image /\ InRow' = InRow /\ OutRow' = OutRow
      /\ image.image_height \in Nat /\ image.start_address \in Nat /\ InRow \in Nat
  BY <1>1, Remains, Still, Alike
<1>3. Top' = 0 /\ Left' = 0
  BY <1>2 DEF Top, Left
<1>4. RowBase' = image.start_address + 0 * InRow /\ Group' = Group
  BY <1>2, <1>3 DEF RowBase, Group
<1>5. RowBase' = image.start_address
  BY <1>2, <1>4
<1> QED
  BY <1>2, <1>3, <1>4, <1>5 DEF Base

(* CHUNK_DONE goes on to the next chunk of the row group.                  *)
LEMMA PlaceNextChunk ==
  ASSUME NEW delay \in BOOLEAN, Step(delay), ImageInv, Geometry, state = "CHUNK_DONE"
  PROVE  /\ Top' = Top /\ Left' = Left + M /\ RowBase' = RowBase /\ Base' = Base + M
         /\ RowEnd' = RowEnd /\ remaining_width' = remaining_width - M /\ Group' = Group
         /\ remaining_width > M + 2
         /\ UNCHANGED <<image, InRow, OutRow>>
<1>1. state \notin Quiet /\ state \notin Early
  BY DEF Quiet, Early
<1>2. /\ remaining_height' = remaining_height /\ remaining_width' = control!Minus(remaining_width, M)
      /\ image' = image /\ InRow' = InRow /\ OutRow' = OutRow
      /\ InRow \in Nat
  BY <1>1, Remains, Still, Alike
<1>3. M \in Nat /\ remaining_width \in Nat /\ remaining_width > M
  BY <1>1, PlaceNow, Sizes DEF Geometry, Crossing
<1>4. remaining_width' = remaining_width - M
  <2>1. control!Minus(remaining_width, M) = remaining_width - M
    BY ONLY <1>3, Subtracts
  <2> QED
    BY <1>2, <2>1
<1>5. Top' = Top /\ RowBase' = RowBase /\ RowEnd' = RowEnd /\ Group' = Group
  BY <1>2 DEF Top, RowBase, RowEnd, Group
<1>6. Left' = Left + M
  BY <1>2, <1>3, <1>4 DEF Left
<1>7. Base \in Nat /\ Base = RowBase + Left /\ RowBase \in Nat /\ Left \in Nat
      /\ remaining_width > M + 2
  BY <1>1, <1>3, PlaceNow
<1>8. Base' = RowBase' + Left'
  BY DEF Base
<1> QED
  BY <1>2, <1>3, <1>4, <1>5, <1>6, <1>7, <1>8

(* UPDATE_WRITE goes on to the first chunk of the next row group.          *)
LEMMA PlaceNextGroup ==
  ASSUME NEW delay \in BOOLEAN, Step(delay), ImageInv, Geometry, state = "UPDATE_WRITE"
  PROVE  /\ Top' = Top + (COL_WIDTH - 2) /\ Left' = 0
         /\ RowBase' = RowBase + Group /\ Base' = RowBase + Group
         /\ remaining_width' = InRow /\ Group' = Group
         /\ UNCHANGED <<image, InRow, OutRow>>
<1>1. state \notin Quiet /\ state \notin Early
  BY DEF Quiet, Early
<1>2. /\ remaining_height' = remaining_height - (COL_WIDTH - 2) /\ remaining_width' = InRow
      /\ image' = image /\ InRow' = InRow /\ OutRow' = OutRow
      /\ InRow \in Nat /\ image.image_height \in Nat /\ image.start_address \in Nat
      /\ COL_WIDTH \in Nat /\ COL_WIDTH > 2
  BY <1>1, Remains, Still, Alike, Sizes
<1>3. Top \in Nat /\ RowBase \in Nat /\ remaining_height \in Nat
  BY <1>1, <1>2, PlaceNow DEF Geometry
<1>4. Top' = Top + (COL_WIDTH - 2) /\ Left' = 0 /\ Group' = Group
  BY <1>2, <1>3 DEF Top, Left, Group
<1>5. RowBase' = RowBase + Group
  <2>1. (Top + (COL_WIDTH - 2)) * InRow = Top * InRow + InRow * (COL_WIDTH - 2)
    BY <1>2, <1>3
  <2>2. RowBase' = image.start_address + (Top + (COL_WIDTH - 2)) * InRow
    BY <1>2, <1>4 DEF RowBase
  <2>3. Top * InRow \in Nat /\ InRow * (COL_WIDTH - 2) \in Nat
    BY <1>2, <1>3
  <2> QED
    BY <1>2, <2>1, <2>2, <2>3 DEF RowBase, Group
<1>6. Base' = RowBase' + Left' /\ Group \in Nat
  BY <1>1, PlaceNow DEF Base
<1> QED
  BY <1>2, <1>3, <1>4, <1>5, <1>6

-----------------------------------------------------------------------------
(* Bank selects and addresses                                              *)

(* A step keeps SelectInv: the two selects agree but at the end of a chunk *)
(* and of the image.                                                       *)
LEMMA SelectStep ==
  ASSUME Sequence, control!BankSelects, SelectInv
  PROVE  SelectInv'
<1>1. rd_buffer_sel \in {0, 1} /\ wr_buffer_sel \in {0, 1}
  BY DEF SelectInv
<1>2. {rd_buffer_sel', wr_buffer_sel'} \subseteq {0, 1}
  BY <1>1 DEF control!BankSelects
<1>3. state' \in First \cup {"FILL_BUFF1"} => rd_buffer_sel' = 1 /\ wr_buffer_sel' = 0
  <2>1. state' \in First => state \in First \cup {"FILL_BUFF1"}
    BY Turns, Leads DEF Quiet, Active, First, Pauses, Crossing, WithinRow, NextRow, Final
  <2> QED
    BY <2>1 DEF SelectInv, control!BankSelects, First
<1>4. state' \in {"FILL_BUFF_FLIP", "NEW_ROW", "OPERATE", "ROW_END", "FINAL_FLIP"}
                 \cup Pauses \cup Crossing \cup NextRow => rd_buffer_sel' = wr_buffer_sel'
  <2>1. CASE state' \in {"FILL_BUFF_FLIP", "UPDATE_BASE", "UPDATE_WRITE", "FINAL_FLIP"}
    <3>1. /\ state' = "FILL_BUFF_FLIP" => state = "FILL_BUFF2"
          /\ state' = "UPDATE_WRITE" => state = "ROW_DONE_WAIT"
          /\ state' = "FINAL_FLIP" => state = "FINAL_REQUEST"
          /\ state' = "UPDATE_BASE" => state = "CHUNK_END"
      BY <2>1, Turns, Leads DEF Quiet, Active, First, Pauses, Crossing, WithinRow, NextRow, Final
    <3> QED
      BY <1>1, <2>1, <3>1 DEF SelectInv, control!BankSelects, First, NextRow
  <2>2. CASE state' \in ({"NEW_ROW", "OPERATE", "ROW_END"} \cup Pauses \cup Crossing \cup NextRow)
                         \ {"UPDATE_BASE", "UPDATE_WRITE"}
    <3>1. state \in {"FILL_BUFF_FLIP", "NEW_ROW", "OPERATE", "ROW_END"}
                 \cup Pauses \cup Crossing \cup NextRow
      BY <2>2, Turns, Leads DEF Quiet, Active, First, Pauses, Crossing, WithinRow, NextRow, Final
    <3>2. rd_buffer_sel' = rd_buffer_sel /\ wr_buffer_sel' = wr_buffer_sel
      BY <2>2 DEF control!BankSelects, Pauses, Crossing, NextRow
    <3> QED
      BY <3>1, <3>2 DEF SelectInv
  <2> QED
    BY <2>1, <2>2
<1>5. state' \in {"CHUNK_END", "PRE_FINAL", "FINAL_REQUEST"} => rd_buffer_sel' = 1 - wr_buffer_sel'
  <2>1. /\ state' = "PRE_FINAL" => state = "ROW_END"
        /\ state' = "FINAL_REQUEST" => state \in {"PRE_FINAL", "FINAL_REQUEST"}
    BY Turns, Leads DEF Quiet, Active, First, Pauses, Crossing, WithinRow, NextRow, Final
  <2> QED
    BY <1>1, <2>1 DEF SelectInv, control!BankSelects
<1> QED
  BY <1>2, <1>3, <1>4, <1>5 DEF SelectInv

(* A step keeps AddressInv: the addresses of the requests are those of the *)
(* place in the image.                                                     *)
LEMMA AddressStep ==
  ASSUME NEW delay \in BOOLEAN, Step(delay), ImageInv, Geometry, ColInv, AddressInv
  PROVE  AddressInv'
<1>0. Sequence /\ control!Addresses
  BY StepSequence, Edge
<1>1. ASSUME state' = "FILL_BUFF1"
      PROVE  /\ read_address' = image'.start_address /\ base_read_address' = image'.start_address
             /\ base_write_address' = image'.result_address
  <2>1. state = "LOAD_CONFIG" /\ load = "DONE"
    BY <1>0, <1>1 DEF Sequence, control!NextState, control!Loading, control!Filling,
       control!Operate, control!Pausing, control!EndingChunk, control!EndingRow, control!Finishing,
       control!Goto, control!Stay, control!LoadConfigDone
  <2>2. conf = image /\ image' = image
    BY <2>1, Still DEF ImageInv
  <2> QED
    BY <1>0, <1>1, <2>2 DEF control!Addresses
<1>2. CASE state' \in Early
  BY <1>1, <1>2 DEF AddressInv, Early, Quiet
<1>3. CASE state' \notin Early
  <2>1. state \notin Quiet
    BY <1>0, <1>3, Leads DEF Quiet, Early
  <2>2. /\ image.image_height \in Nat /\ image.start_address \in Nat /\ image.result_address \in Nat
        /\ InRow \in Nat /\ OutRow \in Nat /\ M \in Nat /\ M > 18 /\ COL_WIDTH \in Nat /\ COL_WIDTH > 2
        /\ control!TotalWidth = InRow /\ control!ResultWidth = OutRow /\ conf = image
        /\ state \in Active
    BY <1>0, <2>1, Alike, Sizes, Turns DEF ImageInv
  <2>3. /\ read_address' =
             CASE state' = "FILL_BUFF1" -> image.start_address
               [] state' = "ADDR_ALL" -> read_address + M
               [] state' = "ADDR_CHUNK" -> read_address + Group
               [] state' = "CHUNK_DONE" -> IF control!Minus(remaining_width, M) < M THEN base_read_address
                                           ELSE read_address + M
               [] state' = "UPDATE_READ" -> read_address + (IF InRow > M THEN M ELSE Group)
               [] OTHER -> read_address
        /\ base_read_address' =
             CASE state' = "FILL_BUFF1" -> image.start_address
               [] state' = "ADDR_CHUNK" \/ (state' = "UPDATE_BASE" /\ control!Minus(remaining_width, M) < M)
                    -> base_read_address + Group
               [] OTHER -> base_read_address
    BY <1>0, <2>2 DEF control!Addresses, control!NextGroup, control!LastButOne, M, Group
  <2>4. /\ base_write_address' =
             CASE state' = "FILL_BUFF1" -> image.result_address
               [] state' = "UPDATE_WRITE" -> base_write_address + OutRow * (COL_WIDTH - 2)
               [] OTHER -> base_write_address
        /\ write_address' =
             CASE state = "FILL_BUFF1" -> image.result_address
               [] state = "CHUNK_DONE" -> write_address + M
               [] state = "UPDATE_WRITE" -> base_write_address
               [] OTHER -> write_address
    BY <1>0, <2>2 DEF control!Addresses, M
  <2>5. CASE state = "FILL_BUFF1"
    <3>1. /\ read_address = image.start_address /\ base_read_address = image.start_address
          /\ base_write_address = image.result_address
          /\ state' = IF InRow > M THEN "ADDR_ALL" ELSE "ADDR_CHUNK"
      BY <1>0, <2>2, <2>5, Turns DEF AddressInv
    <3>2. /\ Top' = 0 /\ Left' = 0 /\ RowBase' = image.start_address /\ Base' = image.start_address
          /\ remaining_width' = InRow /\ Group' = Group
          /\ UNCHANGED <<image, InRow, OutRow>>
      BY <2>5, PlaceStarts
    <3>3. BaseWriteTop' = 0 /\ 0 * OutRow = 0
      BY <2>2, <3>1, <3>2 DEF BaseWriteTop
    <3>4. /\ base_write_address' = (image.result_address + BaseWriteTop * OutRow)'
          /\ write_address' = (image.result_address + Top * OutRow + Left)'
      BY <2>2, <2>4, <2>5, <3>1, <3>2, <3>3
    <3>5. read_address' = ReadAddress' /\ (InRow' > M => base_read_address' = BaseReadAddress')
      BY <2>2, <2>3, <2>5, <3>1, <3>2 DEF ReadAddress, BaseReadAddress, NextBase, NextRow, Crossing
    <3> QED
      BY <1>3, <3>4, <3>5 DEF AddressInv, Early
  <2>6. CASE state = "UPDATE_WRITE"
    <3>1. /\ state \notin Early \cup Final /\ state' = "NEW_ROW" /\ remaining_width < M
          /\ Top \in Nat
      BY <1>0, <2>6, Leads, PlaceNow DEF Early, Quiet, Final, Geometry, NextRow
    <3>2. /\ base_write_address = image.result_address + (Top + (COL_WIDTH - 2)) * OutRow
          /\ read_address = NextSecond
          /\ InRow > M => base_read_address = RowBase + Group
      BY <2>2, <2>6, <3>1, PlaceNow DEF AddressInv, BaseWriteTop, ReadAddress, BaseReadAddress,
         NextRow, Crossing
    <3>3. /\ Top' = Top + (COL_WIDTH - 2) /\ Left' = 0
          /\ RowBase' = RowBase + Group /\ Base' = RowBase + Group
          /\ remaining_width' = InRow /\ Group' = Group
          /\ UNCHANGED <<image, InRow, OutRow>>
      BY <2>6, PlaceNextGroup
    <3>4. BaseWriteTop' = Top + (COL_WIDTH - 2)
      BY <3>1, <3>3 DEF BaseWriteTop
    <3>5. /\ base_write_address' = (image.result_address + BaseWriteTop * OutRow)'
          /\ write_address' = (image.result_address + Top * OutRow + Left)'
      <4>1. base_write_address' = base_write_address /\ write_address' = base_write_address
        BY <2>4, <2>6, <3>1
      <4>2. (Top + (COL_WIDTH - 2)) * OutRow \in Nat
        BY <2>2, <3>1
      <4> DEFINE p == (Top + (COL_WIDTH - 2)) * OutRow
      <4>3. image.result_address + p + 0 = image.result_address + p
        <5> HIDE DEF p
        <5> QED
          BY <2>2, <4>2 DEF p
      <4> QED
        BY <3>2, <3>3, <3>4, <4>1, <4>3
    <3>6. read_address' = ReadAddress' /\ (InRow' > M => base_read_address' = BaseReadAddress')
      BY <2>2, <2>3, <2>6, <3>1, <3>2, <3>3 DEF ReadAddress, BaseReadAddress, NextBase, NextSecond,
         NextRow, Crossing
    <3> QED
      BY <1>3, <3>5, <3>6 DEF AddressInv, Early
  <2>7. CASE state = "CHUNK_DONE"
    <3>1. /\ state \notin Early \cup Final
          /\ Base \in Nat /\ Left \in Nat /\ RowBase \in Nat /\ Group \in Nat /\ Top \in Nat
          /\ remaining_width \in Nat /\ remaining_width <= InRow
      BY <2>2, <2>7, PlaceNow DEF Early, Quiet, Final
    <3>2. /\ base_write_address = image.result_address + Top * OutRow
          /\ write_address = image.result_address + Top * OutRow + Left
          /\ read_address = Second
          /\ InRow > M => base_read_address = IF remaining_width > 2 * M THEN RowBase ELSE RowBase + Group
      <4>1. BaseWriteTop = Top /\ ReadAddress = Second
        BY <2>7 DEF BaseWriteTop, ReadAddress, NextRow
      <4>2. BaseReadAddress = IF remaining_width > 2 * M THEN RowBase ELSE RowBase + Group
        BY <2>7 DEF BaseReadAddress, Crossing
      <4> QED
        BY <3>1, <4>1, <4>2 DEF AddressInv
    <3>3. /\ Top' = Top /\ Left' = Left + M /\ RowBase' = RowBase /\ Base' = Base + M
          /\ RowEnd' = RowEnd /\ remaining_width' = remaining_width - M /\ Group' = Group
          /\ remaining_width > M + 2
          /\ UNCHANGED <<image, InRow, OutRow>>
      BY <2>7, PlaceNextChunk
    <3>4. state' = "OPERATE"
      <4>1. control!Minus(remaining_width, M) = remaining_width - M
        <5>1. remaining_width \in Nat /\ M \in Nat /\ M <= remaining_width
          BY <2>2, <3>1, <3>3
        <5> QED
          BY ONLY <5>1, Subtracts
      <4> QED
        BY <1>0, <2>2, <2>7, <3>1, <3>3, <4>1, Turns
    <3>5. /\ base_write_address' = (image.result_address + BaseWriteTop * OutRow)'
          /\ write_address' = (image.result_address + Top * OutRow + Left)'
      <4>1. base_write_address' = base_write_address /\ write_address' = write_address + M
            /\ BaseWriteTop' = Top
        BY <2>4, <2>7, <3>3, <3>4 DEF BaseWriteTop
      <4> DEFINE p == Top * OutRow
      <4>2. p \in Nat
        BY <2>2, <3>1
      <4>3. image.result_address + p + (Left + M) = image.result_address + p + Left + M
        <5> HIDE DEF p
        <5> QED
          BY <2>2, <3>1, <4>2
      <4> QED
        BY <3>2, <3>3, <4>1, <4>3
    <3>6. read_address' = ReadAddress' /\ (InRow' > M => base_read_address' = BaseReadAddress')
      <4>1. read_address' = Second /\ base_read_address' = base_read_address
        BY <2>3, <3>2, <3>4
      <4>2. remaining_width - M > M <=> remaining_width > 2 * M
        BY <2>2, <3>1
      <4>3. Base + M + M = Base + 2 * M
        BY <2>2, <3>1
      <4>4. ReadAddress' = IF remaining_width > 2 * M THEN Base + 2 * M ELSE RowBase + Group
        BY <3>3, <3>4, <4>2, <4>3 DEF ReadAddress, NextBase, NextRow
      <4>5. BaseReadAddress' = IF remaining_width > 2 * M THEN RowBase ELSE RowBase + Group
        BY <3>3, <3>4, <4>2 DEF BaseReadAddress, Crossing
      <4> QED
        BY <3>2, <3>3, <4>1, <4>4, <4>5 DEF Second
    <3> QED
      BY <1>3, <3>5, <3>6 DEF AddressInv, Early
  <2>8. CASE state \notin {"FILL_BUFF1", "UPDATE_WRITE", "CHUNK_DONE"}
    <3>1. /\ state \notin Early /\ Base \in Nat /\ Left \in Nat /\ RowBase \in Nat /\ Group \in Nat
          /\ Top \in Nat /\ remaining_width \in Nat /\ remaining_width <= InRow
          /\ remaining_width < M - 6 \/ remaining_width > M + 2
          /\ remaining_width < 2 * M - 6 \/ remaining_width > 2 * M + 2
      <4>1. state \notin Early
        BY <2>1, <2>8 DEF Early
      <4> QED
        BY <2>2, <4>1, PlaceNow
    <3>2. UNCHANGED Placed /\ UNCHANGED <<image, InRow, OutRow>>
      BY <2>1, <2>8, PlaceStays
    <3>3. /\ base_write_address = image.result_address + BaseWriteTop * OutRow
          /\ write_address = image.result_address + Top * OutRow + Left
          /\ state \notin Final => read_address = ReadAddress
          /\ state \notin Final => (InRow > M => base_read_address = BaseReadAddress)
      BY <3>1 DEF AddressInv
    <3>4. /\ base_write_address' = (image.result_address + BaseWriteTop * OutRow)'
          /\ write_address' = (image.result_address + Top * OutRow + Left)'
      <4>1. BaseWriteTop = Top
        BY <2>8 DEF BaseWriteTop
      <4>2. write_address' = write_address
        BY <2>4, <2>8
      <4>3. CASE state' = "UPDATE_WRITE"
        <5>1. BaseWriteTop' = Top + (COL_WIDTH - 2)
              /\ base_write_address' = base_write_address + OutRow * (COL_WIDTH - 2)
          BY <2>4, <3>2, <4>3 DEF BaseWriteTop, Placed
        <5>2. (Top + (COL_WIDTH - 2)) * OutRow = Top * OutRow + OutRow * (COL_WIDTH - 2)
              /\ Top * OutRow \in Nat /\ OutRow * (COL_WIDTH - 2) \in Nat
          BY <2>2, <3>1
        <5>3. image.result_address + (Top + (COL_WIDTH - 2)) * OutRow
                = image.result_address + Top * OutRow + OutRow * (COL_WIDTH - 2)
          BY <2>2, <5>2
        <5> QED
          BY <3>2, <3>3, <4>1, <4>2, <5>1, <5>3 DEF Placed
      <4>4. CASE state' # "UPDATE_WRITE"
        <5>1. BaseWriteTop' = Top /\ base_write_address' = base_write_address
          BY <1>3, <2>4, <3>2, <4>4 DEF BaseWriteTop, Placed, Early
        <5> QED
          BY <3>2, <3>3, <4>1, <4>2, <5>1 DEF Placed
      <4> QED
        BY <4>3, <4>4
    <3>5. ASSUME state' \notin Final
          PROVE  read_address' = ReadAddress' /\ (InRow' > M => base_read_address' = BaseReadAddress')
      <4>1. state \notin Final
        BY <1>0, <2>1, <3>1, <3>5, <1>3, Leads, Turns DEF Final, Early, Quiet
      <4>2. UNCHANGED <<NextBase, Second, NextSecond, RowBase, Group, remaining_width, InRow>>
        BY <3>2 DEF Placed
      <4>3. remaining_width >= M => control!Minus(remaining_width, M) = remaining_width - M
        <5>1. remaining_width \in Nat /\ M \in Nat
          BY <2>2, <3>1
        <5> QED
          BY ONLY <5>1, Subtracts
      <4>4. CASE state' = "CHUNK_DONE"
        <5>1. state = "UPDATE_BASE" /\ remaining_width > M
          BY <1>0, <3>1, <4>4, Arrives DEF Geometry, Crossing
        <5>2. read_address = Base + M /\ base_read_address = IF remaining_width > 2 * M THEN RowBase ELSE RowBase + Group
          BY <2>2, <3>1, <3>3, <4>1, <5>1 DEF ReadAddress, BaseReadAddress, NextBase, NextRow, Crossing
        <5>3. read_address' = Second
          <6>1. control!Minus(remaining_width, M) < M <=> ~(remaining_width > 2 * M)
            BY <2>2, <3>1, <4>3, <5>1
          <6>2. (Base + M) + M = Base + 2 * M
            BY <2>2, <3>1
          <6> QED
            BY <2>3, <4>4, <5>2, <6>1, <6>2 DEF Second
        <5>4. ReadAddress' = Second
          BY <4>2, <4>4 DEF ReadAddress, NextRow
        <5>5. BaseReadAddress' = base_read_address
          BY <4>2, <4>4, <5>2 DEF BaseReadAddress, Crossing
        <5>6. base_read_address' = base_read_address
          BY <2>3, <4>4
        <5> QED
          BY <5>3, <5>4, <5>5, <5>6
      <4>5. CASE state' = "UPDATE_BASE"
        <5>1. state = "CHUNK_END" /\ remaining_width > M
          BY <1>0, <3>1, <4>5, Arrives, Leads DEF Geometry, Resuming
        <5>2. read_address = NextBase /\ base_read_address = RowBase
          BY <2>2, <3>1, <3>3, <4>1, <5>1 DEF ReadAddress, BaseReadAddress, NextRow, Crossing
        <5>3. control!Minus(remaining_width, M) < M <=> ~(remaining_width > 2 * M)
          BY <2>2, <3>1, <4>3, <5>1
        <5> QED
          BY <2>3, <4>2, <4>5, <5>2, <5>3 DEF ReadAddress, BaseReadAddress, NextRow, Crossing
      <4>6. CASE state' = "UPDATE_READ"
        <5>1. state = "ROW_END" /\ remaining_width < M
          BY <1>0, <2>2, <3>1, <4>6, Leads, Turns DEF Geometry, Active, First, Pauses, Crossing,
             WithinRow, NextRow, Final
        <5>2. read_address = RowBase + Group /\ (InRow > M => base_read_address = RowBase + Group)
          BY <2>2, <3>1, <3>3, <4>1, <5>1 DEF ReadAddress, BaseReadAddress, NextBase, NextRow, Crossing
        <5>3. read_address' = NextSecond /\ base_read_address' = base_read_address
          BY <2>3, <4>6, <5>2 DEF NextSecond
        <5>4. BaseReadAddress' = RowBase + Group /\ ReadAddress' = NextSecond
          BY <2>2, <3>1, <4>2, <4>6, <5>1 DEF ReadAddress, BaseReadAddress, NextRow, Crossing
        <5> QED
          BY <4>2, <5>2, <5>3, <5>4
      <4>7. CASE state' \notin {"CHUNK_DONE", "UPDATE_BASE", "UPDATE_READ"}
        <5>1. /\ state' \notin {"FILL_BUFF1", "ADDR_ALL", "ADDR_CHUNK"}
              /\ state' \in Crossing <=> state \in Crossing
              /\ state' \in NextRow <=> state \in NextRow
          BY <1>0, <1>3, <2>2, <2>8, <3>1, <4>1, <4>7, Leads, Turns
             DEF Active, First, Pauses, Crossing, WithinRow, NextRow, Final, Early, Quiet
        <5>2. read_address' = read_address /\ base_read_address' = base_read_address
          BY <2>3, <4>7, <5>1
        <5>3. ReadAddress' = ReadAddress /\ BaseReadAddress' = BaseReadAddress
          BY <2>8, <4>2, <4>7, <5>1 DEF ReadAddress, BaseReadAddress
        <5> QED
          BY <3>3, <4>1, <4>2, <5>2, <5>3
      <4> QED
        BY <4>4, <4>5, <4>6, <4>7
    <3> QED
      BY <1>3, <3>4, <3>5 DEF AddressInv, Early
  <2> QED
    BY <2>5, <2>6, <2>7, <2>8
<1> QED
  BY <1>2, <1>3

-----------------------------------------------------------------------------
(* Request controller and memory                                           *)

Requesting == {"START_WRITE_REQUEST", "START_READ_REQUEST"}

(* Where each state of the request controller leads.                       *)
LEMMA Proceeds ==
  ASSUME requests!NextState(ReqIf, dram_ready, request_done)
  PROVE  /\ r_state \in {"IDLE"} \cup Sending \cup Filling
         /\ r_state = "IDLE" => r_state' = IF control!Write THEN "SAVE_WRITE_ADDR"
                                           ELSE IF control!Read THEN "SAVE_READ_ADDR" ELSE "IDLE"
         /\ r_state = "SAVE_WRITE_ADDR" => r_state' = "START_WRITE_REQUEST"
         /\ r_state = "START_WRITE_REQUEST" => r_state' = "FIRST_LOAD"
         /\ r_state = "FIRST_LOAD" => r_state' = "LOAD_WRITE_DATA"
         /\ r_state = "LOAD_WRITE_DATA" => r_state' = IF load_count = CL_WIDTH THEN "LAST_SHIFT" ELSE "LOAD_WRITE_DATA"
         /\ r_state = "LAST_SHIFT" => r_state' = "WAIT_DRAM_READY_WRITE"
         /\ r_state = "WAIT_DRAM_READY_WRITE" => r_state' = IF dram_ready THEN "SEND_WRITE_CL" ELSE "WAIT_DRAM_READY_WRITE"
         /\ r_state = "SEND_WRITE_CL" => r_state' = IF sent_lines = request_size THEN "WAIT_WRITE_DONE" ELSE "FIRST_LOAD"
         /\ r_state = "WAIT_WRITE_DONE" =>
              r_state' = IF ~request_done THEN "WAIT_WRITE_DONE"
                         ELSE IF rd_row # cap_height - 1 THEN "UPDATE_WRITE_ADDRESS"
                         ELSE IF cap_read THEN "WRITE_TO_READ" ELSE "IDLE"
         /\ r_state = "UPDATE_WRITE_ADDRESS" => r_state' = "START_WRITE_REQUEST"
         /\ r_state \in Prelude \cup {"UPDATE_READ_ADDRESS"} => r_state' = "START_READ_REQUEST"
         /\ r_state = "START_READ_REQUEST" => r_state' = "WAIT_DRAM_READY"
         /\ r_state = "WAIT_DRAM_READY" => r_state' = IF dram_ready THEN "GET_CL" ELSE "WAIT_DRAM_READY"
         /\ r_state = "GET_CL" => r_state' = "FIRST_SAVE"
         /\ r_state = "FIRST_SAVE" => r_state' = "SAVE_DATA"
         /\ r_state = "SAVE_DATA" => r_state' = IF load_count = LineWords - 1 THEN "SAVE_END" ELSE "SAVE_DATA"
         /\ r_state = "SAVE_END" => r_state' = "FPU_READY"
         /\ r_state = "FPU_READY" =>
              r_state' = IF sent_lines # Lines THEN "WAIT_DRAM_READY"
                         ELSE IF wr_row = COL_WIDTH - 1
                              THEN IF request_done THEN "IDLE" ELSE "WAIT_READ_DONE"
                              ELSE IF request_done THEN "UPDATE_READ_ADDRESS" ELSE "WAIT_READ_DONE_LINE"
         /\ r_state = "WAIT_READ_DONE" => r_state' = IF request_done THEN "IDLE" ELSE "WAIT_READ_DONE"
         /\ r_state = "WAIT_READ_DONE_LINE" =>
              r_state' = IF request_done THEN "UPDATE_READ_ADDRESS" ELSE "WAIT_READ_DONE_LINE"
<1> USE DEF requests!NextState, requests!Writing, requests!Reading, requests!Goto, requests!Stay
<1>1. r_state \in {"IDLE"} \cup Sending \cup Filling
  BY DEF Sending, Filling, Prelude, Fetching, Saving
<1>2. /\ r_state = "IDLE" => r_state' = IF control!Write THEN "SAVE_WRITE_ADDR"
                                        ELSE IF control!Read THEN "SAVE_READ_ADDR" ELSE "IDLE"
      /\ r_state = "SAVE_WRITE_ADDR" => r_state' = "START_WRITE_REQUEST"
      /\ r_state = "START_WRITE_REQUEST" => r_state' = "FIRST_LOAD"
      /\ r_state = "FIRST_LOAD" => r_state' = "LOAD_WRITE_DATA"
      /\ r_state = "LOAD_WRITE_DATA" => r_state' = IF load_count = CL_WIDTH THEN "LAST_SHIFT" ELSE "LOAD_WRITE_DATA"
      /\ r_state = "LAST_SHIFT" => r_state' = "WAIT_DRAM_READY_WRITE"
  BY DEF ReqIf
<1>3. /\ r_state = "WAIT_DRAM_READY_WRITE" => r_state' = IF dram_ready THEN "SEND_WRITE_CL" ELSE "WAIT_DRAM_READY_WRITE"
      /\ r_state = "SEND_WRITE_CL" => r_state' = IF sent_lines = request_size THEN "WAIT_WRITE_DONE" ELSE "FIRST_LOAD"
      /\ r_state = "WAIT_WRITE_DONE" =>
           r_state' = IF ~request_done THEN "WAIT_WRITE_DONE"
                      ELSE IF rd_row # cap_height - 1 THEN "UPDATE_WRITE_ADDRESS"
                      ELSE IF cap_read THEN "WRITE_TO_READ" ELSE "IDLE"
      /\ r_state = "UPDATE_WRITE_ADDRESS" => r_state' = "START_WRITE_REQUEST"
  BY DEF requests!LastRow
<1>4. /\ r_state \in Prelude \cup {"UPDATE_READ_ADDRESS"} => r_state' = "START_READ_REQUEST"
      /\ r_state = "START_READ_REQUEST" => r_state' = "WAIT_DRAM_READY"
      /\ r_state = "WAIT_DRAM_READY" => r_state' = IF dram_ready THEN "GET_CL" ELSE "WAIT_DRAM_READY"
      /\ r_state = "GET_CL" => r_state' = "FIRST_SAVE"
      /\ r_state = "FIRST_SAVE" => r_state' = "SAVE_DATA"
      /\ r_state = "SAVE_DATA" => r_state' = IF load_count = LineWords - 1 THEN "SAVE_END" ELSE "SAVE_DATA"
      /\ r_state = "SAVE_END" => r_state' = "FPU_READY"
  BY DEF Prelude, LineWords
<1>5. /\ r_state = "FPU_READY" =>
           r_state' = IF sent_lines # Lines THEN "WAIT_DRAM_READY"
                      ELSE IF wr_row = COL_WIDTH - 1
                           THEN IF request_done THEN "IDLE" ELSE "WAIT_READ_DONE"
                           ELSE IF request_done THEN "UPDATE_READ_ADDRESS" ELSE "WAIT_READ_DONE_LINE"
      /\ r_state = "WAIT_READ_DONE" => r_state' = IF request_done THEN "IDLE" ELSE "WAIT_READ_DONE"
      /\ r_state = "WAIT_READ_DONE_LINE" =>
           r_state' = IF request_done THEN "UPDATE_READ_ADDRESS" ELSE "WAIT_READ_DONE_LINE"
  BY DEF Lines
<1> QED
  BY ONLY <1>1, <1>2, <1>3, <1>4, <1>5

(* Counting a line changes the count only.                                 *)
LEMMA CountedIs ==
  ASSUME MemoryInv
  PROVE  Counted = [rd_wr |-> dram.rd_wr, base |-> dram.base, num |-> dram.num, count |-> dram.count + 1]
BY DEF MemoryInv, Counted

(* A step keeps MemoryInv: request controller and memory agree how many    *)
(* lines have gone.                                                        *)
LEMMA MemoryStep ==
  ASSUME NEW delay \in BOOLEAN, Step(delay), ColInv, MemoryInv
  PROVE  MemoryInv'
<1>1. /\ requests!NextState(ReqIf, dram_ready, request_done)
      /\ requests!Capture(ReqIf) /\ requests!Address(ReqIf) /\ requests!Counts
  BY Edge
<1>2. Dram(delay) \/ (state = "IDLE" /\ UNCHANGED <<phase, dram, dram_ready, request_done, read_data>>)
  <2>1. NewImage => state = "IDLE"
    BY DEF Step, Software, NewImage
  <2> QED
    BY <2>1 DEF Step
<1>3. state = "IDLE" => r_state = "IDLE"
  BY DEF ColInv, Idle, Starting
<1>s. /\ r_state' \in Requesting => sent_lines' = 0
      /\ r_state' \in {"SEND_WRITE_CL", "FPU_READY"} => sent_lines' = sent_lines + 1
      /\ r_state' \notin Requesting \cup {"SEND_WRITE_CL", "FPU_READY"} => sent_lines' = sent_lines
      /\ r_state' \notin {"SAVE_WRITE_ADDR", "SAVE_READ_ADDR", "WRITE_TO_READ", "UPDATE_WRITE_ADDRESS",
                          "UPDATE_READ_ADDRESS"} => address' = address
      /\ r_state # "IDLE" => request_size' = request_size
      /\ requests!Request' <=> r_state' \in Requesting
      /\ sent_lines \in Nat /\ sent_lines' \in Nat
  BY <1>1 DEF MemoryInv, requests!Counts, requests!Request, requests!Address, requests!Capture,
     requests!captured, Requesting
<1>l. Lines \in Nat /\ Lines > 0 /\ requests!RequestLines = Lines
  BY Sizes DEF Lines
<1>4. CASE r_state \in AtRest \ Requesting
  <2>1. phase = "READY" /\ ~requests!Request /\ ~requests!FpuReady
    BY <1>4 DEF MemoryInv, AtRest, Requesting, Prelude, requests!Request, requests!FpuReady
  <2>2. phase' = "READY" /\ dram' = dram
    BY <1>2, <2>1 DEF Dram, Accept, Serve, Delayed, Answered, ReadDone
  <2>3. r_state' \in AtRest
    BY <1>1, <1>4, Proceeds DEF AtRest, Requesting, Prelude
  <2> QED
    BY <1>s, <2>2, <2>3 DEF MemoryInv, WriteMemory, ReadMemory, AtRest, Requesting, Loading, Loaded,
       Fetching, Saving, Prelude
<1>5. CASE r_state = "START_WRITE_REQUEST"
  <2>1. phase = "READY" /\ requests!Request /\ requests!RdWr /\ sent_lines = 0
    BY <1>5 DEF MemoryInv, AtRest, requests!Request, requests!RdWr
  <2>2. /\ dram' = [rd_wr |-> TRUE, base |-> address, num |-> request_size, count |-> 0]
        /\ phase' = "READY" /\ request_done' = FALSE
    BY <1>2, <1>3, <1>5, <2>1 DEF Dram, Accept, Serve, Delayed, Answered, ReadDone
  <2>3. r_state' = "FIRST_LOAD"
    BY <1>1, <1>5, Proceeds
  <2>4. SentLines' = 0 /\ address' = address /\ request_size' = request_size
    BY <1>s, <1>5, <2>1, <2>3 DEF SentLines, Requesting
  <2> QED
    BY <1>s, <2>2, <2>3, <2>4 DEF MemoryInv, WriteMemory, ReadMemory, AtRest, Requesting, Loading,
       Loaded, Fetching, Saving, Prelude
<1>6. CASE r_state = "START_READ_REQUEST"
  <2>1. phase = "READY" /\ requests!Request /\ ~requests!RdWr /\ sent_lines = 0
    BY <1>6 DEF MemoryInv, AtRest, requests!Request, requests!RdWr
  <2>2. /\ dram' = [rd_wr |-> FALSE, base |-> address, num |-> request_size, count |-> 0]
        /\ phase' = "READY" /\ request_done' = FALSE /\ dram_ready' = FALSE
    BY <1>2, <1>3, <1>6, <2>1 DEF Dram, Accept, Serve, Delayed, Answered, ReadDone, requests!RdWr
  <2>3. r_state' = "WAIT_DRAM_READY"
    BY <1>1, <1>6, Proceeds
  <2>4. sent_lines' = 0 /\ address' = address
    BY <1>s, <1>6, <2>1, <2>3 DEF Requesting
  <2> QED
    BY <1>s, <1>l, <2>2, <2>3, <2>4 DEF MemoryInv, WriteMemory, ReadMemory, AtRest, Requesting,
       Loading, Loaded, Fetching, Saving, Prelude
<1>7. CASE r_state \in Loading \cup {"LAST_SHIFT", "WAIT_DRAM_READY_WRITE"}
  <2>1. /\ dram.rd_wr /\ dram.base = address /\ dram.num = request_size
        /\ SentLines \in Nat /\ SentLines = sent_lines
        /\ \/ phase = "READY" /\ dram.count = SentLines
           \/ phase = "WRITING" /\ ~dram_ready /\ ~request_done /\ dram.count = SentLines - 1
    BY <1>7 DEF MemoryInv, WriteMemory, Loading, Loaded, SentLines
  <2>2. ~requests!Request /\ ~requests!FpuReady
    BY <1>7 DEF Loading, requests!Request, requests!FpuReady
  <2>3. r_state' \in Loading \cup Loaded /\ (r_state' = "SEND_WRITE_CL" => dram_ready)
    BY <1>1, <1>7, Proceeds DEF Loading, Loaded
  <2>4. SentLines' = SentLines /\ address' = address /\ request_size' = request_size
    <3>1. address' = address /\ request_size' = request_size
      BY <1>s, <1>7, <2>3 DEF Loading, Loaded
    <3>2. sent_lines' = IF r_state' = "SEND_WRITE_CL" THEN sent_lines + 1 ELSE sent_lines
      BY <1>s, <2>3 DEF Loading, Loaded, Requesting
    <3>3. SentLines' = sent_lines
      BY <1>s, <3>2 DEF SentLines
    <3> QED
      BY <2>1, <3>1, <3>3
  <2>5. Dram(delay)
    BY <1>2, <1>3, <1>7 DEF Loading
  <2>6. CASE phase = "READY"
    <3>1. phase' = "READY" /\ dram' = dram /\ request_done' = FALSE
      BY <2>2, <2>5, <2>6 DEF Dram, Accept, Serve, Delayed, Answered, ReadDone
    <3> QED
      BY <1>s, <2>1, <2>3, <2>4, <2>6, <3>1 DEF MemoryInv, WriteMemory, ReadMemory, AtRest,
         Requesting, Loading, Loaded, Fetching, Saving, Prelude
  <2>7. CASE phase = "WRITING"
    <3>1. \/ UNCHANGED memory
          \/ phase' = "READY" /\ dram' = Counted
      BY <2>5, <2>7 DEF Dram, Accept, Serve, Delayed, Answered, ReadDone, Stored
    <3>2. r_state' # "SEND_WRITE_CL"
      BY <2>1, <2>3, <2>7
    <3>3. CASE UNCHANGED memory
      BY <1>s, <2>1, <2>3, <2>4, <2>7, <3>2, <3>3 DEF memory, MemoryInv, WriteMemory, ReadMemory,
         AtRest, Requesting, Loading, Loaded, Fetching, Saving, Prelude
    <3>4. CASE phase' = "READY" /\ dram' = Counted
      <4>1. /\ dram'.rd_wr = dram.rd_wr /\ dram'.base = dram.base /\ dram'.num = dram.num
            /\ dram'.count = SentLines'
            /\ dram' = [rd_wr |-> dram'.rd_wr, base |-> dram'.base, num |-> dram'.num, count |-> dram'.count]
        <5>1. dram' = [rd_wr |-> dram.rd_wr, base |-> dram.base, num |-> dram.num, count |-> dram.count + 1]
          BY <3>4, CountedIs
        <5>2. dram.count + 1 = SentLines'
          BY <2>1, <2>4, <2>7, <3>4
        <5> QED
          BY <2>1, <2>4, <2>7, <3>4, <5>1, <5>2
      <4> QED
        BY <1>s, <2>1, <2>3, <2>4, <3>2, <3>4, <4>1 DEF MemoryInv, WriteMemory, ReadMemory, AtRest,
           Requesting, Loading, Loaded, Fetching, Saving, Prelude
    <3> QED
      BY <3>1, <3>3, <3>4
  <2> QED
    BY <2>1, <2>6, <2>7
<1>8. CASE r_state = "SEND_WRITE_CL"
  <2>1. /\ dram.rd_wr /\ dram.base = address /\ dram.num = request_size
        /\ SentLines \in Nat /\ SentLines = sent_lines - 1
        /\ phase = "READY" /\ dram.count = SentLines
    BY <1>8 DEF MemoryInv, WriteMemory, Loading, Loaded, SentLines
  <2>2. ~requests!Request /\ requests!FpuReady
    BY <1>8 DEF requests!Request, requests!FpuReady
  <2>3. r_state' \in {"FIRST_LOAD", "WAIT_WRITE_DONE"}
    BY <1>1, <1>8, Proceeds
  <2>4. SentLines' = sent_lines /\ address' = address /\ request_size' = request_size
    BY <1>s, <1>8, <2>1, <2>3 DEF SentLines, Requesting
  <2>5. Dram(delay)
    BY <1>2, <1>3, <1>8
  <2>6. \/ phase' = "WRITING" /\ dram_ready' = FALSE /\ request_done' = FALSE /\ dram' = dram
        \/ phase' = "READY" /\ dram' = Counted
    BY <2>1, <2>2, <2>5 DEF Dram, Accept, Serve, Delayed, Answered, ReadDone, Stored
  <2>7. CASE phase' = "WRITING" /\ dram_ready' = FALSE /\ request_done' = FALSE /\ dram' = dram
    <3>1. SentLines' \in Nat /\ dram'.count = SentLines' - 1
      BY <1>s, <2>1, <2>4, <2>7
    <3> QED
      BY <1>s, <2>1, <2>3, <2>4, <2>7, <3>1 DEF MemoryInv, WriteMemory, ReadMemory, AtRest,
         Requesting, Loading, Loaded, Fetching, Saving, Prelude
  <2>8. CASE phase' = "READY" /\ dram' = Counted
    <3>1. /\ dram'.rd_wr = dram.rd_wr /\ dram'.base = dram.base /\ dram'.num = dram.num
          /\ dram'.count = SentLines' /\ SentLines' \in Nat
          /\ dram' = [rd_wr |-> dram'.rd_wr, base |-> dram'.base, num |-> dram'.num, count |-> dram'.count]
      <4>1. dram' = [rd_wr |-> dram.rd_wr, base |-> dram.base, num |-> dram.num, count |-> dram.count + 1]
        BY <2>8, CountedIs
      <4>2. dram.count + 1 = SentLines'
        BY <1>s, <2>1, <2>4, <2>8
      <4> QED
        BY <1>s, <2>1, <2>4, <2>8, <4>1, <4>2
    <3> QED
      BY <1>s, <2>1, <2>3, <2>4, <2>8, <3>1 DEF MemoryInv, WriteMemory, ReadMemory, AtRest,
         Requesting, Loading, Loaded, Fetching, Saving, Prelude
  <2> QED
    BY <2>6, <2>7, <2>8
<1>9. CASE r_state = "WAIT_WRITE_DONE"
  <2>1. /\ dram.rd_wr /\ dram.base = address /\ dram.num = request_size
        /\ SentLines \in Nat /\ SentLines = sent_lines
        /\ \/ phase = "READY" /\ dram.count = SentLines
           \/ phase = "WRITING" /\ ~dram_ready /\ ~request_done /\ dram.count = SentLines - 1
    BY <1>9 DEF MemoryInv, WriteMemory, SentLines
  <2>2. ~requests!Request /\ ~requests!FpuReady /\ Dram(delay)
    BY <1>2, <1>3, <1>9 DEF requests!Request, requests!FpuReady
  <2>3. IF request_done THEN r_state' \in AtRest \ Requesting ELSE r_state' = "WAIT_WRITE_DONE"
    BY <1>1, <1>9, Proceeds DEF AtRest, Requesting, Prelude
  <2>4. CASE request_done
    <3>1. phase' = "READY" /\ dram' = dram
      BY <2>1, <2>2, <2>4 DEF Dram, Accept, Serve, Delayed, Answered, ReadDone
    <3> QED
      BY <1>s, <2>3, <2>4, <3>1 DEF MemoryInv, WriteMemory, ReadMemory, AtRest, Requesting, Loading,
         Loaded, Fetching, Saving, Prelude
  <2>5. CASE ~request_done
    <3>1. SentLines' = SentLines /\ address' = address /\ request_size' = request_size
      BY <1>s, <1>9, <2>1, <2>3, <2>5 DEF SentLines, Requesting
    <3>2. \/ phase = "READY" /\ phase' = "READY" /\ dram' = dram
          \/ phase = "WRITING" /\ UNCHANGED memory
          \/ phase = "WRITING" /\ phase' = "READY" /\ dram' = Counted
      BY <2>1, <2>2 DEF Dram, Accept, Serve, Delayed, Answered, ReadDone, Stored
    <3>3. CASE phase = "READY" /\ phase' = "READY" /\ dram' = dram
      BY <1>s, <2>1, <2>3, <2>5, <3>1, <3>3 DEF MemoryInv, WriteMemory, ReadMemory, AtRest,
         Requesting, Loading, Loaded, Fetching, Saving, Prelude
    <3>4. CASE phase = "WRITING" /\ UNCHANGED memory
      BY <1>s, <2>1, <2>3, <2>5, <3>1, <3>4 DEF memory, MemoryInv, WriteMemory, ReadMemory, AtRest,
         Requesting, Loading, Loaded, Fetching, Saving, Prelude
    <3>5. CASE phase = "WRITING" /\ phase' = "READY" /\ dram' = Counted
      <4>1. /\ dram'.rd_wr = dram.rd_wr /\ dram'.base = dram.base /\ dram'.num = dram.num
            /\ dram'.count = SentLines'
            /\ dram' = [rd_wr |-> dram'.rd_wr, base |-> dram'.base, num |-> dram'.num, count |-> dram'.count]
        <5>1. dram' = [rd_wr |-> dram.rd_wr, base |-> dram.base, num |-> dram.num, count |-> dram.count + 1]
          BY <3>5, CountedIs
        <5>2. dram.count + 1 = SentLines'
          BY <2>1, <3>1, <3>5
        <5> QED
          BY <2>1, <3>1, <3>5, <5>1, <5>2
      <4> QED
        BY <1>s, <2>1, <2>3, <2>5, <3>1, <3>5, <4>1 DEF MemoryInv, WriteMemory, ReadMemory, AtRest,
           Requesting, Loading, Loaded, Fetching, Saving, Prelude
    <3> QED
      BY <3>2, <3>3, <3>4, <3>5
  <2> QED
    BY <2>4, <2>5
<1>10. CASE r_state = "WAIT_DRAM_READY"
  <2>1. /\ ~dram.rd_wr /\ dram.base = address /\ sent_lines \in 0..Lines
        /\ phase \in {"READY", "READING", "ANSWERED"}
        /\ dram.count = sent_lines /\ sent_lines < Lines
        /\ dram_ready <=> phase = "ANSWERED"
        /\ phase = "ANSWERED" => read_data = At
        /\ ~request_done
    BY <1>10 DEF MemoryInv, ReadMemory, Fetching
  <2>2. ~requests!Request /\ requests!FpuReady /\ Dram(delay)
    BY <1>2, <1>3, <1>10 DEF requests!Request, requests!FpuReady
  <2>3. /\ r_state' = IF dram_ready THEN "GET_CL" ELSE "WAIT_DRAM_READY"
        /\ sent_lines' = sent_lines /\ address' = address
    <3>1. r_state' = IF dram_ready THEN "GET_CL" ELSE "WAIT_DRAM_READY"
      BY <1>1, <1>10, Proceeds
    <3> QED
      BY <1>s, <3>1 DEF Requesting
  <2>4. CASE phase = "ANSWERED"
    <3>1. /\ dram' = Counted
          /\ phase' \in IF dram'.count # Lines THEN {"READY"} ELSE {"ENDING", "DONE"}
          /\ request_done' <=> phase' = "DONE"
      BY <1>l, <2>2, <2>4 DEF Dram, Accept, Serve, Delayed, Answered, ReadDone
    <3>2. /\ dram'.rd_wr = dram.rd_wr /\ dram'.base = dram.base /\ dram'.num = dram.num
          /\ dram'.count = sent_lines + 1
          /\ dram' = [rd_wr |-> dram'.rd_wr, base |-> dram'.base, num |-> dram'.num, count |-> dram'.count]
      BY <2>1, <3>1, CountedIs
    <3> QED
      BY <1>s, <2>1, <2>3, <2>4, <3>1, <3>2 DEF MemoryInv, WriteMemory, ReadMemory, AtRest,
         Requesting, Loading, Loaded, Fetching, Saving, Prelude
  <2>5. CASE phase \in {"READY", "READING"}
    <3>1. /\ dram' = dram /\ request_done' = FALSE
          /\ \/ phase' = "READING" /\ dram_ready' = FALSE
             \/ phase' = "ANSWERED" /\ dram_ready' = TRUE /\ read_data' = At
      BY <2>1, <2>2, <2>5 DEF Dram, Accept, Serve, Delayed, Answered, ReadDone, Fetched, memory
    <3>2. At' = At
      BY <3>1 DEF At
    <3>3. r_state' = "WAIT_DRAM_READY"
      BY <2>1, <2>3, <2>5
    <3> QED
      BY <1>s, <2>1, <2>3, <3>1, <3>2, <3>3 DEF MemoryInv, WriteMemory, ReadMemory, AtRest,
         Requesting, Loading, Loaded, Fetching, Saving, Prelude
  <2> QED
    BY <2>1, <2>4, <2>5
<1>11. CASE r_state \in Saving
  <2>1. /\ ~dram.rd_wr /\ dram.base = address /\ sent_lines \in 0..Lines
        /\ dram.count = sent_lines + 1 /\ sent_lines < Lines
        /\ phase \in IF sent_lines + 1 = Lines THEN {"ENDING", "DONE"} ELSE {"READY"}
        /\ phase = "DONE" <=> request_done
    BY <1>11 DEF MemoryInv, ReadMemory, Fetching
  <2>2. ~requests!Request /\ ~requests!FpuReady /\ Dram(delay)
    BY <1>2, <1>3, <1>11 DEF requests!Request, requests!FpuReady, Saving
  <2>3. /\ dram' = dram
        /\ phase' \in IF sent_lines + 1 = Lines THEN {"ENDING", "DONE"} ELSE {"READY"}
        /\ phase' = "DONE" <=> request_done'
    <3>1. CASE phase = "READY"
      BY <2>1, <2>2, <3>1 DEF Dram, Accept, Serve, Delayed, Answered, ReadDone
    <3>2. CASE phase = "ENDING"
      BY <1>l, <2>1, <2>2, <3>2 DEF Dram, Accept, Serve, Delayed, Answered, ReadDone
    <3>3. CASE phase = "DONE"
      BY <2>1, <2>2, <3>3 DEF Dram, Accept, Serve, Delayed, Answered, ReadDone
    <3> QED
      BY <2>1, <3>1, <3>2, <3>3
  <2>4. r_state' \in Saving \cup {"FPU_READY"}
    BY <1>1, <1>11, Proceeds DEF Saving
  <2>5. /\ sent_lines' = IF r_state' = "FPU_READY" THEN sent_lines + 1 ELSE sent_lines
        /\ address' = address
    BY <1>s, <2>4 DEF Saving, Requesting
  <2> QED
    BY <1>s, <1>l, <2>1, <2>3, <2>4, <2>5 DEF MemoryInv, WriteMemory, ReadMemory, AtRest, Requesting,
       Loading, Loaded, Fetching, Saving, Prelude
<1>12. CASE r_state \in {"FPU_READY", "WAIT_READ_DONE", "WAIT_READ_DONE_LINE"}
  <2>1. /\ ~dram.rd_wr /\ dram.base = address /\ sent_lines \in 0..Lines
        /\ dram.count = sent_lines
        /\ phase \in IF sent_lines = Lines THEN {"ENDING", "DONE"} ELSE {"READY"}
        /\ phase = "DONE" <=> request_done
        /\ r_state # "FPU_READY" => sent_lines = Lines
    BY <1>l, <1>12 DEF MemoryInv, ReadMemory, Fetching
  <2>2. ~requests!Request /\ requests!FpuReady /\ Dram(delay)
    BY <1>2, <1>3, <1>12 DEF requests!Request, requests!FpuReady
  <2>3. CASE sent_lines # Lines
    <3>1. r_state' = "WAIT_DRAM_READY" /\ sent_lines' = sent_lines /\ address' = address
      <4>1. r_state' = "WAIT_DRAM_READY"
        BY <1>1, <1>12, <2>1, <2>3, Proceeds
      <4> QED
        BY <1>s, <4>1 DEF Requesting
    <3>2. /\ dram' = dram /\ request_done' = FALSE
          /\ \/ phase' = "READING" /\ dram_ready' = FALSE
             \/ phase' = "ANSWERED" /\ dram_ready' = TRUE /\ read_data' = At
      BY <2>1, <2>2, <2>3 DEF Dram, Accept, Serve, Delayed, Answered, ReadDone, Fetched
    <3>3. At' = At
      BY <3>2 DEF At
    <3> QED
      BY <1>s, <1>l, <2>1, <2>3, <3>1, <3>2, <3>3 DEF MemoryInv, WriteMemory, ReadMemory, AtRest,
         Requesting, Loading, Loaded, Fetching, Saving, Prelude
  <2>4. CASE sent_lines = Lines
    <3>1. IF request_done THEN r_state' \in {"IDLE", "UPDATE_READ_ADDRESS"}
          ELSE r_state' \in {"WAIT_READ_DONE", "WAIT_READ_DONE_LINE"}
      BY <1>1, <1>12, <2>4, Proceeds
    <3>2. sent_lines' = sent_lines /\ (~request_done => address' = address)
      BY <1>s, <3>1 DEF Requesting
    <3>3. /\ dram' = dram
          /\ IF request_done THEN phase' = "READY"
             ELSE phase' \in {"ENDING", "DONE"} /\ (phase' = "DONE" <=> request_done')
      BY <1>l, <2>1, <2>2, <2>4 DEF Dram, Accept, Serve, Delayed, Answered, ReadDone
    <3> QED
      BY <1>s, <1>l, <2>1, <2>4, <3>1, <3>2, <3>3 DEF MemoryInv, WriteMemory, ReadMemory, AtRest,
         Requesting, Loading, Loaded, Fetching, Saving, Prelude
  <2> QED
    BY <2>3, <2>4
<1> QED
  <2>1. r_state \in {"IDLE"} \cup Sending \cup Filling
    BY <1>1, Proceeds
  <2> QED
    BY <2>1, <1>4, <1>5, <1>6, <1>7, <1>8, <1>9, <1>10, <1>11, <1>12
       DEF AtRest, Requesting, Loading, Sending, Filling, Prelude, Fetching, Saving

(* The words of a line are words of the row.                               *)
LEMMA WordRange ==
  ASSUME NEW s \in Nat, NEW l \in Nat, s < Lines, l <= LineWords
  PROVE  /\ LineWords * s + l \in Nat /\ LineWords * s + l <= RowWords
         /\ l < LineWords => LineWords * s + l < RowWords
         /\ LineWords * (s + 1) = LineWords * s + LineWords
<1>1. Lines \in Nat /\ LineWords \in Nat /\ LineWords > 1 /\ RowWords = LineWords * Lines
  BY Sizes
<1>2. LineWords * s + LineWords <= LineWords * Lines
  <2>1. LineWords * (s + 1) <= LineWords * Lines
    BY <1>1
  <2> QED
    BY <1>1, <2>1
<1>3. LineWords * s \in Nat /\ LineWords * (s + 1) = LineWords * s + LineWords /\ LineWords * Lines \in Nat
  BY <1>1
<1> DEFINE p == LineWords * s
<1> HIDE DEF p
<1>4. p + l \in Nat /\ p + l <= RowWords /\ (l < LineWords => p + l < RowWords)
  BY <1>1, <1>2, <1>3 DEF p
<1> QED
  BY <1>3, <1>4 DEF p

(* The column after a word, around the end of the buffer.                  *)
LEMMA NextColumn ==
  ASSUME NEW n \in Nat, n < RowWords
  PROVE  /\ WORD * n \in Nat /\ WORD * (n + 1) = WORD * n + WORD
         /\ (WORD * n + WORD) % M = IF n + 1 = RowWords THEN 0 ELSE WORD * n + WORD
         /\ (WORD * n) \div WORD = n
         /\ WORD * n < M
<1>1. WORD \in Nat /\ WORD > 0 /\ RowWords \in Nat /\ M = WORD * RowWords /\ M \in Nat /\ M > 18
  BY Sizes
<1>2. WORD * n \in Nat /\ WORD * (n + 1) = WORD * n + WORD
  BY <1>1
<1>3. (WORD * n + 0) \div WORD = n
  <2>1. WORD \in Nat \ {0} /\ 0 \in 0..(WORD - 1)
    BY <1>1
  <2> QED
    BY ONLY <2>1, n \in Nat, DivUnique
<1>4. WORD * (n + 1) <= WORD * RowWords /\ (n + 1 # RowWords => WORD * (n + 1) < WORD * RowWords)
  <2>1. CASE n + 1 = RowWords
    BY <1>1, <2>1
  <2>2. CASE n + 2 <= RowWords
    <3>1. WORD * (n + 2) <= WORD * RowWords
      BY <1>1, <2>2
    <3>2. WORD * (n + 2) = WORD * (n + 1) + WORD /\ WORD * (n + 1) \in Nat
      BY <1>1
    <3> QED
      BY <1>1, <3>1, <3>2
  <2> QED
    BY <1>1, <2>1, <2>2
<1> DEFINE p == WORD * n
<1>5. p \in Nat /\ p + WORD <= M /\ (n + 1 # RowWords => p + WORD < M) /\ (n + 1 = RowWords => p + WORD = M)
  BY <1>1, <1>2, <1>4
<1>6. (p + WORD) % M = IF n + 1 = RowWords THEN 0 ELSE p + WORD
  <2> HIDE DEF p
  <2>1. CASE n + 1 = RowWords
    <3>1. 0 % M = 0 /\ (0 + M) % M = 0
      <4>1. 0 \in Nat /\ 0 < M
        BY <1>1
      <4> QED
        BY <4>1, Wraps
    <3> QED
      BY <1>1, <1>5, <2>1, <3>1
  <2>2. CASE n + 1 # RowWords
    <3>1. p + WORD \in Nat /\ p + WORD < M
      BY <1>1, <1>5, <2>2
    <3> QED
      BY <2>2, <3>1, Wraps
  <2> QED
    BY <2>1, <2>2
<1>7. p < M
  <2> HIDE DEF p
  <2> QED
    BY <1>1, <1>5
<1>8. (WORD * n) \div WORD = n
  BY <1>1, <1>2, <1>3
<1> QED
  BY <1>2, <1>6, <1>7, <1>8

(* A step keeps Typed.                                                     *)
LEMMA TypedStep ==
  ASSUME NEW delay \in BOOLEAN, Step(delay), Typed
  PROVE  Typed'
<1> DEFINE Conf == [image_width : Nat, image_height : Nat, start_address : Nat, result_address : Nat]
<1>1. /\ control!Loader(mapped_data_valid, image) /\ control!Addresses /\ Software
      /\ requests!Address(ReqIf) /\ requests!Capture(ReqIf)
  BY Edge DEF Step
<1>2. image' \in Conf /\ conf' \in Conf
  BY <1>1, ImagesAssumption DEF Typed, Software, control!Loader
<1>3. /\ conf.image_width \in Nat /\ conf.start_address \in Nat /\ conf.result_address \in Nat
      /\ M \in Nat /\ COL_WIDTH \in Nat
  BY Sizes DEF Typed
<1>4. /\ control!TotalWidth \in Int /\ control!ResultWidth \in Int /\ control!NextGroup \in Int
      /\ control!ResultWidth * (COL_WIDTH - 2) \in Int
  BY <1>3 DEF control!TotalWidth, control!ResultWidth, control!NextGroup
<1>5. {read_address', write_address', base_read_address', base_write_address'} \subseteq Int
  <2>1. read_address' \in Int
    BY <1>1, <1>3, <1>4 DEF Typed, control!Addresses, M
  <2>2. base_read_address' \in Int
    BY <1>1, <1>3, <1>4 DEF Typed, control!Addresses, M
  <2>3. base_write_address' \in Int
    BY <1>1, <1>3, <1>4 DEF Typed, control!Addresses, M
  <2>4. write_address' \in Int
    BY <1>1, <1>3, <1>4 DEF Typed, control!Addresses, M
  <2> QED
    BY <2>1, <2>2, <2>3, <2>4
<1>6. address' \in Int
  BY <1>1, <1>4 DEF Typed, requests!Address, ReqIf
<1>7. cap_rd_addr' \in Int
  BY <1>1 DEF Typed, requests!Capture, requests!captured, ReqIf
<1> QED
  BY <1>2, <1>5, <1>6, <1>7 DEF Typed

(* A step keeps WordInv: the column written is that of the word that comes *)
(* next out of the line.                                                   *)
LEMMA WordStep ==
  ASSUME NEW delay \in BOOLEAN, Step(delay), MemoryInv, WordInv, address \in Int
  PROVE  WordInv'
<1>1. /\ requests!NextState(ReqIf, dram_ready, request_done)
      /\ requests!Address(ReqIf) /\ requests!Columns /\ requests!Counts
      /\ requests!Data(read_data, buffers!RequestDataOut)
  BY Edge
<1>2. /\ r_state' \notin {"SAVE_WRITE_ADDR", "SAVE_READ_ADDR", "WRITE_TO_READ", "UPDATE_WRITE_ADDRESS",
                          "UPDATE_READ_ADDRESS"} => address' = address
      /\ sent_lines' = IF r_state' \in Requesting THEN 0
                       ELSE IF r_state' \in {"SEND_WRITE_CL", "FPU_READY"} THEN sent_lines + 1
                       ELSE sent_lines
      /\ sent_lines \in Nat
  BY <1>1 DEF MemoryInv, requests!Counts, requests!Request, requests!Address, Requesting
<1>3. /\ r_state' = "START_READ_REQUEST" => wr_col' = 0
      /\ r_state' \in {"SAVE_DATA", "SAVE_END"} => wr_col' = (wr_col + WORD) % M
      /\ r_state' \notin {"START_READ_REQUEST", "SAVE_DATA", "SAVE_END"} => wr_col' = wr_col
  BY <1>1 DEF requests!Columns, M
<1>4. /\ r_state' = "GET_CL" => load_count' = 0
      /\ r_state' \in {"SAVE_DATA", "SAVE_END"} => load_count' = load_count + 1
      /\ r_state' = "FIRST_SAVE" => load_count' = load_count
      /\ r_state' = "GET_CL" => read_cl' = read_data
      /\ r_state' \in {"FIRST_SAVE", "SAVE_DATA"} => read_cl' = read_cl + WORD /\ buffer_write_data' = read_cl
  BY <1>1 DEF requests!Counts, requests!Data
<1>5. /\ Lines \in Nat /\ Lines > 0 /\ WORD \in Nat /\ WORD > 0 /\ LineWords \in Nat /\ LineWords > 1
      /\ RowWords \in Nat /\ RowWords > 0 /\ LineWords * Lines = RowWords
  BY Sizes
<1>6. CASE r_state' = "START_READ_REQUEST"
  <2>1. Word' = LineWords * 0 + 0 /\ wr_col' = 0
    BY <1>2, <1>3, <1>6 DEF Word, Saving, Requesting
  <2>2. Word' = 0 /\ WORD * 0 = 0
    BY <1>5, <2>1
  <2> QED
    BY <1>5, <1>6, <2>1, <2>2 DEF WordInv, Fetching, Saving
<1>7. CASE r_state = "START_READ_REQUEST"
  <2>1. r_state' = "WAIT_DRAM_READY"
    BY <1>1, <1>7, Proceeds
  <2>2. sent_lines' = sent_lines /\ wr_col' = wr_col
    BY <1>2, <1>3, <2>1 DEF Requesting
  <2>3. Word' = Word
    BY <1>7, <2>1, <2>2 DEF Word, Saving
  <2>4. wr_col = IF Word = RowWords THEN 0 ELSE WORD * Word
    BY <1>7 DEF WordInv
  <2> QED
    BY <2>1, <2>2, <2>3, <2>4 DEF WordInv, Fetching, Saving
<1>8. CASE r_state = "WAIT_DRAM_READY"
  <2>1. r_state' = IF dram_ready THEN "GET_CL" ELSE "WAIT_DRAM_READY"
    BY <1>1, <1>8, Proceeds
  <2>2. sent_lines' = sent_lines /\ wr_col' = wr_col /\ address' = address
        /\ (r_state' = "GET_CL" => load_count' = 0 /\ read_cl' = read_data)
    BY <1>2, <1>3, <1>4, <2>1 DEF Requesting
  <2>3. Word = LineWords * sent_lines + 0
    BY <1>8 DEF Word, Saving
  <2>4. Word' = Word
    BY <2>1, <2>2, <2>3 DEF Word, Saving
  <2>5. wr_col = IF Word = RowWords THEN 0 ELSE WORD * Word
    BY <1>8 DEF WordInv, Fetching
  <2>6. dram_ready => read_data = address + WORD * Word
    <3>1. dram_ready => read_data = address + CL_WIDTH * sent_lines
      BY <1>8 DEF MemoryInv, ReadMemory, Fetching, At
    <3>2. CL_WIDTH * sent_lines = WORD * Word
      <4>1. CL_WIDTH = WORD * LineWords
        BY Sizes
      <4>2. Word = LineWords * sent_lines
        BY <1>2, <1>5, <2>3
      <4> QED
        BY <1>2, <1>5, <4>1, <4>2
    <3> QED
      BY <3>1, <3>2
  <2> QED
    BY <2>1, <2>2, <2>4, <2>5, <2>6 DEF WordInv, Fetching, Saving
<1>9. CASE r_state = "GET_CL"
  <2>1. r_state' = "FIRST_SAVE"
    BY <1>1, <1>9, Proceeds
  <2>2. /\ sent_lines' = sent_lines /\ wr_col' = wr_col /\ address' = address
        /\ load_count' = load_count /\ read_cl' = read_cl + WORD /\ buffer_write_data' = read_cl
    BY <1>2, <1>3, <1>4, <2>1 DEF Requesting
  <2>3. Word' = Word
    BY <1>9, <2>1, <2>2 DEF Word, Saving
  <2>4. /\ wr_col = IF Word = RowWords THEN 0 ELSE WORD * Word
        /\ load_count = 0 /\ read_cl = address + WORD * Word
    BY <1>9 DEF WordInv, Fetching, Saving
  <2> QED
    BY <2>1, <2>2, <2>3, <2>4 DEF WordInv, Fetching, Saving
<1>10. CASE r_state \in {"FIRST_SAVE", "SAVE_DATA"}
  <2>1. r_state' \in {"SAVE_DATA", "SAVE_END"}
        /\ (r_state' = "SAVE_END" => r_state = "SAVE_DATA" /\ load_count = LineWords - 1)
        /\ (r_state' = "SAVE_DATA" => r_state = "FIRST_SAVE" \/ load_count # LineWords - 1)
    BY <1>1, <1>10, Proceeds
  <2>2. /\ sent_lines' = sent_lines /\ wr_col' = (wr_col + WORD) % M /\ address' = address
        /\ load_count' = load_count + 1
        /\ r_state' = "SAVE_DATA" => read_cl' = read_cl + WORD /\ buffer_write_data' = read_cl
    BY <1>2, <1>3, <1>4, <2>1 DEF Requesting
  <2>3. /\ load_count \in Nat /\ load_count < LineWords
        /\ r_state = "FIRST_SAVE" => load_count = 0
        /\ read_cl = address + WORD * Word + WORD
        /\ wr_col = IF Word = RowWords THEN 0 ELSE WORD * Word
    BY <1>5, <1>10 DEF WordInv, Fetching, Saving
  <2>4. Word = LineWords * sent_lines + load_count
    BY <1>10 DEF Word, Saving
  <2>5. Word' = LineWords * sent_lines + (load_count + 1)
    BY <2>1, <2>2 DEF Word, Saving
  <2>6. sent_lines \in Nat /\ sent_lines < Lines
    BY <1>2, <1>10 DEF MemoryInv, ReadMemory, Saving
  <2>7. Word \in Nat /\ Word < RowWords
    <3>1. load_count <= LineWords
      BY <1>5, <2>3
    <3> QED
      BY <2>3, <2>4, <2>6, <3>1, WordRange
  <2>8. Word' = Word + 1
    <3>1. LineWords * sent_lines \in Nat
      BY <1>5, <2>6
    <3> QED
      BY <2>3, <2>4, <2>5, <3>1
  <2>9. /\ WORD * Word \in Nat /\ WORD * (Word + 1) = WORD * Word + WORD
        /\ (WORD * Word + WORD) % M = IF Word + 1 = RowWords THEN 0 ELSE WORD * Word + WORD
    BY ONLY <2>7, NextColumn
  <2>10. wr_col' = IF Word' = RowWords THEN 0 ELSE WORD * Word'
    <3>1. wr_col = WORD * Word
      BY <1>5, <2>3, <2>7
    <3> QED
      BY <2>2, <2>8, <2>9, <3>1
  <2>11. r_state' = "SAVE_DATA" => load_count' \in 1..(LineWords - 1)
    BY <1>5, <2>1, <2>2, <2>3
  <2>12. r_state' = "SAVE_END" => load_count' = LineWords
    BY <1>5, <2>1, <2>2, <2>3
  <2>13. r_state' = "SAVE_DATA" =>
          /\ buffer_write_data' = address' + WORD * Word'
          /\ read_cl' = address' + WORD * Word' + WORD
    <3>1. address + WORD * Word + WORD = address + WORD * Word'
      BY <1>5, <2>8, <2>9
    <3> QED
      BY <2>2, <2>3, <3>1
  <2> QED
    BY <2>1, <2>10, <2>11, <2>12, <2>13 DEF WordInv, Fetching, Saving
<1>11. CASE r_state = "SAVE_END"
  <2>1. r_state' = "FPU_READY"
    BY <1>1, <1>11, Proceeds
  <2>2. sent_lines' = sent_lines + 1 /\ wr_col' = wr_col
    BY <1>2, <1>3, <2>1 DEF Requesting
  <2>3. wr_col = (IF Word = RowWords THEN 0 ELSE WORD * Word) /\ load_count = LineWords
    BY <1>11 DEF WordInv, Fetching, Saving
  <2>4. sent_lines \in Nat /\ sent_lines < Lines
    BY <1>2, <1>11 DEF MemoryInv, ReadMemory, Saving
  <2>5. LineWords * (sent_lines + 1) = LineWords * sent_lines + LineWords
        /\ LineWords * (sent_lines + 1) \in Nat
    BY <1>5, <2>4
  <2>6. Word = LineWords * sent_lines + LineWords
    BY <1>11, <2>3 DEF Word, Saving
  <2>7. Word' = LineWords * (sent_lines + 1) + 0
    BY <2>1, <2>2 DEF Word, Saving
  <2>8. Word' = Word
    BY <2>5, <2>6, <2>7
  <2> QED
    BY <2>1, <2>2, <2>3, <2>8 DEF WordInv, Fetching, Saving
<1>12. CASE r_state \in {"FPU_READY", "WAIT_READ_DONE", "WAIT_READ_DONE_LINE"}
  <2>1. r_state' \in {"WAIT_DRAM_READY", "WAIT_READ_DONE", "WAIT_READ_DONE_LINE", "IDLE", "UPDATE_READ_ADDRESS"}
        /\ (r_state' = "UPDATE_READ_ADDRESS" => r_state = "WAIT_READ_DONE_LINE" \/ sent_lines = Lines)
    BY <1>1, <1>12, Proceeds
  <2>2. sent_lines' = sent_lines /\ wr_col' = wr_col
    BY <1>2, <1>3, <2>1 DEF Requesting
  <2>3. Word' = Word
    BY <1>12, <2>1, <2>2 DEF Word, Saving
  <2>4. wr_col = IF Word = RowWords THEN 0 ELSE WORD * Word
    BY <1>12 DEF WordInv, Fetching
  <2>5. r_state' = "UPDATE_READ_ADDRESS" => sent_lines = Lines
    BY <2>1 DEF MemoryInv, ReadMemory
  <2> QED
    BY <2>1, <2>2, <2>3, <2>4, <2>5 DEF WordInv, Fetching, Saving
<1>13. CASE r_state \in {"IDLE", "UPDATE_READ_ADDRESS"} \cup Prelude \cup Sending
  <2>1. r_state' \notin Fetching \cup {"UPDATE_READ_ADDRESS"}
    BY <1>1, <1>13, Proceeds DEF Prelude, Sending, Fetching, Saving
  <2> QED
    BY <1>6, <2>1 DEF WordInv, Fetching, Saving
<1> QED
  <2>1. r_state \in {"IDLE"} \cup Sending \cup Filling
    BY <1>1, Proceeds
  <2> QED
    BY <2>1, <1>7, <1>8, <1>9, <1>10, <1>11, <1>12, <1>13
       DEF Filling, Prelude, Fetching, Saving

-----------------------------------------------------------------------------
(* The read banks                                                          *)

(* While a request is under way the sequencer is in an image and both banks *)
(* stay where they are, unless the last rows have been computed.           *)
LEMMA UnderWay ==
  ASSUME NEW delay \in BOOLEAN, Step(delay), ColInv, r_state # "IDLE"
  PROVE  /\ state \notin Quiet /\ state # "FILL_BUFF1" /\ state' # "IDLE" /\ state' # "FILL_BUFF1"
         /\ wr_buffer_sel' = wr_buffer_sel
         /\ rd_buffer_sel' = rd_buffer_sel \/ state' = "PRE_FINAL"
<1>1. Sequence
  BY StepSequence
<1>2. state \notin Starting \cup {"FILL_BUFF1"}
  BY DEF ColInv, Idle
<1>3. state' \notin Resuming \cup Starting \cup {"FILL_BUFF1", "CHUNK_DONE"}
  BY <1>1, Awaits
<1>4. state' \notin {"FILL_BUFF_FLIP", "UPDATE_WRITE", "FINAL_FLIP"}
        \/ (state' = state)
  BY <1>1, <1>2, Turns, Leads DEF Making, Quiet, Active, First, Pauses, Crossing, WithinRow, NextRow,
     Final, Starting
<1>5. state' \notin {"FILL_BUFF_FLIP", "UPDATE_WRITE", "FINAL_FLIP"}
  BY <1>1, <1>2, <1>4, Turns, Leads DEF Making
<1>6. control!BankSelects
  BY Edge
<1>7. wr_buffer_sel' = wr_buffer_sel /\ (rd_buffer_sel' = rd_buffer_sel \/ state' = "PRE_FINAL")
  BY <1>3, <1>5, <1>6 DEF control!BankSelects, Resuming
<1> QED
  BY <1>2, <1>3, <1>7 DEF Starting, Quiet

(* One word of one row of the read banks is written at most.               *)
LEMMA ReadBanksStep ==
  ASSUME buffers!ReadBanks(BufferIn), ReadShape
  PROVE  /\ ReadShape'
         /\ \A b \in buffers!Bank, r \in buffers!Row, w \in 0..(RowWords - 1) :
              rb'[b][r][w] =
                IF /\ r_state \in {"FIRST_SAVE", "SAVE_DATA"} /\ rd_buffer_sel # b
                   /\ r = wr_row /\ w = wr_col \div WORD
                THEN buffer_write_data ELSE rb[b][r][w]
<1> DEFINE fills(b) == r_state \in {"FIRST_SAVE", "SAVE_DATA"} /\ rd_buffer_sel # b
<1>1. \A b \in buffers!Bank :
        rb'[b] = IF fills(b) THEN [rb[b] EXCEPT ![wr_row] = [rb[b][wr_row] EXCEPT ![wr_col \div WORD] = buffer_write_data]]
                 ELSE rb[b]
  BY DEF buffers!ReadBanks, buffers!Filled, BufferIn, requests!WrEnRdBuffer
<1>2. SUFFICES ASSUME NEW b \in buffers!Bank
      PROVE  /\ DOMAIN rb'[b] = buffers!Row
             /\ \A r \in buffers!Row :
                  /\ DOMAIN rb'[b][r] = 0..(RowWords - 1)
                  /\ \A w \in 0..(RowWords - 1) :
                       rb'[b][r][w] =
                         IF fills(b) /\ r = wr_row /\ w = wr_col \div WORD
                         THEN buffer_write_data ELSE rb[b][r][w]
  BY DEF ReadShape
<1>3. DOMAIN rb[b] = buffers!Row /\ \A r \in buffers!Row : DOMAIN rb[b][r] = 0..(RowWords - 1)
  BY DEF ReadShape
<1>4. CASE ~fills(b)
  BY <1>1, <1>3, <1>4
<1>5. CASE fills(b)
  <2> DEFINE g == [rb[b][wr_row] EXCEPT ![wr_col \div WORD] = buffer_write_data]
  <2>1. rb'[b] = [rb[b] EXCEPT ![wr_row] = g]
    BY <1>1, <1>5
  <2>2. DOMAIN rb'[b] = buffers!Row /\ \A r \in buffers!Row : rb'[b][r] = IF r = wr_row THEN g ELSE rb[b][r]
    <3> HIDE DEF g
    <3> QED
      BY <1>3, <2>1
  <2>3. wr_row \in buffers!Row =>
          /\ DOMAIN g = 0..(RowWords - 1)
          /\ \A w \in 0..(RowWords - 1) :
               g[w] = IF w = wr_col \div WORD THEN buffer_write_data ELSE rb[b][wr_row][w]
    BY <1>3
  <2> HIDE DEF g
  <2> QED
    BY <1>3, <1>5, <2>2, <2>3
<1> QED
  BY <1>4, <1>5

(* A write bank takes the result column or shows the column asked for.     *)
LEMMA WriteBanksStep ==
  ASSUME buffers!WriteBanks(BufferIn), WriteShape
  PROVE  /\ WriteShape'
         /\ \A b \in buffers!Bank, x \in 0..(M - 1) :
              wb'[b][x] =
                IF control!WrEnWrBuffer /\ wr_buffer_sel = b /\ x = write_col_address
                THEN mac[5] ELSE wb[b][x]
         /\ \A b \in buffers!Bank :
              ~(control!WrEnWrBuffer /\ wr_buffer_sel = b) => wb_out'[b] = wb[b][rd_col]
         /\ \A b \in buffers!Bank : last_read_sel'[b] = rd_row
<1>1. \A b \in buffers!Bank :
        /\ wb'[b] = IF control!WrEnWrBuffer /\ wr_buffer_sel = b
                    THEN [wb[b] EXCEPT ![write_col_address] = mac[5]] ELSE wb[b]
        /\ ~(control!WrEnWrBuffer /\ wr_buffer_sel = b) => wb_out'[b] = wb[b][rd_col]
        /\ last_read_sel'[b] = rd_row
  BY DEF buffers!WriteBanks, BufferIn, buffers!WriteCol
<1>2. ASSUME NEW b \in buffers!Bank
      PROVE  /\ DOMAIN wb'[b] = 0..(M - 1)
             /\ \A x \in 0..(M - 1) :
                  wb'[b][x] = IF control!WrEnWrBuffer /\ wr_buffer_sel = b /\ x = write_col_address
                              THEN mac[5] ELSE wb[b][x]
  <2>1. DOMAIN wb[b] = 0..(M - 1)
    BY DEF WriteShape
  <2> QED
    BY <1>1, <2>1
<1> QED
  BY <1>1, <1>2 DEF WriteShape

(* A step keeps FillInv: the address of a read is that of the row being    *)
(* filled.                                                                 *)
LEMMA FillStep ==
  ASSUME NEW delay \in BOOLEAN, Step(delay), ColInv, ImageInv, Typed, FillInv
  PROVE  FillInv'
<1>1. /\ requests!NextState(ReqIf, dram_ready, request_done)
      /\ requests!Capture(ReqIf) /\ requests!Address(ReqIf) /\ requests!Rows
  BY Edge
<1>2. /\ r_state' = "IDLE" => rd_row' = COL_WIDTH - 3 /\ wr_row' = -1
      /\ r_state' = "WRITE_TO_READ" => wr_row' = -1 /\ address' = cap_rd_addr
      /\ r_state' = "START_READ_REQUEST" => wr_row' = wr_row + 1
      /\ r_state' \notin {"IDLE", "WRITE_TO_READ", "START_READ_REQUEST"} => wr_row' = wr_row
      /\ r_state' = "UPDATE_READ_ADDRESS" => address' = address + control!TotalWidth
      /\ r_state' = "SAVE_READ_ADDR" => address' = read_address
      /\ r_state' \notin {"SAVE_WRITE_ADDR", "SAVE_READ_ADDR", "WRITE_TO_READ", "UPDATE_WRITE_ADDRESS",
                          "UPDATE_READ_ADDRESS"} => address' = address
      /\ r_state # "IDLE" => cap_rd_addr' = cap_rd_addr
      /\ r_state = "IDLE" => cap_rd_addr' = read_address
  BY <1>1 DEF requests!Address, requests!Rows, requests!WrRowTop, requests!Capture,
     requests!captured, ReqIf
<1>3. r_state' = "IDLE" => FillInv'
  BY <1>2 DEF FillInv, Filling, Prelude, Fetching, Saving
<1>4. CASE r_state = "IDLE" /\ r_state' # "IDLE"
  <2>1. state # "IDLE" /\ r_state' \in {"SAVE_WRITE_ADDR", "SAVE_READ_ADDR"}
    BY <1>1, <1>4, Proceeds DEF control!Read, control!Write
  <2> QED
    BY <1>2, <1>4, <2>1 DEF FillInv, Filling, Prelude, Fetching, Saving
<1>5. CASE r_state \in Sending /\ r_state' # "IDLE"
  <2>1. r_state' \in Sending \cup {"WRITE_TO_READ"}
    BY <1>1, <1>5, Proceeds DEF Sending
  <2> QED
    BY <1>2, <1>5, <2>1 DEF FillInv, Filling, Prelude, Fetching, Saving, Sending
<1>6. CASE r_state \in Filling /\ r_state' # "IDLE"
  <2>1. state \notin Quiet
    BY <1>6, UnderWay DEF Filling, Prelude, Fetching, Saving
  <2>2. InRow \in Nat /\ InRow' = InRow /\ control!TotalWidth = InRow /\ state # "IDLE"
    BY <2>1, Still, Alike DEF Quiet
  <2>3. cap_rd_addr' = cap_rd_addr /\ cap_rd_addr \in Int /\ COL_WIDTH \in Nat /\ COL_WIDTH > 2
    BY <1>2, <1>6, Sizes DEF Typed, Filling, Prelude, Fetching, Saving
  <2>4. CASE r_state \in Prelude
    <3>1. r_state' = "START_READ_REQUEST" /\ wr_row = -1 /\ address = cap_rd_addr
      BY <1>1, <2>4, Proceeds DEF FillInv
    <3>2. wr_row' = 0 /\ address' = cap_rd_addr
      BY <1>2, <3>1
    <3>3. cap_rd_addr = cap_rd_addr + 0 * InRow
      BY <2>2, <2>3
    <3>4. 0 \in buffers!Row
      BY <2>3 DEF buffers!Row
    <3> QED
      BY <2>2, <2>3, <3>1, <3>2, <3>3, <3>4 DEF FillInv, Filling, Prelude, Fetching, Saving
  <2>5. CASE r_state = "UPDATE_READ_ADDRESS"
    <3>1. r_state' = "START_READ_REQUEST" /\ wr_row \in buffers!Row /\ wr_row < COL_WIDTH - 1
          /\ address = cap_rd_addr + (wr_row + 1) * InRow
      BY <1>1, <2>5, Proceeds DEF FillInv, Filling, Prelude, Fetching, Saving
    <3>2. wr_row' = wr_row + 1 /\ address' = address
      BY <1>2, <3>1
    <3>3. wr_row + 1 \in buffers!Row
      BY <2>3, <3>1 DEF buffers!Row
    <3> QED
      BY <2>2, <2>3, <3>1, <3>2, <3>3 DEF FillInv, Filling, Prelude, Fetching, Saving
  <2>6. CASE r_state \in {"START_READ_REQUEST"} \cup Fetching
    <3>1. /\ wr_row \in buffers!Row /\ address = cap_rd_addr + wr_row * InRow
          /\ r_state = "WAIT_READ_DONE_LINE" => wr_row < COL_WIDTH - 1
          /\ r_state = "WAIT_READ_DONE" => wr_row = COL_WIDTH - 1
      BY <2>6 DEF FillInv, Filling, Prelude, Fetching, Saving
    <3>2. /\ r_state' \in Fetching \cup {"UPDATE_READ_ADDRESS"}
          /\ r_state' = "UPDATE_READ_ADDRESS" => wr_row # COL_WIDTH - 1
          /\ r_state' = "WAIT_READ_DONE_LINE" => wr_row # COL_WIDTH - 1
          /\ r_state' = "WAIT_READ_DONE" => wr_row = COL_WIDTH - 1
      <4>1. COL_WIDTH - 1 \in Int /\ wr_row \in Int
        BY <2>3, <3>1 DEF buffers!Row
      <4> QED
        BY <1>1, <1>6, <2>6, <3>1, <4>1, Proceeds DEF Fetching, Saving
    <3>3. wr_row' = wr_row
      BY <1>2, <3>2 DEF Fetching, Saving
    <3>4. wr_row # COL_WIDTH - 1 => wr_row < COL_WIDTH - 1
      BY <2>3, <3>1 DEF buffers!Row
    <3>5. r_state' \in Fetching => address' = cap_rd_addr + wr_row * InRow
      BY <1>2, <3>1 DEF Fetching, Saving
    <3>6. r_state' = "UPDATE_READ_ADDRESS" => address' = cap_rd_addr + (wr_row + 1) * InRow
      <4>1. wr_row * InRow \in Int /\ (wr_row + 1) * InRow = wr_row * InRow + InRow
        BY <2>2, <3>1 DEF buffers!Row
      <4> HIDE DEF InRow
      <4>2. cap_rd_addr + wr_row * InRow + InRow = cap_rd_addr + (wr_row + 1) * InRow
        BY <2>2, <2>3, <4>1
      <4> QED
        BY <1>2, <2>2, <3>1, <4>2
    <3> QED
      BY <2>2, <2>3, <3>1, <3>2, <3>3, <3>4, <3>5, <3>6 DEF FillInv, Filling, Prelude, Fetching, Saving
  <2> QED
    BY <1>6, <2>4, <2>5, <2>6 DEF Filling
<1> QED
  BY <1>1, <1>3, <1>4, <1>5, <1>6, Proceeds

(* How the place of the next word moves.                                   *)
LEMMA WordMoves ==
  ASSUME NEW delay \in BOOLEAN, Step(delay), MemoryInv, WordInv
  PROVE  /\ r_state \in {"FIRST_SAVE", "SAVE_DATA"} =>
              /\ r_state' \in {"SAVE_DATA", "SAVE_END"}
              /\ Word \in Nat /\ Word < RowWords /\ Word' = Word + 1 /\ wr_col \div WORD = Word
              /\ buffer_write_data = address + WORD * Word
         /\ r_state \in {"START_READ_REQUEST"} \cup (Fetching \ {"FIRST_SAVE", "SAVE_DATA"}) => Word' = Word
         /\ r_state' = "START_READ_REQUEST" => Word' = 0
         /\ r_state = "UPDATE_READ_ADDRESS" => Word = RowWords
         /\ r_state \in {"FPU_READY", "WAIT_READ_DONE"} /\ r_state' = "IDLE" => Word = RowWords
<1>1. /\ requests!NextState(ReqIf, dram_ready, request_done) /\ requests!Counts
  BY Edge
<1>2. /\ sent_lines' = IF r_state' \in Requesting THEN 0
                       ELSE IF r_state' \in {"SEND_WRITE_CL", "FPU_READY"} THEN sent_lines + 1
                       ELSE sent_lines
      /\ sent_lines \in Nat
      /\ r_state' = "GET_CL" => load_count' = 0
      /\ r_state' \in {"SAVE_DATA", "SAVE_END"} => load_count' = load_count + 1
      /\ r_state' = "FIRST_SAVE" => load_count' = load_count
  BY <1>1 DEF MemoryInv, requests!Counts, requests!Request, Requesting
<1>3. /\ Lines \in Nat /\ Lines > 0 /\ LineWords \in Nat /\ LineWords > 1
      /\ RowWords \in Nat /\ LineWords * Lines = RowWords /\ WORD \in Nat
  BY Sizes
<1>4. ASSUME r_state \in {"FIRST_SAVE", "SAVE_DATA"}
      PROVE  /\ r_state' \in {"SAVE_DATA", "SAVE_END"}
             /\ Word \in Nat /\ Word < RowWords /\ Word' = Word + 1 /\ wr_col \div WORD = Word
             /\ buffer_write_data = address + WORD * Word
  <2>1. r_state' \in {"SAVE_DATA", "SAVE_END"}
    BY <1>1, <1>4, Proceeds
  <2>2. sent_lines' = sent_lines /\ load_count' = load_count + 1
    BY <1>2, <2>1 DEF Requesting
  <2>3. /\ load_count \in Nat /\ load_count < LineWords
        /\ wr_col = IF Word = RowWords THEN 0 ELSE WORD * Word
        /\ buffer_write_data = address + WORD * Word
    BY <1>3, <1>4 DEF WordInv, Fetching, Saving
  <2>4. Word = LineWords * sent_lines + load_count
    BY <1>4 DEF Word, Saving
  <2>5. Word' = LineWords * sent_lines + (load_count + 1)
    BY <2>1, <2>2 DEF Word, Saving
  <2>6. sent_lines \in Nat /\ sent_lines < Lines
    BY <1>2, <1>4 DEF MemoryInv, ReadMemory, Saving
  <2>7. Word \in Nat /\ Word < RowWords
    <3>1. load_count <= LineWords
      BY <1>3, <2>3
    <3> QED
      BY <2>3, <2>4, <2>6, <3>1, WordRange
  <2>8. Word' = Word + 1
    <3>1. LineWords * sent_lines \in Nat
      BY <1>3, <2>6
    <3> QED
      BY <2>3, <2>4, <2>5, <3>1
  <2>9. (WORD * Word) \div WORD = Word
    BY ONLY <2>7, NextColumn
  <2> QED
    BY <1>3, <2>1, <2>3, <2>7, <2>8, <2>9
<1>5. ASSUME r_state \in {"START_READ_REQUEST"} \cup (Fetching \ {"FIRST_SAVE", "SAVE_DATA"})
      PROVE  Word' = Word
  <2>1. CASE r_state = "SAVE_END"
    <3>1. r_state' = "FPU_READY" /\ sent_lines' = sent_lines + 1
      BY <1>1, <1>2, <2>1, Proceeds DEF Requesting
    <3>2. load_count = LineWords
      BY <2>1 DEF WordInv, Fetching, Saving
    <3>3. LineWords * (sent_lines + 1) = LineWords * sent_lines + LineWords
          /\ LineWords * (sent_lines + 1) \in Nat
      BY <1>2, <1>3
    <3>4. Word = LineWords * sent_lines + LineWords
      BY <2>1, <3>2 DEF Word, Saving
    <3>5. Word' = LineWords * (sent_lines + 1) + 0
      BY <3>1 DEF Word, Saving
    <3> QED
      BY <3>3, <3>4, <3>5
  <2>2. CASE r_state = "GET_CL"
    <3>1. r_state' = "FIRST_SAVE" /\ sent_lines' = sent_lines /\ load_count' = load_count
      BY <1>1, <1>2, <2>2, Proceeds DEF Requesting
    <3> QED
      BY <2>2, <3>1 DEF Word, Saving
  <2>3. CASE r_state = "WAIT_DRAM_READY"
    <3>1. r_state' \in {"WAIT_DRAM_READY", "GET_CL"}
      BY <1>1, <2>3, Proceeds
    <3>2. sent_lines' = sent_lines /\ (r_state' = "GET_CL" => load_count' = 0)
      BY <1>2, <3>1 DEF Requesting
    <3> QED
      BY <2>3, <3>1, <3>2 DEF Word, Saving
  <2>4. CASE r_state \in {"START_READ_REQUEST", "FPU_READY", "WAIT_READ_DONE", "WAIT_READ_DONE_LINE"}
    <3>1. r_state' \in {"WAIT_DRAM_READY", "IDLE", "WAIT_READ_DONE", "WAIT_READ_DONE_LINE", "UPDATE_READ_ADDRESS"}
      BY <1>1, <2>4, Proceeds
    <3>2. sent_lines' = sent_lines
      BY <1>2, <3>1 DEF Requesting
    <3> QED
      BY <2>4, <3>1, <3>2 DEF Word, Saving
  <2> QED
    BY <1>5, <2>1, <2>2, <2>3, <2>4 DEF Fetching, Saving
<1>6. r_state' = "START_READ_REQUEST" => Word' = 0
  <2>1. r_state' = "START_READ_REQUEST" => Word' = LineWords * 0 + 0
    BY <1>2 DEF Word, Saving, Requesting
  <2> QED
    BY <1>3, <2>1
<1>7. r_state = "UPDATE_READ_ADDRESS" => Word = RowWords
  <2>1. r_state = "UPDATE_READ_ADDRESS" => Word = LineWords * Lines + 0
    BY DEF WordInv, Word, Saving
  <2> QED
    BY <1>3, <2>1
<1>8. r_state \in {"FPU_READY", "WAIT_READ_DONE"} /\ r_state' = "IDLE" => Word = RowWords
  <2> SUFFICES ASSUME r_state \in {"FPU_READY", "WAIT_READ_DONE"}, r_state' = "IDLE"
               PROVE  Word = RowWords
    OBVIOUS
  <2>1. sent_lines = Lines
    <3>1. r_state = "FPU_READY" => ~(sent_lines # Lines)
      BY <1>1, Proceeds
    <3> QED
      BY <3>1 DEF MemoryInv, ReadMemory
  <2>2. Word = LineWords * Lines + 0
    BY <2>1 DEF Word, Saving
  <2> QED
    BY <1>3, <2>2
<1> QED
  BY ONLY <1>4, <1>5, <1>6, <1>7, <1>8

(* Filling goes on in the bank that is not computed on.                    *)
LEMMA FilledStep ==
  ASSUME NEW delay \in BOOLEAN, Step(delay), ColInv, ImageInv, Typed, SelectInv, ReadShape,
         MemoryInv, WordInv, FillInv, FilledInv, FillInv'
  PROVE  /\ FilledInv'
         /\ r_state \in Filling /\ r_state' = "IDLE" /\ state' \notin Final =>
              Holds(1 - rd_buffer_sel, cap_rd_addr)'
<1>1. /\ requests!NextState(ReqIf, dram_ready, request_done)
      /\ requests!Capture(ReqIf)
  BY Edge
<1> SUFFICES ASSUME r_state \in Filling, state' \notin Final
             PROVE  /\ r_state' \in Filling \ Prelude =>
                         /\ \A r \in buffers!Row : r < wr_row' =>
                              RowHas(1 - rd_buffer_sel, r, cap_rd_addr + r * InRow, RowWords)'
                         /\ RowHas(1 - rd_buffer_sel, wr_row, cap_rd_addr + wr_row * InRow, Word)'
                    /\ r_state' = "IDLE" => Holds(1 - rd_buffer_sel, cap_rd_addr)'
  <2>1. r_state \notin Filling => r_state' \notin Filling \ Prelude
    BY <1>1, Proceeds DEF Filling, Prelude, Fetching, Saving, Sending
  <2> QED
    BY <2>1 DEF FilledInv
<1> DEFINE b == 1 - rd_buffer_sel
<1>2. r_state # "IDLE"
  BY DEF Filling, Prelude, Fetching, Saving
<1>3. state \notin Quiet /\ rd_buffer_sel' = rd_buffer_sel
  BY <1>2, UnderWay DEF Final
<1>4. state \notin Final
  <2>1. Sequence
    BY StepSequence
  <2>2. state # "DONE"
    BY <1>2 DEF ColInv, Idle, Starting
  <2> QED
    BY <2>1, <2>2, Turns, Leads DEF Final
<1>5. InRow' = InRow /\ InRow \in Nat /\ cap_rd_addr' = cap_rd_addr /\ cap_rd_addr \in Int
  <2>1. state # "IDLE"
    BY <1>3 DEF Quiet
  <2> QED
    BY <1>1, <1>2, <1>3, <2>1, Still, Alike DEF Typed, requests!Capture, requests!captured
<1>6. b \in buffers!Bank /\ b' = b /\ rd_buffer_sel # b
  BY <1>3 DEF SelectInv, buffers!Bank
<1>7. \A r \in buffers!Row, w \in 0..(RowWords - 1) :
        rb'[b][r][w] =
          IF r_state \in {"FIRST_SAVE", "SAVE_DATA"} /\ r = wr_row /\ w = wr_col \div WORD
          THEN buffer_write_data ELSE rb[b][r][w]
  <2>1. buffers!ReadBanks(BufferIn)
    BY <1>3, Still DEF Quiet, buffers!Clock
  <2> HIDE DEF b
  <2> QED
    BY <1>6, <2>1, ReadBanksStep
<1>8. /\ RowWords \in Nat /\ RowWords > 0 /\ COL_WIDTH \in Nat /\ COL_WIDTH > 2 /\ WORD \in Nat
  BY Sizes
<1> HIDE DEF b
<1>9. CASE r_state \in Prelude
  <2>1. r_state' = "START_READ_REQUEST" /\ Word' = 0
    BY <1>1, <1>9, Proceeds, WordMoves
  <2>2. wr_row = -1 /\ wr_row' = 0
    <3>1. requests!Rows
      BY Edge
    <3>2. wr_row = -1
      BY <1>9 DEF FillInv
    <3> QED
      BY <2>1, <3>1, <3>2 DEF requests!Rows
  <2> QED
    BY <1>8, <2>1, <2>2 DEF RowHas, buffers!Row
<1>10. CASE r_state \in Filling \ Prelude
  <2>1. /\ \A r \in buffers!Row : r < wr_row =>
             \A w \in 0..(RowWords - 1) : w < RowWords => rb[b][r][w] = cap_rd_addr + r * InRow + w * WORD
        /\ \A w \in 0..(RowWords - 1) : w < Word => rb[b][wr_row][w] = cap_rd_addr + wr_row * InRow + w * WORD
        /\ wr_row \in buffers!Row
        /\ r_state # "UPDATE_READ_ADDRESS" => address = cap_rd_addr + wr_row * InRow
        /\ r_state = "UPDATE_READ_ADDRESS" => wr_row < COL_WIDTH - 1
        /\ r_state = "WAIT_READ_DONE" => wr_row = COL_WIDTH - 1
    BY <1>4, <1>10 DEF FilledInv, FillInv, RowHas, b
  <2>2. /\ r_state' = "START_READ_REQUEST" => wr_row' = wr_row + 1
        /\ r_state' \notin {"IDLE", "WRITE_TO_READ", "START_READ_REQUEST"} => wr_row' = wr_row
    <3>1. requests!Rows
      BY Edge
    <3> QED
      BY <3>1 DEF requests!Rows
  <2>3. CASE r_state \in {"FIRST_SAVE", "SAVE_DATA"}
    <3>1. /\ r_state' \in {"SAVE_DATA", "SAVE_END"}
          /\ Word \in Nat /\ Word < RowWords /\ Word' = Word + 1 /\ wr_col \div WORD = Word
          /\ buffer_write_data = cap_rd_addr + wr_row * InRow + Word * WORD
      <4>1. buffer_write_data = address + WORD * Word /\ Word \in Nat
        BY <2>3, WordMoves
      <4>2. WORD * Word = Word * WORD
        BY <1>8, <4>1
      <4> QED
        BY <2>1, <2>3, <4>1, <4>2, WordMoves
    <3>2. wr_row' = wr_row
      BY <2>2, <3>1
    <3>3. ASSUME NEW r \in buffers!Row, r < wr_row, NEW w \in 0..(RowWords - 1)
          PROVE  rb'[b][r][w] = cap_rd_addr + r * InRow + w * WORD
      <4>1. r # wr_row
        BY <2>1, <3>3 DEF buffers!Row
      <4> QED
        BY <1>7, <1>8, <2>1, <3>3, <4>1
    <3>4. ASSUME NEW w \in 0..(RowWords - 1), w < Word + 1
          PROVE  rb'[b][wr_row][w] = cap_rd_addr + wr_row * InRow + w * WORD
      <4>1. CASE w = Word
        BY <1>7, <2>1, <2>3, <3>1, <4>1
      <4>2. CASE w < Word
        <5>1. w # Word
          BY <3>1, <4>2
        <5> QED
          BY <1>7, <2>1, <3>1, <4>2, <5>1
      <4> QED
        BY <3>1, <3>4, <4>1, <4>2
    <3>5. /\ \A r \in buffers!Row : r < wr_row' =>
             RowHas(1 - rd_buffer_sel, r, cap_rd_addr + r * InRow, RowWords)'
          /\ RowHas(1 - rd_buffer_sel, wr_row, cap_rd_addr + wr_row * InRow, Word)'
      BY <1>3, <1>5, <3>1, <3>2, <3>3, <3>4 DEF RowHas, b
    <3> QED
      BY <3>1, <3>5
  <2>4. CASE r_state \notin {"FIRST_SAVE", "SAVE_DATA"}
    <3>1. \A r \in buffers!Row, w \in 0..(RowWords - 1) : rb'[b][r][w] = rb[b][r][w]
      BY <1>7, <2>4
    <3>2. CASE r_state = "UPDATE_READ_ADDRESS"
      <4>1. r_state' = "START_READ_REQUEST" /\ Word' = 0 /\ Word = RowWords
        BY <1>1, <3>2, Proceeds, WordMoves
      <4>2. wr_row' = wr_row + 1 /\ wr_row \in Nat
        BY <1>8, <2>1, <2>2, <4>1 DEF buffers!Row
      <4>3. ASSUME NEW r \in buffers!Row, r < wr_row + 1, NEW w \in 0..(RowWords - 1)
            PROVE  rb'[b][r][w] = cap_rd_addr + r * InRow + w * WORD
        <5>1. r < wr_row \/ r = wr_row
          BY <1>8, <4>2, <4>3 DEF buffers!Row
        <5>2. w < RowWords
          BY <1>8
        <5> QED
          BY <2>1, <3>1, <4>1, <5>1, <5>2
      <4> QED
        BY <1>3, <1>5, <4>1, <4>2, <4>3 DEF RowHas, b
    <3>3. CASE r_state \in {"START_READ_REQUEST"} \cup Fetching /\ r_state' # "IDLE"
      <4>1. r_state' \in Fetching \cup {"UPDATE_READ_ADDRESS"} /\ Word' = Word
        BY <1>1, <2>4, <3>3, Proceeds, WordMoves DEF Fetching, Saving
      <4>2. wr_row' = wr_row
        BY <2>2, <4>1 DEF Fetching, Saving
      <4> QED
        BY <1>3, <1>5, <2>1, <3>1, <3>3, <4>1, <4>2 DEF RowHas, b
    <3>4. CASE r_state \in {"START_READ_REQUEST"} \cup Fetching /\ r_state' = "IDLE"
      <4>1. r_state \in {"FPU_READY", "WAIT_READ_DONE"} /\ wr_row = COL_WIDTH - 1
        BY <1>1, <2>1, <3>4, Proceeds DEF Fetching, Saving
      <4>2. Word = RowWords
        BY <3>4, <4>1, WordMoves
      <4>3. ASSUME NEW r \in buffers!Row, NEW w \in 0..(RowWords - 1)
            PROVE  rb'[b][r][w] = cap_rd_addr + r * InRow + w * WORD
        <5>1. r < wr_row \/ r = wr_row
          BY <1>8, <4>1 DEF buffers!Row
        <5>2. w < RowWords
          BY <1>8
        <5> QED
          BY <2>1, <3>1, <4>2, <5>1, <5>2
      <4> QED
        BY <1>3, <1>5, <3>4, <4>3 DEF Holds, RowHas, b, Filling, Prelude, Fetching, Saving
    <3> QED
      BY <1>10, <3>2, <3>3, <3>4 DEF Filling
  <2> QED
    BY <2>3, <2>4
<1> QED
  BY <1>9, <1>10

(* What the request controller and the read banks rest on.                 *)
FetchInv ==
  /\ ColInv /\ ImageInv /\ Typed /\ Geometry /\ AddressInv /\ SelectInv
  /\ ReadShape /\ MemoryInv /\ WordInv /\ FillInv /\ FilledInv

HoldsNext(b, a) ==
  \A r \in buffers!Row : \A w \in 0..(RowWords - 1) : rb'[b][r][w] = a + r * InRow + w * WORD
FetchesNext(a) ==
  \/ r_state' = "IDLE" /\ HoldsNext(1 - rd_buffer_sel, a)
  \/ r_state' \in Sending /\ cap_read' /\ cap_rd_addr' = a
  \/ r_state' \in Filling /\ cap_rd_addr' = a

(* A bank that is computed on, or not filled, keeps its words.             *)
LEMMA HoldsStep ==
  ASSUME NEW delay \in BOOLEAN, Step(delay), FetchInv, state # "IDLE",
         NEW b \in buffers!Bank, b = rd_buffer_sel \/ r_state = "IDLE",
         NEW a, Holds(b, a)
  PROVE  HoldsNext(b, a)
<1>1. buffers!ReadBanks(BufferIn) /\ ReadShape
  BY Still DEF FetchInv, buffers!Clock
<1>2. \A r \in buffers!Row, w \in 0..(RowWords - 1) : rb'[b][r][w] = rb[b][r][w]
  BY <1>1, ReadBanksStep
<1>3. RowWords \in Nat
  BY Sizes
<1> QED
  BY <1>2, <1>3 DEF Holds, RowHas, HoldsNext

(* A bank being filled goes on being filled until it holds its rows.       *)
LEMMA FetchesStep ==
  ASSUME NEW delay \in BOOLEAN, Step(delay), FetchInv, FillInv', state # "IDLE", state' \notin Final,
         r_state = "IDLE" => ~Asks, NEW a, Fetches(a)
  PROVE  FetchesNext(a)
<1>1. /\ requests!NextState(ReqIf, dram_ready, request_done)
      /\ requests!Capture(ReqIf)
  BY Edge
<1>2. CASE r_state = "IDLE"
  <2>1. r_state' = "IDLE"
    BY <1>1, <1>2, Proceeds DEF Asks
  <2>2. Holds(1 - rd_buffer_sel, a) /\ 1 - rd_buffer_sel \in buffers!Bank
    BY <1>2 DEF Fetches, Sending, Filling, Prelude, Fetching, Saving, FetchInv, SelectInv, buffers!Bank
  <2>3. HoldsNext(1 - rd_buffer_sel, a)
    BY <1>2, <2>2, HoldsStep
  <2> QED
    BY <2>1, <2>3 DEF FetchesNext
<1>3. CASE r_state # "IDLE"
  <2>1. cap_read' = cap_read /\ cap_rd_addr' = cap_rd_addr
    BY <1>1, <1>3 DEF requests!Capture, requests!captured
  <2>2. CASE r_state \in Sending
    <3>1. cap_read /\ cap_rd_addr = a
      BY <1>3, <2>2 DEF Fetches, Sending, Filling, Prelude, Fetching, Saving
    <3>2. r_state' \in Sending \cup {"WRITE_TO_READ"}
      BY <1>1, <2>2, <3>1, Proceeds DEF Sending
    <3> QED
      BY <2>1, <3>1, <3>2 DEF FetchesNext, Filling, Prelude
  <2>3. CASE r_state \in Filling
    <3>1. cap_rd_addr = a
      BY <1>3, <2>3 DEF Fetches, Sending, Filling, Prelude, Fetching, Saving
    <3>2. CASE r_state' = "IDLE"
      <4>1. Holds(1 - rd_buffer_sel, cap_rd_addr)'
        BY <2>3, <3>2, FilledStep DEF FetchInv
      <4>2. rd_buffer_sel' = rd_buffer_sel /\ InRow' = InRow /\ RowWords \in Nat
        BY <1>3, UnderWay, Still, Sizes DEF FetchInv, Final
      <4>3. HoldsNext(1 - rd_buffer_sel, a)
        BY <2>1, <3>1, <4>1, <4>2 DEF Holds, RowHas, HoldsNext
      <4> QED
        BY <3>2, <4>3 DEF FetchesNext
    <3>3. CASE r_state' # "IDLE"
      <4>1. r_state' \in Filling
        BY <1>1, <2>3, <3>3, Proceeds DEF Filling, Prelude, Fetching, Saving
      <4> QED
        BY <2>1, <3>1, <4>1 DEF FetchesNext
    <3> QED
      BY <3>2, <3>3
  <2> QED
    BY <1>1, <1>3, <2>2, <2>3, Proceeds
<1> QED
  BY <1>2, <1>3

(* The sequencer asks for a bank.                                          *)
LEMMA FetchesAsked ==
  ASSUME NEW delay \in BOOLEAN, Step(delay), r_state = "IDLE", control!Read
  PROVE  FetchesNext(read_address)
<1>1. /\ requests!NextState(ReqIf, dram_ready, request_done)
      /\ requests!Capture(ReqIf)
  BY Edge
<1>2. r_state' \in {"SAVE_WRITE_ADDR", "SAVE_READ_ADDR"}
  BY <1>1, Proceeds
<1>3. cap_read' /\ cap_rd_addr' = read_address
  BY <1>1 DEF requests!Capture, ReqIf
<1> QED
  BY <1>2, <1>3 DEF FetchesNext, Sending, Filling, Prelude

Computing ==
  {"FILL_BUFF_FLIP", "NEW_ROW", "OPERATE", "ROW_END", "UPDATE_READ", "ROW_DONE_WAIT"} \cup Pauses

(* A step keeps BankInv: whenever the sequencer takes the other bank, the  *)
(* bytes of the next chunk are in it.                                      *)
LEMMA BankStep ==
  ASSUME NEW delay \in BOOLEAN, Step(delay), FetchInv, FetchInv', BankInv
  PROVE  BankInv'
<1>1. Sequence /\ control!BankSelects
  BY StepSequence, Edge DEF FetchInv
<1> SUFFICES ASSUME state' \in First \cup Computing \cup Crossing \cup {"CHUNK_END", "UPDATE_WRITE"}
             PROVE  BankInv'
  BY DEF BankInv, Computing
<1>2. state \notin Quiet /\ state \notin Final /\ state' \notin Final
  BY <1>1, Turns, Leads DEF Quiet, Active, First, Pauses, Crossing, WithinRow, NextRow, Final, Computing
<1>3. state # "IDLE" /\ InRow' = InRow /\ InRow \in Nat /\ RowWords \in Nat /\ M \in Nat
  BY <1>2, Still, Alike, Sizes DEF Quiet, FetchInv
<1>4. rd_buffer_sel \in {0, 1} /\ wr_buffer_sel \in {0, 1}
  BY DEF FetchInv, SelectInv
<1>5. r_state = "IDLE" /\ Fetches(NextBase) => Holds(1 - rd_buffer_sel, NextBase)
  BY DEF Fetches, Sending, Filling, Prelude, Fetching, Saving
<1>6. CASE state = "FILL_BUFF1"
  <2>1. state' \in {"ADDR_ALL", "ADDR_CHUNK"}
    BY <1>1, <1>6, Turns
  <2>2. FetchesNext(read_address)
    <3>1. r_state = "IDLE" /\ control!Read
      BY <1>6 DEF FetchInv, ColInv, Idle, control!Read
    <3> QED
      BY <3>1, FetchesAsked
  <2>3. read_address = Base'
    BY <1>6, PlaceStarts DEF FetchInv, AddressInv
  <2>4. rd_buffer_sel' = rd_buffer_sel
    BY <1>1, <2>1 DEF control!BankSelects
  <2>5. Fetches(Base)'
    BY <1>3, <2>2, <2>3, <2>4 DEF Fetches, FetchesNext, Holds, RowHas, HoldsNext
  <2> QED
    BY <2>1, <2>5 DEF BankInv, First, Pauses, Crossing
<1>7. CASE state \in First /\ state' \in First
  <2>1. Fetches(Base)
    BY <1>7 DEF BankInv
  <2>2. r_state = "IDLE" => ~Asks
    <3>1. r_state = "IDLE" => state # "FILL_BUFF2"
      BY <1>1, <1>7, Leads DEF Making, First
    <3> QED
      BY <1>7, <3>1 DEF First, Asks, control!Read, control!Write
  <2>3. FetchesNext(Base)
    BY <1>2, <1>3, <2>1, <2>2, FetchesStep DEF FetchInv
  <2>4. Base' = Base
    BY <1>2, <1>7, PlaceStays DEF FetchInv, First, Placed
  <2>5. rd_buffer_sel' = rd_buffer_sel
    BY <1>1, <1>7 DEF control!BankSelects, First
  <2>6. Fetches(Base)'
    BY <1>3, <2>3, <2>4, <2>5 DEF Fetches, FetchesNext, Holds, RowHas, HoldsNext
  <2> QED
    BY <1>7, <2>6 DEF BankInv, First, Pauses, Crossing
<1>8. CASE state \in First /\ state' \notin First
  <2>1. state = "FILL_BUFF2" /\ state' = "FILL_BUFF_FLIP" /\ r_state = "IDLE"
    BY <1>1, <1>8, Turns, Leads DEF First, Making
  <2>2. Holds(1 - rd_buffer_sel, Base) /\ rd_buffer_sel = 1
    BY <1>8, <2>1 DEF BankInv, Fetches, Sending, Filling, Prelude, Fetching, Saving, FetchInv, SelectInv
  <2>3. rd_buffer_sel' = 0
    BY <1>1, <2>1 DEF control!BankSelects
  <2>4. HoldsNext(0, Base)
    BY <1>3, <2>1, <2>2, HoldsStep DEF buffers!Bank
  <2>5. FetchesNext(read_address)
    BY <2>1, FetchesAsked DEF control!Read
  <2>6. read_address = NextBase
    BY <2>1 DEF FetchInv, AddressInv, Early, Quiet, Final, ReadAddress, NextRow
  <2>7. Base' = Base /\ NextBase' = NextBase
    BY <1>2, <2>1, PlaceStays DEF FetchInv, Placed
  <2>8. Holds(rd_buffer_sel, Base)'
    BY <1>3, <2>3, <2>4, <2>7 DEF Holds, RowHas, HoldsNext
  <2>9. r_state' # "IDLE"
    BY <2>1, Edge, Proceeds DEF control!Read
  <2>10. Fetches(NextBase)'
    BY <1>3, <2>5, <2>6, <2>7, <2>9 DEF Fetches, FetchesNext
  <2> QED
    BY <2>1, <2>8, <2>10 DEF BankInv, First, Pauses, Crossing
<1>9. CASE state \in Computing /\ state' \in Computing
  <2>1. Holds(rd_buffer_sel, Base) /\ Fetches(NextBase)
    BY <1>9 DEF BankInv, Computing
  <2>2. r_state = "IDLE" => ~Asks
    <3>1. r_state = "IDLE" => state # "ROW_DONE_WAIT"
      BY <1>1, <1>9, Turns DEF Making, Computing, Pauses
    <3> QED
      BY <1>9, <3>1 DEF Computing, Pauses, Asks, control!Read, control!Write
  <2>3. FetchesNext(NextBase)
    BY <1>2, <1>3, <2>1, <2>2, FetchesStep DEF FetchInv
  <2>4. Base' = Base /\ NextBase' = NextBase
    BY <1>2, <1>9, PlaceStays DEF FetchInv, Computing, Pauses, Placed
  <2>5. rd_buffer_sel' = rd_buffer_sel
    <3>1. state' # "FILL_BUFF_FLIP"
      BY <1>1, <1>9, Turns, Leads DEF Computing, Pauses
    <3> QED
      BY <1>1, <1>9, <3>1 DEF control!BankSelects, Computing, Pauses
  <2>6. HoldsNext(rd_buffer_sel, Base)
    BY <1>3, <1>4, <2>1, HoldsStep DEF buffers!Bank
  <2>7. Fetches(NextBase)'
    BY <1>3, <2>3, <2>4, <2>5 DEF Fetches, FetchesNext, Holds, RowHas, HoldsNext
  <2>8. Holds(rd_buffer_sel, Base)'
    BY <1>3, <2>4, <2>5, <2>6 DEF Holds, RowHas, HoldsNext
  <2> QED
    BY <1>9, <2>7, <2>8 DEF BankInv, First, Computing, Pauses, Crossing
<1>10. CASE state \in Computing /\ state' \in {"CHUNK_END", "UPDATE_WRITE"}
  <2>1. r_state = "IDLE"
    <3>1. state' = "CHUNK_END" => r_state = "IDLE"
      BY <1>1, Awaits DEF FetchInv, Resuming
    <3>2. state' = "UPDATE_WRITE" => state = "ROW_DONE_WAIT" /\ r_state = "IDLE"
      BY <1>1, <1>10, Turns, Leads DEF Making, Computing, Pauses
    <3> QED
      BY <1>10, <3>1, <3>2
  <2>2. Holds(1 - rd_buffer_sel, NextBase) /\ 1 - rd_buffer_sel \in buffers!Bank
    BY <1>4, <1>5, <1>10, <2>1 DEF BankInv, Computing, buffers!Bank
  <2>3. HoldsNext(1 - rd_buffer_sel, NextBase)
    BY <1>3, <2>1, <2>2, HoldsStep
  <2>4. rd_buffer_sel' = 1 - rd_buffer_sel
    <3>1. state' = "CHUNK_END" => state \in {"OPERATE", "PRE_CHUNK_END3"}
      BY <1>1, <1>10, Turns, Leads DEF Computing, Pauses
    <3>2. state' = "CHUNK_END" => rd_buffer_sel = wr_buffer_sel
      BY <3>1 DEF FetchInv, SelectInv, Pauses
    <3> QED
      BY <1>1, <1>10, <3>2 DEF control!BankSelects
  <2>5. NextBase' = NextBase /\ NextSecond' = NextSecond
    BY <1>2, <1>10, PlaceStays DEF FetchInv, Computing, Pauses, Placed
  <2>6. Holds(rd_buffer_sel, NextBase)'
    BY <1>3, <2>3, <2>4, <2>5 DEF Holds, RowHas, HoldsNext
  <2>7. state' = "UPDATE_WRITE" => Fetches(NextSecond)'
    <3> SUFFICES ASSUME state' = "UPDATE_WRITE"
                 PROVE  Fetches(NextSecond)'
      OBVIOUS
    <3>1. state = "ROW_DONE_WAIT"
      BY <1>1, <1>10, Turns, Leads DEF Computing, Pauses
    <3>2. FetchesNext(read_address)
      BY <2>1, <3>1, FetchesAsked DEF control!Read
    <3>3. read_address = NextSecond
      BY <3>1 DEF FetchInv, AddressInv, Early, Quiet, Final, ReadAddress, NextRow
    <3>4. r_state' # "IDLE"
      BY <2>1, <3>1, Edge, Proceeds DEF control!Read
    <3> QED
      BY <2>5, <3>2, <3>3, <3>4 DEF Fetches, FetchesNext
  <2> QED
    BY <1>10, <2>6, <2>7 DEF BankInv, First, Computing, Pauses, Crossing
<1>11. CASE state \in {"CHUNK_END", "UPDATE_BASE"}
  <2>1. state' \in {"CHUNK_END"} \cup Crossing
    BY <1>1, <1>11, Leads DEF Crossing
  <2>2. rd_buffer_sel' = rd_buffer_sel
    <3>1. state' = "CHUNK_END" => state = "CHUNK_END"
      BY <1>1, <1>11, Leads
    <3>2. state = "CHUNK_END" => rd_buffer_sel = 1 - wr_buffer_sel
      BY DEF FetchInv, SelectInv
    <3> QED
      BY <1>1, <2>1, <3>1, <3>2 DEF control!BankSelects, Crossing
  <2>3. HoldsNext(rd_buffer_sel, NextBase)
    <3>1. Holds(rd_buffer_sel, NextBase)
      BY <1>11 DEF BankInv, Crossing
    <3> QED
      BY <1>3, <1>4, <3>1, HoldsStep DEF buffers!Bank
  <2>4. NextBase' = NextBase
    BY <1>2, <1>11, PlaceStays DEF FetchInv, Placed
  <2>5. Holds(rd_buffer_sel, NextBase)'
    BY <1>3, <2>2, <2>3, <2>4 DEF Holds, RowHas, HoldsNext
  <2> QED
    BY <2>1, <2>5 DEF BankInv, First, Pauses, Crossing
<1>12. CASE state = "CHUNK_DONE"
  <2>1. /\ RowBase' = RowBase /\ Base' = Base + M /\ Group' = Group
        /\ remaining_width' = remaining_width - M /\ remaining_width > M
    <3>1. remaining_width \in Nat
      BY <1>12, PlaceNow DEF FetchInv, Early, Quiet
    <3> QED
      BY <1>3, <1>12, <3>1, PlaceNextChunk DEF FetchInv
  <2>2. state' = "OPERATE" /\ r_state = "IDLE"
    <3>1. state' = "OPERATE"
      BY <1>1, <1>2, <1>12, Leads DEF Final
    <3> QED
      BY <1>12, <3>1 DEF FetchInv, ColInv, Idle
  <2>3. Base' = NextBase /\ NextBase' = Second
    <3>1. Base \in Nat /\ remaining_width \in Nat
      BY <1>12, PlaceNow DEF FetchInv, Early, Quiet
    <3>2. remaining_width - M > M <=> remaining_width > 2 * M
      BY <1>3, <3>1
    <3>3. Base + M + M = Base + 2 * M
      BY <1>3, <3>1
    <3> QED
      BY <2>1, <3>2, <3>3 DEF NextBase, Second
  <2>4. rd_buffer_sel' = rd_buffer_sel
    BY <1>1, <2>2 DEF control!BankSelects
  <2>5. HoldsNext(rd_buffer_sel, NextBase)
    <3>1. Holds(rd_buffer_sel, NextBase)
      BY <1>12 DEF BankInv, Crossing
    <3> QED
      BY <1>3, <1>4, <3>1, HoldsStep DEF buffers!Bank
  <2>6. FetchesNext(read_address) /\ r_state' # "IDLE"
    BY <1>12, <2>2, FetchesAsked, Edge, Proceeds DEF control!Read
  <2>7. read_address = Second
    BY <1>12 DEF FetchInv, AddressInv, Early, Quiet, Final, ReadAddress, NextRow
  <2>8. Holds(rd_buffer_sel, Base)'
    BY <1>3, <2>3, <2>4, <2>5 DEF Holds, RowHas, HoldsNext
  <2>9. Fetches(NextBase)'
    BY <2>3, <2>6, <2>7 DEF Fetches, FetchesNext
  <2> QED
    BY <2>2, <2>8, <2>9 DEF BankInv, First, Pauses, Crossing
<1>13. CASE state = "UPDATE_WRITE"
  <2>1. /\ RowBase' = RowBase + Group /\ Base' = RowBase + Group /\ Group' = Group
        /\ remaining_width' = InRow /\ remaining_width < M
    BY <1>13, PlaceNextGroup DEF FetchInv, Geometry, Early, Quiet, NextRow
  <2>2. state' = "NEW_ROW"
    BY <1>1, <1>13, Leads
  <2>3. Base' = NextBase /\ NextBase' = NextSecond
    <3>1. remaining_width \in Nat /\ RowBase \in Nat /\ Group \in Nat
      BY <1>13, PlaceNow DEF FetchInv, Early, Quiet
    <3>2. ~(remaining_width > M)
      BY <1>3, <2>1, <3>1
    <3> QED
      BY <1>3, <2>1, <3>1, <3>2 DEF NextBase, NextSecond
  <2>4. rd_buffer_sel' = rd_buffer_sel
    BY <1>1, <2>2 DEF control!BankSelects
  <2>5. Holds(rd_buffer_sel, NextBase) /\ Fetches(NextSecond)
    BY <1>13 DEF BankInv
  <2>6. HoldsNext(rd_buffer_sel, NextBase)
    BY <1>3, <1>4, <2>5, HoldsStep DEF buffers!Bank
  <2>7. FetchesNext(NextSecond)
    <3>1. ~Asks
      BY <1>13 DEF Asks, control!Read, control!Write
    <3> QED
      BY <1>2, <1>3, <2>5, <3>1, FetchesStep DEF FetchInv
  <2>8. Holds(rd_buffer_sel, Base)'
    BY <1>3, <2>3, <2>4, <2>6 DEF Holds, RowHas, HoldsNext
  <2>9. Fetches(NextBase)'
    BY <1>3, <2>3, <2>4, <2>7 DEF Fetches, FetchesNext, Holds, RowHas, HoldsNext
  <2> QED
    BY <2>2, <2>8, <2>9 DEF BankInv, First, Pauses, Crossing
<1> QED
  <2>1. state \in {"FILL_BUFF1"} \cup First \cup Computing \cup {"CHUNK_END"} \cup Crossing \cup {"UPDATE_WRITE"}
    BY <1>1, <1>2, Turns DEF Active, Computing, WithinRow, NextRow
  <2>2. state \in Computing => state' \in Computing \cup {"CHUNK_END", "UPDATE_WRITE"}
    BY <1>1, <1>2, Turns, Leads DEF Computing, Pauses, WithinRow, NextRow, Final
  <2> QED
    BY <2>1, <2>2, <1>6, <1>7, <1>8, <1>9, <1>10, <1>11, <1>12, <1>13 DEF Crossing

-----------------------------------------------------------------------------
(* The pipeline                                                            *)

(* What the selected bank shows after an edge.                             *)
LEMMA ShowsColumn ==
  ASSUME buffers!Clock(BufferIn), NEW a \in Nat, InRow \in Nat, Holds(rd_buffer_sel, a),
         rd_buffer_sel \in buffers!Bank, read_col_address \in 0..(M - 1)
  PROVE  buffers!ReadColOut' = Column(a + read_col_address, InRow)
<1> DEFINE b == rd_buffer_sel
           w == read_col_address \div WORD
           o == read_col_address % WORD
<1>1. last_rd_buffer_sel' = b /\ byte_sel'[b] = o
      /\ \A r \in buffers!Row : rb_out'[b][r] = rb[b][r][w]
  BY DEF buffers!Clock, buffers!ReadBanks, buffers!Filled, BufferIn
<1>2. WORD \in Nat /\ WORD > 0 /\ RowWords \in Nat /\ M = WORD * RowWords /\ M \in Nat
  BY Sizes
<1>3. read_col_address = WORD * w + o /\ w \in Nat /\ o \in 0..(WORD - 1)
  <2>1. WORD \in Nat \ {0} /\ read_col_address \in Nat
    BY <1>2
  <2> QED
    BY ONLY <2>1, Divides
<1> HIDE DEF b, w, o
<1>4. w \in 0..(RowWords - 1)
  <2>1. WORD * w < WORD * RowWords
    <3>1. WORD * w \in Nat
      BY <1>2, <1>3
    <3> QED
      BY <1>2, <1>3, <3>1
  <2>2. w < RowWords
    <3>1. w >= RowWords => WORD * w >= WORD * RowWords
      BY <1>2, <1>3
    <3> QED
      BY <1>2, <1>3, <2>1, <3>1
  <2> QED
    BY <1>2, <1>3, <2>2
<1>5. ASSUME NEW r \in buffers!Row
      PROVE  rb_out'[b][r] = a + r * InRow + w * WORD /\ rb_out'[b][r] # Junk
             /\ rb_out'[b][r] + o = a + read_col_address + r * InRow
  <2>1. rb_out'[b][r] = a + r * InRow + w * WORD
    BY <1>1, <1>2, <1>4 DEF Holds, RowHas, b
  <2>2. r * InRow \in Nat /\ w * WORD = WORD * w /\ WORD * w \in Nat
    BY <1>2, <1>3 DEF buffers!Row
  <2> DEFINE p == r * InRow
             q == WORD * w
  <2>3. rb_out'[b][r] = a + p + q /\ p \in Nat /\ q \in Nat /\ read_col_address = q + o /\ o \in Nat
    BY <1>3, <2>1, <2>2
  <2> HIDE DEF p, q
  <2>4. rb_out'[b][r] \in Nat /\ rb_out'[b][r] + o = a + read_col_address + p
    BY <2>3
  <2> QED
    BY <2>1, <2>4, JunkAssumption DEF p
<1>6. buffers!ReadColOut' = [r \in buffers!Row |-> a + read_col_address + r * InRow]
  <2>1. buffers!ReadColOut' =
          [r \in buffers!Row |-> IF rb_out'[b][r] = Junk THEN Junk ELSE rb_out'[b][r] + byte_sel'[b]]
    BY <1>1 DEF buffers!ReadColOut
  <2> QED
    BY <1>1, <1>5, <2>1
<1> QED
  BY <1>6 DEF Column

(* Three columns side by side are windows: the filter gives their results. *)
LEMMA WindowResults ==
  ASSUME NEW a \in Nat, NEW width \in Nat, col[1] = Column(a, width),
         col[2] = Column(a + 1, width), col[3] = Column(a + 2, width)
  PROVE  [r \in buffers!ResultRow |-> buffers!Window(r, width)] = Results(a, width)
<1>1. COL_WIDTH \in Nat /\ COL_WIDTH > 2
  BY Sizes
<1>2. ASSUME NEW r \in buffers!ResultRow
      PROVE  buffers!Window(r, width) = a + r * width
  <2>1. r \in Nat /\ \A i \in 0..2 : r + i \in buffers!Row
    BY <1>1 DEF buffers!ResultRow, buffers!Row
  <2>2. \A s \in buffers!Row : col[1][s] = a + s * width /\ col[2][s] = a + 1 + s * width /\ col[3][s] = a + 2 + s * width
    BY DEF Column
  <2>3. \A i \in 0..2 : (r + i) * width = r * width + i * width /\ r * width \in Nat /\ i * width \in Nat
    BY <2>1
  <2>4. r \in buffers!Row
    BY <1>1 DEF buffers!ResultRow, buffers!Row
  <2>5. col[1][r] = a + r * width /\ col[1][r] # Junk
    <3>1. col[1][r] = a + r * width
      BY <2>2, <2>4
    <3>2. col[1][r] \in Nat
      BY <2>1, <3>1
    <3> QED
      BY <3>1, <3>2, JunkAssumption
  <2>6. ASSUME NEW i \in 0..2, NEW j \in 0..2
        PROVE  col[j + 1][r + i] = col[1][r] + i * width + j
    <3>1. col[j + 1][r + i] = a + j + (r + i) * width
      <4>1. r + i \in buffers!Row
        BY <2>1
      <4>2. j = 0 \/ j = 1 \/ j = 2
        OBVIOUS
      <4>3. j = 0 => a + j = a
        OBVIOUS
      <4> QED
        BY <2>2, <4>1, <4>2, <4>3
    <3>2. (r + i) * width = r * width + i * width /\ r * width \in Nat /\ i * width \in Nat
      BY <2>3
    <3> DEFINE p == r * width
               q == i * width
    <3>3. col[j + 1][r + i] = a + j + (p + q) /\ p \in Nat /\ q \in Nat /\ col[1][r] = a + p
      BY <2>5, <3>1, <3>2
    <3> HIDE DEF p, q
    <3>4. col[j + 1][r + i] = col[1][r] + q + j
      BY <3>3
    <3> QED
      BY <3>4 DEF q
  <2> QED
    BY <2>5, <2>6 DEF buffers!Window
<1> QED
  BY <1>2 DEF Results

PipelineNext(a, lo) ==
  /\ \A i \in 1..5 : lo <= a + 5 - i /\ a + 7 - i < RowEnd => mac'[i] = Results(a + 5 - i, InRow)
  /\ \A j \in 1..3 : Counts(a + 4 + j, lo) => col'[j] = Column(a + 4 + j, InRow)
  /\ Counts(a + 8, lo) => read_col' = Column(a + 8, InRow)
  /\ Counts(a + 9, lo) => buffers!ReadColOut' = Column(a + 9, InRow)

(* The pipeline moves by a column.                                         *)
LEMMA PipelineStep ==
  ASSUME buffers!Clock(BufferIn), control!ShiftCols, control!TotalWidth = InRow,
         InRow \in Nat, RowEnd \in Nat, NEW a \in Int, NEW lo \in Nat, Pipeline(a, lo),
         Counts(a + 10, lo) => buffers!ReadColOut' = Column(a + 10, InRow)
  PROVE  PipelineNext(a + 1, lo)
<1>1. /\ read_col' = buffers!ReadColOut /\ col' = <<col[2], col[3], read_col>>
      /\ mac' = <<[r \in buffers!ResultRow |-> buffers!Window(r, InRow)], mac[1], mac[2], mac[3], mac[4]>>
  BY DEF buffers!Clock, buffers!Columns, BufferIn
<1>2. /\ col'[1] = col[2] /\ col'[2] = col[3] /\ col'[3] = read_col
      /\ mac'[1] = [r \in buffers!ResultRow |-> buffers!Window(r, InRow)]
      /\ mac'[2] = mac[1] /\ mac'[3] = mac[2] /\ mac'[4] = mac[3] /\ mac'[5] = mac[4]
  BY <1>1
<1>3. /\ Counts(a + 5, lo) => col[1] = Column(a + 5, InRow)
      /\ Counts(a + 6, lo) => col[2] = Column(a + 6, InRow)
      /\ Counts(a + 7, lo) => col[3] = Column(a + 7, InRow)
      /\ Counts(a + 8, lo) => read_col = Column(a + 8, InRow)
      /\ Counts(a + 9, lo) => buffers!ReadColOut = Column(a + 9, InRow)
  <2>1. \A j \in 1..3 : Counts(a + 4 + j, lo) => col[j] = Column(a + 4 + j, InRow)
    BY DEF Pipeline
  <2>2. a + 4 + 1 = a + 5 /\ a + 4 + 2 = a + 6 /\ a + 4 + 3 = a + 7
    OBVIOUS
  <2>3. 1 \in 1..3 /\ 2 \in 1..3 /\ 3 \in 1..3
    OBVIOUS
  <2> QED
    BY <2>1, <2>2, <2>3 DEF Pipeline
<1>4. lo <= a + 5 /\ a + 7 < RowEnd => mac'[1] = Results(a + 5, InRow)
  <2> SUFFICES ASSUME lo <= a + 5, a + 7 < RowEnd
               PROVE  mac'[1] = Results(a + 5, InRow)
    OBVIOUS
  <2>1. a + 5 \in Nat /\ a + 5 + 1 = a + 6 /\ a + 5 + 2 = a + 7
    OBVIOUS
  <2>2. Counts(a + 5, lo) /\ Counts(a + 6, lo) /\ Counts(a + 7, lo)
    BY DEF Counts
  <2> QED
    BY <1>2, <1>3, <2>1, <2>2, WindowResults
<1>5. \A i \in 1..5 : lo <= a + 1 + 5 - i /\ a + 1 + 7 - i < RowEnd => mac'[i] = Results(a + 1 + 5 - i, InRow)
  <2>1. ASSUME NEW i \in 2..5, lo <= a + 1 + 5 - i, a + 1 + 7 - i < RowEnd
        PROVE  mac'[i] = Results(a + 1 + 5 - i, InRow)
    <3>1. mac'[i] = mac[i - 1]
      BY <1>2
    <3>2. i - 1 \in 1..5 /\ a + 5 - (i - 1) = a + 1 + 5 - i /\ a + 7 - (i - 1) = a + 1 + 7 - i
      BY <2>1
    <3> QED
      BY <2>1, <3>1, <3>2 DEF Pipeline
  <2>2. a + 1 + 5 - 1 = a + 5 /\ a + 1 + 7 - 1 = a + 7
    OBVIOUS
  <2>3. \A i \in 1..5 : i = 1 \/ i \in 2..5
    OBVIOUS
  <2> QED
    BY <1>4, <2>1, <2>2, <2>3
<1>6. \A j \in 1..3 : Counts(a + 1 + 4 + j, lo) => col'[j] = Column(a + 1 + 4 + j, InRow)
  <2>1. a + 1 + 4 + 1 = a + 6 /\ a + 1 + 4 + 2 = a + 7 /\ a + 1 + 4 + 3 = a + 8
    OBVIOUS
  <2>2. \A j \in 1..3 : j = 1 \/ j = 2 \/ j = 3
    OBVIOUS
  <2> QED
    BY <1>2, <1>3, <2>1, <2>2
<1>7. a + 1 + 8 = a + 9 /\ a + 1 + 9 = a + 10
  OBVIOUS
<1> QED
  BY <1>1, <1>3, <1>5, <1>6, <1>7 DEF PipelineNext

(* In a pause the columns stand still, and their results follow.           *)
LEMMA FrozenStep ==
  ASSUME buffers!Clock(BufferIn), ~control!ShiftCols, control!TotalWidth = InRow,
         InRow \in Nat, Stop \in Nat, Frozen
  PROVE  /\ \A j \in 1..3 : col'[j] = Column(Stop - 1 + j, InRow)
         /\ read_col' = buffers!ReadColOut
         /\ mac'[1] = Results(Stop, InRow)
         /\ \A i \in 2..5 : mac'[i] = mac[i - 1]
<1>1. /\ read_col' = buffers!ReadColOut /\ col' = col
      /\ mac' = <<[r \in buffers!ResultRow |-> buffers!Window(r, InRow)], mac[1], mac[2], mac[3], mac[4]>>
  BY DEF buffers!Clock, buffers!Columns, BufferIn
<1>2. col[1] = Column(Stop, InRow) /\ col[2] = Column(Stop + 1, InRow) /\ col[3] = Column(Stop + 2, InRow)
  <2>1. Stop - 1 + 1 = Stop /\ Stop - 1 + 2 = Stop + 1 /\ Stop - 1 + 3 = Stop + 2
    OBVIOUS
  <2>2. 1 \in 1..3 /\ 2 \in 1..3 /\ 3 \in 1..3
    OBVIOUS
  <2> QED
    BY <2>1, <2>2 DEF Frozen
<1>3. mac'[1] = Results(Stop, InRow)
  BY <1>1, <1>2, WindowResults
<1>4. \A i \in 2..5 : mac'[i] = mac[i - 1]
  BY <1>1
<1> QED
  BY <1>1, <1>3, <1>4 DEF Frozen

Flowing == {"NEW_ROW", "OPERATE", "PRE_CHUNK_END3", "CHUNK_END", "UPDATE_BASE", "CHUNK_DONE"}

(* Where the pipeline is while the columns flow.                           *)
Ahead ==
  IF state \in {"CHUNK_END", "UPDATE_BASE", "CHUNK_DONE"} THEN Base + M + read_col_address
  ELSE Base + read_col_address

(* The column the read bank shows is the one ahead of the pipeline.        *)
LEMMA ReadsColumn ==
  ASSUME NEW delay \in BOOLEAN, Step(delay), FetchInv, BankInv,
         state \in Flowing \cup {"PRE_CHUNK_END2", "PRE_CHUNK_END2_5"}
  PROVE  buffers!ReadColOut' = Column(Ahead, InRow) /\ Ahead \in Nat
<1>1. state \notin Early /\ state \notin Quiet /\ state # "IDLE"
  BY DEF Flowing, Early, Quiet
<1>2. buffers!Clock(BufferIn) /\ InRow \in Nat /\ M \in Nat
  BY <1>1, Still, Alike, Sizes DEF FetchInv
<1>3. Base \in Nat /\ read_col_address \in 0..(M - 1) /\ rd_buffer_sel \in buffers!Bank
  BY <1>1, PlaceNow DEF FetchInv, ColInv, SelectInv, buffers!Bank
<1>4. CASE state \in {"CHUNK_END", "UPDATE_BASE", "CHUNK_DONE"}
  <2>1. Holds(rd_buffer_sel, NextBase)
    BY <1>4 DEF BankInv, Crossing
  <2>2. NextBase = Base + M /\ Base + M \in Nat
    <3>1. remaining_width > M
      BY <1>1, <1>4 DEF FetchInv, Geometry, Crossing
    <3> QED
      BY <1>2, <1>3, <3>1 DEF NextBase
  <2> QED
    BY <1>2, <1>3, <1>4, <2>1, <2>2, ShowsColumn DEF Ahead
<1>5. CASE state \notin {"CHUNK_END", "UPDATE_BASE", "CHUNK_DONE"}
  <2>1. Holds(rd_buffer_sel, Base)
    BY <1>5 DEF BankInv, Flowing, Pauses
  <2> QED
    BY <1>2, <1>3, <1>5, <2>1, ShowsColumn DEF Ahead
<1> QED
  BY <1>4, <1>5

(* The column counters, as long as the columns flow.                       *)
LEMMA Flow ==
  ASSUME NEW delay \in BOOLEAN, Step(delay), FetchInv, PipeInv
  PROVE  /\ read_col_address \in 0..(M - 1) /\ write_col_address \in 0..(M - 1)
         /\ read_col_address' \in 0..(M - 1) /\ write_col_address' \in 0..(M - 1)
         /\ state = "NEW_ROW" => /\ read_col_address \in 0..9 /\ write_col_address = 0
                                 /\ read_col_address' = read_col_address + 1 /\ write_col_address' = 0
         /\ state = "OPERATE" =>
              /\ read_col_address = write_col_address + 10
              /\ write_col_address' = write_col_address + 1
              /\ read_col_address # M - 1 => read_col_address' = read_col_address + 1
         /\ state = "PRE_PAUSE" =>
              /\ read_col_address = write_col_address + 10 /\ read_col_address \in (M - 6)..(M - 2)
              /\ write_col_address' = write_col_address + 1
         /\ state \in {"PRE_PAUSE2", "PAUSE_CHUNK"} => 
              /\ write_col_address = M - 11 /\ write_col_address' = M - 11
         /\ state = "PRE_CHUNK_END2" => read_col_address = M - 8
         /\ state = "PRE_CHUNK_END2_5" => read_col_address = M - 7 /\ write_col_address' = M - 16
         /\ state = "PRE_CHUNK_END3" =>
              /\ read_col_address = write_col_address + 10 /\ write_col_address >= M - 16
              /\ write_col_address' = write_col_address + 1
         /\ state = "CHUNK_END" =>
              /\ write_col_address = read_col_address + M - 10
              /\ write_col_address' = IF write_col_address = M - 1 THEN 0 ELSE write_col_address + 1
         /\ state \in Crossing =>
              /\ read_col_address = write_col_address + 10 /\ write_col_address < 2
              /\ write_col_address' = write_col_address + 1
              /\ read_col_address' = read_col_address + 1
<1>1. Sequence
  BY StepSequence DEF FetchInv
<1>2. M \in Nat /\ M > 18
  BY Sizes
<1>3. /\ read_col_address \in 0..(M - 1) /\ write_col_address \in 0..(M - 1) /\ InStep /\ Places
      /\ read_col_address' \in 0..(M - 1) /\ write_col_address' \in 0..(M - 1)
  BY <1>1 DEF FetchInv, ColInv, Sequence
<1>4. state = "NEW_ROW" => /\ read_col_address \in 0..9 /\ write_col_address = 0
                           /\ read_col_address' = read_col_address + 1 /\ write_col_address' = 0
  BY <1>1, <1>2, <1>3, Motion DEF Places, Wrapped
<1>5. state = "OPERATE" =>
              /\ read_col_address = write_col_address + 10
              /\ write_col_address' = write_col_address + 1
              /\ read_col_address # M - 1 => read_col_address' = read_col_address + 1
  <2>1. state = "OPERATE" => read_col_address >= 10
    BY DEF PipeInv
  <2> QED
    BY <1>1, <1>2, <1>3, <2>1, Motion DEF InStep, Wrapped, Running
<1>6. state = "PRE_PAUSE" =>
              /\ read_col_address = write_col_address + 10 /\ read_col_address \in (M - 6)..(M - 2)
              /\ write_col_address' = write_col_address + 1
  BY <1>1, <1>2, <1>3, Motion DEF InStep, Places, Wrapped, Running
<1>7. state \in {"PRE_PAUSE2", "PAUSE_CHUNK"} =>
              /\ write_col_address = M - 11 /\ write_col_address' = M - 11
  BY <1>1, <1>2, <1>3, Motion DEF InStep, Places
<1>8. /\ state = "PRE_CHUNK_END2" => read_col_address = M - 8
      /\ state = "PRE_CHUNK_END2_5" => read_col_address = M - 7 /\ write_col_address' = M - 16
  BY <1>1, <1>2, <1>3, Motion DEF InStep, Places, Wrapped, Running, Resuming
<1>9. state = "PRE_CHUNK_END3" =>
              /\ read_col_address = write_col_address + 10 /\ write_col_address >= M - 16
              /\ write_col_address' = write_col_address + 1
  BY <1>1, <1>2, <1>3, Motion DEF InStep, Places, Wrapped, Running, Resuming
<1>10. state = "CHUNK_END" =>
              /\ write_col_address = read_col_address + M - 10
              /\ write_col_address' = IF write_col_address = M - 1 THEN 0 ELSE write_col_address + 1
  BY <1>1, <1>2, <1>3, Motion DEF InStep, Places, Wrapped, Running, Resuming
<1>11. state \in Crossing =>
              /\ read_col_address = write_col_address + 10 /\ write_col_address < 2
              /\ write_col_address' = write_col_address + 1
              /\ read_col_address' = read_col_address + 1
  BY <1>1, <1>2, <1>3, Motion DEF InStep, Places, Wrapped, Running, Resuming, Crossing
<1> QED
  BY ONLY <1>3, <1>4, <1>5, <1>6, <1>7, <1>8, <1>9, <1>10, <1>11

(* The step of the pipeline in each of these states.                       *)
LEMMA FlowStep ==
  ASSUME NEW delay \in BOOLEAN, Step(delay), FetchInv, BankInv, PipeInv
  PROVE  /\ state = "NEW_ROW" => PipelineNext(Base + read_col_address - 9, RowBase)
         /\ state = "OPERATE" => PipelineNext(Base + write_col_address + 1, RowBase)
         /\ state = "ROW_END" => PipelineNext(Base + write_col_address + 1, RowBase)
         /\ state = "CHUNK_END" => PipelineNext(Base + write_col_address + 1, RowBase)
         /\ state \in Crossing => PipelineNext(Base + M + write_col_address + 1, RowBase)
         /\ state = "PRE_CHUNK_END3" => PipelineNext(Base + write_col_address + 1, Stop)
<1> SUFFICES ASSUME state \in Flowing \cup {"ROW_END"}
             PROVE  /\ state = "NEW_ROW" => PipelineNext(Base + read_col_address - 9, RowBase)
                    /\ state = "OPERATE" => PipelineNext(Base + write_col_address + 1, RowBase)
                    /\ state = "ROW_END" => PipelineNext(Base + write_col_address + 1, RowBase)
                    /\ state = "CHUNK_END" => PipelineNext(Base + write_col_address + 1, RowBase)
                    /\ state \in Crossing => PipelineNext(Base + M + write_col_address + 1, RowBase)
                    /\ state = "PRE_CHUNK_END3" => PipelineNext(Base + write_col_address + 1, Stop)
  BY DEF Flowing, Crossing
<1>1. state \notin Early /\ state \notin Quiet /\ state # "IDLE"
  BY DEF Flowing, Early, Quiet
<1>2. buffers!Clock(BufferIn) /\ InRow \in Nat /\ M \in Nat /\ M > 18 /\ control!TotalWidth = InRow
  BY <1>1, Still, Alike, Sizes DEF FetchInv
<1>3. control!ShiftCols
  BY DEF Flowing, control!ShiftCols, control!Operating
<1>4. Base \in Nat /\ RowBase \in Nat /\ RowEnd \in Nat /\ RowEnd = Base + remaining_width /\ remaining_width \in Nat
  BY <1>1, PlaceNow DEF FetchInv
<1>5. state # "ROW_END" => buffers!ReadColOut' = Column(Ahead, InRow)
  BY ReadsColumn
<1>6. read_col_address \in Nat /\ write_col_address \in Nat /\ Stop \in Nat
  BY <1>2, <1>4, Flow DEF Stop
<1>7. CASE state = "NEW_ROW"
  <2> DEFINE a == Base + read_col_address - 10
  <2>1. a \in Int /\ a + 10 = Ahead /\ a + 1 = Base + read_col_address - 9
    BY <1>2, <1>4, <1>6, <1>7 DEF Ahead
  <2>2. Pipeline(a, RowBase)
    BY <1>7 DEF PipeInv
  <2>3. buffers!ReadColOut' = Column(a + 10, InRow)
    BY <1>5, <1>7, <2>1
  <2> HIDE DEF a
  <2>4. PipelineNext(a + 1, RowBase)
    BY <1>2, <1>3, <1>4, <2>1, <2>2, <2>3, PipelineStep
  <2> QED
    BY <1>7, <2>1, <2>4 DEF Crossing
<1>8. CASE state \in {"OPERATE", "CHUNK_END", "ROW_END"}
  <2> DEFINE a == Base + write_col_address
  <2>1. a \in Int
    BY <1>4, <1>6
  <2>2. Pipeline(a, RowBase)
    BY <1>8 DEF PipeInv
  <2>3. Counts(a + 10, RowBase) => buffers!ReadColOut' = Column(a + 10, InRow)
    <3>1. CASE state = "ROW_END"
      <4>1. write_col_address + 10 >= remaining_width
        BY <3>1 DEF PipeInv
      <4>2. ~(a + 10 < RowEnd)
        BY <1>4, <1>6, <4>1
      <4> QED
        BY <4>2 DEF Counts
    <3>2. CASE state \in {"OPERATE", "CHUNK_END"}
      <4>1. a + 10 = Ahead
        BY <1>2, <1>4, <1>6, <3>2, Flow DEF Ahead
      <4> QED
        BY <1>5, <3>2, <4>1
    <3> QED
      BY <1>8, <3>1, <3>2
  <2> HIDE DEF a
  <2>4. PipelineNext(a + 1, RowBase)
    BY <1>2, <1>3, <1>4, <2>1, <2>2, <2>3, PipelineStep
  <2> QED
    BY <1>8, <2>4 DEF Crossing, a
<1>9. CASE state \in Crossing
  <2> DEFINE a == Base + M + write_col_address
  <2>1. a \in Int /\ a + 10 = Ahead
    BY <1>2, <1>4, <1>6, <1>9, Flow DEF Ahead, Crossing
  <2>2. Pipeline(a, RowBase)
    BY <1>9 DEF PipeInv
  <2>3. buffers!ReadColOut' = Column(a + 10, InRow)
    BY <1>5, <1>9, <2>1 DEF Crossing
  <2> HIDE DEF a
  <2>4. PipelineNext(a + 1, RowBase)
    BY <1>2, <1>3, <1>4, <2>1, <2>2, <2>3, PipelineStep
  <2> QED
    BY <1>9, <2>4 DEF Crossing, a
<1>10. CASE state = "PRE_CHUNK_END3"
  <2> DEFINE a == Base + write_col_address
  <2>1. a \in Int /\ a + 10 = Ahead
    BY <1>2, <1>4, <1>6, <1>10, Flow DEF Ahead
  <2>2. Pipeline(a, Stop)
    BY <1>10 DEF PipeInv
  <2>3. buffers!ReadColOut' = Column(a + 10, InRow)
    BY <1>5, <1>10, <2>1
  <2> HIDE DEF a
  <2>4. PipelineNext(a + 1, Stop)
    BY <1>2, <1>3, <1>4, <1>6, <2>1, <2>2, <2>3, PipelineStep
  <2> QED
    BY <1>10, <2>4 DEF Crossing, a
<1> QED
  BY <1>7, <1>8, <1>9, <1>10 DEF Flowing, Crossing

(* A step keeps PipeInv, also over the seven columns that a pause reads    *)
(* again.                                                                  *)
LEMMA PipeStep ==
  ASSUME NEW delay \in BOOLEAN, Step(delay), FetchInv, FetchInv', BankInv, PipeInv
  PROVE  PipeInv'
<1>1. Sequence
  BY StepSequence DEF FetchInv
<1> DEFINE Told == {"NEW_ROW", "OPERATE", "CHUNK_END", "ROW_END"} \cup Crossing \cup Pauses
<1> SUFFICES ASSUME state' \in Told
             PROVE  PipeInv'
  BY DEF PipeInv, Pauses, Crossing
<1>2. state \in Told \cup {"FILL_BUFF_FLIP", "UPDATE_WRITE"}
  BY <1>1, Turns, Leads DEF Quiet, Active, First, Pauses, Crossing, WithinRow, NextRow, Final
<1>3. state \notin Early /\ state \notin Quiet /\ state # "IDLE" /\ state # "FILL_BUFF1"
  BY <1>2 DEF Early, Quiet, Pauses, Crossing
<1>4. buffers!Clock(BufferIn) /\ InRow \in Nat /\ InRow' = InRow /\ M \in Nat /\ M > 18 /\ control!TotalWidth = InRow
  BY <1>3, Still, Alike, Sizes DEF FetchInv
<1>5. /\ Base \in Nat /\ RowBase \in Nat /\ RowEnd \in Nat /\ Left \in Nat /\ Base = RowBase + Left
      /\ RowEnd = Base + remaining_width /\ remaining_width \in Nat
      /\ state \in Pauses \cup Crossing \cup {"CHUNK_END"} => remaining_width > M + 2
      /\ state = "ROW_END" => remaining_width < M
  BY <1>3, <1>4, PlaceNow DEF FetchInv, Geometry
<1>6. read_col_address \in 0..(M - 1) /\ write_col_address \in 0..(M - 1)
  BY Flow
<1>7. Stop = Base + M - 11 /\ Stop \in Nat /\ Stop' = Base' + M - 11
  BY <1>4, <1>5 DEF Stop
<1>8. state \notin {"UPDATE_WRITE", "CHUNK_DONE"} => Base' = Base /\ RowBase' = RowBase /\ RowEnd' = RowEnd
  BY <1>3, PlaceStays DEF FetchInv, Placed
<1>9. CASE state \in {"FILL_BUFF_FLIP", "UPDATE_WRITE"}
  <2>1. state' = "NEW_ROW" /\ read_col_address' = 0
    <3>1. state = "FILL_BUFF_FLIP" => read_col_address = 0
      BY DEF FetchInv, ColInv, Places
    <3> QED
      BY <1>1, <1>9, <3>1, Leads, Motion
  <2>2. Base' = RowBase' /\ RowBase' \in Nat
    <3>1. CASE state = "FILL_BUFF_FLIP"
      <4>1. remaining_width = InRow
        BY <1>3, <3>1 DEF FetchInv, Geometry
      <4>2. Base = RowBase
        BY <1>4, <1>5, <4>1 DEF Left
      <4> QED
        BY <1>5, <1>8, <3>1, <4>2
    <3>2. CASE state = "UPDATE_WRITE"
      <4>1. RowBase' = RowBase + Group /\ Base' = RowBase + Group /\ Group \in Nat
        BY <1>3, <3>2, PlaceNextGroup, PlaceNow DEF FetchInv
      <4> QED
        BY <1>5, <4>1
    <3> QED
      BY <1>9, <3>1, <3>2
  <2>3. Pipeline(Base + read_col_address - 10, RowBase)'
    <3>1. RowBase' \in Nat /\ (Base + read_col_address - 10)' = RowBase' - 10
      BY <2>1, <2>2
    <3>2. \A n \in Nat : \A i \in 1..5 : ~(n <= n - 10 + 5 - i)
      OBVIOUS
    <3>3. \A n \in Nat : \A j \in 1..3 : ~(n <= n - 10 + 4 + j)
      OBVIOUS
    <3>4. \A n \in Nat : ~(n <= n - 10 + 8) /\ ~(n <= n - 10 + 9)
      OBVIOUS
    <3> QED
      BY <3>1, <3>2, <3>3, <3>4 DEF Pipeline, Counts
  <2> QED
    BY <2>1, <2>3 DEF PipeInv, Pauses, Crossing
<1>10. CASE state = "NEW_ROW"
  <2>1. state' = IF read_col_address = 9 THEN "OPERATE" ELSE "NEW_ROW"
    BY <1>1, <1>10, Leads
  <2>2. read_col_address' = read_col_address + 1 /\ write_col_address' = 0 /\ read_col_address \in 0..9
    BY <1>10, Flow
  <2> DEFINE a == Base + read_col_address - 9
  <2>3. PipelineNext(a, RowBase)
    BY <1>10, FlowStep
  <2>4. a = (Base + read_col_address - 10)' /\ (read_col_address = 9 => a = (Base + write_col_address)')
    BY <1>5, <1>8, <1>10, <2>2
  <2> HIDE DEF a
  <2>5. /\ Pipeline(Base + read_col_address - 10, RowBase)'
        /\ read_col_address = 9 => Pipeline(Base + write_col_address, RowBase)'
    BY <1>4, <1>8, <1>10, <2>3, <2>4 DEF Pipeline, PipelineNext, Counts
  <2>6. read_col_address = 9 => read_col_address' >= 10
    BY <2>2
  <2> QED
    BY <2>1, <2>5, <2>6 DEF PipeInv, Pauses, Crossing
<1>11. CASE state = "OPERATE"
  <2>1. /\ read_col_address = write_col_address + 10 /\ write_col_address' = write_col_address + 1
        /\ read_col_address # M - 1 => read_col_address' = read_col_address + 1
    BY <1>11, Flow
  <2>2. PipelineNext(Base + write_col_address + 1, RowBase)
    BY <1>11, FlowStep
  <2>3. Base + write_col_address + 1 = (Base + write_col_address)'
    BY <1>5, <1>6, <1>8, <1>11, <2>1
  <2>4. Pipeline(Base + write_col_address, RowBase)'
    BY <1>4, <1>8, <1>11, <2>2, <2>3 DEF Pipeline, PipelineNext, Counts
  <2>5. CASE state' \in {"OPERATE", "CHUNK_END"}
    <3>1. state' = "OPERATE" => read_col_address' >= 10
      <4>1. state' = "OPERATE" => read_col_address # M - 1
        BY <1>1, <1>11, Leads
      <4> QED
        BY <1>4, <1>6, <2>1, <4>1
    <3> QED
      BY <2>4, <2>5, <3>1 DEF PipeInv, Pauses, Crossing
  <2>6. CASE state' = "ROW_END"
    <3>1. read_col_address >= remaining_width
      BY <1>1, <1>11, <2>6, Turns
    <3>2. remaining_width' = remaining_width
      BY <1>3, <1>11, PlaceStays DEF FetchInv, Placed
    <3>3. write_col_address' + 10 >= remaining_width'
      BY <1>5, <1>6, <2>1, <3>1, <3>2
    <3> QED
      BY <2>4, <2>6, <3>3 DEF PipeInv, Pauses, Crossing
  <2>7. CASE state' = "PRE_PAUSE"
    <3>1. read_col_address = M - 7 /\ ~(read_col_address >= remaining_width)
      BY <1>1, <1>11, <2>7, Leads, Turns
    <3>2. remaining_width > M + 2
      <4>1. remaining_width < M - 6 \/ remaining_width > M + 2
        BY <1>3, PlaceNow DEF FetchInv
      <4> QED
        BY <1>4, <1>5, <3>1, <4>1
    <3> DEFINE a == Base + M - 16
    <3>3. write_col_address' = M - 16 /\ a = Base + write_col_address + 1 /\ a \in Nat /\ Stop = a + 5 /\ RowBase <= a
          /\ a + 18 < RowEnd
      BY <1>4, <1>5, <1>6, <1>7, <2>1, <3>1, <3>2
    <3>4. PipelineNext(a, RowBase)
      BY <2>2, <3>3
    <3> HIDE DEF a
    <3>5. \A i \in 1..5 : mac'[i] = Results(a + 5 - i, InRow)
      <4>1. \A i \in 1..5 : RowBase <= a + 5 - i /\ a + 7 - i < RowEnd
        BY <1>5, <3>3
      <4> QED
        BY <3>4, <4>1 DEF PipelineNext
    <3>6. \A i \in 1..5 : Least(Base' + write_col_address' + 5 - i, Stop') = a + 5 - i
      <4>1. Base' + write_col_address' = a /\ Stop' = a + 5
        BY <1>4, <1>5, <1>7, <1>8, <1>11, <3>3 DEF a
      <4> QED
        BY <3>3, <4>1 DEF Least
    <3>7. \A j \in 1..3 : col'[j] = Column(Stop' - 1 + j, InRow')
      <4>1. \A j \in 1..3 : Counts(a + 4 + j, RowBase) /\ Stop' - 1 + j = a + 4 + j
        BY <1>5, <1>7, <1>8, <1>11, <3>3 DEF Counts
      <4> QED
        BY <1>4, <3>4, <4>1 DEF PipelineNext
    <3> QED
      BY <1>4, <2>7, <3>5, <3>6, <3>7 DEF PipeInv, Frozen, Pauses, Crossing
  <2> QED
    BY <1>1, <1>11, <2>5, <2>6, <2>7, Leads
<1>12. CASE state = "PRE_PAUSE"
  <2>1. state' \in {"PRE_PAUSE", "PRE_PAUSE2"}
    BY <1>1, <1>12, Leads
  <2>2. ~control!ShiftCols
    BY <1>12 DEF control!ShiftCols, control!Operating
  <2>3. Frozen /\ \A i \in 1..5 : mac[i] = Results(Least(Base + write_col_address + 5 - i, Stop), InRow)
    BY <1>12 DEF PipeInv, Pauses
  <2>4. /\ \A j \in 1..3 : col'[j] = Column(Stop - 1 + j, InRow)
        /\ mac'[1] = Results(Stop, InRow) /\ \A i \in 2..5 : mac'[i] = mac[i - 1]
    BY <1>4, <1>7, <2>2, <2>3, FrozenStep
  <2>5. write_col_address' = write_col_address + 1 /\ write_col_address >= M - 16
    BY <1>4, <1>6, <1>12, Flow
  <2>6. Base' = Base /\ Stop' = Stop
    BY <1>7, <1>8, <1>12
  <2>7. \A i \in 1..5 : mac'[i] = Results(Least(Base' + write_col_address' + 5 - i, Stop'), InRow')
    <3>1. Least(Base' + write_col_address' + 5 - 1, Stop') = Stop
      BY <1>4, <1>5, <1>6, <1>7, <2>5, <2>6 DEF Least
    <3>2. \A i \in 2..5 : Base' + write_col_address' + 5 - i = Base + write_col_address + 5 - (i - 1) /\ i - 1 \in 1..5
      BY <1>5, <1>6, <2>5, <2>6
    <3>3. \A i \in 2..5 : mac'[i] = Results(Least(Base' + write_col_address' + 5 - i, Stop'), InRow')
      BY <1>4, <2>3, <2>4, <2>6, <3>2
    <3>4. \A i \in 1..5 : i = 1 \/ i \in 2..5
      OBVIOUS
    <3> QED
      BY <1>4, <2>4, <3>1, <3>3, <3>4
  <2> QED
    BY <1>4, <2>1, <2>4, <2>6, <2>7 DEF PipeInv, Frozen, Pauses, Crossing
<1>13. CASE state \in {"PRE_PAUSE2", "PAUSE_CHUNK", "PRE_CHUNK_END1", "PRE_CHUNK_END2"}
  <2>1. /\ state' \in {"PAUSE_CHUNK", "PRE_CHUNK_END1", "PRE_CHUNK_END2", "PRE_CHUNK_END2_5"}
        /\ state' = "PRE_CHUNK_END2_5" => state = "PRE_CHUNK_END2"
    BY <1>1, <1>13, Leads
  <2>2. ~control!ShiftCols
    BY <1>13 DEF control!ShiftCols, control!Operating
  <2>3. Frozen
    BY <1>13 DEF PipeInv, Pauses
  <2>4. \A j \in 1..3 : col'[j] = Column(Stop - 1 + j, InRow)
    BY <1>4, <1>7, <2>2, <2>3, FrozenStep
  <2>5. Base' = Base /\ Stop' = Stop
    BY <1>7, <1>8, <1>13
  <2>6. state = "PRE_CHUNK_END2" => buffers!ReadColOut' = Column(Base + M - 8, InRow)
    <3>1. state = "PRE_CHUNK_END2" => Ahead = Base + M - 8
      <4>1. state = "PRE_CHUNK_END2" => read_col_address = M - 8
        BY Flow
      <4> QED
        BY <1>4, <1>5, <4>1 DEF Ahead
    <3> QED
      BY <3>1, ReadsColumn
  <2> QED
    BY <1>4, <2>1, <2>4, <2>5, <2>6 DEF PipeInv, Frozen, Pauses, Crossing
<1>14. CASE state = "PRE_CHUNK_END2_5"
  <2>1. state' = "PRE_CHUNK_END3" /\ write_col_address' = M - 16 /\ read_col_address = M - 7
    BY <1>1, <1>14, Leads, Flow
  <2>2. ~control!ShiftCols
    BY <1>14 DEF control!ShiftCols, control!Operating
  <2>3. Frozen /\ buffers!ReadColOut = Column(Base + M - 8, InRow)
    BY <1>14 DEF PipeInv, Pauses
  <2>4. (\A j \in 1..3 : col'[j] = Column(Stop - 1 + j, InRow)) /\ read_col' = buffers!ReadColOut
    BY <1>4, <1>7, <2>2, <2>3, FrozenStep
  <2>5. Base' = Base /\ Stop' = Stop /\ RowEnd' = RowEnd
    BY <1>7, <1>8, <1>14
  <2>6. buffers!ReadColOut' = Column(Base + M - 7, InRow)
    <3>1. Ahead = Base + M - 7
      BY <1>4, <1>5, <1>14, <2>1 DEF Ahead
    <3> QED
      BY <1>14, <3>1, ReadsColumn
  <2> DEFINE a == Base' + write_col_address'
  <2>7. a + 5 = Stop' /\ a \in Nat /\ a + 8 = Base + M - 8 /\ a + 9 = Base + M - 7 /\ Stop' = Stop
    BY <1>4, <1>5, <1>7, <2>1, <2>5
  <2> HIDE DEF a
  <2>8. /\ \A i \in 1..5 : ~(Stop' <= a + 5 - i)
        /\ \A j \in 1..3 : Stop - 1 + j = a + 4 + j
    BY <2>7
  <2>9. Pipeline(Base + write_col_address, Stop)'
    BY <1>4, <2>3, <2>4, <2>6, <2>7, <2>8 DEF Pipeline, a
  <2> QED
    BY <2>1, <2>9 DEF PipeInv, Pauses, Crossing
<1>15. CASE state = "PRE_CHUNK_END3"
  <2>1. state' = IF read_col_address = M - 1 THEN "CHUNK_END" ELSE "PRE_CHUNK_END3"
    BY <1>1, <1>15, Leads
  <2>2. read_col_address = write_col_address + 10 /\ write_col_address' = write_col_address + 1
    BY <1>15, Flow
  <2>3. PipelineNext(Base + write_col_address + 1, Stop)
    BY <1>15, FlowStep
  <2>4. Base + write_col_address + 1 = (Base + write_col_address)' /\ Stop' = Stop
    BY <1>5, <1>6, <1>7, <1>8, <1>15, <2>2
  <2>5. Pipeline(Base + write_col_address, Stop)'
    BY <1>4, <1>8, <1>15, <2>3, <2>4 DEF Pipeline, PipelineNext, Counts
  <2>6. read_col_address = M - 1 => Pipeline(Base + write_col_address, RowBase)'
    <3> SUFFICES ASSUME read_col_address = M - 1
                 PROVE  Pipeline(Base + write_col_address, RowBase)'
      OBVIOUS
    <3> DEFINE a == Base' + write_col_address'
    <3>1. a = Base + M - 10 /\ a = Stop' + 1 /\ Stop' \in Nat
      BY <1>4, <1>5, <1>6, <1>7, <1>8, <1>15, <2>2, <2>4
    <3> HIDE DEF a
    <3>2. \A n \in Nat : /\ \A i \in 1..5 : n <= n + 1 + 5 - i
                         /\ \A j \in 1..3 : n <= n + 1 + 4 + j
                         /\ n <= n + 1 + 8 /\ n <= n + 1 + 9
      OBVIOUS
    <3> QED
      BY <2>5, <3>1, <3>2 DEF Pipeline, Counts, a
  <2> QED
    BY <2>1, <2>5, <2>6 DEF PipeInv, Pauses, Crossing
<1>16. CASE state = "CHUNK_END"
  <2>1. state' = IF write_col_address = M - 1 THEN "UPDATE_BASE" ELSE "CHUNK_END"
    BY <1>1, <1>16, Leads
  <2>2. write_col_address' = IF write_col_address = M - 1 THEN 0 ELSE write_col_address + 1
    BY <1>16, Flow
  <2>3. PipelineNext(Base + write_col_address + 1, RowBase)
    BY <1>16, FlowStep
  <2>4. Base + write_col_address + 1 = IF write_col_address = M - 1 THEN (Base + M + write_col_address)'
                                       ELSE (Base + write_col_address)'
    BY <1>4, <1>5, <1>6, <1>8, <1>16, <2>2
  <2>5. IF write_col_address = M - 1 THEN Pipeline(Base + M + write_col_address, RowBase)'
        ELSE Pipeline(Base + write_col_address, RowBase)'
    BY <1>4, <1>8, <1>16, <2>3, <2>4 DEF Pipeline, PipelineNext, Counts
  <2> QED
    BY <2>1, <2>5 DEF PipeInv, Pauses, Crossing
<1>17. CASE state \in Crossing
  <2>1. \/ state = "UPDATE_BASE" /\ state' = "CHUNK_DONE"
        \/ state = "CHUNK_DONE" /\ state' = "OPERATE"
    BY <1>1, <1>17, Leads DEF Crossing, Pauses
  <2>2. write_col_address' = write_col_address + 1 /\ read_col_address = write_col_address + 10
        /\ read_col_address' = read_col_address + 1
    BY <1>17, Flow
  <2>3. PipelineNext(Base + M + write_col_address + 1, RowBase)
    BY <1>17, FlowStep
  <2>4. state = "CHUNK_DONE" => Base' = Base + M /\ RowBase' = RowBase /\ RowEnd' = RowEnd
    BY PlaceNextChunk DEF FetchInv
  <2>5. /\ RowBase' = RowBase /\ RowEnd' = RowEnd
        /\ Base + M + write_col_address + 1 =
             IF state = "UPDATE_BASE" THEN (Base + M + write_col_address)' ELSE (Base + write_col_address)'
    BY <1>4, <1>5, <1>6, <1>8, <2>1, <2>2, <2>4
  <2>6. IF state = "UPDATE_BASE" THEN Pipeline(Base + M + write_col_address, RowBase)'
        ELSE Pipeline(Base + write_col_address, RowBase)'
    BY <1>4, <2>3, <2>5 DEF Pipeline, PipelineNext, Counts
  <2>7. read_col_address' >= 10
    BY <1>4, <1>6, <2>2
  <2> QED
    BY <2>1, <2>6, <2>7 DEF PipeInv, Pauses, Crossing
<1>18. CASE state = "ROW_END"
  <2>1. state' = "ROW_END" /\ ~(write_col_address >= control!Minus(remaining_width, 2))
    BY <1>1, <1>18, Turns DEF Pauses, Crossing
  <2>2. write_col_address < remaining_width - 2 /\ remaining_width < M /\ remaining_width' = remaining_width
    <3>1. remaining_width \in Nat /\ remaining_width >= 3 /\ 2 \in Nat /\ 2 <= remaining_width
      BY <1>3, <1>5, PlaceNow DEF FetchInv
    <3>2. control!Minus(remaining_width, 2) = remaining_width - 2
      BY ONLY <3>1, Subtracts
    <3>3. remaining_width' = remaining_width
      BY <1>3, <1>18, PlaceStays DEF FetchInv, Placed
    <3> QED
      BY <1>4, <1>5, <1>6, <1>18, <2>1, <3>1, <3>2, <3>3
  <2>3. write_col_address' = write_col_address + 1
    <3>1. write_col_address' = Wrapped(write_col_address + 1)
      BY <1>1, <1>18 DEF Sequence, Moves, control!Reset, control!WriteInc, control!Operating
    <3> QED
      BY <1>4, <1>5, <1>6, <2>2, <3>1 DEF Wrapped
  <2>4. PipelineNext(Base + write_col_address + 1, RowBase)
    BY <1>18, FlowStep
  <2>5. Base + write_col_address + 1 = (Base + write_col_address)'
    BY <1>5, <1>6, <1>8, <1>18, <2>3
  <2>6. Pipeline(Base + write_col_address, RowBase)'
    BY <1>4, <1>8, <1>18, <2>4, <2>5 DEF Pipeline, PipelineNext, Counts
  <2>7. write_col_address' + 10 >= remaining_width'
    <3>1. write_col_address + 10 >= remaining_width
      BY <1>18 DEF PipeInv
    <3> QED
      BY <1>4, <1>5, <1>6, <2>2, <2>3, <3>1
  <2> QED
    BY <2>1, <2>6, <2>7 DEF PipeInv, Pauses, Crossing
<1> QED
  BY <1>2, <1>9, <1>10, <1>11, <1>12, <1>13, <1>14, <1>15, <1>16, <1>17, <1>18 DEF Pauses

-----------------------------------------------------------------------------
(* The results in the write banks                                          *)

KeptNext(b, a, n) ==
  \A x \in 0..(M - 1) : x < n /\ a + x + 2 < RowEnd => wb'[b][x] = Results(a + x, InRow)

(* A write bank that is not written keeps its results.                     *)
LEMMA KeptStays ==
  ASSUME buffers!Clock(BufferIn), WriteShape, NEW b \in buffers!Bank,
         ~(control!WrEnWrBuffer /\ wr_buffer_sel = b), NEW a, NEW n, Kept(b, a, n)
  PROVE  KeptNext(b, a, n)
<1>1. \A x \in 0..(M - 1) : wb'[b][x] = wb[b][x]
  BY WriteBanksStep DEF buffers!Clock
<1> QED
  BY <1>1 DEF Kept, KeptNext

(* The bank written has one column of results more.                        *)
LEMMA KeptGrows ==
  ASSUME buffers!Clock(BufferIn), WriteShape, wr_buffer_sel \in buffers!Bank, control!WrEnWrBuffer,
         write_col_address \in Nat,
         NEW a \in Nat, Kept(wr_buffer_sel, a, write_col_address),
         a + write_col_address + 2 < RowEnd => mac[5] = Results(a + write_col_address, InRow)
  PROVE  KeptNext(wr_buffer_sel, a, write_col_address + 1)
<1>1. \A x \in 0..(M - 1) :
        wb'[wr_buffer_sel][x] = IF x = write_col_address THEN mac[5] ELSE wb[wr_buffer_sel][x]
  BY WriteBanksStep DEF buffers!Clock
<1>2. M \in Nat
  BY Sizes
<1>3. \A x \in 0..(M - 1) : x < write_col_address + 1 => x < write_col_address \/ x = write_col_address
  BY <1>2
<1> QED
  BY <1>1, <1>3 DEF Kept, KeptNext

(* A step keeps ResultInv: the results of a chunk are in one bank, in      *)
(* place, when it is sent.                                                 *)
LEMMA ResultStep ==
  ASSUME NEW delay \in BOOLEAN, Step(delay), FetchInv, FetchInv', BankInv, PipeInv, WriteShape, ResultInv
  PROVE  ResultInv'
<1>1. Sequence /\ control!BankSelects
  BY StepSequence, Edge DEF FetchInv
<1> DEFINE Told ==
      {"OPERATE", "CHUNK_END", "ROW_END", "UPDATE_READ", "ROW_DONE_WAIT", "PRE_FINAL", "FINAL_REQUEST"}
        \cup Crossing \cup Pauses
<1> SUFFICES ASSUME state' \in Told
             PROVE  ResultInv'
  BY DEF ResultInv, Pauses, Crossing
<1>2. state \in Told \cup {"NEW_ROW"}
  BY <1>1, Turns, Leads DEF Quiet, Active, First, Pauses, Crossing, WithinRow, NextRow, Final
<1>3. state \notin Early /\ state \notin Quiet /\ state # "IDLE" /\ state # "FILL_BUFF1" /\ state # "UPDATE_WRITE"
  BY <1>2 DEF Early, Quiet, Pauses, Crossing
<1>4. buffers!Clock(BufferIn) /\ InRow \in Nat /\ InRow' = InRow /\ M \in Nat /\ M > 18
  BY <1>3, Still, Alike, Sizes DEF FetchInv
<1>5. /\ Base \in Nat /\ RowBase \in Nat /\ RowEnd \in Nat /\ RowBase <= Base
      /\ RowEnd = Base + remaining_width /\ remaining_width \in Nat
      /\ state \in Pauses \cup Crossing \cup {"CHUNK_END"} => remaining_width > M + 2
  <2>1. Base = RowBase + Left /\ Left \in Nat /\ Base \in Nat /\ RowBase \in Nat
    BY <1>3, PlaceNow DEF FetchInv
  <2>2. RowBase <= Base
    BY <2>1
  <2>3. state \in Pauses \cup Crossing \cup {"CHUNK_END"} => remaining_width > M
    BY <1>3 DEF FetchInv, Geometry
  <2> QED
    BY <1>3, <1>4, <2>1, <2>2, <2>3, PlaceNow DEF FetchInv
<1>6. write_col_address \in 0..(M - 1) /\ write_col_address' \in 0..(M - 1)
  BY Flow
<1>7. wr_buffer_sel \in buffers!Bank /\ 1 - wr_buffer_sel \in buffers!Bank /\ wr_buffer_sel # 1 - wr_buffer_sel
      /\ 1 - (1 - wr_buffer_sel) = wr_buffer_sel
  BY DEF FetchInv, SelectInv, buffers!Bank
<1>8. state # "CHUNK_DONE" => Base' = Base /\ RowEnd' = RowEnd /\ remaining_width' = remaining_width
  BY <1>3, PlaceStays DEF FetchInv, Placed
<1>9. state' # "UPDATE_BASE" => wr_buffer_sel' = wr_buffer_sel
  BY <1>1 DEF control!BankSelects, Pauses, Crossing
<1>10. CASE state = "NEW_ROW"
  <2>1. state' = "OPERATE" /\ write_col_address' = 0
    BY <1>1, <1>10, Leads, Flow DEF Pauses, Crossing
  <2>2. \A x \in 0..(M - 1) : ~(x < 0)
    BY <1>4
  <2>3. Kept(wr_buffer_sel, Base, write_col_address)'
    BY <2>1, <2>2 DEF Kept
  <2> QED
    BY <2>1, <2>3 DEF ResultInv, Pauses, Crossing
<1>11. CASE state \in {"OPERATE", "CHUNK_END", "PRE_PAUSE", "PRE_PAUSE2", "ROW_END"}
  <2>1. control!WrEnWrBuffer
    BY <1>11 DEF control!WrEnWrBuffer, control!Operating
  <2>2. Kept(wr_buffer_sel, Base, write_col_address)
    BY <1>11 DEF ResultInv
  <2>3. Base + write_col_address + 2 < RowEnd => mac[5] = Results(Base + write_col_address, InRow)
    <3>1. CASE state \in {"OPERATE", "CHUNK_END", "ROW_END"}
      <4>1. Pipeline(Base + write_col_address, RowBase)
        BY <3>1 DEF PipeInv
      <4> DEFINE a == Base + write_col_address
      <4>2. a + 5 - 5 = a /\ a + 7 - 5 = a + 2 /\ RowBase <= a /\ a \in Nat
        BY <1>5, <1>6
      <4> HIDE DEF a
      <4>3. 5 \in 1..5
        OBVIOUS
      <4>4. a + 2 < RowEnd => mac[5] = Results(a, InRow)
        BY <4>1, <4>2, <4>3 DEF Pipeline, a
      <4> QED
        BY <4>4 DEF a
    <3>2. CASE state \in {"PRE_PAUSE", "PRE_PAUSE2"}
      <4>1. mac[5] = Results(Least(Base + write_col_address + 5 - 5, Stop), InRow)
        BY <3>2 DEF PipeInv
      <4>2. write_col_address <= M - 11
        BY <1>4, <1>6, <3>2, Flow
      <4>3. Least(Base + write_col_address + 5 - 5, Stop) = Base + write_col_address
        BY <1>4, <1>5, <1>6, <4>2 DEF Least, Stop
      <4> QED
        BY <4>1, <4>3
    <3> QED
      BY <1>11, <3>1, <3>2
  <2>4. KeptNext(wr_buffer_sel, Base, write_col_address + 1)
    BY <1>4, <1>5, <1>6, <1>7, <2>1, <2>2, <2>3, KeptGrows
  <2>5. CASE state' \in {"OPERATE", "PRE_PAUSE", "PRE_PAUSE2", "CHUNK_END", "ROW_END"}
    <3>1. write_col_address' = write_col_address + 1
      <4>1. CASE state \in {"OPERATE", "PRE_PAUSE", "CHUNK_END"}
        <5>1. state = "CHUNK_END" => write_col_address # M - 1
          BY <1>1, <2>5, Leads
        <5> QED
          BY <4>1, <5>1, Flow
      <4>2. CASE state = "PRE_PAUSE2"
        BY <1>1, <2>5, <4>2, Leads
      <4>3. CASE state = "ROW_END"
        <5>1. ~(write_col_address >= control!Minus(remaining_width, 2))
          BY <1>1, <2>5, <4>3, Turns
        <5>2. remaining_width < M /\ remaining_width >= 3
          BY <1>3, <4>3, PlaceNow DEF FetchInv, Geometry
        <5>3. control!Minus(remaining_width, 2) = remaining_width - 2
          <6>1. remaining_width \in Nat /\ 2 \in Nat /\ 2 <= remaining_width
            BY <1>5, <5>2
          <6> QED
            BY ONLY <6>1, Subtracts
        <5>4. write_col_address' = Wrapped(write_col_address + 1)
          BY <1>1, <4>3 DEF Sequence, Moves, control!Reset, control!WriteInc, control!Operating
        <5> QED
          BY <1>4, <1>5, <1>6, <5>1, <5>2, <5>3, <5>4 DEF Wrapped
      <4> QED
        BY <1>11, <4>1, <4>2, <4>3
    <3>2. wr_buffer_sel' = wr_buffer_sel /\ Base' = Base /\ RowEnd' = RowEnd
      BY <1>8, <1>9, <1>11, <2>5
    <3>3. Kept(wr_buffer_sel, Base, write_col_address)'
      BY <1>4, <2>4, <3>1, <3>2 DEF Kept, KeptNext
    <3> QED
      BY <2>5, <3>3 DEF ResultInv, Pauses, Crossing
  <2>6. CASE state' \in Pauses \ {"PRE_PAUSE", "PRE_PAUSE2"}
    <3>1. state = "PRE_PAUSE2"
      BY <1>1, <1>11, <2>6, Leads, Turns DEF Pauses, NextRow, Final
    <3>2. write_col_address + 1 = M - 10
      BY <1>4, <3>1, Flow
    <3>3. wr_buffer_sel' = wr_buffer_sel /\ Base' = Base /\ RowEnd' = RowEnd
      BY <1>8, <1>9, <1>11, <2>6 DEF Pauses
    <3>4. Kept(wr_buffer_sel, Base, M - 10)'
      BY <1>4, <2>4, <3>2, <3>3 DEF Kept, KeptNext
    <3> QED
      BY <2>6, <3>4 DEF ResultInv, Pauses, Crossing
  <2>7. CASE state' \in Crossing
    <3>1. state = "CHUNK_END" /\ state' = "UPDATE_BASE" /\ write_col_address = M - 1 /\ write_col_address' = 0
      BY <1>1, <1>11, <2>7, Leads, Turns, Flow DEF Crossing, NextRow, Final
    <3>2. wr_buffer_sel' = 1 - wr_buffer_sel /\ Base' = Base /\ RowEnd' = RowEnd
      BY <1>1, <1>8, <3>1 DEF control!BankSelects, FetchInv, SelectInv
    <3>3. Kept(1 - wr_buffer_sel, Base, M)'
      <4>1. write_col_address + 1 = M /\ 1 - wr_buffer_sel' = wr_buffer_sel
        BY <1>4, <1>7, <3>1, <3>2
      <4> QED
        BY <1>4, <2>4, <3>2, <4>1 DEF Kept, KeptNext
    <3>4. Kept(wr_buffer_sel, Base + M, write_col_address)'
      <4>1. \A x \in 0..(M - 1) : ~(x < 0)
        BY <1>4
      <4> QED
        BY <3>1, <4>1 DEF Kept
    <3> QED
      BY <3>1, <3>3, <3>4 DEF ResultInv, Pauses, Crossing
  <2>8. CASE state' \in {"UPDATE_READ", "ROW_DONE_WAIT", "PRE_FINAL", "FINAL_REQUEST"}
    <3>1. /\ state = "ROW_END" /\ write_col_address >= control!Minus(remaining_width, 2)
      BY <1>1, <1>11, <2>8, Leads, Turns
    <3>2. write_col_address >= remaining_width - 2
      <4>1. remaining_width >= 3
        BY <1>3, PlaceNow DEF FetchInv
      <4>2. remaining_width \in Nat /\ 2 \in Nat /\ 2 <= remaining_width
        BY <1>5, <4>1
      <4>3. control!Minus(remaining_width, 2) = remaining_width - 2
        BY ONLY <4>2, Subtracts
      <4> QED
        BY <3>1, <4>3
    <3>3. wr_buffer_sel' = wr_buffer_sel /\ Base' = Base /\ RowEnd' = RowEnd
      BY <1>8, <1>9, <1>11, <2>8
    <3>4. \A x \in 0..(M - 1) : Base + x + 2 < RowEnd => x < write_col_address + 1
      BY <1>4, <1>5, <1>6, <3>2
    <3>5. Kept(wr_buffer_sel, Base, M)'
      BY <1>4, <2>4, <3>3, <3>4 DEF Kept, KeptNext
    <3> QED
      BY <2>8, <3>5 DEF ResultInv, Pauses, Crossing
  <2> QED
    BY <2>5, <2>6, <2>7, <2>8
<1>12. CASE state \in Pauses \ {"PRE_PAUSE", "PRE_PAUSE2"}
  <2>1. /\ state' \in (Pauses \ {"PRE_PAUSE", "PRE_PAUSE2"}) \cup {"CHUNK_END"}
        /\ state' = "CHUNK_END" => state = "PRE_CHUNK_END3" /\ read_col_address = M - 1
    BY <1>1, <1>12, Leads DEF Pauses
  <2>2. ~control!WrEnWrBuffer
    BY <1>12 DEF control!WrEnWrBuffer, control!Operating, Pauses
  <2>3. KeptNext(wr_buffer_sel, Base, M - 10)
    <3>1. Kept(wr_buffer_sel, Base, M - 10)
      BY <1>12 DEF ResultInv
    <3> QED
      BY <1>4, <1>7, <2>2, <3>1, KeptStays
  <2>4. wr_buffer_sel' = wr_buffer_sel /\ Base' = Base /\ RowEnd' = RowEnd
    BY <1>8, <1>9, <1>12, <2>1 DEF Pauses
  <2>5. state' = "CHUNK_END" => write_col_address' = M - 10
    <3>1. state = "PRE_CHUNK_END3" => read_col_address = write_col_address + 10 /\ write_col_address' = write_col_address + 1
      BY Flow
    <3> QED
      BY <1>4, <1>6, <2>1, <3>1
  <2>6. Kept(wr_buffer_sel, Base, M - 10)'
    BY <1>4, <2>3, <2>4 DEF Kept, KeptNext
  <2>7. state' = "CHUNK_END" => Kept(wr_buffer_sel, Base, write_col_address)'
    BY <2>5, <2>6 DEF Kept
  <2> QED
    BY <2>1, <2>6, <2>7 DEF ResultInv, Pauses, Crossing
<1>13. CASE state \in Crossing
  <2>1. \/ state = "UPDATE_BASE" /\ state' = "CHUNK_DONE"
        \/ state = "CHUNK_DONE" /\ state' = "OPERATE"
    BY <1>1, <1>13, Leads DEF Crossing, Pauses
  <2>2. control!WrEnWrBuffer /\ write_col_address' = write_col_address + 1 /\ wr_buffer_sel' = wr_buffer_sel
    BY <1>9, <1>13, <2>1, Flow DEF control!WrEnWrBuffer, control!Operating, Crossing
  <2>3. Kept(1 - wr_buffer_sel, Base, M) /\ Kept(wr_buffer_sel, Base + M, write_col_address)
    BY <1>13 DEF ResultInv
  <2>4. KeptNext(1 - wr_buffer_sel, Base, M)
    BY <1>4, <1>7, <2>3, KeptStays
  <2> DEFINE a == Base + M
  <2>5. a + write_col_address + 2 < RowEnd => mac[5] = Results(a + write_col_address, InRow)
    <3>1. Pipeline(a + write_col_address, RowBase)
      BY <1>13 DEF PipeInv
    <3> DEFINE c == a + write_col_address
    <3>2. c + 5 - 5 = c /\ c + 7 - 5 = c + 2 /\ RowBase <= c /\ c \in Nat
      BY <1>4, <1>5, <1>6
    <3> HIDE DEF c
    <3>3. 5 \in 1..5
      OBVIOUS
    <3>4. c + 2 < RowEnd => mac[5] = Results(c, InRow)
      BY <3>1, <3>2, <3>3 DEF Pipeline, c
    <3> QED
      BY <3>4 DEF c
  <2>6. KeptNext(wr_buffer_sel, a, write_col_address + 1)
    <3>1. a \in Nat /\ write_col_address \in Nat
      BY <1>4, <1>5, <1>6
    <3> HIDE DEF a
    <3> QED
      BY <1>4, <1>7, <2>2, <2>3, <2>5, <3>1, KeptGrows DEF a
  <2>7. CASE state = "UPDATE_BASE"
    <3>1. Base' = Base /\ RowEnd' = RowEnd
      BY <1>8, <2>7
    <3>2. Kept(1 - wr_buffer_sel, Base, M)' /\ Kept(wr_buffer_sel, Base + M, write_col_address)'
      BY <1>4, <2>2, <2>4, <2>6, <3>1 DEF Kept, KeptNext
    <3> QED
      BY <2>1, <2>7, <3>2 DEF ResultInv, Pauses, Crossing
  <2>8. CASE state = "CHUNK_DONE"
    <3>1. Base' = a /\ RowEnd' = RowEnd
      BY <2>8, PlaceNextChunk DEF FetchInv
    <3>2. Kept(wr_buffer_sel, Base, write_col_address)'
      BY <1>4, <2>2, <2>6, <3>1 DEF Kept, KeptNext
    <3> QED
      BY <2>1, <2>8, <3>2 DEF ResultInv, Pauses, Crossing
  <2> QED
    BY <1>13, <2>7, <2>8 DEF Crossing
<1>14. CASE state \in {"UPDATE_READ", "ROW_DONE_WAIT", "PRE_FINAL", "FINAL_REQUEST"}
  <2>1. state' \in {"UPDATE_READ", "ROW_DONE_WAIT", "PRE_FINAL", "FINAL_REQUEST"}
    BY <1>1, <1>14, Turns DEF Pauses, Crossing
  <2>2. ~control!WrEnWrBuffer
    BY <1>14 DEF control!WrEnWrBuffer, control!Operating
  <2>3. KeptNext(wr_buffer_sel, Base, M)
    <3>1. Kept(wr_buffer_sel, Base, M)
      BY <1>14 DEF ResultInv
    <3> QED
      BY <1>4, <1>7, <2>2, <3>1, KeptStays
  <2>4. wr_buffer_sel' = wr_buffer_sel /\ Base' = Base /\ RowEnd' = RowEnd
    BY <1>8, <1>9, <1>14, <2>1
  <2>5. Kept(wr_buffer_sel, Base, M)'
    BY <1>4, <2>3, <2>4 DEF Kept, KeptNext
  <2> QED
    BY <2>1, <2>5 DEF ResultInv, Pauses, Crossing
<1> QED
  BY <1>2, <1>10, <1>11, <1>12, <1>13, <1>14 DEF Pauses

-----------------------------------------------------------------------------
(* Sending a request                                                       *)

(* Remainders below and at the divisor.                                    *)
LEMMA ModSmall ==
  ASSUME NEW d \in Nat \ {0}, NEW n \in 0..(d - 1)
  PROVE  n % d = n /\ d % d = 0
OBVIOUS

(* The lines of a row of results.                                          *)
LEMMA LineRange ==
  ASSUME NEW s \in Nat, NEW n \in 1..Lines, s < n
  PROVE  /\ CL_WIDTH * s \in Nat /\ n * CL_WIDTH \in Nat /\ CL_WIDTH * s + CL_WIDTH <= n * CL_WIDTH
         /\ n * CL_WIDTH <= M /\ CL_WIDTH * (s + 1) = CL_WIDTH * s + CL_WIDTH
         /\ s + 1 < n => CL_WIDTH * s + CL_WIDTH < M
<1>1. Lines \in Nat /\ CL_WIDTH \in Nat /\ CL_WIDTH > 0 /\ M = CL_WIDTH * Lines /\ n \in Nat
  BY Sizes
<1>2. CL_WIDTH * s \in Nat /\ n * CL_WIDTH = CL_WIDTH * n /\ CL_WIDTH * n \in Nat /\ CL_WIDTH * (s + 1) = CL_WIDTH * s + CL_WIDTH
      /\ CL_WIDTH * (s + 2) = CL_WIDTH * (s + 1) + CL_WIDTH /\ CL_WIDTH * (s + 1) \in Nat
  BY <1>1
<1>3. CL_WIDTH * (s + 1) <= CL_WIDTH * n
  BY <1>1
<1>4. CL_WIDTH * n <= CL_WIDTH * Lines
  BY <1>1
<1>5. s + 1 < n => CL_WIDTH * (s + 2) <= CL_WIDTH * n
  BY <1>1
<1> DEFINE p == CL_WIDTH * s
           q == CL_WIDTH * n
           r == CL_WIDTH * (s + 2)
           t == CL_WIDTH * (s + 1)
<1>6. p \in Nat /\ q \in Nat /\ t = p + CL_WIDTH /\ r = t + CL_WIDTH /\ t <= q /\ q <= M /\ (s + 1 < n => r <= q)
  BY <1>1, <1>2, <1>3, <1>4, <1>5
<1>7. p + CL_WIDTH <= q /\ (s + 1 < n => p + CL_WIDTH < M) /\ M \in Nat
  <2> HIDE DEF p, q, r, t
  <2> QED
    BY <1>1, <1>6, Sizes
<1> QED
  BY <1>1, <1>2, <1>6, <1>7

(* A whole number of lines is sent as just so many.                        *)
LEMMA LinesOf ==
  ASSUME NEW w \in Nat, Whole(w), w > 0, w <= M
  PROVE  LET n == (w + CL_WIDTH - 1) \div CL_WIDTH
         IN  n \in 1..Lines /\ n * CL_WIDTH = w
<1>1. Lines \in Nat /\ CL_WIDTH \in Nat \ {0} /\ M = CL_WIDTH * Lines
  BY Sizes
<1>2. PICK q \in 0..w : w = q * CL_WIDTH
  BY DEF Whole
<1>3. (CL_WIDTH * q + (CL_WIDTH - 1)) \div CL_WIDTH = q
  BY <1>1, DivUnique
<1>4. w + CL_WIDTH - 1 = CL_WIDTH * q + (CL_WIDTH - 1)
  BY <1>1, <1>2
<1>5. q # 0 /\ q <= Lines
  <2>1. q > Lines => q * CL_WIDTH > CL_WIDTH * Lines
    BY <1>1
  <2> QED
    BY <1>1, <1>2, <2>1
<1>6. q \in 1..Lines
  BY <1>1, <1>2, <1>5
<1> QED
  BY <1>2, <1>3, <1>4, <1>6

(* The rows of results go out one after the other.                         *)
LEMMA SendsStep ==
  ASSUME NEW delay \in BOOLEAN, Step(delay), FetchInv, WriteShape, SendInv,
         r_state \in Sending, r_state' \in Sending, NEW i \in Nat, NEW k \in Nat, Sends(i, k)
  PROVE  /\ Sends(i, k)'
         /\ rd_row' \in buffers!ResultRow
         /\ r_state' # "START_WRITE_REQUEST" => rd_row' = rd_row
         /\ request_size' = request_size /\ cap_height' = cap_height
         /\ image' = image /\ InRow' = InRow /\ OutRow' = OutRow
         /\ wr_buffer_sel' = wr_buffer_sel
         /\ \A x \in 0..(M - 1) : wb'[1 - wr_buffer_sel][x] = wb[1 - wr_buffer_sel][x]
         /\ wb_out'[1 - wr_buffer_sel] = wb[1 - wr_buffer_sel][rd_col]
         /\ last_read_sel'[1 - wr_buffer_sel] = rd_row
         /\ last_wr_buffer_sel' = wr_buffer_sel
         /\ RowAt' = IF r_state' = "UPDATE_WRITE_ADDRESS" THEN rd_row + 1 ELSE RowAt
<1>1. /\ requests!NextState(ReqIf, dram_ready, request_done)
      /\ requests!Capture(ReqIf) /\ requests!Address(ReqIf) /\ requests!Rows
  BY Edge
<1>2. r_state # "IDLE"
  BY DEF Sending
<1>3. state \notin Quiet /\ state # "IDLE" /\ wr_buffer_sel' = wr_buffer_sel
  BY <1>2, UnderWay DEF FetchInv, Quiet
<1>4. /\ buffers!Clock(BufferIn) /\ image' = image /\ InRow' = InRow /\ OutRow' = OutRow
      /\ OutRow \in Nat /\ InRow \in Nat /\ image.result_address \in Nat /\ control!ResultWidth = OutRow
  BY <1>3, Still, Alike DEF FetchInv
<1>5. /\ 1 - wr_buffer_sel \in buffers!Bank /\ wr_buffer_sel # 1 - wr_buffer_sel
  BY DEF FetchInv, SelectInv, buffers!Bank
<1>6. /\ \A x \in 0..(M - 1) : wb'[1 - wr_buffer_sel][x] = wb[1 - wr_buffer_sel][x]
      /\ wb_out'[1 - wr_buffer_sel] = wb[1 - wr_buffer_sel][rd_col]
      /\ last_read_sel'[1 - wr_buffer_sel] = rd_row
      /\ last_wr_buffer_sel' = wr_buffer_sel
  <2> DEFINE b == 1 - wr_buffer_sel
  <2>1. buffers!WriteBanks(BufferIn) /\ last_wr_buffer_sel' = wr_buffer_sel
    BY <1>4 DEF buffers!Clock, BufferIn
  <2>2. b \in buffers!Bank /\ ~(control!WrEnWrBuffer /\ wr_buffer_sel = b)
    BY <1>5
  <2> HIDE DEF b
  <2>3. (\A x \in 0..(M - 1) : wb'[b][x] = wb[b][x]) /\ wb_out'[b] = wb[b][rd_col] /\ last_read_sel'[b] = rd_row
    BY <2>1, <2>2, WriteBanksStep
  <2> QED
    BY <2>1, <2>3 DEF b
<1>7. request_size' = request_size /\ cap_height' = cap_height
  BY <1>1, <1>2 DEF requests!Capture, requests!captured
<1>8. /\ COL_WIDTH \in Nat /\ COL_WIDTH > 2 /\ rd_row \in buffers!ResultRow
      /\ cap_height \in 1..(COL_WIDTH - 2) /\ RowAt < cap_height
      /\ r_state = "SAVE_WRITE_ADDR" => rd_row = COL_WIDTH - 3
  BY Sizes DEF SendInv, Sends
<1>9. /\ r_state' # "START_WRITE_REQUEST" => rd_row' = rd_row
      /\ r_state' = "START_WRITE_REQUEST" =>
           rd_row' = IF r_state = "SAVE_WRITE_ADDR" THEN 0 ELSE rd_row + 1
  <2>1. /\ r_state' = "START_WRITE_REQUEST" => rd_row' = (rd_row + 1) % (COL_WIDTH - 2)
        /\ r_state' # "START_WRITE_REQUEST" => rd_row' = rd_row
    <3>1. r_state' # "IDLE"
      BY DEF Sending
    <3> QED
      BY <1>1, <3>1 DEF requests!Rows
  <2>2. ASSUME r_state' = "START_WRITE_REQUEST"
        PROVE  (rd_row + 1) % (COL_WIDTH - 2) = IF r_state = "SAVE_WRITE_ADDR" THEN 0 ELSE rd_row + 1
    <3>1. r_state \in {"SAVE_WRITE_ADDR", "UPDATE_WRITE_ADDRESS"}
      BY <1>1, <2>2, Proceeds DEF Sending
    <3>2. CASE r_state = "SAVE_WRITE_ADDR"
      <4>1. rd_row + 1 = COL_WIDTH - 2 /\ COL_WIDTH - 2 \in Nat \ {0} /\ 0 \in 0..((COL_WIDTH - 2) - 1)
        BY <1>8, <3>2
      <4>2. (COL_WIDTH - 2) % (COL_WIDTH - 2) = 0
        BY ONLY <4>1, ModSmall
      <4> QED
        BY <3>2, <4>1, <4>2
    <3>3. CASE r_state = "UPDATE_WRITE_ADDRESS"
      <4>1. rd_row + 1 \in 0..((COL_WIDTH - 2) - 1) /\ COL_WIDTH - 2 \in Nat \ {0}
        BY <1>8, <3>3 DEF RowAt, buffers!ResultRow
      <4>2. (rd_row + 1) % (COL_WIDTH - 2) = rd_row + 1
        BY ONLY <4>1, ModSmall
      <4> QED
        BY <3>3, <4>2
    <3> QED
      BY <3>1, <3>2, <3>3
  <2> QED
    BY <2>1, <2>2
<1>10. RowAt' = IF r_state' = "UPDATE_WRITE_ADDRESS" THEN rd_row + 1 ELSE RowAt
  <2>1. CASE r_state' = "START_WRITE_REQUEST"
    <3>1. r_state \in {"SAVE_WRITE_ADDR", "UPDATE_WRITE_ADDRESS"}
      BY <1>1, <2>1, Proceeds DEF Sending
    <3> QED
      BY <1>9, <2>1, <3>1 DEF RowAt
  <2>2. CASE r_state' # "START_WRITE_REQUEST"
    <3>1. r_state \notin {"SAVE_WRITE_ADDR", "UPDATE_WRITE_ADDRESS"} /\ r_state' # "SAVE_WRITE_ADDR"
      BY <1>1, <2>2, Proceeds DEF Sending
    <3> QED
      BY <1>9, <2>2, <3>1 DEF RowAt
  <2> QED
    BY <2>1, <2>2
<1>11. rd_row' \in buffers!ResultRow
  <2>1. r_state' = "START_WRITE_REQUEST" => r_state = "SAVE_WRITE_ADDR" \/ RowAt = rd_row + 1
    BY <1>1, Proceeds DEF Sending, RowAt
  <2> QED
    BY <1>8, <1>9, <2>1 DEF buffers!ResultRow
<1>12. RowAt' < cap_height
  <2>1. r_state' = "UPDATE_WRITE_ADDRESS" => r_state = "WAIT_WRITE_DONE" /\ rd_row # cap_height - 1
    BY <1>1, Proceeds DEF Sending
  <2>2. r_state = "WAIT_WRITE_DONE" => RowAt = rd_row
    BY DEF RowAt
  <2> QED
    BY <1>8, <1>10, <2>1, <2>2 DEF buffers!ResultRow
<1>13. address' = image.result_address + (i + RowAt') * OutRow + k
  <2>1. address = image.result_address + (i + RowAt) * OutRow + k
    BY DEF Sends
  <2>2. CASE r_state' = "UPDATE_WRITE_ADDRESS"
    <3>1. r_state = "WAIT_WRITE_DONE"
      BY <1>1, <2>2, Proceeds DEF Sending
    <3>2. RowAt = rd_row /\ rd_row \in Nat
      BY <1>8, <3>1 DEF RowAt, buffers!ResultRow
    <3>3. address' = address + OutRow
      BY <1>1, <1>4, <2>2 DEF requests!Address, ReqIf
    <3>4. (i + (rd_row + 1)) * OutRow = (i + rd_row) * OutRow + OutRow /\ (i + rd_row) * OutRow \in Nat
      BY <1>4, <3>2
    <3> DEFINE p == (i + rd_row) * OutRow
    <3>5. address = image.result_address + p + k /\ p \in Nat
      BY <2>1, <3>2, <3>4
    <3>6. address' = image.result_address + (p + OutRow) + k
      <4> HIDE DEF p
      <4> QED
        BY <1>4, <3>3, <3>5
    <3> QED
      BY <1>10, <2>2, <3>4, <3>6
  <2>3. CASE r_state' # "UPDATE_WRITE_ADDRESS"
    <3>1. address' = address
      <4>1. r_state' # "SAVE_WRITE_ADDR"
        BY <1>1, Proceeds DEF Sending
      <4> QED
        BY <1>1, <2>3, <4>1 DEF requests!Address, Sending
    <3> QED
      BY <1>10, <2>1, <2>3, <3>1
  <2> QED
    BY <2>2, <2>3
<1>14. \A x \in 0..(request_size * CL_WIDTH - 1) :
         wb'[1 - wr_buffer_sel][x] = Results(image.start_address + i * InRow + k + x, InRow)
  <2>1. request_size \in 1..Lines /\ 0 \in Nat /\ Lines \in Nat
    BY Sizes DEF Sends
  <2>2. request_size * CL_WIDTH <= M /\ request_size * CL_WIDTH \in Nat /\ M \in Nat
    <3>1. 0 < request_size
      BY <2>1
    <3> QED
      BY <2>1, <3>1, LineRange, Sizes
  <2>3. \A x \in 0..(request_size * CL_WIDTH - 1) : x \in 0..(M - 1)
    BY <2>2
  <2> QED
    BY <1>6, <2>3 DEF Sends
<1>15. Sends(i, k)'
  BY <1>3, <1>4, <1>7, <1>12, <1>13, <1>14 DEF Sends
<1> QED
  BY <1>3, <1>4, <1>6, <1>7, <1>9, <1>10, <1>11, <1>15

(* What the request controller captures with a write.                      *)
LEMMA Captures ==
  ASSUME NEW delay \in BOOLEAN, Step(delay), FetchInv, r_state = "IDLE", r_state' = "SAVE_WRITE_ADDR"
  PROVE  /\ state \in {"CHUNK_DONE", "ROW_DONE_WAIT", "FINAL_REQUEST"}
         /\ cap_height' \in 1..(COL_WIDTH - 2) /\ Top + cap_height' <= image.image_height
         /\ cap_height' = COL_WIDTH - 2 \/ Top + cap_height' = image.image_height
         /\ request_size' \in 1..Lines
         /\ request_size' * CL_WIDTH = IF state = "CHUNK_DONE" THEN M ELSE remaining_width - 2
         /\ state = "CHUNK_DONE" <=> remaining_width > M
         /\ state = "CHUNK_DONE" => remaining_width > M + 2
         /\ address' = image.result_address + Top * OutRow + Left
         /\ rd_row' = COL_WIDTH - 3 /\ rd_row' \in buffers!ResultRow
         /\ cap_read' = control!Read
         /\ wr_buffer_sel' = IF state = "CHUNK_DONE" THEN wr_buffer_sel ELSE 1 - wr_buffer_sel
<1>0. Sequence /\ control!BankSelects
  BY StepSequence, Edge DEF FetchInv
<1>1. /\ requests!NextState(ReqIf, dram_ready, request_done)
      /\ requests!Capture(ReqIf) /\ requests!Address(ReqIf) /\ requests!Rows
  BY Edge
<1>2. state \in {"CHUNK_DONE", "ROW_DONE_WAIT", "FINAL_REQUEST"}
  BY <1>1, Proceeds DEF control!Write
<1>3. state \notin Early /\ state # "IDLE"
  BY <1>2 DEF Early, Quiet
<1>4. /\ COL_WIDTH \in Nat /\ COL_WIDTH > 2 /\ M \in Nat /\ M > 18 /\ Lines \in Nat /\ CL_WIDTH \in Nat
      /\ image.image_height \in Nat /\ InRow \in Nat
  BY <1>3, Sizes, Alike, PlaceNow DEF FetchInv
<1>5. /\ remaining_width \in Nat /\ remaining_width >= 3
      /\ remaining_width < M - 6 \/ remaining_width > M + 2
      /\ Top \in Nat /\ Top < image.image_height /\ Top = image.image_height + 2 - remaining_height
      /\ remaining_height \in 3..(image.image_height + 2)
      /\ Whole(remaining_width - 2)
      /\ state = "CHUNK_DONE" => remaining_width > M
      /\ state # "CHUNK_DONE" => remaining_width < M
  <2>1. /\ remaining_height \in 3..(image.image_height + 2) /\ Whole(remaining_width - 2)
        /\ state = "CHUNK_DONE" => remaining_width > M
        /\ state # "CHUNK_DONE" => remaining_width < M
    BY <1>2, <1>3 DEF FetchInv, Geometry, Crossing, NextRow, Final
  <2>2. /\ remaining_width \in Nat /\ remaining_width >= 3
        /\ remaining_width < M - 6 \/ remaining_width > M + 2
        /\ Top \in Nat /\ Top < image.image_height /\ Top = image.image_height + 2 - remaining_height
    BY <1>3, PlaceNow DEF FetchInv
  <2> QED
    BY <2>1, <2>2
<1>6. /\ cap_read' = control!Read
      /\ cap_height' = control!Height
      /\ request_size' = (control!Width + CL_WIDTH - 1) \div CL_WIDTH
      /\ address' = write_address
      /\ rd_row' = rd_row
  <2>1. control!Write
    BY <1>2 DEF control!Write
  <2> QED
    BY <1>1, <2>1 DEF requests!Capture, requests!Address, requests!Rows, ReqIf
<1>7. rd_row = COL_WIDTH - 3
  BY <1>3 DEF FetchInv, FillInv
<1>8. address' = image.result_address + Top * OutRow + Left
  BY <1>3, <1>6 DEF FetchInv, AddressInv
<1>9. /\ cap_height' \in 1..(COL_WIDTH - 2) /\ Top + cap_height' <= image.image_height
      /\ cap_height' = COL_WIDTH - 2 \/ Top + cap_height' = image.image_height
  <2>1. remaining_height \in Nat /\ 2 \in Nat /\ 2 <= remaining_height
    BY <1>4, <1>5
  <2>2. control!Minus(remaining_height, 2) = remaining_height - 2
    BY ONLY <2>1, Subtracts
  <2>3. control!Height = IF COL_WIDTH > remaining_height THEN remaining_height - 2 ELSE COL_WIDTH - 2
    BY <2>2 DEF control!Height
  <2> QED
    BY <1>4, <1>5, <1>6, <2>1, <2>3
<1>10. /\ control!Width = IF state = "CHUNK_DONE" THEN M ELSE remaining_width - 2
       /\ state = "CHUNK_DONE" => remaining_width > M + 2
  <2>1. remaining_width \in Nat /\ 2 \in Nat /\ 2 <= remaining_width
    BY <1>5
  <2>2. control!Minus(remaining_width, 2) = remaining_width - 2
    BY ONLY <2>1, Subtracts
  <2>3. control!Width = IF M > remaining_width - 2 THEN remaining_width - 2 ELSE M
    BY <2>2 DEF control!Width, M
  <2> QED
    BY <1>4, <1>5, <2>3
<1>11. /\ request_size' \in 1..Lines
       /\ request_size' * CL_WIDTH = IF state = "CHUNK_DONE" THEN M ELSE remaining_width - 2
  <2> DEFINE w == IF state = "CHUNK_DONE" THEN M ELSE remaining_width - 2
  <2>1. w \in Nat /\ w > 0 /\ w <= M
    BY <1>4, <1>5
  <2>2. Whole(w)
    BY <1>5, WholeBuffer
  <2>3. request_size' = (w + CL_WIDTH - 1) \div CL_WIDTH
    BY <1>6, <1>10
  <2> HIDE DEF w
  <2>4. request_size' \in 1..Lines /\ request_size' * CL_WIDTH = w
    BY <2>1, <2>2, <2>3, LinesOf
  <2> QED
    BY <2>4 DEF w
<1>12. wr_buffer_sel' = IF state = "CHUNK_DONE" THEN wr_buffer_sel ELSE 1 - wr_buffer_sel
  <2>1. /\ state = "CHUNK_DONE" => state' \in {"WAIT_FINAL", "OPERATE"}
        /\ state = "ROW_DONE_WAIT" => state' = "UPDATE_WRITE"
        /\ state = "FINAL_REQUEST" => state' = "FINAL_FLIP"
    BY <1>0, Turns, Leads DEF Making
  <2> QED
    BY <1>0, <1>2, <2>1 DEF control!BankSelects
<1>13. rd_row' \in buffers!ResultRow
  BY <1>4, <1>6, <1>7 DEF buffers!ResultRow
<1> QED
  BY <1>2, <1>4, <1>5, <1>6, <1>7, <1>8, <1>9, <1>10, <1>11, <1>12, <1>13

(* A new write request is for results that the bank holds.                 *)
LEMMA SendCapture ==
  ASSUME NEW delay \in BOOLEAN, Step(delay), FetchInv, WriteShape, ResultInv,
         r_state = "IDLE", r_state' = "SAVE_WRITE_ADDR"
  PROVE  SendInv'
<1>1. /\ state \in {"CHUNK_DONE", "ROW_DONE_WAIT", "FINAL_REQUEST"}
      /\ cap_height' \in 1..(COL_WIDTH - 2) /\ Top + cap_height' <= image.image_height
      /\ request_size' \in 1..Lines
      /\ request_size' * CL_WIDTH = IF state = "CHUNK_DONE" THEN M ELSE remaining_width - 2
      /\ state = "CHUNK_DONE" => remaining_width > M + 2
      /\ state = "CHUNK_DONE" <=> remaining_width > M
      /\ address' = image.result_address + Top * OutRow + Left
      /\ rd_row' = COL_WIDTH - 3 /\ rd_row' \in buffers!ResultRow
      /\ wr_buffer_sel' = IF state = "CHUNK_DONE" THEN wr_buffer_sel ELSE 1 - wr_buffer_sel
  BY Captures
<1>2. state \notin Early /\ state # "IDLE" /\ state \notin Quiet
  BY <1>1 DEF Early, Quiet
<1>3. /\ buffers!Clock(BufferIn) /\ image' = image /\ InRow' = InRow /\ OutRow' = OutRow
      /\ OutRow \in Nat /\ InRow \in Nat /\ OutRow + 2 = InRow /\ Whole(OutRow)
      /\ image.result_address \in Nat /\ image.start_address \in Nat /\ image.image_height \in Nat
  BY <1>2, Still, Alike DEF FetchInv
<1>4. /\ M \in Nat /\ CL_WIDTH \in Nat /\ Lines \in Nat /\ COL_WIDTH \in Nat /\ COL_WIDTH > 2
  BY Sizes
<1>5. /\ Top \in Nat /\ Left \in Nat /\ Left + remaining_width = InRow
      /\ RowEnd = Base + remaining_width /\ Base \in Nat
      /\ Base = image.start_address + Top * InRow + Left
      /\ remaining_width \in Nat /\ remaining_width >= 3
  BY <1>2, PlaceNow DEF FetchInv, Base, RowBase
<1>6. Whole(Left)
  <2> DEFINE n == remaining_width - 2
  <2>1. Whole(n)
    BY <1>2 DEF FetchInv, Geometry
  <2>2. n \in Nat /\ n <= OutRow /\ OutRow - n = Left
    BY <1>3, <1>5
  <2> HIDE DEF n
  <2>3. Whole(OutRow - n)
    BY <1>3, <2>1, <2>2, WholeMinus
  <2> QED
    BY <2>2, <2>3
<1> DEFINE w == request_size' * CL_WIDTH
<1>7. w \in Nat /\ w <= M /\ w + 2 <= remaining_width
  <2>1. w = IF state = "CHUNK_DONE" THEN M ELSE remaining_width - 2
    BY <1>1
  <2>2. /\ state = "CHUNK_DONE" => remaining_width > M + 2
        /\ state = "CHUNK_DONE" <=> remaining_width > M
    BY <1>1
  <2> HIDE DEF w
  <2> QED
    BY <1>4, <1>5, <2>1, <2>2
<1>8. \A x \in 0..(w - 1) :
        wb'[1 - wr_buffer_sel'][x] = Results(image.start_address + Top * InRow + Left + x, InRow)
  <2> DEFINE b == IF state = "CHUNK_DONE" THEN 1 - wr_buffer_sel ELSE wr_buffer_sel
  <2>1. wr_buffer_sel \in {0, 1}
    BY DEF FetchInv, SelectInv
  <2>2. b \in buffers!Bank /\ 1 - wr_buffer_sel' = b
    BY <1>1, <2>1 DEF buffers!Bank
  <2>3. ~(control!WrEnWrBuffer /\ wr_buffer_sel = b)
    BY <1>1, <2>1 DEF control!WrEnWrBuffer, control!Operating
  <2>4. Kept(b, Base, M)
    BY <1>1 DEF ResultInv, Crossing
  <2> HIDE DEF b, w
  <2>5. KeptNext(b, Base, M)
    BY <1>3, <2>2, <2>3, <2>4, KeptStays
  <2>6. ASSUME NEW x \in 0..(w - 1)
        PROVE  x \in 0..(M - 1) /\ x < M /\ Base + x + 2 < RowEnd
    BY <1>4, <1>5, <1>7
  <2> QED
    BY <1>5, <2>2, <2>5, <2>6 DEF KeptNext
<1>9. PICK i \in Nat : i = Top
  BY <1>5
<1>10. PICK k \in Nat : k = Left
  BY <1>5
<1>11. RowAt' = 0
  BY DEF RowAt
<1>12. address' = image.result_address + (i + 0) * OutRow + k
  BY <1>1, <1>9, <1>10
<1>13. k + w <= OutRow
  BY <1>3, <1>5, <1>7, <1>10
<1>14. Sends(i, k)'
  BY <1>1, <1>3, <1>6, <1>8, <1>9, <1>10, <1>11, <1>12, <1>13 DEF Sends
<1>15. i \in 0..image'.image_height /\ k \in 0..OutRow'
  <2>1. i <= image.image_height /\ k <= OutRow
    <3> HIDE DEF w
    <3> QED
      BY <1>1, <1>3, <1>5, <1>7, <1>9, <1>13
  <2> QED
    BY <1>3, <2>1
<1> QED
  BY <1>1, <1>14, <1>15 DEF SendInv, Loading, Loaded

(* The registers that move with the line sent.                             *)
LEMMA Loads ==
  ASSUME NEW delay \in BOOLEAN, Step(delay), r_state \in Sending, r_state' \in Sending
  PROVE  /\ r_state' = "START_WRITE_REQUEST" => rd_col' = 0 /\ load_count' = 0 /\ sent_lines' = 0
         /\ r_state' \in Loading => rd_col' = (rd_col + 1) % M /\ load_count' = load_count + 1
         /\ r_state' \in Loaded \cup {"WAIT_WRITE_DONE"} =>
              /\ rd_col' = rd_col
              /\ load_count' = IF r_state' = "LAST_SHIFT" THEN 0 ELSE load_count
         /\ r_state' # "START_WRITE_REQUEST" =>
              sent_lines' = IF r_state' = "SEND_WRITE_CL" THEN sent_lines + 1 ELSE sent_lines
         /\ r_state' \in {"LOAD_WRITE_DATA", "LAST_SHIFT"} =>
              write_data' = requests!Shifted(buffers!RequestDataOut)
         /\ r_state' \in {"FIRST_LOAD", "WAIT_DRAM_READY_WRITE", "SEND_WRITE_CL"} =>
              write_data' = write_data
<1>1. requests!Columns /\ requests!Counts /\ requests!Data(read_data, buffers!RequestDataOut)
  BY Edge
<1>2. r_state' # "START_READ_REQUEST" /\ r_state' # "FPU_READY" /\ r_state' # "GET_CL"
      /\ r_state' # "SAVE_DATA" /\ r_state' # "SAVE_END"
  BY DEF Sending
<1>3. /\ r_state' = "START_WRITE_REQUEST" => rd_col' = 0
      /\ r_state' \in Loading => rd_col' = (rd_col + 1) % M
      /\ r_state' \in Loaded \cup {"WAIT_WRITE_DONE"} => rd_col' = rd_col
  BY <1>1 DEF requests!Columns, Loading, Loaded, M
<1>4. /\ r_state' = "START_WRITE_REQUEST" => load_count' = 0
      /\ r_state' \in Loading => load_count' = load_count + 1
      /\ r_state' \in Loaded \cup {"WAIT_WRITE_DONE"} =>
           load_count' = IF r_state' = "LAST_SHIFT" THEN 0 ELSE load_count
  BY <1>1 DEF requests!Counts, Loading, Loaded
<1>5. /\ r_state' = "START_WRITE_REQUEST" => sent_lines' = 0
      /\ r_state' # "START_WRITE_REQUEST" =>
           sent_lines' = IF r_state' = "SEND_WRITE_CL" THEN sent_lines + 1 ELSE sent_lines
  BY <1>1, <1>2 DEF requests!Counts, requests!Request
<1>6. /\ r_state' \in {"LOAD_WRITE_DATA", "LAST_SHIFT"} =>
           write_data' = requests!Shifted(buffers!RequestDataOut)
      /\ r_state' \in {"FIRST_LOAD", "WAIT_DRAM_READY_WRITE", "SEND_WRITE_CL"} =>
           write_data' = write_data
  BY <1>1 DEF requests!Data
<1> QED
  BY <1>3, <1>4, <1>5, <1>6

(* The columns of the line after a shift.                                  *)
LEMMA ShiftedAt ==
  ASSUME NEW column, NEW j \in 1..CL_WIDTH
  PROVE  requests!Shifted(column)[j] = IF j = CL_WIDTH THEN column ELSE write_data[j + 1]
BY DEF requests!Shifted

(* A column more of the line is shifted in.                                *)
LEMMA ShiftsIn ==
  ASSUME NEW f \in Nat, NEW c \in 1..CL_WIDTH, NEW column,
         column = Cell(f + c - 1),
         \A j \in 1..(c - 1) : write_data[CL_WIDTH - c + 1 + j] = Cell(f + j - 1)
  PROVE  \A j \in 1..c : requests!Shifted(column)[CL_WIDTH - c + j] = Cell(f + j - 1)
<1> SUFFICES ASSUME NEW j \in 1..c
             PROVE  requests!Shifted(column)[CL_WIDTH - c + j] = Cell(f + j - 1)
  OBVIOUS
<1>0. CL_WIDTH \in Nat /\ CL_WIDTH > 0
  BY Sizes
<1> DEFINE n == CL_WIDTH - c + j
<1>1. /\ n \in 1..CL_WIDTH /\ n + 1 = CL_WIDTH - c + 1 + j
      /\ n = CL_WIDTH <=> j = c
      /\ j # c => j \in 1..(c - 1)
  BY <1>0
<1> HIDE DEF n
<1>2. requests!Shifted(column)[n] = IF j = c THEN column ELSE write_data[n + 1]
  BY <1>1, ShiftedAt
<1>3. requests!Shifted(column)[n] = Cell(f + j - 1)
  BY <1>1, <1>2
<1> QED
  BY <1>3 DEF n

(* A write request under way keeps SendInv: the line is shifted in column  *)
(* by column, row after row.                                               *)
LEMMA SendStep ==
  ASSUME NEW delay \in BOOLEAN, Step(delay), FetchInv, WriteShape, SendInv,
         r_state \in Sending, r_state' \in Sending
  PROVE  SendInv'
<1> DEFINE b == 1 - wr_buffer_sel
<1>1. requests!NextState(ReqIf, dram_ready, request_done)
  BY Edge
<1>2. PICK i \in 0..image.image_height, k \in 0..OutRow : Sends(i, k)
  BY DEF SendInv
<1>3. /\ image.image_height \in Nat /\ OutRow \in Nat /\ i \in Nat /\ k \in Nat
  <2>1. r_state # "IDLE"
    BY DEF Sending
  <2>2. state \notin Quiet
    BY <2>1, UnderWay DEF FetchInv
  <2> QED
    BY <2>2, Alike DEF FetchInv
<1>4. /\ Sends(i, k)' /\ rd_row' \in buffers!ResultRow
      /\ r_state' # "START_WRITE_REQUEST" => rd_row' = rd_row
      /\ request_size' = request_size
      /\ image' = image /\ OutRow' = OutRow
      /\ wr_buffer_sel' = wr_buffer_sel
      /\ \A x \in 0..(M - 1) : wb'[b][x] = wb[b][x]
      /\ wb_out'[b] = wb[b][rd_col]
      /\ last_read_sel'[b] = rd_row
      /\ last_wr_buffer_sel' = wr_buffer_sel
  BY <1>2, <1>3, SendsStep
<1>5. /\ \E n \in 0..image'.image_height, l \in 0..OutRow' : Sends(n, l)'
      /\ rd_row' \in buffers!ResultRow
  BY <1>2, <1>4
<1>6. /\ request_size \in 1..Lines /\ Lines \in Nat /\ M \in Nat /\ M > 18
      /\ CL_WIDTH \in Nat /\ CL_WIDTH > 1
  <2>1. request_size \in 1..Lines
    BY <1>2 DEF Sends
  <2>2. /\ Lines \in Nat /\ M \in Nat /\ M > 18 /\ CL_WIDTH \in Nat /\ CL_WIDTH > 0
        /\ WORD \in Nat /\ WORD > 0 /\ LineWords \in Nat /\ LineWords > 1 /\ CL_WIDTH = WORD * LineWords
    BY Sizes
  <2>3. WORD * LineWords > 1
    BY <2>2
  <2> QED
    BY <2>1, <2>2, <2>3
<1>7. r_state \in Loading \cup Loaded \cup {"WAIT_WRITE_DONE"} => SentLines \in Nat
  BY DEF FetchInv, MemoryInv, WriteMemory
<1>8. /\ r_state' # "SAVE_WRITE_ADDR"
      /\ r_state' = "FIRST_LOAD" =>
           r_state = "START_WRITE_REQUEST" \/ (r_state = "SEND_WRITE_CL" /\ sent_lines # request_size)
      /\ r_state' = "LOAD_WRITE_DATA" =>
           r_state = "FIRST_LOAD" \/ (r_state = "LOAD_WRITE_DATA" /\ load_count # CL_WIDTH)
      /\ r_state' = "LAST_SHIFT" => r_state = "LOAD_WRITE_DATA" /\ load_count = CL_WIDTH
      /\ r_state' = "WAIT_DRAM_READY_WRITE" => r_state \in {"LAST_SHIFT", "WAIT_DRAM_READY_WRITE"}
      /\ r_state' = "SEND_WRITE_CL" => r_state = "WAIT_DRAM_READY_WRITE"
      /\ r_state' = "WAIT_WRITE_DONE" =>
           r_state = "WAIT_WRITE_DONE" \/ (r_state = "SEND_WRITE_CL" /\ sent_lines = request_size)
  BY <1>1, Proceeds DEF Sending
<1>9. /\ r_state' = "START_WRITE_REQUEST" => rd_col' = 0 /\ load_count' = 0 /\ sent_lines' = 0
      /\ r_state' \in Loading => rd_col' = (rd_col + 1) % M /\ load_count' = load_count + 1
      /\ r_state' \in Loaded \cup {"WAIT_WRITE_DONE"} =>
           /\ rd_col' = rd_col
           /\ load_count' = IF r_state' = "LAST_SHIFT" THEN 0 ELSE load_count
      /\ r_state' # "START_WRITE_REQUEST" =>
           sent_lines' = IF r_state' = "SEND_WRITE_CL" THEN sent_lines + 1 ELSE sent_lines
      /\ r_state' \in {"LOAD_WRITE_DATA", "LAST_SHIFT"} =>
           write_data' = requests!Shifted(buffers!RequestDataOut)
      /\ r_state' \in {"FIRST_LOAD", "WAIT_DRAM_READY_WRITE", "SEND_WRITE_CL"} =>
           write_data' = write_data
  BY Loads
<1> HIDE DEF b
<1>10. CASE r_state' = "START_WRITE_REQUEST"
  BY <1>5, <1>9, <1>10 DEF SendInv, Loading, Loaded
<1>11. CASE r_state' = "UPDATE_WRITE_ADDRESS"
  BY <1>5, <1>11 DEF SendInv, Loading, Loaded
<1>12. CASE r_state' = "WAIT_WRITE_DONE"
  <2>1. sent_lines' = request_size'
    BY <1>4, <1>8, <1>9, <1>12 DEF SendInv
  <2> QED
    BY <1>5, <1>12, <2>1 DEF SendInv, Loading, Loaded
<1>13. CASE r_state' = "FIRST_LOAD"
  <2>1. PICK s \in Nat : s = IF r_state = "START_WRITE_REQUEST" THEN 0 ELSE SentLines + 1
    BY <1>7, <1>8, <1>13 DEF Loaded
  <2>2. /\ s < request_size /\ load_count = 0 /\ rd_col = CL_WIDTH * s /\ sent_lines = s
        /\ CL_WIDTH * s \in 0..(M - 1)
    <3>1. CASE r_state = "START_WRITE_REQUEST"
      <4>1. rd_col = 0 /\ load_count = 0 /\ sent_lines = 0 /\ s = 0
        BY <2>1, <3>1 DEF SendInv, Sending
      <4> QED
        BY <1>6, <4>1
    <3>2. CASE r_state = "SEND_WRITE_CL" /\ sent_lines # request_size
      <4>1. /\ SentLines < request_size /\ load_count = 0 /\ rd_col = (CL_WIDTH * SentLines + CL_WIDTH) % M
            /\ SentLines = sent_lines - 1 /\ SentLines \in Nat
        BY <1>7, <3>2 DEF SendInv, Sending, Loaded, FirstColumn, SentLines
      <4>2. PICK r \in Nat : r = SentLines
        BY <4>1
      <4>3. sent_lines \in Nat
        BY DEF FetchInv, MemoryInv
      <4>4. s = r + 1 /\ sent_lines = s /\ s < request_size /\ r < request_size
        <5>1. s = r + 1
          BY <2>1, <3>2, <4>2
        <5> QED
          BY <1>6, <3>2, <4>1, <4>2, <4>3, <5>1
      <4>5. CL_WIDTH * r + CL_WIDTH < M /\ CL_WIDTH * (r + 1) = CL_WIDTH * r + CL_WIDTH /\ CL_WIDTH * r \in Nat
        BY <1>6, <4>4, LineRange
      <4> DEFINE p == CL_WIDTH * r
      <4>6. p + CL_WIDTH \in 0..(M - 1) /\ M \in Nat \ {0}
        <5> HIDE DEF p
        <5> QED
          BY <1>6, <4>5 DEF p
      <4>7. (p + CL_WIDTH) % M = p + CL_WIDTH
        BY <4>6, ModSmall
      <4> QED
        BY <4>1, <4>2, <4>4, <4>5, <4>6, <4>7
    <3> QED
      BY <1>8, <1>13, <3>1, <3>2
  <2>3. SentLines' = s /\ FirstColumn' = CL_WIDTH * s
    BY <1>9, <1>13, <2>2 DEF SentLines, FirstColumn
  <2> DEFINE f == CL_WIDTH * s
  <2>4. /\ load_count' = 1 /\ rd_col' = (f + 1) % M
    BY <1>9, <1>13, <2>2 DEF Loading
  <2>5. f \in 0..(M - 1) /\ f + 1 - 1 = f /\ wb_out'[b] = wb[b][f] /\ rd_row' = rd_row
    BY <1>4, <1>13, <2>2
  <2>6. FirstColumn' = f
    BY <2>3
  <2> HIDE DEF f
  <2>7. wb_out'[b] = wb'[b][f]
    BY <1>4, <2>5
  <2>8. /\ rd_col' = (FirstColumn' + load_count') % M
        /\ wb_out'[b] = wb'[b][FirstColumn' + load_count' - 1]
    BY <2>4, <2>5, <2>6, <2>7
  <2>9. \A j : j \in 1..(load_count' - 1) => FALSE
    BY <2>4
  <2>10. SentLines' < request_size'
    BY <1>4, <2>2, <2>3
  <2> QED
    BY <1>4, <1>5, <1>13, <2>4, <2>5, <2>8, <2>9, <2>10 DEF SendInv, Loading, Loaded, b
<1>14. CASE r_state' \in {"LOAD_WRITE_DATA", "LAST_SHIFT"}
  <2>1. r_state \in Loading /\ r_state \in Sending
    BY <1>8, <1>14 DEF Loading
  <2>2. PICK s \in Nat : s = SentLines
    BY <1>7, <2>1
  <2>3. /\ s < request_size
        /\ r_state = "FIRST_LOAD" => load_count = 1
        /\ r_state = "LOAD_WRITE_DATA" => load_count \in 2..CL_WIDTH
        /\ rd_col = (CL_WIDTH * s + load_count) % M
        /\ last_wr_buffer_sel = wr_buffer_sel
        /\ last_read_sel[b] = rd_row
        /\ wb_out[b] = wb[b][CL_WIDTH * s + load_count - 1]
        /\ \A j \in 1..(load_count - 1) :
              write_data[CL_WIDTH - load_count + 1 + j] = Cell(CL_WIDTH * s + j - 1)
    BY <2>1, <2>2 DEF SendInv, FirstColumn, b
  <2>4. load_count \in 1..CL_WIDTH
    BY <1>6, <2>1, <2>3 DEF Loading
  <2>5. PICK c \in 1..CL_WIDTH : c = load_count
    BY <2>4
  <2> DEFINE f == CL_WIDTH * s
  <2>6. f \in Nat /\ f + CL_WIDTH <= M
    <3>1. /\ CL_WIDTH * s \in Nat /\ request_size * CL_WIDTH \in Nat
          /\ CL_WIDTH * s + CL_WIDTH <= request_size * CL_WIDTH /\ request_size * CL_WIDTH <= M
      BY <1>6, <2>3, LineRange
    <3> DEFINE w == request_size * CL_WIDTH
    <3>2. f \in Nat /\ w \in Nat /\ f + CL_WIDTH <= w /\ w <= M
      BY <3>1
    <3> HIDE DEF f, w
    <3> QED
      BY <1>6, <3>2
  <2>7. buffers!RequestDataOut = Cell(f + c - 1)
    BY <2>3, <2>5 DEF buffers!RequestDataOut, Cell, b
  <2>8. \A j \in 1..(c - 1) : write_data[CL_WIDTH - c + 1 + j] = Cell(f + j - 1)
    BY <2>3, <2>5
  <2>9. rd_col = (f + c) % M /\ s < request_size
    BY <2>3, <2>5
  <2>10. FirstColumn' = f /\ SentLines' = s /\ rd_row' = rd_row
    <3>1. sent_lines' = sent_lines /\ SentLines = sent_lines /\ SentLines' = sent_lines'
      BY <1>9, <1>14, <2>1 DEF SentLines, Loading
    <3> QED
      BY <1>4, <1>14, <2>2, <3>1 DEF FirstColumn
  <2> HIDE DEF f
  <2>11. \A j \in 1..c : write_data'[CL_WIDTH - c + j] = Cell(f + j - 1)
    <3>1. \A j \in 1..c : requests!Shifted(buffers!RequestDataOut)[CL_WIDTH - c + j] = Cell(f + j - 1)
      BY <2>6, <2>7, <2>8, ShiftsIn
    <3> QED
      BY <1>9, <1>14, <3>1
  <2>12. \A j \in 1..c : write_data'[CL_WIDTH - c + j] = wb'[b][f + j - 1][rd_row']
    <3> SUFFICES ASSUME NEW j \in 1..c
                 PROVE  write_data'[CL_WIDTH - c + j] = wb'[b][f + j - 1][rd_row']
      OBVIOUS
    <3>1. f + j - 1 \in 0..(M - 1)
      BY <1>6, <2>6
    <3>2. write_data'[CL_WIDTH - c + j] = wb[b][f + j - 1][rd_row]
      BY <2>11 DEF Cell, b
    <3> QED
      BY <1>4, <2>10, <3>1, <3>2
  <2>13. CASE r_state' = "LAST_SHIFT"
    <3>1. c = CL_WIDTH
      BY <1>8, <2>5, <2>13
    <3>2. rd_col' = (FirstColumn' + CL_WIDTH) % M /\ load_count' = 0
      BY <1>9, <2>9, <2>10, <2>13, <3>1 DEF Loaded
    <3>3. \A j \in 1..CL_WIDTH : CL_WIDTH - CL_WIDTH + j = j
      BY <1>6
    <3>4. \A j \in 1..CL_WIDTH : write_data'[j] = wb'[b][FirstColumn' + j - 1][rd_row']
      BY <2>10, <2>12, <3>1, <3>3
    <3>5. SentLines' < request_size'
      BY <1>4, <2>9, <2>10
    <3> QED
      BY <1>4, <1>5, <2>13, <3>2, <3>4, <3>5 DEF SendInv, Loading, Loaded, Cell, b
  <2>14. CASE r_state' = "LOAD_WRITE_DATA"
    <3>1. c < CL_WIDTH
      BY <1>6, <1>8, <2>3, <2>5, <2>14
    <3>2. load_count' = c + 1 /\ load_count' \in 2..CL_WIDTH
      BY <1>6, <1>9, <2>5, <2>14, <3>1 DEF Loading
    <3>3. f + c \in 0..(M - 1) /\ M \in Nat \ {0}
      BY <1>6, <2>6, <3>1
    <3>4. rd_col = f + c
      BY <2>9, <3>3, ModSmall
    <3>5. rd_col' = (FirstColumn' + load_count') % M
      <4>1. (f + c) + 1 = f + (c + 1)
        BY <2>6
      <4> QED
        BY <1>9, <2>10, <2>14, <3>2, <3>4, <4>1 DEF Loading
    <3>6. wb_out'[b] = wb'[b][FirstColumn' + load_count' - 1]
      <4>1. f + (c + 1) - 1 = f + c
        BY <2>6
      <4> QED
        BY <1>4, <2>10, <3>2, <3>3, <3>4, <4>1
    <3>7. \A j \in 1..(load_count' - 1) :
            write_data'[CL_WIDTH - load_count' + 1 + j] = wb'[b][FirstColumn' + j - 1][rd_row']
      <4>1. load_count' - 1 = c /\ \A j \in 1..c : CL_WIDTH - load_count' + 1 + j = CL_WIDTH - c + j
        BY <1>6, <3>2
      <4> QED
        BY <2>10, <2>12, <4>1
    <3>8. SentLines' < request_size' /\ rd_row' = rd_row
      BY <1>4, <2>9, <2>10
    <3> QED
      BY <1>4, <1>5, <2>14, <3>2, <3>5, <3>6, <3>7, <3>8 DEF SendInv, Loading, Loaded, Cell, b
  <2> QED
    BY <1>14, <2>13, <2>14
<1>15. CASE r_state' \in {"WAIT_DRAM_READY_WRITE", "SEND_WRITE_CL"}
  <2>1. r_state \in {"LAST_SHIFT", "WAIT_DRAM_READY_WRITE"}
    BY <1>8, <1>15
  <2>2. PICK s \in Nat : s = SentLines
    BY <1>7, <2>1 DEF Loaded
  <2> DEFINE f == CL_WIDTH * s
  <2>3. /\ s < request_size /\ rd_col = (f + CL_WIDTH) % M /\ load_count = 0
        /\ \A j \in 1..CL_WIDTH : write_data[j] = wb[b][f + j - 1][rd_row]
    BY <2>1, <2>2 DEF SendInv, Loaded, FirstColumn, Cell, b
  <2>4. f \in Nat /\ f + CL_WIDTH <= M
    <3>1. /\ CL_WIDTH * s \in Nat /\ request_size * CL_WIDTH \in Nat
          /\ CL_WIDTH * s + CL_WIDTH <= request_size * CL_WIDTH /\ request_size * CL_WIDTH <= M
      BY <1>6, <2>3, LineRange
    <3> DEFINE w == request_size * CL_WIDTH
    <3>2. f \in Nat /\ w \in Nat /\ f + CL_WIDTH <= w /\ w <= M
      BY <3>1
    <3> HIDE DEF f, w
    <3> QED
      BY <1>6, <3>2
  <2>5. FirstColumn' = f /\ SentLines' = s /\ rd_row' = rd_row
    <3>1. SentLines = sent_lines
      BY <2>1 DEF SentLines
    <3>2. SentLines' = sent_lines
      <4>1. sent_lines \in Nat
        BY DEF FetchInv, MemoryInv
      <4> QED
        BY <1>9, <1>15, <4>1 DEF SentLines
    <3> QED
      BY <1>4, <1>15, <2>2, <3>1, <3>2 DEF FirstColumn
  <2> HIDE DEF f
  <2>6. \A j \in 1..CL_WIDTH : write_data'[j] = wb'[b][FirstColumn' + j - 1][rd_row']
    <3>1. \A j \in 1..CL_WIDTH : f + j - 1 \in 0..(M - 1)
      BY <1>6, <2>4
    <3>2. write_data' = write_data
      BY <1>9, <1>15
    <3> QED
      BY <1>4, <2>3, <2>5, <3>1, <3>2
  <2>7. /\ rd_col' = (FirstColumn' + CL_WIDTH) % M /\ load_count' = 0
        /\ SentLines' < request_size'
    BY <1>4, <1>9, <1>15, <2>3, <2>5 DEF Loaded
  <2> QED
    BY <1>4, <1>5, <1>15, <2>6, <2>7 DEF SendInv, Loading, Loaded, Cell, b
<1> QED
  BY <1>8, <1>10, <1>11, <1>12, <1>13, <1>14, <1>15 DEF Sending

(* A step keeps SendInv.                                                   *)
LEMMA SendInvStep ==
  ASSUME NEW delay \in BOOLEAN, Step(delay), FetchInv, WriteShape, ResultInv, SendInv
  PROVE  SendInv'
<1>1. requests!NextState(ReqIf, dram_ready, request_done)
  BY Edge
<1>2. r_state' \in Sending => r_state \in Sending \/ (r_state = "IDLE" /\ r_state' = "SAVE_WRITE_ADDR")
  BY <1>1, Proceeds DEF Sending, Filling, Prelude, Fetching, Saving
<1> QED
  BY <1>2, SendCapture, SendStep DEF SendInv

(* A line is written in one state, and it is the right one.                *)
LEMMA Writes ==
  ASSUME FetchInv, SendInv, phase = "READY", dram.rd_wr, requests!FpuReady
  PROVE  /\ r_state = "SEND_WRITE_CL" /\ Right
         /\ \E i \in 0..image.image_height, k \in 0..OutRow :
              Sends(i, k) /\ At = address + CL_WIDTH * SentLines
<1>1. r_state = "SEND_WRITE_CL"
  BY DEF FetchInv, MemoryInv, ReadMemory, Fetching, requests!FpuReady
<1>2. state \notin Quiet
  BY <1>1 DEF FetchInv, ColInv, Idle, Starting, Quiet
<1>3. /\ image.image_height \in Nat /\ image.result_address \in Nat /\ image.start_address \in Nat
      /\ OutRow \in Nat /\ InRow \in Nat
      /\ CL_WIDTH \in Nat /\ CL_WIDTH > 0 /\ Lines \in Nat /\ M \in Nat /\ COL_WIDTH \in Nat /\ COL_WIDTH > 2
  BY <1>2, Alike, Sizes DEF FetchInv
<1>4. PICK i \in 0..image.image_height, k \in 0..OutRow : Sends(i, k)
  BY <1>1 DEF SendInv, Sending
<1>5. PICK s \in Nat : s = SentLines
  BY <1>1 DEF FetchInv, MemoryInv, WriteMemory, Loaded
<1> DEFINE f == CL_WIDTH * s
           w == request_size * CL_WIDTH
           p == (i + rd_row) * OutRow
           q == i * InRow
           r == rd_row * InRow
<1>6. /\ rd_row \in buffers!ResultRow /\ rd_row < cap_height /\ s < request_size
      /\ cap_height \in 1..(COL_WIDTH - 2) /\ i + cap_height <= image.image_height
      /\ request_size \in 1..Lines
      /\ k + w <= OutRow
      /\ address = image.result_address + p + k
      /\ \A x \in 0..(w - 1) :
           wb[1 - wr_buffer_sel][x] = Results(image.start_address + q + k + x, InRow)
      /\ \A j \in 1..CL_WIDTH : write_data[j] = wb[1 - wr_buffer_sel][f + j - 1][rd_row]
  BY <1>1, <1>4, <1>5 DEF Sends, SendInv, Sending, Loaded, RowAt, Cell, FirstColumn
<1>7. At = address + f
  BY <1>1, <1>5 DEF At, FetchInv, MemoryInv, WriteMemory, Loaded
<1>8. /\ f \in Nat /\ w \in Nat /\ f + CL_WIDTH <= w
  <2>1. s \in Nat /\ request_size \in 1..Lines /\ s < request_size
    BY <1>6
  <2> QED
    BY ONLY <2>1, LineRange
<1>9. /\ rd_row \in Nat /\ i \in Nat /\ k \in Nat /\ p \in Nat /\ q \in Nat /\ r \in Nat
  <2>1. rd_row \in Nat /\ i \in Nat /\ k \in Nat
    BY <1>3, <1>6 DEF buffers!ResultRow
  <2> QED
    BY <1>3, <2>1
<1>10. i + rd_row \in 0..(image.image_height - 1)
  BY <1>3, <1>6, <1>9
<1> DEFINE offset == At - (image.result_address + p)
<1>11. offset = k + f /\ 0 <= offset /\ offset + CL_WIDTH <= OutRow
  <2> HIDE DEF f, w, p, q, r
  <2> QED
    BY <1>3, <1>6, <1>7, <1>8, <1>9
<1>12. ASSUME NEW b \in 0..(CL_WIDTH - 1)
       PROVE  write_data[b + 1] = image.start_address + (i + rd_row) * InRow + offset + b
  <2>1. (i + rd_row) * InRow = q + r
    BY <1>3, <1>9
  <2> HIDE DEF f, w, p, q, r, offset
  <2>2. b + 1 \in 1..CL_WIDTH /\ f + (b + 1) - 1 = f + b /\ f + b \in 0..(w - 1)
    BY <1>3, <1>8
  <2>3. write_data[b + 1] = Results(image.start_address + q + k + (f + b), InRow)[rd_row]
    BY <1>6, <2>2
  <2>4. Results(image.start_address + q + k + (f + b), InRow)[rd_row]
          = image.start_address + q + k + (f + b) + r
    BY <1>6 DEF Results, r
  <2>5. image.start_address + q + k + (f + b) + r = image.start_address + (q + r) + offset + b
    BY <1>3, <1>8, <1>9, <1>11
  <2> QED
    BY <2>1, <2>3, <2>4, <2>5
<1>13. Right
  <2> HIDE DEF f, w, q, r
  <2> QED
    BY <1>10, <1>11, <1>12 DEF Right
<1>14. At = address + CL_WIDTH * SentLines
  BY <1>5, <1>7
<1> QED
  BY <1>1, <1>4, <1>13, <1>14

(* A line is handed over only when it is full: it is right.                *)
LEMMA LineRight ==
  ASSUME FetchInv, SendInv
  PROVE  RightLines
BY Writes DEF RightLines

-----------------------------------------------------------------------------
(* The lines in memory                                                     *)

(* Lines begin at whole lines from the start of the result.                *)
OnGrid(a) == \E n \in Int : a = image.result_address + n * CL_WIDTH

(* Lines on the grid of the result that overlap are the same.              *)
LEMMA GridApart ==
  ASSUME NEW a, NEW b, OnGrid(a), OnGrid(b), Overlaps(a, b), image.result_address \in Int
  PROVE  a = b
<1>1. CL_WIDTH \in Nat /\ CL_WIDTH > 0
  BY Sizes
<1>2. PICK n \in Int : a = image.result_address + n * CL_WIDTH
  BY DEF OnGrid
<1>3. PICK m \in Int : b = image.result_address + m * CL_WIDTH
  BY DEF OnGrid
<1>4. PICK c \in Int : c = image.result_address
  OBVIOUS
<1>5. a - b = (n - m) * CL_WIDTH
  <2>1. (n - m) * CL_WIDTH = n * CL_WIDTH - m * CL_WIDTH /\ n * CL_WIDTH \in Int /\ m * CL_WIDTH \in Int
    BY <1>1
  <2> DEFINE p == n * CL_WIDTH
             q == m * CL_WIDTH
  <2>2. a = c + p /\ b = c + q /\ p \in Int /\ q \in Int
    BY <1>2, <1>3, <1>4, <2>1
  <2>3. a - b = p - q
    <3> HIDE DEF p, q
    <3> QED
      BY <1>4, <2>2
  <2> QED
    BY <2>1, <2>3
<1>6. PICK d \in Int : d = n - m
  OBVIOUS
<1>7. d >= 1 => d * CL_WIDTH >= CL_WIDTH
  BY <1>1
<1>8. d <= -1 => d * CL_WIDTH <= -CL_WIDTH
  BY <1>1
<1>9. d * CL_WIDTH \in (1 - CL_WIDTH)..(CL_WIDTH - 1)
  BY <1>5, <1>6 DEF Overlaps
<1>10. d = 0
  <2> DEFINE e == d * CL_WIDTH
  <2>1. /\ e \in (1 - CL_WIDTH)..(CL_WIDTH - 1)
        /\ d >= 1 => e >= CL_WIDTH
        /\ d <= -1 => e <= -CL_WIDTH
    BY <1>7, <1>8, <1>9
  <2> HIDE DEF e
  <2> QED
    BY <1>1, <2>1
<1> QED
  BY <1>2, <1>3, <1>6, <1>10

(* The lines of the frame and of every request are on the grid.            *)
LEMMA LineOnGrid ==
  ASSUME NEW i \in Nat, NEW l \in Nat, OutRow \in Nat, Whole(OutRow), image.result_address \in Nat
  PROVE  /\ OnGrid(LineAddress(i, l))
         /\ \A k \in Nat : Whole(k) => OnGrid(image.result_address + i * OutRow + k + CL_WIDTH * l)
<1>1. CL_WIDTH \in Nat /\ CL_WIDTH > 0
  BY Sizes
<1>2. PICK q \in 0..OutRow : OutRow = q * CL_WIDTH
  BY DEF Whole
<1>3. i * OutRow = (i * q) * CL_WIDTH /\ i * q \in Nat
  BY <1>1, <1>2
<1>4. LineAddress(i, l) = image.result_address + (i * q + l) * CL_WIDTH
  <2>1. (i * q + l) * CL_WIDTH = (i * q) * CL_WIDTH + l * CL_WIDTH
    BY <1>1, <1>3
  <2> DEFINE p == (i * q) * CL_WIDTH
             r == l * CL_WIDTH
  <2>2. LineAddress(i, l) = image.result_address + p + r
    BY <1>3 DEF LineAddress
  <2>3. p \in Nat /\ r \in Nat
    BY <1>1, <1>3
  <2>4. image.result_address + p + r = image.result_address + (p + r)
    <3> HIDE DEF p, r
    <3> QED
      BY <2>3
  <2> QED
    BY <2>1, <2>2, <2>4
<1>5. ASSUME NEW k \in Nat, Whole(k)
      PROVE  OnGrid(image.result_address + i * OutRow + k + CL_WIDTH * l)
  <2>1. PICK m \in 0..k : k = m * CL_WIDTH
    BY <1>5 DEF Whole
  <2>2. m \in Nat
    BY <1>5
  <2>3. (i * q + m + l) * CL_WIDTH = (i * q) * CL_WIDTH + m * CL_WIDTH + l * CL_WIDTH
    BY <1>1, <1>3, <2>2
  <2> DEFINE p == (i * q) * CL_WIDTH
             r == CL_WIDTH * l
  <2>4. p \in Nat /\ r \in Nat /\ i * OutRow = p /\ (i * q + m + l) * CL_WIDTH = p + k + r
    BY <1>1, <1>3, <2>1, <2>2, <2>3
  <2>5. image.result_address + p + k + r = image.result_address + (p + k + r)
    <3> HIDE DEF p, r
    <3> QED
      BY <1>5, <2>4
  <2>6. image.result_address + i * OutRow + k + CL_WIDTH * l = image.result_address + (i * q + m + l) * CL_WIDTH
    BY <2>4, <2>5
  <2>7. i * q + m + l \in Int
    BY <1>3, <2>2
  <2> QED
    BY <2>6, <2>7 DEF OnGrid
<1>6. i * q + l \in Int
  BY <1>3
<1> QED
  BY <1>4, <1>5, <1>6 DEF OnGrid

(* The set of lines changes only when one is sent: it is added, no other   *)
(* line of the frame is lost.                                              *)
LEMMA StoreStep ==
  ASSUME NEW delay \in BOOLEAN, Step(delay), FetchInv, SendInv, state # "IDLE"
  PROVE  /\ r_state = "SEND_WRITE_CL" => address + CL_WIDTH * SentLines \in filtered'
         /\ \A i, l \in Nat : LineAddress(i, l) \in filtered => LineAddress(i, l) \in filtered'
<1>1. Dram(delay)
  BY Still
<1>2. \/ filtered' = filtered
      \/ Store /\ phase = "READY" /\ dram.rd_wr /\ requests!FpuReady
  BY <1>1 DEF Dram, Accept, Serve, Delayed, Answered, ReadDone
<1>3. r_state = "SEND_WRITE_CL" => Store /\ phase = "READY" /\ dram.rd_wr /\ requests!FpuReady
  <2> SUFFICES ASSUME r_state = "SEND_WRITE_CL"
               PROVE  Store /\ phase = "READY" /\ dram.rd_wr /\ requests!FpuReady
    OBVIOUS
  <2>1. phase = "READY" /\ dram.rd_wr
    BY DEF FetchInv, MemoryInv, WriteMemory, Loaded
  <2>2. ~requests!Request /\ requests!FpuReady
    BY DEF requests!Request, requests!FpuReady
  <2> QED
    BY <1>1, <2>1, <2>2 DEF Dram, Accept, Serve, Delayed, Answered, ReadDone
<1>4. CASE Store /\ phase = "READY" /\ dram.rd_wr /\ requests!FpuReady
  <2>1. r_state = "SEND_WRITE_CL" /\ Right
    BY <1>4, Writes
  <2>2. PICK n \in 0..image.image_height, k \in 0..OutRow :
          Sends(n, k) /\ At = address + CL_WIDTH * SentLines
    BY <1>4, Writes
  <2>3. state \notin Quiet
    BY <2>1 DEF FetchInv, ColInv, Idle, Starting, Quiet
  <2>4. /\ OutRow \in Nat /\ Whole(OutRow) /\ image.result_address \in Nat /\ image.image_height \in Nat
    BY <2>3, Alike DEF FetchInv
  <2>5. filtered' = {a \in filtered : ~Overlaps(a, At)} \cup {At}
    BY <1>4, <2>1 DEF Store
  <2>6. OnGrid(At)
    <3>1. /\ address = image.result_address + (n + rd_row) * OutRow + k /\ Whole(k)
          /\ rd_row \in Nat /\ SentLines \in Nat
      BY <2>1, <2>2 DEF Sends, RowAt, SendInv, Sending, buffers!ResultRow, FetchInv, MemoryInv,
         WriteMemory, Loaded
    <3>2. PICK r \in Nat : r = n + rd_row
      BY <2>4, <3>1
    <3>3. PICK s \in Nat : s = SentLines
      BY <3>1
    <3>4. k \in Nat
      BY <2>4
    <3>5. OnGrid(image.result_address + r * OutRow + k + CL_WIDTH * s)
      BY <2>4, <3>1, <3>4, LineOnGrid
    <3> QED
      BY <2>2, <3>1, <3>2, <3>3, <3>5
  <2>7. ASSUME NEW i \in Nat, NEW l \in Nat, LineAddress(i, l) \in filtered
        PROVE  LineAddress(i, l) \in filtered'
    <3>1. OnGrid(LineAddress(i, l))
      BY <2>4, LineOnGrid
    <3>2. image.result_address \in Int
      BY <2>4
    <3>3. Overlaps(LineAddress(i, l), At) => LineAddress(i, l) = At
      BY <2>6, <3>1, <3>2, GridApart
    <3> QED
      BY <2>5, <2>7, <3>3
  <2> QED
    BY <2>2, <2>5, <2>7
<1> QED
  BY <1>2, <1>3, <1>4

(* An address in two ways: from the row the request begins at, and from    *)
(* the row it is at.                                                       *)
LEMMA RowsApart ==
  ASSUME NEW b \in Int, NEW i \in Int, NEW n \in Int, NEW r \in Int, NEW w \in Int, NEW k \in Int, NEW c \in Int
  PROVE  (b + (i + n) * w + k) + (r - n) * w + c = b + (i + r) * w + k + c
<1>1. (i + r) * w = (i + n) * w + (r - n) * w /\ (i + n) * w \in Int /\ (r - n) * w \in Int
  <2>1. (i + r) * w = i * w + r * w /\ (i + n) * w = i * w + n * w /\ (r - n) * w = r * w - n * w
    OBVIOUS
  <2> DEFINE x == i * w
             y == r * w
             z == n * w
  <2>2. x \in Int /\ y \in Int /\ z \in Int
    OBVIOUS
  <2>3. x + y = (x + z) + (y - z)
    <3> HIDE DEF x, y, z
    <3> QED
      BY <2>2
  <2> QED
    BY <2>1, <2>2, <2>3
<1> DEFINE p == (i + n) * w
           q == (r - n) * w
<1>2. (b + p + k) + q + c = b + (p + q) + k + c
  <2>1. p \in Int /\ q \in Int
    BY <1>1
  <2> HIDE DEF p, q
  <2> QED
    BY <2>1
<1> QED
  BY <1>1, <1>2

(* A line that a request will write is written, or still will be.          *)
LEMMA PendingStep ==
  ASSUME NEW delay \in BOOLEAN, Step(delay), FetchInv, WriteShape, SendInv, NEW a, Pending(a)
  PROVE  a \in filtered' \/ Pending(a)'
<1>1. requests!NextState(ReqIf, dram_ready, request_done)
  BY Edge
<1>2. r_state \in Sending
  BY DEF Pending
<1>3. PICK r \in RowAt..(cap_height - 1), l \in 0..(request_size - 1) :
        /\ a = address + (r - RowAt) * OutRow + l * CL_WIDTH
        /\ r = RowAt => l >= LinesDone
  BY DEF Pending
<1>4. PICK i \in 0..image.image_height, k \in 0..OutRow : Sends(i, k)
  BY <1>2 DEF SendInv
<1>5. state # "IDLE" /\ state \notin Quiet
  <2>1. r_state # "IDLE"
    BY <1>2 DEF Sending
  <2> QED
    BY <2>1, UnderWay DEF FetchInv, Quiet
<1>6. /\ image.image_height \in Nat /\ image.result_address \in Nat /\ OutRow \in Nat
      /\ i \in Nat /\ k \in Nat /\ CL_WIDTH \in Nat /\ COL_WIDTH \in Nat /\ Lines \in Nat
  BY <1>4, <1>5, Alike, Sizes DEF FetchInv
<1>7. /\ cap_height \in Nat /\ request_size \in Nat /\ RowAt \in Nat /\ rd_row \in Nat
      /\ address = image.result_address + (i + RowAt) * OutRow + k
  BY <1>2, <1>4, <1>6 DEF Sends, SendInv, buffers!ResultRow, RowAt
<1>8. r \in Nat /\ l \in Nat
  BY <1>3, <1>7
<1>9. /\ r_state \in Loading \cup Loaded \cup {"WAIT_WRITE_DONE"} => SentLines \in Nat
      /\ sent_lines \in Nat
  BY DEF FetchInv, MemoryInv, WriteMemory
<1>10. CASE r_state' \notin Sending
  <2>1. r_state = "WAIT_WRITE_DONE" /\ rd_row = cap_height - 1
    BY <1>1, <1>2, <1>10, Proceeds DEF Sending
  <2>2. RowAt = rd_row /\ LinesDone = sent_lines /\ sent_lines = request_size
    BY <1>2, <2>1 DEF RowAt, LinesDone, SentLines, SendInv
  <2> QED
    BY <1>3, <1>7, <1>8, <2>1, <2>2
<1>11. CASE r_state' \in Sending
  <2>1. /\ Sends(i, k)' /\ request_size' = request_size /\ cap_height' = cap_height
        /\ OutRow' = OutRow /\ image' = image
        /\ RowAt' = IF r_state' = "UPDATE_WRITE_ADDRESS" THEN rd_row + 1 ELSE RowAt
    BY <1>2, <1>4, <1>6, <1>11, SendsStep
  <2>2. address' = image.result_address + (i + RowAt') * OutRow + k
    BY <2>1 DEF Sends
  <2>3. PICK n \in Nat : n = RowAt
    BY <1>7
  <2>4. PICK m \in Nat : m = RowAt'
    BY <1>7, <2>1
  <2>5. a = address' + (r - RowAt') * OutRow + l * CL_WIDTH
    <3>1. l * CL_WIDTH \in Int /\ image.result_address \in Int
      BY <1>6, <1>8
    <3> DEFINE c == l * CL_WIDTH
               b == image.result_address
    <3>2. a = (b + (i + n) * OutRow + k) + (r - n) * OutRow + c
      BY <1>3, <1>7, <2>3
    <3>3. c \in Int /\ b \in Int /\ i \in Int /\ k \in Int /\ n \in Int /\ m \in Int /\ r \in Int /\ OutRow \in Int
      BY <1>6, <1>8, <3>1
    <3>4. address' = b + (i + m) * OutRow + k
      BY <2>2, <2>4
    <3> HIDE DEF b, c
    <3>5. a = b + (i + r) * OutRow + k + c
      BY <3>2, <3>3, RowsApart
    <3>6. (b + (i + m) * OutRow + k) + (r - m) * OutRow + c = b + (i + r) * OutRow + k + c
      BY <3>3, RowsApart
    <3>7. a = address' + (r - RowAt') * OutRow + c
      BY <2>4, <3>4, <3>5, <3>6
    <3> QED
      BY <3>7 DEF c
  <2>6. CASE r_state = "SEND_WRITE_CL" /\ r = RowAt /\ l = SentLines
    <3>1. (r - RowAt) * OutRow = 0 /\ l * CL_WIDTH = CL_WIDTH * l /\ CL_WIDTH * l \in Nat
      <4>1. r - RowAt = 0
        BY <1>8, <2>6
      <4> QED
        BY <1>6, <1>8, <4>1
    <3>2. address \in Int
      <4>1. (i + RowAt) * OutRow \in Nat
        BY <1>6, <1>7
      <4> QED
        BY <1>6, <1>7, <4>1
    <3> DEFINE z == (r - RowAt) * OutRow
               c == l * CL_WIDTH
    <3>3. a = address + z + c /\ z = 0 /\ c \in Nat
      BY <1>3, <3>1
    <3>4. a = address + c
      <4> HIDE DEF z, c
      <4> QED
        BY <3>2, <3>3
    <3>5. address + CL_WIDTH * SentLines \in filtered'
      BY <1>5, <2>6, StoreStep
    <3> QED
      BY <2>6, <3>1, <3>4, <3>5
  <2>7. CASE ~(r_state = "SEND_WRITE_CL" /\ r = RowAt /\ l = SentLines)
    <3>1. r >= RowAt' /\ (r = RowAt' => l >= LinesDone')
      <4>1. CASE r_state' = "UPDATE_WRITE_ADDRESS"
        <5>1. r_state = "WAIT_WRITE_DONE"
          BY <1>1, <1>2, <4>1, Proceeds DEF Sending
        <5>2. RowAt = rd_row /\ LinesDone = sent_lines /\ sent_lines = request_size
          BY <1>2, <5>1 DEF RowAt, LinesDone, SentLines, SendInv
        <5>3. r # RowAt
          BY <1>3, <1>7, <1>8, <5>2
        <5>4. LinesDone' = 0
          BY <4>1 DEF LinesDone
        <5> QED
          BY <1>3, <1>7, <1>8, <2>1, <4>1, <5>2, <5>3, <5>4
      <4>2. CASE r_state' = "START_WRITE_REQUEST"
        <5>1. LinesDone' = 0
          BY <4>2 DEF LinesDone
        <5> QED
          BY <1>3, <1>7, <1>8, <2>1, <4>2, <5>1
      <4>3. CASE r_state' \notin {"UPDATE_WRITE_ADDRESS", "START_WRITE_REQUEST"}
        <5>1. /\ RowAt' = RowAt
              /\ sent_lines' = IF r_state' = "SEND_WRITE_CL" THEN sent_lines + 1 ELSE sent_lines
          BY <1>2, <1>11, <2>1, <4>3, Loads
        <5>2. /\ r_state \in {"START_WRITE_REQUEST"} \cup Loading \cup Loaded \cup {"WAIT_WRITE_DONE"}
              /\ r_state' \in Loading \cup Loaded \cup {"WAIT_WRITE_DONE"}
              /\ r_state = "SEND_WRITE_CL" => r_state' # "SEND_WRITE_CL"
              /\ r_state' = "SEND_WRITE_CL" => r_state # "SEND_WRITE_CL"
          BY <1>1, <1>2, <1>11, <4>3, Proceeds DEF Sending, Loading, Loaded
        <5>3. LinesDone' = sent_lines
          BY <1>9, <5>1, <5>2 DEF LinesDone, SentLines, Loading, Loaded
        <5>4. sent_lines = IF r_state = "SEND_WRITE_CL" THEN LinesDone + 1 ELSE LinesDone
          BY <1>2, <1>9, <5>2 DEF LinesDone, SentLines, Loading, Loaded, SendInv
        <5>5. r_state = "SEND_WRITE_CL" => LinesDone = SentLines /\ LinesDone \in Nat
          BY <1>9 DEF LinesDone, Loaded
        <5>6. r >= RowAt /\ (r = RowAt => l >= LinesDone)
          BY <1>3, <1>7, <1>8
        <5> QED
          BY <1>8, <2>7, <5>1, <5>3, <5>4, <5>5, <5>6
      <4> QED
        BY <4>1, <4>2, <4>3
    <3>2. r \in RowAt'..(cap_height' - 1) /\ l \in 0..(request_size' - 1)
      BY <1>3, <1>7, <1>8, <2>1, <2>4, <3>1
    <3> QED
      BY <1>11, <2>1, <2>5, <3>1, <3>2 DEF Pending
  <2> QED
    BY <2>6, <2>7
<1> QED
  BY <1>10, <1>11

(* The lines of a row lie in the row.                                      *)
LEMMA FrameColumn ==
  ASSUME OutRow \in Nat, Whole(OutRow), NEW l \in 0..(OutRow \div CL_WIDTH - 1)
  PROVE  l \in Nat /\ l * CL_WIDTH \in Nat /\ l * CL_WIDTH + CL_WIDTH <= OutRow
<1>1. CL_WIDTH \in Nat \ {0}
  BY Sizes
<1>2. PICK q \in 0..OutRow : OutRow = q * CL_WIDTH
  BY DEF Whole
<1>3. q \in Nat /\ 0 \in 0..(CL_WIDTH - 1)
  BY <1>1
<1>4. (CL_WIDTH * q + 0) \div CL_WIDTH = q
  BY ONLY <1>1, <1>3, DivUnique
<1>5. CL_WIDTH * q + 0 = q * CL_WIDTH
  BY <1>1, <1>3
<1>6. OutRow \div CL_WIDTH = q
  BY <1>2, <1>4, <1>5
<1>7. l \in Nat /\ l + 1 <= q
  BY <1>3, <1>6
<1>8. (l + 1) * CL_WIDTH <= q * CL_WIDTH /\ (l + 1) * CL_WIDTH = l * CL_WIDTH + CL_WIDTH /\ l * CL_WIDTH \in Nat
  BY <1>1, <1>3, <1>7
<1> QED
  BY <1>2, <1>7, <1>8

(* The rows and columns that the sequencer passes are those of the request *)
(* that it makes.                                                          *)
LEMMA NewlyPassed ==
  ASSUME NEW delay \in BOOLEAN, Step(delay), FetchInv, state \notin Early,
         NEW i \in Nat, NEW x \in Nat, i < image.image_height, x < OutRow,
         Passed(i, x)', ~Passed(i, x)
  PROVE  /\ r_state = "IDLE" /\ r_state' = "SAVE_WRITE_ADDR"
         /\ Top <= i /\ i < Top + COL_WIDTH - 2
         /\ Left <= x /\ (state = "CHUNK_DONE" => x < Left + M)
<1>0. Sequence /\ requests!NextState(ReqIf, dram_ready, request_done)
  BY StepSequence, Edge DEF FetchInv
<1>1. state \notin Quiet /\ state # "IDLE" /\ state # "FILL_BUFF1"
  BY DEF Early, Quiet
<1>2. Top \in Nat /\ Left \in Nat /\ M \in Nat /\ M > 18 /\ COL_WIDTH \in Nat /\ COL_WIDTH > 2
  BY PlaceNow, Sizes DEF FetchInv
<1>3. /\ ~(i < Top)
      /\ i < Top + COL_WIDTH - 2 =>
           ~(x < Left) /\ state \notin {"UPDATE_WRITE", "FINAL_FLIP", "WAIT_FINAL", "DONE"}
  BY DEF Passed
<1>4. CASE state = "UPDATE_WRITE"
  <2>1. Top' = Top + (COL_WIDTH - 2) /\ Left' = 0 /\ state' = "NEW_ROW"
    BY <1>0, <1>4, PlaceNextGroup, Leads DEF FetchInv
  <2>2. ~(i < Top') /\ ~(x < Left')
    BY <1>2, <1>3, <1>4, <2>1
  <2> QED
    BY <2>1, <2>2 DEF Passed
<1>5. CASE state = "CHUNK_DONE"
  <2>1. Top' = Top /\ Left' = Left + M
    BY <1>5, PlaceNextChunk DEF FetchInv
  <2>2. state' = "OPERATE"
    <3>1. remaining_width > M + 2
      BY <1>5, PlaceNextChunk DEF FetchInv
    <3>2. remaining_width \in Nat /\ M \in Nat /\ M <= remaining_width
      BY <1>2, <3>1, PlaceNow DEF FetchInv
    <3>3. control!Minus(remaining_width, M) = remaining_width - M
      BY ONLY <3>2, Subtracts
    <3>4. ~(control!Minus(remaining_width, M) < 3)
      BY <3>1, <3>2, <3>3
    <3> QED
      BY <1>0, <1>5, <3>4, Turns
  <2>3. r_state = "IDLE"
    BY <1>5 DEF FetchInv, ColInv, Idle
  <2>4. r_state' = "SAVE_WRITE_ADDR"
    BY <1>0, <1>5, <2>3, Proceeds DEF control!Write
  <2>5. i < Top + COL_WIDTH - 2 /\ x < Left + M
    BY <1>3, <2>1, <2>2 DEF Passed
  <2> QED
    BY <1>2, <1>3, <2>3, <2>4, <2>5
<1>6. CASE state \notin {"UPDATE_WRITE", "CHUNK_DONE"}
  <2>1. Top' = Top /\ Left' = Left
    BY <1>1, <1>6, PlaceStays DEF FetchInv, Placed
  <2>2. /\ i < Top + COL_WIDTH - 2
        /\ state' \in {"UPDATE_WRITE", "FINAL_FLIP", "WAIT_FINAL", "DONE"}
        /\ state \notin {"UPDATE_WRITE", "FINAL_FLIP", "WAIT_FINAL", "DONE"}
    BY <1>3, <2>1 DEF Passed
  <2>3. /\ state \in {"ROW_DONE_WAIT", "FINAL_REQUEST"} /\ ~Making
    BY <1>0, <1>1, <1>6, <2>2, Turns, Leads DEF Quiet, Active, First, Pauses, Crossing, WithinRow,
       NextRow, Final
  <2>4. r_state = "IDLE" /\ r_state' = "SAVE_WRITE_ADDR"
    BY <1>0, <2>3, Proceeds DEF Making, control!Write
  <2> QED
    BY <1>2, <1>3, <1>6, <2>2, <2>4
<1> QED
  BY <1>4, <1>5, <1>6

(* The lines that the sequencer passes are those of the request it makes.  *)
LEMMA BecomesPending ==
  ASSUME NEW delay \in BOOLEAN, Step(delay), FetchInv, state \notin Early,
         NEW i \in 0..(image.image_height - 1), NEW l \in 0..(OutRow \div CL_WIDTH - 1),
         NEW a, a = LineAddress(i, l),
         Passed(i, l * CL_WIDTH)', ~Passed(i, l * CL_WIDTH)
  PROVE  Pending(a)'
<1>1. state \notin Quiet /\ state # "IDLE"
  BY DEF Early, Quiet
<1>2. /\ image.image_height \in Nat /\ image.result_address \in Nat /\ OutRow \in Nat /\ InRow \in Nat
      /\ OutRow + 2 = InRow /\ Whole(OutRow) /\ OutRow' = OutRow
      /\ CL_WIDTH \in Nat /\ CL_WIDTH > 0 /\ COL_WIDTH \in Nat /\ COL_WIDTH > 2 /\ Lines \in Nat /\ M \in Nat
  BY <1>1, Alike, Still, Sizes DEF FetchInv
<1>3. l \in Nat /\ l * CL_WIDTH \in Nat /\ l * CL_WIDTH + CL_WIDTH <= OutRow /\ l * CL_WIDTH < OutRow
  <2>1. l \in Nat /\ l * CL_WIDTH \in Nat /\ l * CL_WIDTH + CL_WIDTH <= OutRow
    BY <1>2, FrameColumn
  <2> DEFINE x == l * CL_WIDTH
  <2>2. x < OutRow
    <3>1. x \in Nat /\ x + CL_WIDTH <= OutRow
      BY <2>1
    <3> HIDE DEF x
    <3> QED
      BY <1>2, <3>1
  <2> QED
    BY <2>1, <2>2
<1>4. i \in Nat /\ i < image.image_height
  BY <1>2
<1>5. /\ r_state = "IDLE" /\ r_state' = "SAVE_WRITE_ADDR"
      /\ Top <= i /\ i < Top + COL_WIDTH - 2
      /\ Left <= l * CL_WIDTH /\ (state = "CHUNK_DONE" => l * CL_WIDTH < Left + M)
  BY <1>3, <1>4, NewlyPassed
<1>6. /\ cap_height' \in 1..(COL_WIDTH - 2)
      /\ cap_height' = COL_WIDTH - 2 \/ Top + cap_height' = image.image_height
      /\ request_size' \in 1..Lines
      /\ request_size' * CL_WIDTH = IF state = "CHUNK_DONE" THEN M ELSE remaining_width - 2
      /\ address' = image.result_address + Top * OutRow + Left
  BY <1>5, Captures
<1>7. /\ Top \in Nat /\ Left \in Nat /\ Left + remaining_width = InRow
      /\ remaining_width \in Nat /\ remaining_width >= 3
  BY PlaceNow DEF FetchInv
<1>8. PICK m \in 0..Left : Left = m * CL_WIDTH
  <2> DEFINE n == remaining_width - 2
  <2>1. Whole(n)
    BY DEF FetchInv, Geometry
  <2>2. n \in Nat /\ n <= OutRow /\ OutRow - n = Left
    BY <1>2, <1>7
  <2> HIDE DEF n
  <2>3. Whole(OutRow - n)
    BY <1>2, <2>1, <2>2, WholeMinus
  <2> QED
    BY <2>2, <2>3 DEF Whole
<1>9. PICK z \in 1..Lines : z = request_size'
  BY <1>6
<1>10. l - m \in 0..(z - 1)
  <2>1. m \in Nat /\ z \in Nat
    BY <1>2, <1>7
  <2> DEFINE w == z * CL_WIDTH
             x == l * CL_WIDTH
  <2>2. x < Left + w /\ Left <= x
    <3>1. w = IF state = "CHUNK_DONE" THEN M ELSE remaining_width - 2
      BY <1>6, <1>9
    <3>2. x < OutRow /\ Left <= x /\ (state = "CHUNK_DONE" => x < Left + M)
      BY <1>3, <1>5
    <3> HIDE DEF x, w
    <3> QED
      BY <1>2, <1>7, <3>1, <3>2
  <2>3. x < m * CL_WIDTH + w /\ m * CL_WIDTH <= x
    BY <1>8, <2>2
  <2>4. m * CL_WIDTH + w = (m + z) * CL_WIDTH
    BY <1>2, <2>1
  <2>5. l >= m + z => l * CL_WIDTH >= (m + z) * CL_WIDTH
    BY <1>2, <1>3, <2>1
  <2>6. l < m => l * CL_WIDTH + CL_WIDTH <= m * CL_WIDTH
    <3>1. l < m => (l + 1) * CL_WIDTH <= m * CL_WIDTH
      BY <1>2, <1>3, <2>1
    <3>2. (l + 1) * CL_WIDTH = l * CL_WIDTH + CL_WIDTH
      BY <1>2, <1>3
    <3> QED
      BY <3>1, <3>2
  <2> DEFINE y == m * CL_WIDTH
             v == (m + z) * CL_WIDTH
  <2>7. x \in Nat /\ y \in Nat /\ v \in Nat
    BY <1>2, <1>3, <2>1
  <2>8. /\ x < v /\ y <= x
        /\ l >= m + z => x >= v
        /\ l < m => x + CL_WIDTH <= y
    BY <2>3, <2>4, <2>5, <2>6
  <2> HIDE DEF x, y, v, w
  <2> QED
    BY <1>2, <1>3, <2>1, <2>7, <2>8
<1>11. PICK r \in Nat : r = i - Top
  BY <1>4, <1>5, <1>7
<1>12. r \in 0..(cap_height' - 1)
  <2>1. PICK h \in 1..(COL_WIDTH - 2) : h = cap_height'
    BY <1>6
  <2>2. h = COL_WIDTH - 2 \/ Top + h = image.image_height
    BY <1>6, <2>1
  <2>3. Top <= i /\ i < Top + COL_WIDTH - 2
    BY <1>5
  <2>4. r < h
    BY <1>2, <1>4, <1>7, <1>11, <2>2, <2>3
  <2>5. h \in Nat
    BY <1>2
  <2>6. r \in 0..(h - 1)
    BY <2>4, <2>5
  <2> QED
    BY <2>1, <2>6
<1>13. a = address' + (r - 0) * OutRow + (l - m) * CL_WIDTH
  <2>1. m \in Int /\ (l - m) * CL_WIDTH \in Int
    BY <1>2, <1>3, <1>7
  <2> DEFINE c == (l - m) * CL_WIDTH
             b == image.result_address
  <2>2. a = b + i * OutRow + l * CL_WIDTH
    BY DEF LineAddress
  <2>3. l * CL_WIDTH = m * CL_WIDTH + c
    BY <1>2, <1>3, <2>1
  <2>4. PICK t \in Nat : t = Top
    BY <1>7
  <2>5. /\ b \in Int /\ c \in Int /\ t \in Int /\ r \in Int /\ OutRow \in Int /\ Left \in Int /\ 0 \in Int
        /\ t + r = i /\ t + 0 = t
    BY <1>2, <1>4, <1>5, <1>7, <1>11, <2>1, <2>4
  <2> HIDE DEF b, c
  <2>6. (b + (t + 0) * OutRow + Left) + (r - 0) * OutRow + c = b + (t + r) * OutRow + Left + c
    BY <2>5, RowsApart
  <2>7. address' = b + t * OutRow + Left
    BY <1>6, <2>4 DEF b
  <2>8. a = b + (t + r) * OutRow + (Left + c)
    BY <1>8, <2>2, <2>3, <2>5
  <2>9. b + (t + r) * OutRow + (Left + c) = b + (t + r) * OutRow + Left + c
    <3>1. (t + r) * OutRow \in Int
      BY <2>5
    <3> DEFINE p == (t + r) * OutRow
    <3>2. p \in Int
      BY <3>1
    <3> HIDE DEF p
    <3> QED
      BY <2>5, <3>2
  <2> QED
    BY <2>5, <2>6, <2>7, <2>8, <2>9 DEF c
<1>14. RowAt' = 0 /\ LinesDone' = 0 /\ r_state' \in Sending
  BY <1>5 DEF RowAt, LinesDone, Sending
<1>15. r \in RowAt'..(cap_height' - 1) /\ l - m \in 0..(request_size' - 1) /\ l - m >= LinesDone'
       /\ a = address' + (r - RowAt') * OutRow' + (l - m) * CL_WIDTH
  <2>1. RowAt' = 0 /\ LinesDone' = 0 /\ OutRow' = OutRow /\ request_size' = z
    BY <1>2, <1>9, <1>14
  <2>2. l - m >= 0
    BY <1>10
  <2> QED
    BY <1>10, <1>12, <1>13, <2>1, <2>2
<1> QED
  BY <1>14, <1>15 DEF Pending

(* A step keeps FrameInv: a line that is passed is in memory or will be,   *)
(* and stays.                                                              *)
LEMMA FrameStep ==
  ASSUME NEW delay \in BOOLEAN, Step(delay), FetchInv, WriteShape, SendInv, FrameInv
  PROVE  FrameInv'
<1> SUFFICES ASSUME state' \notin Early,
                    NEW i \in 0..(image'.image_height - 1), NEW l \in 0..(OutRow' \div CL_WIDTH - 1),
                    Passed(i, l * CL_WIDTH)'
             PROVE  LineAddress(i, l)' \in filtered' \/ Pending(LineAddress(i, l))'
  BY DEF FrameInv
<1>0. Sequence
  BY StepSequence DEF FetchInv
<1>1. state \notin Quiet /\ state # "IDLE"
  BY <1>0, Leads DEF Quiet, Early
<1>2. /\ image' = image /\ OutRow' = OutRow /\ OutRow \in Nat /\ Whole(OutRow)
      /\ image.image_height \in Nat /\ COL_WIDTH \in Nat /\ COL_WIDTH > 2
  BY <1>1, Still, Alike, Sizes DEF FetchInv
<1>3. l \in Nat /\ l * CL_WIDTH \in Nat /\ i \in Nat
  BY <1>2, FrameColumn
<1>4. CASE state = "FILL_BUFF1"
  <2>1. Top' = 0 /\ Left' = 0 /\ state' \in {"ADDR_ALL", "ADDR_CHUNK"}
    BY <1>0, <1>4, PlaceStarts, Turns DEF FetchInv
  <2>2. ~(i < 0) /\ ~(l * CL_WIDTH < 0)
    BY <1>3
  <2> QED
    BY <2>1, <2>2 DEF Passed
<1>5. CASE state # "FILL_BUFF1"
  <2>1. state \notin Early
    BY <1>1, <1>5 DEF Early
  <2>2. PICK a : a = LineAddress(i, l)
    OBVIOUS
  <2>3. LineAddress(i, l)' = a
    BY <1>2, <2>2 DEF LineAddress
  <2>4. CASE Passed(i, l * CL_WIDTH)
    <3>1. a \in filtered \/ Pending(a)
      BY <1>2, <2>1, <2>2, <2>4 DEF FrameInv
    <3>2. CASE a \in filtered
      BY <1>1, <1>3, <2>2, <2>3, <3>2, StoreStep
    <3>3. CASE Pending(a)
      <4>1. a \in filtered' \/ Pending(a)'
        BY <3>3, PendingStep
      <4> QED
        BY <2>3, <4>1 DEF Pending
    <3> QED
      BY <3>1, <3>2, <3>3
  <2>5. CASE ~Passed(i, l * CL_WIDTH)
    <3>1. Pending(a)'
      BY <1>2, <2>1, <2>2, <2>5, BecomesPending
    <3> QED
      BY <2>3, <3>1 DEF Pending
  <2> QED
    BY <2>4, <2>5
<1> QED
  BY <1>4, <1>5

(* At done nothing is pending.                                             *)
LEMMA FrameDone ==
  ASSUME FetchInv, FrameInv
  PROVE  FrameComplete
<1> SUFFICES ASSUME state = "DONE",
                    NEW i \in 0..(image.image_height - 1), NEW l \in 0..(OutRow \div CL_WIDTH - 1)
             PROVE  image.result_address + i * OutRow + l * CL_WIDTH \in filtered
  BY DEF FrameComplete, FrameLines, control!Done
<1>1. r_state = "IDLE" /\ state \notin Early
  BY DEF FetchInv, ColInv, Idle, Starting, Early, Quiet
<1>2. remaining_height <= COL_WIDTH /\ remaining_height \in 3..(image.image_height + 2)
  BY <1>1 DEF FetchInv, Geometry, Final
<1>3. Top = image.image_height + 2 - remaining_height /\ image.image_height \in Nat /\ COL_WIDTH \in Nat
  BY <1>1, PlaceNow, Alike, Sizes DEF FetchInv
<1>4. i < Top + COL_WIDTH - 2
  BY <1>2, <1>3
<1>5. Passed(i, l * CL_WIDTH)
  BY <1>4 DEF Passed
<1>6. LineAddress(i, l) \in filtered \/ Pending(LineAddress(i, l))
  BY <1>1, <1>5 DEF FrameInv
<1> QED
  BY <1>1, <1>6 DEF Pending, Sending, LineAddress

-----------------------------------------------------------------------------
(* The frame: the whole invariant                                          *)

(* What the filter unit keeps.                                             *)
FilterInv ==
  /\ FetchInv /\ BankInv /\ PipeInv /\ WriteShape /\ ResultInv /\ SendInv /\ FrameInv

(* Nothing is claimed of an idle unit but that its banks have their shape. *)
LEMMA InitFilter == Init => FilterInv
<1> SUFFICES ASSUME Init
             PROVE  FilterInv
  OBVIOUS
<1>1. /\ state = "IDLE" /\ load = "IDLE" /\ conf = control!NoConf /\ image = control!NoConf
      /\ rd_buffer_sel = 0 /\ wr_buffer_sel = 0 /\ start = FALSE
      /\ read_address = 0 /\ write_address = 0 /\ base_read_address = 0 /\ base_write_address = 0
  BY DEF Init, control!Init
<1>2. /\ r_state = "IDLE" /\ address = 0 /\ cap_rd_addr = 0 /\ sent_lines = 0 /\ phase = "READY"
      /\ dram = [rd_wr |-> FALSE, base |-> 0, num |-> 0, count |-> 0]
  BY DEF Init, requests!Init
<1>3. rb = buffers!EmptyRead /\ wb = buffers!EmptyWrite
  BY DEF Init, buffers!Init
<1>4. ColInv
  BY InitColInv
<1>5. ImageInv /\ Geometry /\ AddressInv /\ SelectInv
  BY <1>1 DEF ImageInv, Quiet, Geometry, Early, AddressInv, SelectInv, First, Pauses, Crossing, NextRow
<1>6. Typed
  <2>1. control!NoConf \in [image_width : Nat, image_height : Nat, start_address : Nat, result_address : Nat]
    BY DEF control!NoConf
  <2> QED
    BY <1>1, <1>2, <2>1 DEF Typed
<1>7. ReadShape /\ WriteShape
  BY <1>3 DEF ReadShape, WriteShape, buffers!EmptyRead, buffers!EmptyWrite, RowWords, M
<1>8. MemoryInv
  BY <1>2 DEF MemoryInv, WriteMemory, ReadMemory, Loading, Loaded, Fetching, Saving, requests!Request
<1>9. WordInv /\ FillInv /\ FilledInv
  BY <1>1, <1>2 DEF WordInv, FillInv, FilledInv, Fetching, Saving, Filling, Prelude
<1>10. BankInv /\ PipeInv /\ ResultInv
  BY <1>1 DEF BankInv, PipeInv, ResultInv, First, Pauses, Crossing
<1>11. SendInv /\ FrameInv
  BY <1>1, <1>2 DEF SendInv, FrameInv, Sending, Early, Quiet
<1> QED
  BY <1>4, <1>5, <1>6, <1>7, <1>8, <1>9, <1>10, <1>11 DEF FilterInv, FetchInv

(* A step keeps the shape of the banks.                                    *)
LEMMA ShapesStep ==
  ASSUME NEW delay \in BOOLEAN, Step(delay), ReadShape, WriteShape
  PROVE  ReadShape' /\ WriteShape'
<1>1. CASE NewImage
  <2>1. rb' = buffers!EmptyRead /\ wb' = buffers!EmptyWrite
    BY <1>1 DEF Step, buffers!Forget
  <2> QED
    BY <2>1 DEF ReadShape, WriteShape, buffers!EmptyRead, buffers!EmptyWrite, RowWords, M
<1>2. CASE ~NewImage
  <2>1. buffers!ReadBanks(BufferIn) /\ buffers!WriteBanks(BufferIn)
    BY <1>2 DEF Step, buffers!Clock
  <2> QED
    BY <2>1, ReadBanksStep, WriteBanksStep
<1> QED
  BY <1>1, <1>2

(* A step keeps the part of the invariant up to the read banks.            *)
LEMMA FetchStep ==
  ASSUME NEW delay \in BOOLEAN, Step(delay), FetchInv, WriteShape, \A i \in Images : Supported(i)
  PROVE  FetchInv'
<1>1. /\ ColInv /\ ImageInv /\ Typed /\ Geometry /\ AddressInv /\ SelectInv
      /\ ReadShape /\ MemoryInv /\ WordInv /\ FillInv /\ FilledInv
  BY DEF FetchInv
<1>2. ColInv'
  BY <1>1, NextColInv DEF Next
<1>3. ImageInv'
  BY <1>1, ImageStep
<1>4. Typed'
  BY <1>1, TypedStep
<1>5. Geometry'
  BY <1>1, GeometryStep
<1>6. AddressInv'
  BY <1>1, AddressStep
<1>7. SelectInv'
  <2>1. Sequence /\ control!BankSelects
    BY <1>1, StepSequence, Edge
  <2> QED
    BY <1>1, <2>1, SelectStep
<1>8. ReadShape'
  BY <1>1, ShapesStep
<1>9. MemoryInv'
  BY <1>1, MemoryStep
<1>10. WordInv'
  <2>1. address \in Int
    BY <1>1 DEF Typed
  <2> QED
    BY <1>1, <2>1, WordStep
<1>11. FillInv'
  BY <1>1, FillStep
<1>12. FilledInv'
  BY <1>1, <1>11, FilledStep
<1> QED
  BY <1>2, <1>3, <1>4, <1>5, <1>6, <1>7, <1>8, <1>9, <1>10, <1>11, <1>12 DEF FetchInv

(* A step keeps the whole: each part rests on the parts before it, and the *)
(* pipeline also on what they say after the step.                          *)
LEMMA FilterStep ==
  ASSUME NEW delay \in BOOLEAN, Step(delay), FilterInv, \A i \in Images : Supported(i)
  PROVE  FilterInv'
<1>1. FetchInv /\ BankInv /\ PipeInv /\ WriteShape /\ ResultInv /\ SendInv /\ FrameInv
  BY DEF FilterInv
<1>2. FetchInv'
  BY <1>1, FetchStep
<1>3. BankInv'
  BY <1>1, <1>2, BankStep
<1>4. PipeInv'
  BY <1>1, <1>2, PipeStep
<1>5. WriteShape'
  BY <1>1, ShapesStep DEF FetchInv
<1>6. ResultInv'
  BY <1>1, <1>2, ResultStep
<1>7. SendInv'
  BY <1>1, SendInvStep
<1>8. FrameInv'
  BY <1>1, FrameStep
<1> QED
  BY <1>2, <1>3, <1>4, <1>5, <1>6, <1>7, <1>8 DEF FilterInv

(* Nothing changes when no variable does.                                  *)
LEMMA FilterStutter ==
  ASSUME FilterInv, UNCHANGED vars
  PROVE  FilterInv'
<1>1. /\ UNCHANGED <<state, load, conf, rd_buffer_sel, wr_buffer_sel, read_address, write_address,
                     base_read_address, base_write_address, read_col_address, write_col_address,
                     remaining_height, remaining_width>>
      /\ UNCHANGED <<r_state, address, cap_read, cap_height, cap_rd_addr, request_size, rd_row,
                     rd_col, wr_row, wr_col, load_count, sent_lines, read_cl, buffer_write_data,
                     write_data>>
      /\ UNCHANGED <<rb, rb_out, byte_sel, wb, wb_out, last_read_sel, last_rd_buffer_sel,
                     last_wr_buffer_sel, read_col, col, mac>>
      /\ UNCHANGED <<start, image, phase, dram, dram_ready, request_done, read_data, filtered>>
  BY DEF vars, control!vars, control!addrs, control!counts, requests!vars, requests!captured,
         requests!position, requests!data, buffers!vars, buffers!bytes, buffers!selects,
         software, memory
<1>2. ColInv'
  BY NextColInv DEF FilterInv, FetchInv
<1>3. ImageInv' /\ Typed' /\ SelectInv' /\ ReadShape' /\ WriteShape'
  BY <1>1 DEF FilterInv, FetchInv, ImageInv, Typed, SelectInv, ReadShape, WriteShape
<1>4. Geometry'
  BY <1>1 DEF FilterInv, FetchInv, Geometry, InRow
<1>5. AddressInv'
  BY <1>1 DEF FilterInv, FetchInv, AddressInv, BaseWriteTop, OutRow, InRow, Top, Left, ReadAddress,
              BaseReadAddress, Second, NextSecond, NextBase, RowBase, Base, Group
<1>6. MemoryInv'
  BY <1>1 DEF FilterInv, FetchInv, MemoryInv, WriteMemory, ReadMemory, SentLines, At, requests!Request
<1>7. WordInv' /\ FillInv' /\ FilledInv'
  BY <1>1 DEF FilterInv, FetchInv, WordInv, Word, FillInv, FilledInv, RowHas, InRow
<1>8. BankInv'
  BY <1>1 DEF FilterInv, BankInv, Fetches, Holds, RowHas, InRow, Top, Left, RowBase, Base, Group,
              NextBase, NextSecond
<1>9. PipeInv'
  <2>1. /\ InRow' = InRow /\ RowBase' = RowBase /\ RowEnd' = RowEnd /\ Base' = Base /\ Stop' = Stop
        /\ buffers!ReadColOut' = buffers!ReadColOut
    BY <1>1 DEF Stop, RowEnd, RowBase, Base, Top, Left, InRow, buffers!ReadColOut
  <2>2. Frozen' = Frozen
    BY <1>1, <2>1 DEF Frozen
  <2>3. /\ Pipeline(Base + read_col_address - 10, RowBase)' = Pipeline(Base + read_col_address - 10, RowBase)
        /\ Pipeline(Base + write_col_address, RowBase)' = Pipeline(Base + write_col_address, RowBase)
        /\ Pipeline(Base + M + write_col_address, RowBase)' = Pipeline(Base + M + write_col_address, RowBase)
        /\ Pipeline(Base + write_col_address, Stop)' = Pipeline(Base + write_col_address, Stop)
    BY <1>1, <2>1 DEF Pipeline, Counts
  <2>4. PipeInv
    BY DEF FilterInv
  <2> QED
    BY <1>1, <2>1, <2>2, <2>3, <2>4 DEF PipeInv
<1>10. ResultInv'
  BY <1>1 DEF FilterInv, ResultInv, Kept, RowEnd, RowBase, Base, Top, Left, InRow
<1>11. SendInv'
  BY <1>1 DEF FilterInv, SendInv, Sends, RowAt, FirstColumn, SentLines, Cell, InRow, OutRow
<1>12. FrameInv'
  BY <1>1 DEF FilterInv, FrameInv, Passed, Pending, LineAddress, LinesDone, SentLines, RowAt, Top,
              Left, InRow, OutRow
<1> QED
  BY <1>2, <1>3, <1>4, <1>5, <1>6, <1>7, <1>8, <1>9, <1>10, <1>11, <1>12 DEF FilterInv, FetchInv

(* The invariant is inductive.                                             *)
LEMMA NextFilter ==
  ASSUME FilterInv, [Next]_vars, \A i \in Images : Supported(i)
  PROVE  FilterInv'
BY FilterStep, FilterStutter DEF Next

(* The invariant holds in every reachable state.                           *)
LEMMA FilterKept ==
  ASSUME \A i \in Images : Supported(i)
  PROVE  Spec => []FilterInv
<1>1. FilterInv /\ [Next]_vars => FilterInv'
  BY NextFilter
<1> QED
  BY <1>1, InitFilter, PTL DEF Spec

(* For supported images, any delays and sizes: the bank computed on holds  *)
(* the chunk, and the other one holds the next or will (BankInv).          *)
THEOREM BanksAreFilled ==
  ASSUME \A i \in Images : Supported(i)
  PROVE  Spec => []BankInv
<1>1. FilterInv => BankInv
  BY DEF FilterInv
<1> QED
  BY <1>1, FilterKept, PTL

(* RightLines, for every size of the buffers, any supported images and any *)
(* delays: a line that the unit hands to the memory is a line of the frame *)
(* and holds its results.                                                  *)
THEOREM LinesAreRight ==
  ASSUME \A i \in Images : Supported(i)
  PROVE  Spec => []RightLines
<1>1. FilterInv => RightLines
  BY LineRight DEF FilterInv
<1> QED
  BY <1>1, FilterKept, PTL

(* FrameComplete under the same assumptions: at done all lines of the      *)
(* filtered image are in memory.                                           *)
THEOREM FrameIsComplete ==
  ASSUME \A i \in Images : Supported(i)
  PROVE  Spec => []FrameComplete
<1>1. FilterInv => FrameComplete
  BY FrameDone DEF FilterInv
<1> QED
  BY <1>1, FilterKept, PTL
=============================================================================
