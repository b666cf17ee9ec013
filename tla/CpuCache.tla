------------------------------ MODULE CpuCache ------------------------------
(***************************************************************************)
(* project/hw/memory/mem_system.sv: the direct-mapped write-back cache of  *)
(* the processor (cpu_cache.sv, ram_block.sv) and its controller           *)
(* (cpu_cache_ctrl.sv), between a requester and host memory.               *)
(*                                                                         *)
(* A line is one word: the word within a line is always selected by the    *)
(* offset of the access itself.  The RAMs are synchronous: q shows in a    *)
(* cycle what was at the index of the cycle before.  The controller's      *)
(* outputs are latches, held in the states that do not assign them; IDLE   *)
(* assigns no index.  One step is one rising edge of clk.                  *)
(***************************************************************************)
CONSTANTS
  Index, Tag,       \* parts of an address
  Word, Zero,       \* contents; Zero, in Word, is that of a RAM after reset
  ZeroTag           \* in Tag: that of a tag RAM after reset

VARIABLES
  currentState,
  flop,         \* FloppedAddressIn, FloppedDataIn and Rd
  held,         \* the controller's outputs to the cache in the last cycle
  op_host,      \* and its op
  ram, q,       \* the RAMs by index, and what they show
  mem,          \* host memory
  ref           \* the "perfect memory" of the test bench

vars == <<currentState, flop, held, op_host, ram, q, mem, ref>>

Address == [tag : Tag, index : Index]

-----------------------------------------------------------------------------
(* The controller's outputs to the cache                                   *)

At(states) == currentState \in states

Outputs ==
  [index    |-> IF At({"IDLE"}) THEN held.index ELSE flop.addr.index,
   tag      |-> IF At({"IDLE"}) THEN held.tag ELSE flop.addr.tag,
   comp     |-> At({"CMPRD", "CMPWR"}) \/ (held.comp /\ ~At({"MEMRD"})),
   wr_cache |-> At({"CACHEWR", "CMPWR"}) \/ (held.wr_cache /\ ~At({"IDLE"})),
   cache_en |-> At({"CMPRD", "CACHEWR", "CMPWR", "ACCRD"}) \/ held.cache_en,
   data     |-> IF At({"CMPRD", "CACHEWR", "CMPWR"}) THEN flop.data ELSE held.data]

(* AddrOut_host: the address of the access, also to write a victim back.   *)
AddrOutHost == flop.addr

OpHost ==
  CASE At({"MEMWB"}) -> "WRITE"
    [] At({"MEMRD"}) -> "READ"
    [] At({"CACHEWR"}) -> "IDLE"
    [] OTHER -> op_host

-----------------------------------------------------------------------------
(* The cache (cpu_cache.sv)                                                *)

match == Outputs.tag = q.tag
hit == Outputs.cache_en /\ match
dirty == Outputs.cache_en /\ q.dirty /\ (~Outputs.wr_cache \/ (Outputs.comp /\ ~match))
valid == Outputs.cache_en /\ q.valid /\ (~Outputs.wr_cache \/ Outputs.comp)

Found == hit /\ valid

(* A line from the host replaces all; a write without compare sets all but *)
(* clears dirty, a write with compare sets the word and dirty.             *)
Written(o, replaceLine) ==
  LET old == ram[o.index]
      writes == o.cache_en /\ o.wr_cache
  IN  IF replaceLine
      THEN [tag |-> o.tag, word |-> mem[AddrOutHost], dirty |-> FALSE, valid |-> TRUE]
      ELSE IF writes /\ ~o.comp
      THEN [tag |-> o.tag, word |-> o.data, dirty |-> FALSE, valid |-> TRUE]
      ELSE IF writes /\ match THEN [old EXCEPT !.word = o.data, !.dirty = TRUE]
      ELSE old

(* ram_block.sv: reads what was there before the write.                    *)
Rams(replaceLine) ==
  /\ ram' = [ram EXCEPT ![Outputs.index] = Written(Outputs, replaceLine)]
  /\ q' = ram[Outputs.index]

-----------------------------------------------------------------------------
(* The state machine (cpu_cache_ctrl.sv).  An access is held until it is   *)
(* over, so en matters in IDLE only.                                       *)
Goto(from, to) == currentState = from /\ currentState' = to

NextState(en, wr, tx_done) ==
  \/ Goto("IDLE", IF ~en THEN "IDLE" ELSE IF wr THEN "CMPWR" ELSE "CMPRD")
  \/ Goto("CMPRD", IF Found THEN "IDLE" ELSE IF dirty THEN "MEMWB" ELSE "MEMRD")
  \/ Goto("CMPWR", IF Found THEN "IDLE" ELSE IF valid THEN "ACCRD" ELSE "MEMRD")
  \/ Goto("ACCRD", IF dirty THEN "MEMWB" ELSE "MEMRD")
  \/ Goto("MEMWB", IF tx_done THEN "MEMRD" ELSE "MEMWB")
  \/ Goto("MEMRD", IF ~tx_done THEN "MEMRD" ELSE IF flop.rd THEN "CMPRD" ELSE "CACHEWR")
  \/ Goto("CACHEWR", "IDLE")

Capture(wr, addr, data) ==
  flop' = IF At({"IDLE"}) THEN [addr |-> addr, data |-> data, rd |-> ~wr] ELSE flop

(* The host does what op says, in the cycle of tx_done.                    *)
Host(tx_done) ==
  /\ tx_done => OpHost \in {"READ", "WRITE"}
  /\ mem' = IF tx_done /\ At({"MEMWB"}) THEN [mem EXCEPT ![AddrOutHost] = q.word] ELSE mem

Reference(en, wr, addr, data) ==
  ref' = IF At({"IDLE"}) /\ en /\ wr THEN [ref EXCEPT ![addr] = data] ELSE ref

Step(en, wr, addr, data, tx_done) ==
  /\ NextState(en, wr, tx_done)
  /\ Capture(wr, addr, data)
  /\ held' = Outputs
  /\ op_host' = OpHost
  /\ Rams(At({"MEMRD"}) /\ tx_done)
  /\ Host(tx_done)
  /\ Reference(en, wr, addr, data)

EmptyLine == [tag |-> ZeroTag, word |-> Zero, dirty |-> FALSE, valid |-> FALSE]

(* A latch that was never open shows anything.                             *)
Init ==
  /\ currentState = "IDLE"
  /\ flop \in [addr : Address, data : {Zero}, rd : {FALSE}]
  /\ held \in [index : Index, tag : Tag, comp : BOOLEAN, wr_cache : {FALSE},
               cache_en : BOOLEAN, data : {Zero}]
  /\ op_host = "IDLE"
  /\ ram = [i \in Index |-> EmptyLine] /\ q = EmptyLine
  /\ mem \in [Address -> Word] /\ ref = mem

Next ==
  \E en, wr, tx_done \in BOOLEAN, addr \in Address, data \in Word :
    Step(en, wr, addr, data, tx_done)

Spec == Init /\ [][Next]_vars

-----------------------------------------------------------------------------
(* A read gives the value last written at its address, as the reference    *)
(* memory does: "if (data_out != Data_out_ref)" (mem_system_tb.sv 120).    *)
PerfectMemory == At({"CMPRD"}) /\ Found => q.word = ref[flop.addr]
=============================================================================
