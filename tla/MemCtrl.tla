------------------------------ MODULE MemCtrl -------------------------------
(***************************************************************************)
(* project/hw/memory/mem_ctrl.sv: the memory controller, which turns the   *)
(* op of one requester (held until tx_done) into go and enable signals of  *)
(* the DMA engine, one line at a time.                                     *)
(*                                                                         *)
(* Clock is one rising edge of clk.  The operators named after an output   *)
(* give its value during the cycle before the edge: the outputs are        *)
(* combinational in op and in the DMA's full flag.                         *)
(***************************************************************************)
CONSTANTS
  Data,     \* contents of a line
  Zero      \* the line of all zeroes, the reset value of internal_val

VARIABLES
  state, fill_count, internal_val,
  bubble    \* the cycle between driving the write address and the write

vars == <<state, fill_count, internal_val, bubble>>

Op == {"IDLE", "READ", "WRITE"}
State == {"STARTUP", "READY", "HOSTOP", "FILL"}

-----------------------------------------------------------------------------
(* Outputs                                                                 *)

Ready == state # "STARTUP"
HostRgo(op) == state = "HOSTOP" /\ op = "READ"
HostWgo(op) == state = "HOSTOP" /\ op = "WRITE"
RdValid(op) == state = "FILL" /\ op = "READ"
NoPop(op) == FALSE                                             \* mutation of HostRe
HostRe(op) == RdValid(op)
UnguardedWe(op, host_wr_ready) == HostWgo(op) /\ bubble        \* mutation of HostWe
HostWe(op, host_wr_ready) == HostWgo(op) /\ host_wr_ready /\ bubble

TxDone(op, host_wr_ready) ==
  \/ RdValid(op) /\ fill_count
  \/ HostWe(op, host_wr_ready)

-----------------------------------------------------------------------------
(* The state machine.  A write waits in FILL for its line and then goes    *)
(* through HOSTOP; a read goes through HOSTOP and is handed out in FILL.   *)

Startup(host_init) ==
  /\ state = "STARTUP"
  /\ state' = IF host_init THEN "READY" ELSE "STARTUP"
  /\ UNCHANGED <<fill_count, internal_val, bubble>>

Accept(op) ==
  /\ state = "READY"
  /\ state' = CASE op = "READ" -> "HOSTOP" [] op = "WRITE" -> "FILL" [] OTHER -> "READY"
  /\ UNCHANGED <<fill_count, internal_val, bubble>>

ShortFill(op, bus_in) ==                                       \* mutation of Fill
  /\ state = "FILL"
  /\ fill_count' = FALSE
  /\ state' = CASE op = "WRITE" -> "HOSTOP" [] op = "READ" -> "READY" [] OTHER -> "FILL"
  /\ internal_val' = IF op = "WRITE" THEN bus_in ELSE internal_val
  /\ UNCHANGED bubble
Fill(op, bus_in) ==
  /\ state = "FILL"
  /\ fill_count' = ~fill_count
  /\ state' = CASE fill_count /\ op = "WRITE" -> "HOSTOP"
                [] fill_count /\ op = "READ" -> "READY"
                [] OTHER -> "FILL"
  /\ internal_val' = IF op = "WRITE" THEN bus_in ELSE internal_val
  /\ UNCHANGED bubble

HastyHostRead(op, host_rd_ready, host_in) ==                   \* mutation of HostRead
  /\ state = "HOSTOP" /\ op = "READ"
  /\ internal_val' = host_in
  /\ state' = "FILL"
  /\ UNCHANGED <<fill_count, bubble>>
HostRead(op, host_rd_ready, host_in) ==
  /\ state = "HOSTOP" /\ op = "READ" /\ host_rd_ready
  /\ internal_val' = host_in
  /\ state' = "FILL"
  /\ UNCHANGED <<fill_count, bubble>>

(* Back to READY even when the DMA was full and nothing was written: the   *)
(* requester saw no tx_done, still holds op, and the write starts over.    *)
HostWrite(op, host_wr_ready) ==
  /\ state = "HOSTOP" /\ op = "WRITE"
  /\ IF bubble THEN state' = "READY" /\ bubble' = FALSE
               ELSE state' = "HOSTOP" /\ bubble' = host_wr_ready
  /\ UNCHANGED <<fill_count, internal_val>>

HostWait(op, host_rd_ready) ==
  /\ state = "HOSTOP"
  /\ op = "READ" => ~host_rd_ready
  /\ op # "WRITE"
  /\ UNCHANGED vars

Clock(host_init, op, host_rd_ready, host_wr_ready, bus_in, host_in) ==
  \/ Startup(host_init)
  \/ Accept(op)
  \/ Fill(op, bus_in)
  \/ HostRead(op, host_rd_ready, host_in)
  \/ HostWrite(op, host_wr_ready)
  \/ HostWait(op, host_rd_ready)

Init ==
  /\ state = "STARTUP" /\ fill_count = FALSE
  /\ internal_val = Zero /\ bubble = FALSE

TypeOK ==
  /\ state \in State /\ fill_count \in BOOLEAN
  /\ internal_val \in Data /\ bubble \in BOOLEAN
=============================================================================
