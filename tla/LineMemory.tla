----------------------------- MODULE LineMemory -----------------------------
(***************************************************************************)
(* What the users of the memory controller are promised (mem_ctrl.sv,      *)
(* header; afu.sv, comment at tx_done): a memory of lines that serves one  *)
(* request at a time, in one step, and answers it once.                    *)
(***************************************************************************)
CONSTANTS
  Lines,        \* line addresses
  Data,         \* contents of a line
  NoAnswer      \* no request was answered in the last step

VARIABLES
  mem,          \* contents of every line
  req,          \* the request held by the user
  answer        \* the last step's answer

vars == <<mem, req, answer>>

Idle == [op |-> "IDLE"]
Reads == [op : {"READ"}, line : Lines]
Writes == [op : {"WRITE"}, line : Lines, data : Data]
Requests == Reads \cup Writes \cup {Idle}

Init ==
  /\ mem \in [Lines -> Data]
  /\ req = Idle
  /\ answer = NoAnswer

Wait ==
  /\ req # Idle
  /\ answer' = NoAnswer
  /\ UNCHANGED <<mem, req>>

Issue ==
  /\ req = Idle
  /\ req' \in Requests
  /\ answer' = NoAnswer
  /\ UNCHANGED mem

Read ==
  /\ req.op = "READ"
  /\ answer' = mem[req.line]
  /\ req' \in Requests
  /\ UNCHANGED mem

Write ==
  /\ req.op = "WRITE"
  /\ mem' = [mem EXCEPT ![req.line] = req.data]
  /\ answer' = req.data
  /\ req' \in Requests

Next == Issue \/ Read \/ Write \/ Wait

Spec == Init /\ [][Next]_vars
=============================================================================
