----------------------------- MODULE RunContract -----------------------------
(* One approved run, between the two modules that have to agree about it: the   *)
(* change is sent and perhaps applied, the run ends once, with a row in the      *)
(* audit log (unless the log loses it), and it is reported done only if the      *)
(* change was applied, except by a tool whose result hides a failed step.        *)
(* ToolOutcome implements this for every tool; every request of Approvals       *)
(* implements it too, whatever the other requests and the chat turns do.         *)

VARIABLES
  run,      \* "idle", "executing", "done", "could_not", "failed" or "lost"
  change,   \* "none", "sent" or "applied"
  row,      \* "none", "success", "error" or "lost"
  soft      \* the tool's result hides a failed step (Approvals!SoftFail)

vars == <<run, change, row, soft>>

Init == run = "idle" /\ change = "none" /\ row = "none" /\ soft = FALSE

Begin ==
  /\ run = "idle"
  /\ run' = "executing" /\ change' = "sent" /\ soft' \in BOOLEAN
  /\ UNCHANGED row

\* The tenant performs the change, perhaps after the run gave up on it.
Applied ==
  /\ change = "sent"
  /\ change' = "applied"
  /\ UNCHANGED <<run, row, soft>>

Finish(r) ==
  /\ run = "executing"
  /\ r = "done" => change = "applied" \/ soft
  /\ run' = r /\ row' \in {"success", "lost"}
  /\ UNCHANGED <<change, soft>>

Fail ==
  /\ run = "executing"
  /\ run' = "failed" /\ row' \in {"error", "lost"}
  /\ UNCHANGED <<change, soft>>

\* The process ends under the run, before or after the row: no reply, and the change may
\* still be made.
Cut ==
  /\ run = "executing"
  /\ run' = "lost" /\ row' \in {"none", "success", "error", "lost"}
  /\ UNCHANGED <<change, soft>>

Next == Begin \/ Applied \/ Finish("done") \/ Finish("could_not") \/ Fail \/ Cut

Spec == Init /\ [][Next]_vars
==============================================================================
