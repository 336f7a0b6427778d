------------------------------ MODULE WriteGate ------------------------------
(* What the executor and the session promise together, one request at a time:   *)
(* the model may look and may ask for writes; the last write asked for in a     *)
(* turn that ends well is on offer; what is on offer is carried out once, when  *)
(* a human approves it, or withdrawn. Nothing else writes, and every run and    *)
(* every request for a write is logged once. ToolLoop implements this,          *)
(* whatever arguments the model makes up and in whatever order it calls.        *)
EXTENDS Sequences

CONSTANTS Reads, Writes, Args, None

VARIABLES
  open,     \* a chat turn is under way
  held,     \* the write it asked for last: <<tool, args>>, or None
  offered,  \* the write on offer, or None
  ran,      \* handler runs, in order
  audit     \* calls of log_action, in order

vars == <<open, held, offered, ran, audit>>

Init == open = FALSE /\ held = None /\ offered = None /\ ran = <<>> /\ audit = <<>>

Row(tool, status) == audit' = Append(audit, [tool |-> tool, status |-> status])
Run(tool, args, by) == ran' = Append(ran, [tool |-> tool, args |-> args, by |-> by])

Begin ==
  /\ ~open /\ open' = TRUE
  /\ held' = None
  /\ UNCHANGED <<offered, ran, audit>>

Look(tool, args, status) ==
  /\ open
  /\ Run(tool, args, "model") /\ Row(tool, status)
  /\ UNCHANGED <<open, held, offered>>

Ask(tool, args) ==
  /\ open
  /\ held' = <<tool, args>> /\ Row(tool, "pending_confirmation")
  /\ UNCHANGED <<open, offered, ran>>

\* The turn ends well: what it asked for replaces what was on offer.
Offer ==
  /\ open /\ open' = FALSE
  /\ offered' = IF held = None THEN offered ELSE held
  /\ UNCHANGED <<held, ran, audit>>

\* It fails: what was on offer stays, and what it asked for is gone.
Drop ==
  /\ open /\ open' = FALSE
  /\ UNCHANGED <<held, offered, ran, audit>>

CarryOut(tool, args, status) ==
  /\ ~open /\ offered = <<tool, args>>
  /\ Run(tool, args, "human") /\ Row(tool, status)
  /\ offered' = None
  /\ UNCHANGED <<open, held>>

Withdraw ==
  /\ ~open /\ offered # None
  /\ offered' = None
  /\ UNCHANGED <<open, held, ran, audit>>

Ended == {"success", "error"}

Next ==
  \/ Begin \/ Offer \/ Drop \/ Withdraw
  \/ \E tool \in Reads, args \in Args, status \in Ended : Look(tool, args, status)
  \/ \E tool \in Writes, args \in Args : Ask(tool, args)
  \/ \E tool \in Writes, args \in Args, status \in Ended : CarryOut(tool, args, status)

Spec == Init /\ [][Next]_vars
==============================================================================
