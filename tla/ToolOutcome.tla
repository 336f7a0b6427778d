----------------------------- MODULE ToolOutcome -----------------------------
(* One approved run of a write tool: the handler's calls to Microsoft Graph or  *)
(* the Exchange sidecar, what it makes of a call that fails, its result, the    *)
(* audit row, and the reply that resolve_pending_confirmation derives from the  *)
(* result. A call may be performed and its answer lost; it may be performed     *)
(* after the caller gave up.                                                    *)
EXTENDS Naturals, Sequences

CONSTANTS
  Users,      \* users a bulk operation may name
  MaxBulk     \* bound: users in one bulk operation

ASSUME BulkAssumption == MaxBulk \in Nat \ {0} /\ Users # {}

\* Write tools whose handler is one Graph call, which raises when it fails.
OneCall == {"update_user", "delete_user", "reset_password", "assign_license",
            "remove_license", "manage_group_membership"}
Sidecar == {"manage_shared_mailbox", "manage_distribution_group"}
Reports == {"send_report_to_teams", "send_report_via_email"}
Methods == {"conditional_access", "conditional_access_recommendation", "per_user_mfa"}

\* An approved action: a tool, and what of its arguments decides the handler's path.
\* The list of a bulk operation may be empty.
Jobs ==
  [tool : OneCall \cup Sidecar \cup Reports, how : {"plain"}]
    \cup [tool : {"create_user"}, how : {"plain", "licensed"}]
    \cup [tool : {"enforce_mfa"}, how : Methods]
    \cup [tool : {"bulk_operation"}, how : {"plain"},
          users : UNION {[1 .. n -> Users] : n \in 0 .. MaxBulk}]

VARIABLES
  config,   \* the settings: [mfaGroup, sidecar : BOOLEAN], whether each is present
  job,      \* the approved action
  run,      \* "idle"; "executing"; the reply: "done", "could_not", "failed"; or "lost"
  effect,   \* of each promised step in the tenant
  notes,    \* how each call ended that is over, as the handler saw it
  row       \* the audit row: its status, or "lost" when the audit store refused it

vars == <<config, job, run, effect, notes, row>>

\* What the approval's summary promises, step by step.
Promised(j) ==
  IF j.tool = "bulk_operation" THEN j.users
  ELSE IF j.how = "licensed" THEN <<"user", "license">> ELSE <<"change">>

\* The handler returns before any call: guidance and refusals, missing settings,
\* and the two report tools, which deliver nothing.
CallsNothing(j) ==
  \/ j.tool \in Reports
  \/ (j.tool \in Sidecar /\ ~config.sidecar)
  \/ (j.tool = "enforce_mfa" /\ (j.how # "conditional_access" \/ ~config.mfaGroup))

\* Of those, the ones whose result says success = False.
SaysNo(j) ==
  CallsNothing(j) /\ j.tool \notin Reports /\ j.how # "conditional_access_recommendation"

Calls(j) == IF CallsNothing(j) THEN <<>> ELSE Promised(j)

\* The call the handler is in, or about to make.
Current == Len(notes) + 1

Effects == {"unsent", "sent", "refused", "applied"}
NoJob == [tool |-> "none", how |-> "plain"]

TypeOK ==
  /\ config \in [mfaGroup : BOOLEAN, sidecar : BOOLEAN]
  /\ job \in Jobs \cup {NoJob}
  /\ run \in {"idle", "executing", "done", "could_not", "failed", "lost"}
  /\ effect \in Seq(Effects)
  /\ notes \in Seq({"success", "error"}) /\ Len(notes) <= Len(effect)
  /\ row \in {"none", "success", "error", "lost"}

Init ==
  /\ config \in [mfaGroup : BOOLEAN, sidecar : BOOLEAN]
  /\ job = NoJob /\ run = "idle"
  /\ effect = <<>> /\ notes = <<>> /\ row = "none"
------------------------------------------------------------------------------
(* The handler.                                                                 *)

\* A valid approval starts the stored action.
Begin(j) ==
  /\ run = "idle"
  /\ job' = j /\ run' = "executing"
  /\ effect' = [i \in 1 .. Len(Promised(j)) |-> "unsent"]
  /\ UNCHANGED <<config, notes, row>>

\* A call is due.
Due == run = "executing" /\ Current <= Len(Calls(job))

\* Mutant: the requests of all users leave together.
Send_Together ==
  /\ Due /\ effect[Current] = "unsent"
  /\ effect' = [i \in DOMAIN effect |-> IF effect[i] = "unsent" THEN "sent" ELSE effect[i]]
  /\ UNCHANGED <<config, job, run, notes, row>>

\* The request leaves.
Send ==
  /\ Due /\ effect[Current] = "unsent"
  /\ effect' = [effect EXCEPT ![Current] = "sent"]
  /\ UNCHANGED <<config, job, run, notes, row>>

\* The tenant performs a request, or refuses it.
Settle(i) ==
  /\ effect[i] = "sent"
  /\ \E e \in {"applied", "refused"} : effect' = [effect EXCEPT ![i] = e]
  /\ UNCHANGED <<config, job, run, notes, row>>

\* The answer of a performed request arrives.
Succeed ==
  /\ Due /\ effect[Current] = "applied"
  /\ notes' = Append(notes, "success")
  /\ UNCHANGED <<config, job, run, effect, row>>

\* Mutants: create_user's own call is caught like its licence; a bulk operation
\* lets its first failure through.
Catches_All(j, i) == j.tool \in {"bulk_operation", "create_user"} \cup Sidecar
Catches_NotBulk(j, i) == (j.how = "licensed" /\ i = 2) \/ j.tool \in Sidecar

\* The handler goes on after its i-th call failed: a bulk operation with the next
\* user, create_user without the licence, the sidecar client with a failure result.
Catches(j, i) ==
  j.tool = "bulk_operation" \/ (j.how = "licensed" /\ i = 2) \/ j.tool \in Sidecar

\* Mutant: a failed user is listed by the handler and by its exception clause.
CallFails_Twice ==
  /\ Due
  /\ Catches(job, Current)
  /\ notes' = notes \o <<"error", "error">>
  /\ UNCHANGED <<config, job, run, effect, row>>

\* The call fails, and the handler catches it: arguments the client cannot send, a
\* token it cannot get, a refusal, a timeout, an answer it cannot read or that does
\* not say success. The request may never have left, or may have been performed.
CallFails ==
  /\ Due
  /\ Catches(job, Current)
  /\ notes' = Append(notes, "error")
  /\ UNCHANGED <<config, job, run, effect, row>>
------------------------------------------------------------------------------
(* The executor and the resolver.                                               *)

\* log_action: the row, unless the audit store refuses it, which is swallowed.
Log(status) == row' \in {status, "lost"}

\* The reply r, unless the process ends between the row and the reply.
Answer(r) == run' \in {r, "lost"}

\* The call fails and nothing in the handler catches it: an error row, "could not be
\* completed".
Raise ==
  /\ Due
  /\ ~Catches(job, Current)
  /\ Log("error")
  /\ Answer("failed")
  /\ notes' = Append(notes, "error")
  /\ UNCHANGED <<config, job, effect>>

AnyError == \E i \in DOMAIN notes : notes[i] = "error"

\* Mutant: a licence error counts too.
ReportsFailure_License ==
  SaysNo(job) \/ (AnyError /\ (job.tool \in Sidecar \/ job.how = "licensed"))

\* The result carries an error or success = False: of all the results that hold a
\* failure, only refusals and the sidecar's.
ReportsFailure == SaysNo(job) \/ (AnyError /\ job.tool \in Sidecar)

\* The handler returns its result: a success row, and the reply.
Return ==
  /\ run = "executing" /\ Current > Len(Calls(job))
  /\ Log("success")
  /\ Answer(IF ReportsFailure THEN "could_not" ELSE "done")
  /\ UNCHANGED <<config, job, effect, notes>>

\* The process ends under the run, between two calls, inside one or before the row:
\* nobody writes it, and what has been sent is still with the tenant.
Cut ==
  /\ run = "executing"
  /\ run' = "lost"
  /\ UNCHANGED <<config, job, effect, notes, row>>

Next ==
  \/ \E j \in Jobs : Begin(j)
  \/ Send \/ Succeed \/ CallFails \/ Raise \/ Return \/ Cut
  \/ \E i \in 1 .. Len(effect) : Settle(i)

Spec == Init /\ [][Next]_vars
------------------------------------------------------------------------------
(* What a reply is worth.                                                       *)

\* The tools that can answer "Done" for a change that was not made.
HidesFailure(j) ==
  \/ j.tool \in Reports \cup {"bulk_operation"}
  \/ j.how \in {"licensed", "conditional_access_recommendation"}

\* Every promised step was made, and there was one.
Made == effect # <<>> /\ \A i \in 1 .. Len(effect) : effect[i] = "applied"

Contract == INSTANCE RunContract WITH
  change <- IF run = "idle" THEN "none" ELSE IF Made THEN "applied" ELSE "sent",
  soft <- HidesFailure(job)

\* A run of any other tool, however its calls fail, ends as Approvals assumes.
ImplementsContract == Contract!Spec

\* "Could not complete" means that the tenant was not touched and will not be, except
\* by the sidecar, whose answer can be lost after the change was made.
DeclinedMeansUntouched ==
  run = "could_not" /\ job.tool \notin Sidecar => \A i \in 1 .. Len(effect) : effect[i] = "unsent"

\* "The approved change could not be completed", in the chat or in the audit log, leaves
\* nothing that the handler knows to be done: asking again repeats no confirmed step.
FailedMeansNoneConfirmed ==
  run = "failed" \/ row = "error" => \A i \in DOMAIN notes : notes[i] # "success"

\* However a run ends, by its reply, by an exception or with the process, it has touched
\* nothing beyond the call it was in: a bulk operation that is cut off has left the rest
\* of its users alone, whatever its earlier calls came to.
NobodyBeyond == \A i \in 1 .. Len(effect) : i > Current => effect[i] = "unsent"

\* docs/ARCHITECTURE.md: "The assistant never tells a technician that a change happened
\* when it did not."
NeverFakesDone == run = "done" => Made
==============================================================================
