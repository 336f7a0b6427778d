------------------------------- MODULE ToolLoop ------------------------------
(* One conversation, one request at a time, in the detail Approvals leaves out: *)
(* the rounds of chat_with_tool_loop, and what ToolExecutor.execute does with   *)
(* each tool call: lookup, argument validation, the write gate, the handler,    *)
(* the call of log_action. An approval runs the stored call through the same    *)
(* execute, on an executor that holds the fingerprint of the stored record.     *)
EXTENDS Naturals, Sequences, SequencesExt

CONSTANTS
  Reads, Writes,    \* the tools of the catalogue; Writes is WRITE_TOOLS
  Unknown,          \* a tool name with no handler
  Args,             \* argument values in normal form
  RawArgs,          \* argument values as the model writes them
  Normalize,        \* the validation models: each value to its normal form, or Invalid
  Invalid,
  Reread,           \* a stored record's arguments as they come back from the session store
  MaxIterations,    \* max_iterations of chat_with_tool_loop
  MaxCalls,         \* bound: tool calls in one response
  MaxTotal,         \* bound: tool calls in the conversation
  MaxTurns,         \* bound: user messages
  None              \* no fingerprint granted; no pending record

Tools == Reads \cup Writes

\* A tool call of the model; `confirm` is the legacy flag the schemas still carry.
Call == [tool : Tools \cup {Unknown}, args : Args \cup RawArgs, confirm : BOOLEAN]

ASSUME ToolsAssumption == Reads \cap Writes = {} /\ Unknown \notin Tools
\* A pydantic model accepts what its own model_dump returned, and changes nothing.
ASSUME NormalizeAssumption ==
  /\ Normalize \in [Args \cup RawArgs -> Args \cup {Invalid}]
  /\ \A a \in Args : Normalize[a] = a
  /\ Invalid \notin Args
\* What Cosmos returns of stored arguments, as JSON, validates to what was stored.
ASSUME RoundTripAssumption ==
  /\ Reread \in [Args -> Args \cup RawArgs]
  /\ \A a \in Args : Normalize[Reread[a]] = a
ASSUME BoundsAssumption == {MaxIterations, MaxCalls, MaxTotal, MaxTurns} \subseteq Nat \ {0}

VARIABLES
  phase,      \* "idle"; "chat": waiting for the model; "tools": running a response's
              \* calls; "giveup": all rounds used
  turns,      \* user messages so far
  history,    \* the stored transcript
  messages,   \* the working copy of the running turn
  round,      \* rounds of this turn so far
  todo,       \* calls of the current response still to run, with their ids
  issued,     \* tool calls so far; the next one's id
  proposal,   \* executor.pending_confirmation
  stored,     \* pending_confirmation of the session document
  audit,      \* the calls of log_action, in order
  ran,        \* ghost: handler runs, in order, as [tool, args, by]
  gated       \* ghost: proposals minted in this turn, in order

vars == <<phase, turns, history, messages, round, todo, issued, proposal, stored, audit,
          ran, gated>>

Kinds == {"text", "calls", "ok", "raised", "invalid", "unknown", "confirm"}
Message == [role : {"user", "assistant", "tool"}, kind : Kinds, ids : Seq(Nat)]
Record  == [tool : Writes, args : Args, fingerprint : (Writes \X (Args \cup RawArgs))]
ASSUME NoneAssumption == None \notin Record /\ None \notin Writes \X Args
Row     == [tool : Tools, status : {"success", "error", "pending_confirmation"}]

TypeOK ==
  /\ phase \in {"idle", "chat", "tools", "giveup"}
  /\ turns \in 0 .. MaxTurns /\ round \in 0 .. MaxIterations /\ issued \in 0 .. MaxTotal
  /\ history \in Seq(Message) /\ messages \in Seq(Message)
  /\ todo \in Seq([call : Call, id : Nat])
  /\ proposal \in Record \cup {None} /\ stored \in Record \cup {None}
  /\ audit \in Seq(Row)
  /\ ran \in Seq([tool : Tools, args : Args, by : {"model", "human"}])
  /\ gated \in Seq(Record)

Init ==
  /\ phase = "idle" /\ turns = 0 /\ round = 0 /\ issued = 0
  /\ history = <<>> /\ messages = <<>> /\ todo = <<>>
  /\ proposal = None /\ stored = None
  /\ audit = <<>> /\ ran = <<>> /\ gated = <<>>

Said(role, kind, ids) == [role |-> role, kind |-> kind, ids |-> ids]
Result(kind, id) == Said("tool", kind, <<id>>)
------------------------------------------------------------------------------
(* ToolExecutor.execute, on an executor with the granted fingerprint `grant`.   *)

\* Mutant: the fingerprint is taken before the arguments are normalized.
Fingerprint_Raw(c) == <<c.tool, c.args>>

\* _fingerprint, of the tool and its normalized arguments.
Fingerprint(c) == <<c.tool, Normalize[c.args]>>

\* Mutant: `confirm=true` still authorizes, as execute's docstring says.
Granted_Flag(grant, fp, confirm) == grant = fp \/ confirm

\* A write runs only under the grant of its own fingerprint; `confirm` is stripped.
Granted(grant, fp, confirm) == grant # None /\ grant = fp

\* log_action, once for each call that passes validation: a line in the log, whether or
\* not the store takes the row (Approvals models a row that is lost).
Log(tool, status) == audit' = Append(audit, [tool |-> tool, status |-> status])

\* No handler, or arguments that do not validate: an error result, and log_action is not
\* called.
Refused(c, kind) ==
  /\ kind = IF c.tool = Unknown THEN "unknown" ELSE "invalid"
  /\ c.tool = Unknown \/ Normalize[c.args] = Invalid
  /\ UNCHANGED <<proposal, audit, ran, gated>>

\* The gate: a write without its grant mints a pending record and does not run.
Gated(c, grant, kind) ==
  LET args == Normalize[c.args]
      fp   == Fingerprint(c)
      rec  == [tool |-> c.tool, args |-> args, fingerprint |-> fp] IN
  /\ kind = "confirm"
  /\ c.tool \in Writes /\ args # Invalid
  /\ ~Granted(grant, fp, c.confirm)
  /\ proposal' = rec
  /\ gated' = Append(gated, rec)
  /\ Log(c.tool, "pending_confirmation")
  /\ UNCHANGED ran

\* The handler runs, and returns a result or raises; both are logged.
Handled(c, grant, by, kind) ==
  LET args == Normalize[c.args] IN
  /\ kind \in {"ok", "raised"}
  /\ c.tool \in Tools /\ args # Invalid
  /\ c.tool \in Writes => Granted(grant, Fingerprint(c), c.confirm)
  /\ ran' = Append(ran, [tool |-> c.tool, args |-> args, by |-> by])
  /\ Log(c.tool, IF kind = "ok" THEN "success" ELSE "error")
  /\ UNCHANGED <<proposal, gated>>

Execute(c, grant, by, kind) ==
  Refused(c, kind) \/ Gated(c, grant, kind) \/ Handled(c, grant, by, kind)
------------------------------------------------------------------------------
(* A chat turn: web_api_chat around chat_with_tool_loop.                        *)

\* Mutant: one executor serves all turns, and still holds what an earlier one proposed.
StartTurn_SameExecutor ==
  /\ phase = "idle" /\ turns < MaxTurns
  /\ phase' = "chat" /\ turns' = turns + 1 /\ round' = 0
  /\ messages' = Append(history, Said("user", "text", <<>>))
  /\ gated' = <<>>
  /\ UNCHANGED <<history, todo, issued, proposal, stored, audit, ran>>

\* A message arrives; the loop works on a copy of the stored transcript, and the
\* executor is new: nothing granted, nothing proposed.
StartTurn ==
  /\ phase = "idle" /\ turns < MaxTurns
  /\ phase' = "chat" /\ turns' = turns + 1 /\ round' = 0
  /\ messages' = Append(history, Said("user", "text", <<>>))
  /\ proposal' = None /\ gated' = <<>>
  /\ UNCHANGED <<history, todo, issued, stored, audit, ran>>

\* The model answers with tool calls, in one message that names their ids.
CallTools(cs) ==
  /\ phase = "chat"
  /\ issued + Len(cs) <= MaxTotal
  /\ LET ids == [i \in 1 .. Len(cs) |-> issued + i] IN
     /\ messages' = Append(messages, Said("assistant", "calls", ids))
     /\ todo' = [i \in 1 .. Len(cs) |-> [call |-> cs[i], id |-> ids[i]]]
  /\ issued' = issued + Len(cs)
  /\ round' = round + 1
  /\ phase' = "tools"
  /\ UNCHANGED <<turns, history, proposal, stored, audit, ran, gated>>

\* Mutant: what the tool raised is swallowed without a result message.
ToolMessage_NotOnError(kind, id) ==
  messages' = IF kind = "raised" THEN messages ELSE Append(messages, Result(kind, id))

\* The result of the call, or the error it raised, goes to the model as one message.
ToolMessage(kind, id) == messages' = Append(messages, Result(kind, id))

\* Mutant: one round too many.
AfterRound_OneMore == IF round <= MaxIterations THEN "chat" ELSE "giveup"

\* After the last call of a response: the next round, if one is left.
AfterRound == IF round < MaxIterations THEN "chat" ELSE "giveup"

\* The next call of the response.
RunTool(kind) ==
  /\ phase = "tools"
  /\ Execute(Head(todo).call, None, "model", kind)
  /\ ToolMessage(kind, Head(todo).id)
  /\ todo' = Tail(todo)
  /\ phase' = IF Len(todo) = 1 THEN AfterRound ELSE "tools"
  /\ UNCHANGED <<turns, history, round, issued, stored>>

\* Mutant: the approval is stored as soon as there is none, and kept.
StoreProposal_First ==
  stored' = IF gated # <<>> /\ stored = None THEN Head(gated) ELSE stored

\* set_pending, if the executor holds a proposal.
StoreProposal == stored' = IF proposal # None THEN proposal ELSE stored

\* The final text, of the model or of the loop itself after its last round: the
\* transcript is saved and the proposal stored. A write proposed in this turn that
\* is not the last one is gone.
EndTurn ==
  /\ phase \in {"chat", "giveup"}
  /\ history' = Append(messages, Said("assistant", "text", <<>>))
  /\ StoreProposal
  /\ phase' = "idle"
  /\ UNCHANGED <<turns, messages, round, todo, issued, proposal, audit, ran, gated>>

\* The model cannot be reached, or its arguments are not JSON: chat raises, through
\* the loop, to the handler's error response. Nothing is saved.
ChatFails ==
  /\ phase = "chat"
  /\ phase' = "idle"
  /\ UNCHANGED <<turns, history, messages, round, todo, issued, proposal, stored, audit, ran,
                 gated>>
------------------------------------------------------------------------------
(* An approval: resolve_pending_confirmation with a valid token, between turns. *)

\* The stored call as the store returns it, on an executor granted the stored fingerprint
\* (a string, which JSON keeps). Its result is written to the transcript unless it raised;
\* the record is cleared either way.
Approve(kind) ==
  LET c == [tool |-> stored.tool, args |-> Reread[stored.args], confirm |-> FALSE] IN
  /\ phase = "idle" /\ stored # None
  /\ Execute(c, stored.fingerprint, "human", kind)
  /\ history' = IF kind = "raised" THEN history
                ELSE Append(history, Said("assistant", "text", <<>>))
  /\ stored' = None
  /\ UNCHANGED <<phase, turns, messages, round, todo, issued>>

\* The technician cancels.
Cancel ==
  /\ phase = "idle" /\ stored # None
  /\ stored' = None
  /\ UNCHANGED <<phase, turns, history, messages, round, todo, issued, proposal, audit, ran,
                 gated>>

Next ==
  \/ StartTurn
  \/ \E n \in 1 .. MaxCalls : \E cs \in [1 .. n -> Call] : CallTools(cs)
  \/ \E kind \in Kinds : RunTool(kind)
  \/ EndTurn
  \/ ChatFails
  \/ \E kind \in Kinds : Approve(kind)
  \/ Cancel

Spec == Init /\ [][Next]_vars
------------------------------------------------------------------------------
(* What the loop and the gate promise.                                          *)

\* The transcript the next turn sends to the model is one a provider accepts: each
\* message with tool calls is followed by exactly their results, in order, whatever
\* was refused, gated or raised, and no result stands anywhere else.
PairedHistory ==
  \A i \in 1 .. Len(history) :
    LET m == history[i] IN
    /\ m.kind = "calls" =>
         /\ i + Len(m.ids) < Len(history)
         /\ \A j \in 1 .. Len(m.ids) : /\ history[i + j].role = "tool"
                                       /\ history[i + j].ids = <<m.ids[j]>>
    /\ m.role = "tool" =>
         \E k \in 1 .. (i - 1) : /\ history[k].kind = "calls"
                                 /\ i - k \in 1 .. Len(history[k].ids)

\* Whatever the model calls, with or without `confirm`, however often, and whatever
\* has been approved before, it runs no write handler: only a human's approval does,
\* and it runs the tool and arguments that were last offered for approval.
OnlyHumansWrite ==
  [][\A i \in Len(ran) + 1 .. Len(ran') :
       ran'[i].tool \in Writes =>
         /\ ran'[i].by = "human"
         /\ stored # None /\ ran'[i].tool = stored.tool /\ ran'[i].args = stored.args]_vars

\* An approved change is not stopped by the gate a second time, which would be
\* reported to the technician as done.
ApprovedRuns ==
  [][phase = "idle" /\ stored # None /\ stored' = None /\ (audit' # audit \/ history' # history)
       => Len(ran') = Len(ran) + 1]_vars

\* The step in which a turn that did not fail ends.
Saves == phase \in {"chat", "giveup"} /\ phase' = "idle" /\ history' # history

\* After a turn that proposed something and did not fail, the approval on offer is
\* the turn's last proposal.
LastProposalOffered ==
  [][Saves /\ gated # <<>> => stored' = Last(gated)]_vars

\* The tool and arguments of a pending record.
Requested(r) == IF r = None THEN None ELSE <<r.tool, r.args>>

Gate == INSTANCE WriteGate WITH
  open <- phase # "idle", held <- Requested(proposal), offered <- Requested(stored)

\* The rounds, the retries, what the model calls and how its arguments are spelt do not
\* show: the loop, the gate, the store and the approval are WriteGate's seven steps.
ImplementsGate == Gate!Spec
==============================================================================
