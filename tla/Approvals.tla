------------------------------ MODULE Approvals ------------------------------
(* One conversation of M365 Guardian on one application instance: chat turns   *)
(* propose changes, the technician approves or cancels them from a card, and   *)
(* the approved change runs against the tenant.                                *)
(*                                                                             *)
(* The application is one asyncio event loop, so a handler runs without        *)
(* interruption up to its next real suspension point: the LLM call, a Graph    *)
(* or Exchange call, a Teams send. The Cosmos and audit clients are the        *)
(* synchronous SDK inside "async def" methods and never suspend. Each action   *)
(* below is one such uninterrupted segment, with every store access it makes.  *)
(*   web_api_chat          Load, Propose*, FinishWeb or FailTurn               *)
(*   on_message_activity   Load, Propose*, SaveBot, FinishBot or               *)
(*                         StoreBot + ShowCard, or FailTurn                    *)
(*   resolve_pending_confirmation                                              *)
(*                         Cancel, Reject, or Approve + Finish / Fail          *)
(* Applied is the tenant's own step, Restart the end of the process: between   *)
(* two segments, or between two writes of the one that is running.             *)
(* The row that a proposal leaves in the audit log is ToolLoop's.              *)
EXTENDS Naturals, Sequences, SequencesExt

CONSTANTS
  Turns,        \* messages of this session: web chat requests or Teams messages
  Clicks,       \* Approve / Cancel requests, from either surface
  Actions,      \* write actions: a write tool with its validated arguments
  SoftFail,     \* the actions whose result hides a failed step (see ToolOutcome)
  Tokens,       \* approval tokens; each is minted at most once
  TTL,          \* CONFIRMATION_TTL, in clock ticks
  MaxTime,      \* bound of the clock
  Stores,       \* deployments: TRUE with Cosmos, FALSE with the in-memory fallback
  NoToken,      \* a token no proposal has: what a malformed request carries
  NoPending     \* the document has no pending_confirmation

Time == 0 .. MaxTime

\* The record execute() leaves in pending_confirmation. An action determines its
\* fingerprint, so one field stands for "tool", "args", "fingerprint", "summary".
Pendings == [token : Tokens, action : Actions, expires : Time]

ASSUME EntriesAssumption  == Turns \cap Clicks = {}
ASSUME TimeAssumption     == TTL \in Nat /\ MaxTime \in Nat
ASSUME NoTokenAssumption  == NoToken \notin Tokens
ASSUME NoPendingAssumption == NoPending \notin Pendings
ASSUME StoresAssumption == Stores \subseteq BOOLEAN

VARIABLES
  surface,    \* whose session it is: the web client's or a Teams conversation's
  durable,    \* Cosmos holds the session document, which survives the process
  clock,      \* the server's UTC clock
  history,    \* the session document's transcript: one entry per saved turn
              \* (all of its messages) or recorded outcome of an approval
  pending,    \* the session document's pending_confirmation
  turn,       \* where the handler of each message stands
  seen,       \* the transcript each running turn loaded
  proposal,   \* each turn's executor.pending_confirmation
  cards,      \* Approve/Cancel cards on the technician's screen
  click,      \* how each approval request stands, or was answered
  pressed,    \* the token each approval request carried
  approval,   \* the pending record an approved request runs
  effect,     \* what became of that change in the tenant
  row,        \* the audit row of each request's run; "lost": the store refused it
  minted,     \* ghost: every pending record minted so far
  retired     \* ghost: tokens that were stored in the document and have left it

doc   == <<history, pending, retired>>
turnV == <<turn, seen, proposal, cards, minted>>
runV  == <<click, pressed, approval, effect>>
site  == <<surface, durable>>
vars  == <<site, clock, doc, turnV, runV, row>>

TurnPhases  == {"idle", "running", "sending", "carding", "done", "failed", "lost"}
Answered    == {"done", "could_not", "failed", "invalid", "cancelled"}
ClickPhases == {"idle", "executing", "lost"} \cup Answered
Effects     == {"none", "sent", "applied"}
Rows        == {"none", "success", "error", "lost"}

TypeOK ==
  /\ surface \in {"web", "bot"}
  /\ durable \in Stores
  /\ clock \in Time
  /\ history \in Seq(Turns \cup Clicks)
  /\ pending \in Pendings \cup {NoPending}
  /\ turn \in [Turns -> TurnPhases]
  /\ seen \in [Turns -> Seq(Turns \cup Clicks)]
  /\ proposal \in [Turns -> Pendings \cup {NoPending}]
  /\ cards \in SUBSET Pendings
  /\ click \in [Clicks -> ClickPhases]
  /\ pressed \in [Clicks -> Tokens \cup {NoToken}]
  /\ approval \in [Clicks -> Pendings \cup {NoPending}]
  /\ effect \in [Clicks -> Effects]
  /\ row \in [Clicks -> Rows]
  /\ minted \in SUBSET Pendings
  /\ retired \in SUBSET Tokens

Init ==
  /\ surface \in {"web", "bot"}
  /\ durable \in Stores
  /\ clock = 0
  /\ history = <<>>
  /\ pending = NoPending
  /\ turn = [t \in Turns |-> "idle"]
  /\ seen = [t \in Turns |-> <<>>]
  /\ proposal = [t \in Turns |-> NoPending]
  /\ cards = {}
  /\ click = [c \in Clicks |-> "idle"]
  /\ pressed = [c \in Clicks |-> NoToken]
  /\ approval = [c \in Clicks |-> NoPending]
  /\ effect = [c \in Clicks |-> "none"]
  /\ row = [c \in Clicks |-> "none"]
  /\ minted = {}
  /\ retired = {}
------------------------------------------------------------------------------
(* The session document. *)

\* The record p is in the document.
Stored(p) == p # NoPending

\* Mutants: clear_pending pops the record from its copy but does not write it back;
\* set_pending keeps an approval that is already there.
PutPending_NoWrite(p) ==
  IF Stored(p)
  THEN pending' = p /\ retired' = retired \cup {q.token : q \in {pending} \ {NoPending}}
  ELSE UNCHANGED <<pending, retired>>
PutPending_KeepsFirst(p) ==
  IF Stored(p) /\ Stored(pending)
  THEN UNCHANGED <<pending, retired>>
  ELSE pending' = p /\ retired' = retired \cup {q.token : q \in {pending} \ {NoPending}}

\* set_pending, or clear_pending when p is NoPending: what was there is gone.
PutPending(p) ==
  /\ pending' = p
  /\ retired' = retired \cup {q.token : q \in {pending} \ {NoPending}}

\* Mutants: the token is not compared; the expiry is not.
IsPendingValid_AnyToken(p, k) == Stored(p) /\ clock < p.expires
IsPendingValid_Untimed(p, k) == Stored(p) /\ p.token = k

\* is_pending_valid: the request's token matches a record that has not expired.
IsPendingValid(p, k) == Stored(p) /\ p.token = k /\ clock < p.expires

\* Mutant: only what succeeded is logged.
Log_SuccessOnly(c, status) ==
  \E s \in {"success", "lost"} : row' = IF status = "error" THEN row ELSE [row EXCEPT ![c] = s]

\* log_action for a run. A failing create_item is swallowed: then the row is lost, and
\* all that is left is a line of the local log.
Log(c, status) == \E s \in {status, "lost"} : row' = [row EXCEPT ![c] = s]
------------------------------------------------------------------------------
(* A chat turn. *)

\* The handler loads the session and enters the LLM loop. (The in-memory store
\* hands out the live document, so a bot turn reads it after its typing indicator;
\* Load is then that later moment.)
Load(t) ==
  /\ turn[t] = "idle"
  /\ turn' = [turn EXCEPT ![t] = "running"]
  /\ seen' = [seen EXCEPT ![t] = history]
  /\ UNCHANGED <<site, clock, doc, proposal, cards, minted, runV, row>>

\* The model calls a write tool and the executor's gate mints a pending record
\* for it; an earlier one of the same turn is replaced.
Propose(t, a, k) ==
  LET p == [token |-> k, action |-> a, expires |-> clock + TTL] IN
  /\ turn[t] = "running"
  /\ clock + TTL <= MaxTime                 \* bound: explore each expiry
  /\ \A q \in minted : q.token # k
  /\ proposal' = [proposal EXCEPT ![t] = p]
  /\ minted' = minted \cup {p}
  /\ UNCHANGED <<site, clock, doc, turn, seen, cards, runV, row>>

\* Mutants: the saved transcript starts afresh; it ends with a system message.
SaveHistory_Fresh(t) == history' = <<t>>
SaveHistory_System(t) == history' = Append(seen[t], "system")

\* The turn's transcript replaces the stored one: what it loaded, then itself.
SaveHistory(t) == history' = Append(seen[t], t)

\* The web turn ends: save, set_pending and the JSON response that draws the card.
FinishWeb(t) ==
  /\ surface = "web"
  /\ turn[t] = "running"
  /\ turn' = [turn EXCEPT ![t] = "done"]
  /\ SaveHistory(t)
  /\ IF Stored(proposal[t])
     THEN PutPending(proposal[t]) /\ cards' = cards \cup {proposal[t]}
     ELSE UNCHANGED <<pending, retired, cards>>
  /\ UNCHANGED <<site, clock, seen, proposal, minted, runV, row>>

\* The bot turn saves and starts sending its reply to Teams.
SaveBot(t) ==
  /\ surface = "bot"
  /\ turn[t] = "running"
  /\ turn' = [turn EXCEPT ![t] = "sending"]
  /\ SaveHistory(t)
  /\ UNCHANGED <<site, clock, pending, retired, seen, proposal, cards, minted, runV, row>>

\* The reply is out and the turn proposed nothing.
FinishBot(t) ==
  /\ turn[t] = "sending"
  /\ ~Stored(proposal[t])
  /\ turn' = [turn EXCEPT ![t] = "done"]
  /\ UNCHANGED <<site, clock, doc, seen, proposal, cards, minted, runV, row>>

\* The reply is out; only now is the proposal stored, and its card sent.
StoreBot(t) ==
  /\ turn[t] = "sending"
  /\ Stored(proposal[t])
  /\ turn' = [turn EXCEPT ![t] = "carding"]
  /\ PutPending(proposal[t])
  /\ UNCHANGED <<site, clock, history, seen, proposal, cards, minted, runV, row>>

\* The card reaches the conversation.
ShowCard(t) ==
  /\ turn[t] = "carding"
  /\ turn' = [turn EXCEPT ![t] = "done"]
  /\ cards' = cards \cup {proposal[t]}
  /\ UNCHANGED <<site, clock, doc, seen, proposal, minted, runV, row>>

\* The LLM, a tool or a Teams send raises: an error reply, nothing more is stored.
FailTurn(t) ==
  /\ turn[t] \in {"running", "sending", "carding"}
  /\ turn' = [turn EXCEPT ![t] = "failed"]
  /\ UNCHANGED <<site, clock, doc, seen, proposal, cards, minted, runV, row>>
------------------------------------------------------------------------------
(* resolve_pending_confirmation. *)

\* A request names the token of a card on screen, or none at all.
Press(c, k) ==
  /\ click[c] = "idle"
  /\ k \in {p.token : p \in cards} \cup {NoToken}
  /\ pressed' = [pressed EXCEPT ![c] = k]

\* decision "cancel": the pending record goes, whatever token the request carries.
Cancel(c, k) ==
  /\ Press(c, k)
  /\ click' = [click EXCEPT ![c] = "cancelled"]
  /\ PutPending(NoPending)
  /\ UNCHANGED <<site, clock, history, turnV, approval, effect, row>>

\* "This approval is no longer valid": nothing changes.
Reject(c, k) ==
  /\ Press(c, k)
  /\ ~IsPendingValid(pending, k)
  /\ click' = [click EXCEPT ![c] = "invalid"]
  /\ UNCHANGED <<site, clock, doc, turnV, approval, effect, row>>

\* The token is good: the stored action starts to run; its record stays stored.
Approve(c, k) ==
  /\ Press(c, k)
  /\ IsPendingValid(pending, k)
  /\ click' = [click EXCEPT ![c] = "executing"]
  /\ approval' = [approval EXCEPT ![c] = pending]
  /\ effect' = [effect EXCEPT ![c] = "sent"]
  /\ UNCHANGED <<site, clock, doc, turnV, row>>

\* The tenant performs the change: also after the request gave up or the process died.
\* It may never do so, having refused it.
Applied(c) ==
  /\ effect[c] = "sent"
  /\ effect' = [effect EXCEPT ![c] = "applied"]
  /\ UNCHANGED <<site, clock, doc, turnV, click, pressed, approval, row>>

\* Mutant: every result that is not an exception is reported as done.
Reports_Unread(c, r) == TRUE

\* The reply r that a result leads to: "done" is for one without an error or a false
\* success. An action in SoftFail returns such a result when its change failed too.
Reports(c, r) == r = "done" => effect[c] = "applied" \/ approval[c].action \in SoftFail

\* The handler returned: audit row, the pending record cleared, the outcome appended
\* to the transcript as it is stored now, and the reply.
Finish(c, r) ==
  /\ click[c] = "executing"
  /\ Reports(c, r)
  /\ click' = [click EXCEPT ![c] = r]
  /\ Log(c, "success")
  /\ PutPending(NoPending)
  /\ history' = Append(history, c)
  /\ UNCHANGED <<site, clock, turnV, pressed, approval, effect>>

\* The handler raised: error row, the stuck record cleared, no transcript line.
Fail(c) ==
  /\ click[c] = "executing"
  /\ click' = [click EXCEPT ![c] = "failed"]
  /\ Log(c, "error")
  /\ PutPending(NoPending)
  /\ UNCHANGED <<site, clock, history, turnV, pressed, approval, effect>>
------------------------------------------------------------------------------
(* The process and the clock. *)

\* The process ends while a web turn is being stored: the transcript is saved,
\* perhaps the approval too, and nobody gets a card.
TurnCut(t) ==
  /\ surface = "web"
  /\ turn[t] = "running"
  /\ SaveHistory(t)
  /\ \/ UNCHANGED <<pending, retired>>
     \/ Stored(proposal[t]) /\ PutPending(proposal[t])
  /\ UNCHANGED row

\* Mutant: the outcome is saved before the pending record is cleared.
EndCut_RecordsFirst(c) ==
  /\ click[c] = "executing"
  /\ \E status \in {"success", "error"} :
       /\ Log(c, status)
       /\ \/ UNCHANGED doc
          \/ status = "success" /\ history' = Append(history, c) /\ UNCHANGED <<pending, retired>>
          \/ PutPending(NoPending) /\ history' = Append(history, c)

\* The process ends while a run is being recorded: the row is written, perhaps the
\* record is cleared, perhaps the outcome is in the transcript, and nobody is answered.
EndCut(c) ==
  /\ click[c] = "executing"
  /\ \E status \in {"success", "error"} :
       /\ Log(c, status)
       /\ \/ UNCHANGED doc
          \/ PutPending(NoPending) /\ UNCHANGED history
          \/ status = "success" /\ PutPending(NoPending) /\ history' = Append(history, c)

\* What the segment that was running, if any, leaves behind. Without Cosmos the
\* document goes with the process, and only the row can be left.
Leaves ==
  IF durable
  THEN \/ UNCHANGED <<doc, row>>
       \/ \E t \in Turns : TurnCut(t)
       \/ \E c \in Clicks : EndCut(c)
  ELSE /\ PutPending(NoPending) /\ history' = <<>>
       /\ \/ UNCHANGED row
          \/ \E c \in Clicks, status \in {"success", "error"} :
               click[c] = "executing" /\ Log(c, status)

\* The process ends, anywhere in what it does, and a new one starts: every handler is
\* gone, a request already with the tenant is not.
Restart ==
  /\ turn' = [t \in Turns |->
       IF turn[t] \in {"running", "sending", "carding"} THEN "lost" ELSE turn[t]]
  /\ click' = [c \in Clicks |-> IF click[c] = "executing" THEN "lost" ELSE click[c]]
  /\ Leaves
  /\ UNCHANGED <<site, clock, seen, proposal, cards, minted, pressed, approval, effect>>

Tick ==
  /\ clock < MaxTime
  /\ clock' = clock + 1
  /\ UNCHANGED <<site, doc, turnV, runV, row>>

EndTurn(t) ==
  FinishWeb(t) \/ SaveBot(t) \/ FinishBot(t) \/ StoreBot(t) \/ ShowCard(t) \/ FailTurn(t)

EndClick(c) == Fail(c) \/ \E r \in {"done", "could_not"} : Finish(c, r)

TurnStep(t) ==
  \/ Load(t)
  \/ \E a \in Actions, k \in Tokens : Propose(t, a, k)
  \/ EndTurn(t)

ClickStep(c) ==
  \/ \E k \in Tokens \cup {NoToken} : Cancel(c, k) \/ Reject(c, k) \/ Approve(c, k)
  \/ Applied(c)
  \/ EndClick(c)

Next ==
  \/ \E t \in Turns : TurnStep(t)
  \/ \E c \in Clicks : ClickStep(c)
  \/ Restart
  \/ Tick

Spec == Init /\ [][Next]_vars

\* The event loop resumes a handler whose awaited call is over, and every awaited
\* call ends: the LLM, Graph and Teams clients and the Exchange sidecar's have
\* timeouts. Time passes. Nothing obliges a technician to press anything.
Fairness ==
  /\ \A t \in Turns : WF_vars(EndTurn(t))
  /\ \A c \in Clicks : WF_vars(EndClick(c))
  /\ WF_vars(Tick)

FairSpec == Spec /\ Fairness
------------------------------------------------------------------------------
(* What an approval promises. *)

Begins(c) == click[c] = "idle" /\ click'[c] = "executing"

\* A change sent to the tenant is the change that the card described whose button
\* was pressed, never the one of a newer or an older proposal of the session.
\* (web_api_confirm: "the executed action is exactly the one that was reviewed")
OnlyReviewedRuns ==
  \A c \in Clicks : effect[c] # "none" =>
    \E p \in cards : p.token = pressed[c] /\ p.action = approval[c].action

\* No change starts to run once its approval has expired, however long the card
\* stayed on screen and whatever happened to the process in between.
NoRunAfterExpiry ==
  [][\A c \in Clicks : Begins(c) =>
       \E p \in minted : p.token = pressed'[c] /\ clock < p.expires]_vars

\* Once a request on a card has been answered "done", "could not", "failed" or
\* "cancelled", no later request on that card starts the change. (Requests that
\* were already running when the answer came are another matter: see SingleUse.)
ClosedStaysClosed ==
  [][\A c, d \in Clicks :
       /\ Begins(c)
       /\ click[d] \in {"done", "could_not", "failed", "cancelled"}
       => pressed[d] # pressed'[c]]_vars

\* A card never shows before its approval is stored: the card on screen is the
\* open approval, or one that has been used, cancelled or replaced since.
CardsAreStored == \A p \in cards : p = pending \/ p.token \in retired

\* A change the tenant has performed has its audit row, and there are three ways for it
\* to have none: the request that ran it is still running, the process ended before the
\* row was written, or the audit store refused it, which audit_service.py swallows.
\* (SECURITY.md, "every read and write is recorded", knows none of the three.)
UnrecordedOnlyIfLost ==
  \A c \in Clicks : effect[c] = "applied" /\ row[c] \notin {"success", "error"} =>
    click[c] \in {"executing", "lost"} \/ row[c] = "lost"

\* The durable transcript forgets an entry only when a turn saves that had loaded
\* the transcript before the entry was written.
ForgetsOnlyByOverlap ==
  [][durable => \A e \in ToSet(history) \ ToSet(history') :
       \E t \in Turns : /\ turn[t] = "running"
                        /\ turn'[t] \in {"done", "sending", "lost"}
                        /\ e \notin ToSet(seen[t])]_vars

\* The transcript never tells of a run that is not over: when the outcome of a request
\* can be read there, its audit row went out and its approval is closed, wherever the
\* process may have ended. (confirmations.py clears, then records.)
TranscriptTellsOfClosed ==
  \A c \in Clicks : c \in ToSet(history) => pressed[c] \in retired /\ row[c] # "none"

\* Every approval ends, used or not, and for good: if nobody presses a button, if the
\* run fails, if the process ends between running the change and clearing the record,
\* or between storing the approval and showing its card.
OpenApprovalsEnd ==
  \A k \in Tokens : IsPendingValid(pending, k) ~> [](~IsPendingValid(pending, k))

\* A request that runs a change leaves its approval closed, whether the change went
\* through, was declined or raised, so that the technician can ask again. Only the
\* end of the process leaves it open. (confirmations.py: "Clear the stuck approval")
ApprovedCloses ==
  \A c \in Clicks : click[c] = "executing" ~> pressed[c] \in retired \/ click[c] = "lost"
------------------------------------------------------------------------------
(* Approvals implements ApprovalLifecycle. *)

Stage(k) ==
  IF Stored(pending) /\ pending.token = k THEN "open"
  ELSE IF k \in retired THEN "closed" ELSE "unopened"

RunState(c) ==
  IF approval[c] = NoPending THEN "none"
  ELSE IF click[c] = "executing" THEN "running"
  ELSE IF click[c] = "lost" THEN "lost" ELSE "answered"

Lifecycle == INSTANCE ApprovalLifecycle WITH
  stage <- [k \in Tokens |-> Stage(k)],
  state <- [c \in Clicks |-> RunState(c)],
  on    <- [c \in Clicks |-> IF approval[c] = NoPending THEN NoToken ELSE approval[c].token]

\* An approval opens at most once, closes for good, and starts changes only while open.
ImplementsLifecycle == Lifecycle!Spec
------------------------------------------------------------------------------
(* Approvals and ToolOutcome mean the same by a run. *)

Contract(c) == INSTANCE RunContract WITH
  run    <- IF approval[c] = NoPending THEN "idle" ELSE click[c],
  change <- effect[c],
  row    <- row[c],
  soft   <- approval[c] # NoPending /\ approval[c].action \in SoftFail

\* However turns and requests of the conversation overlap, each request runs its change
\* as the contract has it, which ToolOutcome keeps for every tool: it ends once, also when
\* the process dies while it is being recorded, with at most one row of its own and of the
\* right kind, and is reported done only for a change that was applied.
RunsKeepContract ==
  /\ \A c \in Clicks : Contract(c)!Init
  /\ [][\A c \in Clicks : Contract(c)!Next \/ UNCHANGED Contract(c)!vars]_vars
------------------------------------------------------------------------------
(* What the repository says of an approval, and the code does not do. *)

\* SECURITY.md calls the token "single-use": two requests never run one approval.
SingleUse ==
  \A c, d \in Clicks :
    c # d /\ effect[c] # "none" /\ effect[d] # "none" => pressed[c] # pressed[d]

\* test_confirmations.py: "A wrong token must not consume the pending approval".
\* Answering a request on one card leaves the approval of another card alone.
OnlyItsTokenConsumes ==
  [][\A c \in Clicks :
       click'[c] # click[c] /\ click'[c] \in Answered /\ Stored(pending) /\ ~Stored(pending')
         => pressed'[c] \in {pending.token, NoToken}]_vars

\* confirmations.py: the outcome of an approval "is recorded in the session transcript".
OutcomesAreRecorded ==
  \A c \in Clicks : click[c] \in {"done", "could_not"} => c \in ToSet(history)
==============================================================================
