# M365 Guardian: TLA+ specifications and proofs

M365 Guardian is a chat assistant that administers a Microsoft 365 tenant. A
language model calls tools; reads run at once, writes wait for a human to press
*Approve* on a card, and then the server runs the change it has stored. This
directory models that machinery in TLA+, checks it with TLC and proves its
central properties with TLAPS.

Paths below are relative to `src/`; `backend/` holds the program.

## 1. The system

| Component | State it keeps | Operations | What makes it correct |
|---|---|---|---|
| Approval resolution, `backend/confirmations.py` | none of its own; works on the session document | `resolve_pending_confirmation`: cancel, reject, approve and run, clear, record | what runs is what the card showed; once; in time; the answer is true |
| Web handlers, `backend/app.py` | per-request executor | `web_api_chat`, `web_api_confirm`, `web_api_history`, `trigger_report` | a card is drawn only for a stored approval; a failed turn stores nothing |
| Teams bot, `backend/bot.py` | per-message executor | `on_message_activity`, `_handle_confirm_submit` | as above, with Teams sends between its steps |
| Session document, `backend/services/session_service.py` | one document per conversation in Cosmos, or an in-memory dictionary: transcript, `pending_confirmation` | `get`, `get_or_create`, `save`, `set_pending`, `get_pending`, `clear_pending`, `is_pending_valid` | an update changes its own field and loses no other |
| LLM tool loop, `backend/services/llm_service.py` | working copy of the transcript | `chat`, `chat_with_tool_loop` | the transcript stays one that a provider accepts; the loop ends |
| Tool executor, `backend/tools/executor.py`, `validation.py` | `pending_confirmation`, `confirmed_fingerprint` | `execute`: lookup, validation, write gate, handler, audit | no write without the grant of its own fingerprint |
| Tool handlers, same file | none | one per tool | the result tells what happened |
| Graph client, `backend/services/graph_service.py` | HTTP client | writes raise on failure; report getters return `[]` | |
| Exchange client, `backend/services/exo_service.py` | token, HTTP session | `_call`: every failure becomes a result | never invents success |
| Audit log, `backend/services/audit_service.py` | Cosmos container | `log_action`, `query_logs` | a change without a row is one whose row was lost, and nothing else |
| Weekly report, `report_service.py`, `functions/weekly_report.py` | none | `generate`, ten checks, delivery to Teams and by mail | a check that failed is not a clean check |
| Startup, `config.py`, `secret_service.py`, `app.py:create_app` | configuration, service singletons | `hydrate`, `ensure_valid`, `on_startup`, `on_cleanup` | services see hydrated secrets; what was built is closed |
| Sign-in, `app.py:auth_*` | encrypted cookie | redirect flow | the owner id is server-derived |

How they interact: a request loads the session document, runs the LLM loop, whose
tool calls go through `ToolExecutor.execute`; a write call mints a pending record
on the executor. When the loop is over the handler saves the transcript, stores
the record in the document and shows a card with its token. A later request
brings the token back, and `resolve_pending_confirmation` runs the stored call on
an executor that holds the stored fingerprint.

**Concurrency.** The program is one asyncio event loop per instance. A handler is
interrupted only where it really waits: for the LLM, Graph, the Exchange sidecar,
a Teams send. The Cosmos and audit clients are the *synchronous* SDK called from
`async def` methods: they block the loop, and so a sequence of store calls
is atomic on one instance. Nothing is locked. Several instances share
one Cosmos container.

**Hard behaviours.** The record is read before the long await of the run and
cleared after it; turns save the transcript they loaded before the LLM loop; the
clock passes expiries while cards stay on screen; the process can end between
sending a change and clearing its record, and between any two of the writes that end a
run; requests to the tenant can be performed without an answer; failures of the stores are
swallowed, those of audit rows too; documents are upserted whole; report getters turn failures,
unread users and later pages into shorter lists and list more than the documentation names;
secrets come from two places, one of which may be out of reach at any start or trigger.
`PROJECT.json` lists each hazard at its line with the properties that watch it.

## 2. The modules

| Module | Models | Uses |
|---|---|---|
| `Approvals` | one conversation on one instance: overlapping turns and approval requests, expiry, failures, process end | `ApprovalLifecycle` as its abstract specification, `RunContract` as that of each request |
| `ApprovalLifecycle` | what an approval promises, without sessions, turns or clocks | |
| `ToolLoop` | the LLM loop and the executor's gate, one request at a time | `WriteGate` as its abstract specification |
| `WriteGate` | what gate, stored record and approval promise together, without rounds, messages or fingerprints | |
| `ToolOutcome` | one approved run: the handler's calls, the result, the reply | `RunContract` as its abstract specification |
| `RunContract` | one approved run as both sides see it: sent, perhaps applied, ended once, with a row | |
| `SessionStore` | the session document under several instances and failing store calls | `SessionDoc` as its abstract specification |
| `SessionDoc` | the atomic updates that `Approvals` takes for granted | |
| `Report` | `generate`: checks, getters, severities | |
| `Startup` | secrets, validation, construction and cleanup of one process | |
| `Process` | the web application and the timer function around `generate` | extends `Startup` and `Report` |
| `ApprovalsProofs`, `ApprovalsRefinement`, `ToolLoopProofs`, `ToolOutcomeProofs`, `SessionStoreProofs`, `ProcessProofs` | theorems about the module they are named after | TLAPS |
| `MC*` | symmetry sets and constant values for TLC | |

`Approvals` is the core. Three others justify its abstractions: `ToolLoop` shows that
what is proposed and approved is a validated call and that only approvals write;
`ToolOutcome` shows that a run ends as `Finish`, `Fail` and `EndCut` say, with
`SoftFail` exactly the actions of `HidesFailure`: both implement `RunContract`, `ToolOutcome`
from inside a run and `Approvals` for each of the requests that overlap; `SessionStore` shows under which
conditions the document's updates are atomic. `Process` is the other half of the
deployment: what a process is built from, and the reports it makes.

### Approvals

Each action is one uninterrupted segment of a handler. No other handler sees the inside of a segment; the
end of the process does, and `Restart` leaves what a segment may have written by then.

| Code | Actions |
|---|---|
| `web_api_chat` | `Load`, `Propose` (any number), then `FinishWeb` (save, set_pending and the response, without a suspension point) or `FailTurn` |
| `on_message_activity` | `Load`, `Propose`, `SaveBot`, then after the Teams send `FinishBot`, or `StoreBot` and after the card's send `ShowCard`; `FailTurn` at each send |
| `resolve_pending_confirmation` | `Cancel`; `Reject`; `Approve` up to the await of the run; `Finish` or `Fail` after it |
| the tenant | `Applied`, at any time after `Approve`, also after the request ended |
| process end | `Restart`: handlers are lost, on the in-memory store (`durable` false) the document too |
| `web_api_chat` cut between `save`, `set_pending` and the response | `TurnCut`, in `Restart` |
| the end of a run cut between audit row, `clear_pending`, `save` and reply | `EndCut`, in `Restart` |
| `log_action` | `Log`: the row with its status, or "lost", since a failed `create_item` is swallowed |

A turn's transcript is a sequence of entries, one per saved turn or recorded
outcome. An action stands for a write tool with its validated arguments, and
determines tool, arguments, fingerprint and summary of the pending record. `row` is the audit row
of a request's run; the rows of proposals are left to `ToolLoop`. Tokens
are minted once: the code draws them at random (`secrets.token_hex(3)`) and the
model assumes no collision among the records of one session. A card is never
removed from the screen. `NoToken` is what a malformed request carries.

### ToolLoop

A turn is `StartTurn`, rounds of `CallTools` and `RunTool` for each call in order, and
`EndTurn` or `ChatFails`. `Execute` is `ToolExecutor.execute` in its three
outcomes: `Refused` (no handler, or invalid arguments), `Gated`, `Handled`. The
validation models are a constant function `Normalize` from raw values to normal
forms or `Invalid`; that a model accepts its own output unchanged is the named
assumption `NormalizeAssumption`. A stored record's arguments come back from Cosmos through JSON: `Reread` is what
comes back, and that it validates to what was stored is `RoundTripAssumption`. The legacy `confirm` flag is part of a call.
`audit` is the calls of `log_action`, one line of the local log each; whether the store takes the row is
`Approvals`' and `ToolOutcome`'s matter.

`WriteGate` is what all this amounts to: in an open turn the model may look (`Look`) and ask for writes (`Ask`);
a turn that ends well puts the last one on offer (`Offer`), one that fails does not (`Drop`); what is on offer
is carried out once by a human (`CarryOut`) or withdrawn (`Withdraw`). The mapping reads tool and arguments off the
pending record of the executor and of the session; the log of runs and the calls of `log_action` are the same on both sides.

### ToolOutcome

A job is a tool with those arguments that choose the handler's path. `Promised` is
what the approval's summary announces, `Calls` the requests the handler makes.
A request is sent, performed or refused by the tenant, and answered or not, independently;
`Catches` says which failures the handler absorbs, `ReportsFailure` which results
the resolver recognises. `Cut` is the end of the process under the run: no row, no reply ("lost"), and what has been
sent is still with the tenant; `Answer` has it end between the row and the reply. A bulk operation may name no user, which
`validation.py:163` accepts and the handler answers as a success.

### SessionStore

A store call is `Read`, then `Write` of the changed copy. An instance is busy
between them and on to its next suspension point (`Free`). A failed read is an absent
document; a failed write is nothing. Ghosts: `stale` (somebody else wrote since the
copy was read), `blind` (a failed call has put the copy wrong), `failed` (who has had a failed call, for good),
`lost` (somebody has written a stale copy).

### Report

A report is made check by check; each action is one step of `generate`'s loop, cut
at the await of the getter.

| Code | Actions |
|---|---|
| `generate`, `checks or all_checks` | `Begin` |
| `get_risky_sign_ins`, `get_guest_users` (the server filters, `$top` cuts) | `ReadFiltered` |
| `get_users_without_mfa`, `get_dormant_accounts`, `get_privileged_role_holders` (the program filters one page, and may skip entries) | `ReadPaged` |
| `list_licenses` | `ReadLicenses`, or `CheckFails`: it raises when its request fails |
| the cutoff date of `get_risky_sign_ins` and `get_dormant_accounts`, computed before their `try` | `CheckFails`, if the request's day counts are beyond every date (`odd`) |
| the `except` of the other getters, which return `[]` | `ReadNothing` |
| severity of a `_check_*` and the counts | `Judge`; `Recite` for the four checks that read nothing |
| a name without a `_check_*` method | `Skip` |
| the summary | `Compile` |

A finding is counted, not described. `truth` is how many of what README.md's table names the tenant
has when the getter reads it, `count` how many entries it returns, `data` how much of the tenant the
section rests on, and `extra` whether the list holds what the table does not name. That a getter can be so generous is
`Lax`: `get_risky_sign_ins` has no filter on the risk state and lists users whose risk was dismissed,
`get_dormant_accounts` lists every account without sign-in activity, however new, and
`get_privileged_role_holders` lists role assignments, so that one administrator counts once per role.

### Startup

`Deployment` is a record of the settings that decide something: where each of the five
secrets is to be found, which optional parts are configured, and by `BOT_APP_TYPE` whether the bot needs a password. `cfg` remembers where each secret
of the configuration came from, and `key` and `password` which of them a part was built with.

| Code | Actions |
|---|---|
| `create_app`: `hydrate`, `ensure_valid`, cookie key | `CreateApp` |
| `on_startup`: stores, clients, bot adapter | `OnStartup` |
| end of the server; `on_cleanup` | `Shutdown`; `CloseGraph`, `CloseExo` |
| the platform's restart, with a new environment read | `Restart` |
| a trigger's `hydrate` and `ensure_valid` | `Trigger` |

Every request to the vault may fail by itself (`given`), and so may each Cosmos connection.

### Process

`Process` adds who makes a report: `Request` is `trigger_report` (`<<>>`, all checks) or the tool
`generate_weekly_insights_report` (any list of names, any numbers of days), one at a time; `Fire` is a trigger of
the timer, which goes on with `Generate`, `PostToTeams` and `SendMail`. `Stop` ends the
request that is being served.

## 3. The runs

| Run | Bounds | Shows |
|---|---|---|
| `approvals` | 2 turns, 2 requests, 2 actions (one of them soft), 2 tokens, TTL 1, clock to 2, durable store; 2.3 million states up to symmetry | the safety properties and the refinements of `ApprovalLifecycle` and, by request, of `RunContract` |
| `approvals_live` | 2 turns, 1 request, 1 action, either store, fairness, no symmetry; 310,000 states | every approval ends for good; a run closes its approval |
| `tool_loop` | 1 read and 2 write tools, a normal, a raw and a bad argument, 2 rounds, 2 calls each, 3 calls and 2 turns in all; stored arguments come back as the normal or the raw value that validates to it | gate, pairing, and the refinement of `WriteGate` |
| `tool_outcome` | every tool and path, bulk operations on 0 to 3 of 3 users | replies and the refinement of `RunContract` |
| `session_store` | 2 turns, 2 requests on 2 instances in every assignment, 2 failed store calls; 1.7 million states up to symmetry | atomicity and what it rests on; which cards work, which approvals come back |
| `process` | 6 deployments, 2 starts or triggers, findings on both sides of every limit and page, up to 4 surplus entries of a lax getter, 5 lists of checks, one of them all and one with day counts beyond every date; 650,000 states, fairness | hydration, cleanup, severities, deliveries |
| `single_use`, `wrong_token`, `outcome_recorded`, `fake_done`, `session_scale`, `silent_failure` | as above | see section 6 |

Why the bounds are enough: the hazards are pairwise. Two turns and two requests give every
overlap of turn with turn, turn with request and request with request; two tokens
give an old and a new card; TTL 1 on a clock of 2 lets an approval be used in time,
expire before and after use, and be followed by a fresh one. In `ToolLoop`
two turns show the effect of one turn's transcript and approval on the next. In `ToolOutcome` three
users give a first, middle and last failure. In `SessionStore` two failed calls let a read and a write fail, of one handler
or of two. In `Process`
the deployments are a developer's machine, secrets in the vault alone, in both places,
workload identity federation with a bot that is a managed identity, and two that validation refuses; two starts let a second one
find what the first left. The surplus entries are one past a limit for suspicious and dormant accounts, and four, which takes two
privileged administrators over the red limit. Deadlock is not checked anywhere: every behaviour ends when its turns,
requests and starts are used up.

Symmetry is used only in runs of safety and action properties, over values
that no property or initial state names.

The properties of `Approvals`:

- `OnlyReviewedRuns`: what is sent to the tenant is the action of the card pressed.
- `NoRunAfterExpiry`: nothing starts on an expired approval, also after a restart.
- `ClosedStaysClosed`: once a request on a card is answered, no later request on it
  starts the change.
- `CardsAreStored`: a card on screen belongs to the open approval or to one used,
  cancelled or replaced.
- `UnrecordedOnlyIfLost`: a change that was made has its row, unless its request still runs, the process ended before the
  row, or the store refused it; the three gaps in what `SECURITY.md:39-41` promises (section 6).
- `TranscriptTellsOfClosed`: the transcript tells of a run only after its row went out and its approval was
  closed, so that a process that ends in between never leaves "Done" next to a working card.
- `ForgetsOnlyByOverlap`: the only way the durable transcript loses an entry is a
  turn that had loaded it before.
- `RunsKeepContract`: each request, among all the others, is one run of `RunContract`, whose `Cut` may leave any row.
- `OpenApprovalsEnd`: an approval that is usable becomes unusable for good, also one that a process left open between run
  and clearing, or stored without a card. `ApprovedCloses`: a run closes its approval, unless the process ends.

The properties of `ToolLoop`: `PairedHistory` (the saved transcript is one a provider accepts),
`OnlyHumansWrite`, `ApprovedRuns` (an approved call is not gated again),
`LastProposalOffered`, `ImplementsGate`. Of `ToolOutcome`: `DeclinedMeansUntouched` (but for the sidecar), `FailedMeansNoneConfirmed`
(an error in the reply or in the audit log), `NobodyBeyond` (a bulk operation that is cut off has left the rest of its users alone),
`ImplementsContract`. Of `SessionStore`: `UndisturbedIsAtomic` (a call whose own read
and write worked and that nobody's write came between is one atomic update, also with several
instances), `OneInstanceIsAtomic` and `OneInstanceClosesForGood` (one instance and a working store), `ReturnsOnlyIfLost` (with any number
of instances and failures, a used approval comes back for two causes only: its own request had a failed store call, or a stale
copy was written over a newer document), `CardsWorkUnlessLost` (a card is refused for four causes only: a failed store call, a stale copy
written, another turn's proposal, another request's clearing).

The properties of `Process`:

- `RunsHydrated`: what serves or reports has a complete configuration, and the cookie key and the
  bot's credentials were built from the secrets it holds, hence after hydration.
- `OutageRefusesNone`: after one trigger that found a valid configuration none refuses, also if the vault gives
  nothing any more and the environment never had the secrets.
- `StoppedMeansClosed`: both clients are closed, also when closing the first one raised.
- `SeveritiesExplained`: a section departs from the table in the repository's README for two reasons only. It is milder only if
  its getter could not read everything (so no page that cuts a list hides a limit, though both are set in different files);
  it is more severe only if its getter listed what the table does not name. What cannot be read never counts against the tenant.
- `OverallIsWorst`: the overall severity is the worst of the sections, although failed checks
  are in no count. It holds of the full report because two fixed sections are always amber; of a subset, a
  failed section may be missing from it, and the property says so.
- `BothAreTried`, `AllEnds`: a trigger comes to its end having tried both deliveries, and a stopping
  application stops.

**Fairness.** `FairSpec` of `Approvals` assumes weak fairness of each turn's and each request's next
step after its await, because the event loop resumes ready handlers and the awaited
clients have timeouts (the HTTP clients of LLM, Graph and Teams by default, the
sidecar's by `ClientTimeout`), and of the clock. It assumes nothing of technicians,
of the tenant performing a request, or of the model proposing anything. `FairSpec` of `Process`
assumes that started work goes on (a report, its deliveries, a cleanup) and that a created application
is started up; nothing of the platform's restarts, of the timer or of anybody asking for a report.

## 4. The proofs

Every safety invariant, action property and refinement that a passing run checks is also a theorem,
for every value of the constants. Only liveness (`OpenApprovalsEnd`, `ApprovedCloses`, `AllEnds`)
stays with TLC: fairness and ENABLED are out of the prover's reach.

| Module | Theorem | Statement |
|---|---|---|
| `ApprovalsProofs` | `Typing`, `Invariant` | `TypeOK`; `Inv` |
| | `ReviewedOnly`, `CardsStored` | `OnlyReviewedRuns`, `CardsAreStored` |
| | `ClosedForGood`, `NoLateRun` | `ClosedStaysClosed`, `NoRunAfterExpiry` |
| | `RecordedUnlessLost`, `ToldOnlyWhenOver` | `UnrecordedOnlyIfLost`, `TranscriptTellsOfClosed` |
| | `ForgettingOverlaps` | `ForgetsOnlyByOverlap` |
| `ApprovalsRefinement` | `Implements` | `Spec => Lifecycle!Spec` |
| | `RunsKept` | `RunsKeepContract` |
| `ToolLoopProofs` | `Typing`, `Invariant` | `TypeOK`; `Inv` |
| | `AlwaysPaired` | `PairedHistory` |
| | `HumansOnly`, `ApprovedAlwaysRuns`, `LastIsOffered` | `OnlyHumansWrite`, `ApprovedRuns`, `LastProposalOffered` |
| | `ImplementsWriteGate` | `Spec => Gate!Spec` |
| `ToolOutcomeProofs` | `Typing`, `Invariant` | `TypeOK`; `Inv` |
| | `Untouched`, `NoneConfirmed` | `DeclinedMeansUntouched`, `FailedMeansNoneConfirmed` |
| | `Beyond` | `NobodyBeyond` |
| | `Implements` | `Spec => Contract!Spec` |
| `SessionStoreProofs` | `Typing`, `Invariant` | `TypeOK`; `Inv /\ Closed /\ Offered` |
| | `Undisturbed`, `OneInstance`, `OneInstanceCloses` | `UndisturbedIsAtomic`, `OneInstanceIsAtomic`, `OneInstanceClosesForGood` |
| | `ReturnsOnly`, `CardsWork` | `ReturnsOnlyIfLost`, `CardsWorkUnlessLost` |
| | `ImplementsDoc` | `Spec /\ [][Alone]_vars => Abstract!Spec` |
| `ProcessProofs` | `Typing`, `Invariant` | `TypeOK`; `Inv` |
| | `Hydration`, `OutagesSurvived`, `Closing` | `RunsHydrated`, `OutageRefusesNone`, `StoppedMeansClosed` |
| | `ExplainedSeverities`, `WorstWins` | `SeveritiesExplained`, `OverallIsWorst` |
| | `BothTried` | `BothAreTried` |

**Approvals.** None of the invariants is inductive by itself. `Inv` adds what the code keeps true
between its steps: a token is minted once, so two minted records with the same token
are equal; the stored record, every proposal, every card and every running approval
has been minted; a record that has left the document is in `retired` and the stored
one is not; a running or sending turn that has a proposal holds one whose token is
neither stored nor retired and that no other turn holds, so storing it opens a new
approval; a request that runs or ran a change holds the record of a card it was shown
under the token it pressed; a request answered done, could not, failed or cancelled has
retired its token.
`ReviewedOnly` then follows because the checked token names one minted record, hence the one
on the card; `ClosedForGood` because an answer has retired the token and a retired token
is never stored again. `SentIsLogged` adds the audit rows: what was sent went to the audit log before its request
left "executing" other than by the end of the process. `ToldIsOver` adds the transcripts: it speaks of the stored
one and of those the running turns have loaded, because a turn may save what it loaded long ago; that a retired token
stays retired and a row stays written (`OverStays`) carries both. `Implements` maps each action to a step or a
stutter of the lifecycle; the lemma per group of actions is `NextMaps`. `RunsKept` needs two more facts, which
`Inv` does not hold: a request has no row before its run has ended (`RowsOnlyAfterRuns`), so that the end of a run gives it exactly one,
and what it runs is fixed from `Approve` on. `RunSteps` then shows that a step of the conversation is a step or a stutter of
every request's contract at once; a turn, another request or the clock changes nothing of it, and a restart, whatever
of the end of the run was written (`CutRows`), is its `Cut`.

**ToolLoop.** `PairedHistory` speaks of finished transcripts only. `Tied(messages, todo)` is its form in the
middle of a response: each call of a message is answered where it should be, or still waits, in order, at the
position it will be answered; `Rest` says that the waiting calls are those of the last message with
calls. One lemma per kind of appended message carries them. `Records` (each pending record's
fingerprint is that of its own normalized tool and arguments) together with `NormalizeAssumption` and
`RoundTripAssumption` gives `ApprovedRuns`; `Latest` (the executor holds the last record minted in this turn) gives
`LastProposalOffered`. `ImplementsWriteGate` rests on
`Records`, by which what is carried out is the stored tool and arguments themselves (`ApprovedIsHandled`), and on one lemma for the
model's steps and one for the human's (`ModelSteps`, `HumanSteps`).

**ToolOutcome.** `Progress` ties the reply to how far the handler came and what its result shows,
`Applications` a noted success to an applied step (an invariant that the refinement needs); `NobodyBeyond` is part of `Inv`, since it says which
steps `Send` finds unsent. That a reply of done means applied steps follows from
what `ReportsFailure` and `Catches` let through (`DoneIsApplied`), which is the refinement's hard case.

**SessionStore.** `Steps` classifies every step as a read or a write of one process. `Fresh` says what a handler
holds between the two: from its place in the code whether there is a document, and that its copy is the
stored one unless it is stale or blind. `Calm` says that one instance makes nobody stale, because a handler
in a call excludes the others, and that without faults nobody is blind. `Closed` adds that
a request past its clearing has put its record out of the document for good, unless it had a failed call or `lost` holds. For that
`Harmless` is needed: a copy that a failed call has put wrong is absent or empty until it is written, so it can
drop a record but not bring one back. `Offered` is its counterpart: while a card is `Quiet` (nobody else has stored or
cleared, nothing failed, nothing stale was written) its record is in the document. `QuietBefore` says that a card
quiet after somebody's step was so before it, so that each step keeps what it finds. `ImplementsDoc` puts `OneInstance` and the initial states together.

**Process.** `ReportInv` relates the two counts to the severities of the sections so far, with failed ones
apart, and what was read to the first remaining check. `ReadInv` bounds what a getter lists: no fewer than there are
if it read the whole, no more if it has no surplus. With the documented limits (`SeverityDocumented`) and with no page smaller than
a limit (`CutIsHarmless`) that gives `SeveritiesExplained`, and that an amber section is made or still to come gives `OverallIsWorst` for the full
report. `Inv` adds `RunsHydrated`, `StoppedMeansClosed`, what has been delivered by when, and that a function between
two triggers that went well has a valid configuration (`EndedValid`), which hydration never makes worse (`HydratedValid`).

The proofs use only the named assumptions of the modules; TLC evaluates them in every run. They say that
bounds are natural numbers, that different kinds of things are different, and three facts about the
code's environment: a validation model accepts its own output unchanged
(`NormalizeAssumption`; pydantic does it), stored arguments validate to what was stored when Cosmos returns them
(`RoundTripAssumption`; they are strings, booleans, numbers, lists and objects of such), and tokens are not reused (a guard of `Propose`; the code draws
them at random).

## 5. What is not modelled

- Sign-in: a redirect protocol with an external provider whose only state is an encrypted cookie and whose only
  outcome here is the owner id. That id is part of the store key, so conversations of two owners are
  two documents by construction; `Approvals` models one.
- Several conversations in one process. They share no state but the clients.
- Page and card rendering, the report's HTML, prompts and schemas, telemetry: presentation. Argument values are
  abstract: the binding of a summary to its arguments is the binding of an action to itself, so what
  `_describe_action` leaves out of a summary is not visible to any property.
- `query_logs` and the masking of audit details: reads and formatting of rows that nothing depends on.
- The 30-day expiry of whole session documents, far beyond the life of an approval.
- Read tools beyond their outcome: their data goes to the model, which may do anything in `ToolLoop` anyway.
- What a finding is: names, dates and licence counts; `Report` counts. Which of a getter's entries are surplus is known to
  the tenant alone; `Extras` bounds how many there are.
- Whether the two other types of bot (`SingleTenant`, `MultiTenant`) differ: both need a password, the managed identity
  does not, and that is what `OnStartup` tells apart.
- A store that changes while the conversation goes on: a process that cannot reach Cosmos at its start keeps its sessions in
  memory (`Startup`), and in `Approvals` a conversation stays on one kind of store.
- Errors while the vault's client is built, which end `create_app` or the trigger as a refused configuration
  does, and the Function host's own timeout, which the code does not handle.
- Provider settings and settings that `validate` has no rule for.

## 6. Where the code and what is said of it differ

| Run | Said | The code |
|---|---|---|
| `single_use` | `SECURITY.md`: a single-use token | two overlapping approvals of one card both run (`confirmations.py:45` to `61`) |
| `wrong_token` | a test: a wrong token must not consume the pending approval | a cancel, or the end of an older run, clears whatever is stored |
| `outcome_recorded` | `confirmations.py:36`: the outcome is recorded in the transcript | a turn that was running saves over it |
| `fake_done` | `docs/ARCHITECTURE.md:82` | bulk operations, licences, guidance and the report tools answer "Done" regardless |
| `session_scale` | sessions scale across instances | a stale upsert brings a closed approval back |
| `silent_failure` | `SECURITY.md:43`: unavailable capabilities return truthful results | a getter that failed, or lacks its licence, returns `[]`, and the check reports the tenant clean |

Differences without a run of their own:

| Said | The code |
|---|---|
| `SECURITY.md:39-41`: every read and write is recorded in an append-only store | `audit_service.py:76-80` swallows a failed `create_item`, and a process that ends under a run writes no row. `UnrecordedOnlyIfLost` says when a change has none; calls that the validation turns away are not logged at all |
| `executor.py:93-95`: a write needs an explicit `confirm=true` | the flag is stripped (`:106-110`) and only a granted fingerprint counts. `OnlyHumansWrite` is what the code does, `Granted_Flag` in `ToolLoop` what the docstring says |
| `README.md:135`: red above 5 permanent privileged *admins* | `graph_service.py:542-553` lists role assignments and `report_service.py:197-198` counts them: two administrators with three roles each are critical |
| `README.md:133`: red above 10 accounts *inactive 90+ days* | `graph_service.py:501-510` counts every account without sign-in activity, also one created yesterday |
| `README.md:131`: risky sign-ins of the period | `graph_service.py:435-438` filters by the date of the last change of a user's risk only: users whose risk was dismissed count. These three are the `extra` of `SeveritiesExplained` |
| `secret_service.py:8-10`, `:66`, `:72`: a secret that the vault does not give falls back to the environment | `hydrate` falls back to what the configuration holds. At the second trigger of one function process that is the vault's earlier value, not the environment's; `OutageRefusesNone` depends on it |
| `app.py:498-499`: without bot credentials the web application still runs | so it is without an app id; an app id whose password is missing ends `on_startup` (`Startup`'s "crashed") |
| `confirmations.py:43`: "Cancelled: no change was made" | a cancel that arrives while an approve of the same card is running says so, too |
| the model announces each write it proposes | only the last proposal of a turn is kept (`LastProposalOffered`) |

## 7. What could follow

Several conversations with one audit container and `query_logs` over it; sign-in, if its cookie ever gets
state on the server; a repaired `resolve_pending_confirmation` (clear before the run, compare tokens on
cancel, save by etag) shown to implement an `ApprovalLifecycle` whose tokens are single-use.
