------------------------- MODULE ApprovalsRefinement -------------------------
(* Approvals implements ApprovalLifecycle, and each of its requests implements  *)
(* RunContract: proofs for every instance of what the run "approvals" checks on *)
(* a small one (ImplementsLifecycle, RunsKeepContract).                         *)
EXTENDS ApprovalsProofs

stage == [k \in Tokens |-> Stage(k)]
state == [c \in Clicks |-> RunState(c)]
on    == [c \in Clicks |-> IF approval[c] = NoPending THEN NoToken ELSE approval[c].token]

\* The initial state of the code is the initial state of the promise.
LEMMA InitMaps == Init => Lifecycle!Init
BY DEF Init, Lifecycle!Init, Stage, RunState, Stored

\* Steps that touch neither the pending record nor a request are stutters.
LEMMA FrameMaps ==
  ASSUME UNCHANGED <<pending, retired, click, approval>>
  PROVE  UNCHANGED Lifecycle!vars
BY DEF Lifecycle!vars, Stage, RunState, Stored

LEMMA RequestsFrame ==
  ASSUME UNCHANGED <<click, approval>>
  PROVE  UNCHANGED <<state, on>>
BY DEF state, on, RunState

\* Clearing the pending record closes what is open.
LEMMA ClearMaps ==
  ASSUME Inv, PutPending(NoPending)
  PROVE  stage' = [k \in Tokens |-> IF stage[k] = "open" THEN "closed" ELSE stage[k]]
<1>1. /\ pending' = NoPending
      /\ retired \subseteq retired'
      /\ Stored(pending) => pending.token \in retired'
      /\ \A k \in retired' : k \in retired \/ (Stored(pending) /\ k = pending.token)
  BY PutPendingRetires DEF Inv
<1> QED BY <1>1 DEF stage, Stage, Stored

\* Storing a fresh record opens it and closes what was open.
LEMMA StoreMaps ==
  ASSUME Inv, NEW p \in Pendings, PutPending(p), p.token \notin retired,
         Stored(pending) => pending.token # p.token
  PROVE  /\ stage[p.token] = "unopened"
         /\ stage' = [[k \in Tokens |-> IF stage[k] = "open" THEN "closed" ELSE stage[k]]
                        EXCEPT ![p.token] = "open"]
<1>1. /\ pending' = p
      /\ retired \subseteq retired'
      /\ Stored(pending) => pending.token \in retired'
      /\ \A k \in retired' : k \in retired \/ (Stored(pending) /\ k = pending.token)
  BY PutPendingRetires DEF Inv
<1>2. p.token \in Tokens BY DEF Pendings
<1>3. p # NoPending BY NoPendingAssumption
<1>4. stage[p.token] = "unopened" BY <1>2 DEF stage, Stage, Stored
<1>5. \A k \in Tokens : Stage(k)' =
        IF k = p.token THEN "open"
        ELSE IF stage[k] = "open" THEN "closed" ELSE stage[k]
  BY <1>1, <1>3 DEF stage, Stage, Stored
<1> QED BY <1>2, <1>4, <1>5 DEF stage

\* Every step of the code is a step of the promise or a stutter.
LEMMA NextMaps == Inv /\ [Next]_vars => [Lifecycle!Next]_(Lifecycle!vars)
<1> SUFFICES ASSUME Inv, [Next]_vars PROVE Lifecycle!Next \/ UNCHANGED Lifecycle!vars
  OBVIOUS
<1> USE DEF Lifecycle!Next, Inv, TypeInv, TypeOK, site
<1>1. ASSUME NEW t \in Turns, TurnStep(t)
      PROVE Lifecycle!Next \/ UNCHANGED Lifecycle!vars
  <2>1. CASE \/ Load(t) \/ SaveBot(t) \/ FinishBot(t) \/ ShowCard(t) \/ FailTurn(t)
             \/ \E a \in Actions, k \in Tokens : Propose(t, a, k)
    BY <2>1, FrameMaps DEF Load, SaveBot, FinishBot, ShowCard, FailTurn, Propose, doc, runV
  <2>2. CASE FinishWeb(t) \/ StoreBot(t)
    <3>1. UNCHANGED <<click, approval>> BY <2>2 DEF FinishWeb, StoreBot, runV
    <3>2. CASE ~Stored(proposal[t])
      BY <2>2, <3>1, <3>2, FrameMaps DEF FinishWeb, StoreBot
    <3>3. CASE Stored(proposal[t])
      <4> DEFINE p == proposal[t]
      <4>1. PutPending(p) /\ turn[t] \in {"running", "sending"}
        BY <2>2, <3>3 DEF FinishWeb, StoreBot
      <4>2. p \in Pendings BY <3>3 DEF Stored
      <4>3. p # pending /\ p.token \notin retired BY <3>3, <4>1 DEF NotYetStored
      <4>4. Stored(pending) => pending.token # p.token
        BY <3>3, <4>3 DEF MintedOnce, OnlyMinted
      <4>5. /\ stage[p.token] = "unopened"
            /\ stage' = [[k \in Tokens |-> IF stage[k] = "open" THEN "closed" ELSE stage[k]]
                           EXCEPT ![p.token] = "open"]
        BY <4>1, <4>2, <4>3, <4>4, StoreMaps
      <4>6. Lifecycle!Open(p.token)
        BY <3>1, <4>5, RequestsFrame DEF Lifecycle!Open, Lifecycle!Closed, stage, state, on
      <4> QED BY <4>2, <4>6 DEF Pendings
    <3> QED BY <3>2, <3>3
  <2> QED BY <1>1, <2>1, <2>2 DEF TurnStep, EndTurn
<1>2. ASSUME NEW c \in Clicks, ClickStep(c)
      PROVE Lifecycle!Next \/ UNCHANGED Lifecycle!vars
  <2>1. ASSUME NEW k \in Tokens \cup {NoToken}, Cancel(c, k) PROVE Lifecycle!Close
    <3>1. state' = state /\ on' = on
      BY <2>1 DEF Cancel, Press, state, on, RunState, RunsItsCard
    <3>2. stage' = [j \in Tokens |-> IF stage[j] = "open" THEN "closed" ELSE stage[j]]
      BY <2>1, ClearMaps DEF Cancel
    <3> QED BY <3>1, <3>2 DEF Lifecycle!Close, Lifecycle!Closed, stage, state, on
  <2>2. ASSUME NEW k \in Tokens \cup {NoToken}, Reject(c, k) PROVE UNCHANGED Lifecycle!vars
    <3>1. state' = state /\ on' = on
      BY <2>2 DEF Reject, Press, state, on, RunState, RunsItsCard
    <3>2. stage' = stage BY <2>2 DEF Reject, doc, stage, Stage, Stored
    <3> QED BY <3>1, <3>2 DEF Lifecycle!vars, stage, state, on
  <2>3. ASSUME NEW k \in Tokens \cup {NoToken}, Approve(c, k) PROVE Lifecycle!Begin(c, k)
    <3>1. /\ Stored(pending) /\ pending.token = k /\ pending \in Pendings /\ k \in Tokens
          /\ click[c] = "idle" /\ approval[c] = NoPending
          /\ UNCHANGED <<pending, retired>>
          /\ click' = [click EXCEPT ![c] = "executing"]
          /\ approval' = [approval EXCEPT ![c] = pending]
      BY <2>3 DEF Approve, Press, IsPendingValid, doc, Stored, Pendings, RunsItsCard
    <3>2. stage[k] = "open" /\ stage' = stage BY <3>1 DEF stage, Stage, Stored
    <3>3. state[c] = "none" BY <3>1 DEF state, RunState
    <3>4. state' = [state EXCEPT ![c] = "running"]
      BY <3>1, NoPendingAssumption DEF state, RunState, Stored
    <3>5. on' = [on EXCEPT ![c] = k]
      BY <3>1, NoPendingAssumption DEF on, Stored
    <3> QED BY <3>2, <3>3, <3>4, <3>5 DEF Lifecycle!Begin, stage, state, on
  <2>4. CASE Applied(c)
    BY <2>4, FrameMaps DEF Applied, doc
  <2>5. ASSUME NEW r \in {"done", "could_not", "failed"}, click[c] = "executing",
               click' = [click EXCEPT ![c] = r], approval' = approval, PutPending(NoPending)
        PROVE  Lifecycle!End(c)
    <3>1. stage' = [j \in Tokens |-> IF stage[j] = "open" THEN "closed" ELSE stage[j]]
      BY <2>5, ClearMaps
    <3>2. approval[c] # NoPending
      BY <2>5, NoPendingAssumption DEF RunsItsCard
    <3>3. state[c] = "running" BY <2>5, <3>2 DEF state, RunState
    <3>4. state' = [state EXCEPT ![c] = "answered"]
      BY <2>5, <3>2 DEF state, RunState
    <3>5. on' = on BY <2>5 DEF on
    <3> QED BY <3>1, <3>3, <3>4, <3>5 DEF Lifecycle!End, Lifecycle!Closed, stage, state, on
  <2>6. ASSUME NEW r \in {"done", "could_not"}, Finish(c, r) PROVE Lifecycle!End(c)
    BY <2>5, <2>6 DEF Finish
  <2>7. CASE Fail(c)
    BY <2>5, <2>7 DEF Fail
  <2>8. ASSUME NEW k \in Tokens \cup {NoToken}, Approve(c, k) PROVE k \in Tokens
    BY <2>8 DEF Approve, IsPendingValid, Stored, Pendings
  <2> QED BY <1>2, <2>1, <2>2, <2>3, <2>4, <2>6, <2>7, <2>8 DEF ClickStep, EndClick
<1>3. CASE Restart
  <2>1. state' = [c \in Clicks |-> IF state[c] = "running" THEN "lost" ELSE state[c]]
    BY <1>3 DEF Restart, state, RunState
  <2>2. on' = on BY <1>3 DEF Restart, on
  <2>3. ASSUME NEW t \in Turns, turn[t] = "running", Stored(proposal[t]), PutPending(proposal[t])
        PROVE  Lifecycle!Die
    <3> DEFINE p == proposal[t]
    <3>1. p \in Pendings BY <2>3 DEF Stored
    <3>2. p # pending /\ p.token \notin retired BY <2>3 DEF NotYetStored
    <3>3. Stored(pending) => pending.token # p.token
      BY <2>3, <3>2 DEF MintedOnce, OnlyMinted
    <3>4. /\ stage[p.token] = "unopened"
          /\ stage' = [[k \in Tokens |-> IF stage[k] = "open" THEN "closed" ELSE stage[k]]
                         EXCEPT ![p.token] = "open"]
      BY <2>3, <3>1, <3>2, <3>3, StoreMaps
    <3>5. p.token \in Tokens BY <3>1 DEF Pendings
    <3> QED BY <2>1, <2>2, <3>4, <3>5 DEF Lifecycle!Die, Lifecycle!Closed, stage, state, on
  <2>4. ASSUME PutPending(NoPending) PROVE Lifecycle!Die
    <3>1. stage' = [j \in Tokens |-> IF stage[j] = "open" THEN "closed" ELSE stage[j]]
      BY <2>4, ClearMaps
    <3> QED BY <2>1, <2>2, <3>1 DEF Lifecycle!Die, Lifecycle!Closed, stage, state, on
  <2>5. ASSUME UNCHANGED <<pending, retired>> PROVE Lifecycle!Die
    <3>1. stage' = stage BY <2>5 DEF stage, Stage, Stored
    <3> QED BY <2>1, <2>2, <3>1 DEF Lifecycle!Die, Lifecycle!Closed, stage, state, on
  <2> QED BY <1>3, <2>3, <2>4, <2>5 DEF Restart, Leaves, TurnCut, EndCut, doc
<1>4. CASE Tick \/ UNCHANGED vars
  BY <1>4, FrameMaps DEF Tick, vars, doc, runV
<1> QED BY <1>1, <1>2, <1>3, <1>4 DEF Next

\* Approvals open at most once, close for good and start changes only while open.
THEOREM Implements == Spec => ImplementsLifecycle
BY InitMaps, Invariant, NextMaps, PTL DEF Spec, ImplementsLifecycle, Lifecycle!Spec
------------------------------------------------------------------------------
(* Every approval request implements RunContract.                               *)

\* A request whose run has not ended has no row.
RowsOnlyAfterRuns ==
  \A c \in Clicks :
    click[c] \notin {"done", "could_not", "failed", "lost"} => row[c] = "none"

\* A step that leaves the request and its row alone is a stutter of its run.
LEMMA RunFrame ==
  ASSUME NEW c \in Clicks, approval'[c] = approval[c], effect'[c] = effect[c],
         row'[c] = row[c], click'[c] = click[c] \/ approval[c] = NoPending
  PROVE  UNCHANGED Contract(c)!vars
BY DEF Contract!vars

LEMMA InitRows == Init => RowsOnlyAfterRuns
BY DEF Init, RowsOnlyAfterRuns

\* A request that is executing has its approval.
LEMMA RunsHaveApproval ==
  ASSUME Inv, NEW c \in Clicks, click[c] = "executing"
  PROVE  approval[c] # NoPending /\ approval[c] \in Pendings /\ effect[c] # "none"
<1>1. effect[c] # "none" /\ approval[c] \in cards BY DEF Inv, RunsItsCard
<1> QED BY <1>1, NoPendingAssumption DEF Inv, TypeInv, TypeOK

\* The end of the process leaves rows only to runs that it cut.
LEMMA CutRows ==
  ASSUME TypeOK, Leaves
  PROVE  \A c \in Clicks : row'[c] = row[c] \/ (click[c] = "executing" /\ row'[c] \in Rows)
BY LogKeeps DEF Leaves, TurnCut, EndCut, Rows

\* Every step is, for every request, a step of the contract or none; and rows are only
\* written for the runs they are about.
LEMMA RunSteps ==
  ASSUME Inv, RowsOnlyAfterRuns, [Next]_vars
  PROVE  /\ RowsOnlyAfterRuns'
         /\ \A c \in Clicks : Contract(c)!Next \/ UNCHANGED Contract(c)!vars
<1> DEFINE Kept == /\ RowsOnlyAfterRuns'
                   /\ \A c \in Clicks : Contract(c)!Next \/ UNCHANGED Contract(c)!vars
<1> USE DEF site, doc, turnV, runV
<1>0. /\ click \in [Clicks -> ClickPhases] /\ approval \in [Clicks -> Pendings \cup {NoPending}]
      /\ effect \in [Clicks -> Effects] /\ row \in [Clicks -> Rows]
  BY DEF Inv, TypeInv, TypeOK
<1>1. ASSUME NEW t \in Turns, TurnStep(t) PROVE Kept
  <2>1. UNCHANGED <<runV, row>>
    BY <1>1 DEF TurnStep, EndTurn, Load, Propose, FinishWeb, SaveBot, FinishBot, StoreBot,
                ShowCard, FailTurn
  <2> QED BY <2>1, RunFrame DEF RowsOnlyAfterRuns
<1>2. ASSUME NEW c \in Clicks, ClickStep(c) PROVE Kept
  <2>1. ASSUME NEW k \in Tokens \cup {NoToken}, Cancel(c, k) \/ Reject(c, k) PROVE Kept
    <3>1. /\ click[c] = "idle" /\ UNCHANGED <<approval, effect, row>>
          /\ \E r \in {"cancelled", "invalid"} : click' = [click EXCEPT ![c] = r]
      BY <2>1 DEF Cancel, Reject, Press
    <3>2. approval[c] = NoPending BY <3>1 DEF Inv, RunsItsCard
    <3>3. RowsOnlyAfterRuns' BY <1>0, <3>1 DEF RowsOnlyAfterRuns
    <3>4. \A d \in Clicks : UNCHANGED Contract(d)!vars
      BY <1>0, <3>1, <3>2, RunFrame
    <3> QED BY <3>3, <3>4
  <2>2. ASSUME NEW k \in Tokens \cup {NoToken}, Approve(c, k) PROVE Kept
    <3>1. /\ click[c] = "idle" /\ row' = row /\ Stored(pending)
          /\ click' = [click EXCEPT ![c] = "executing"]
          /\ approval' = [approval EXCEPT ![c] = pending]
          /\ effect' = [effect EXCEPT ![c] = "sent"]
      BY <2>2 DEF Approve, Press, IsPendingValid
    <3>2. approval[c] = NoPending /\ effect[c] = "none" BY <3>1 DEF Inv, RunsItsCard
    <3>3. RowsOnlyAfterRuns' BY <1>0, <3>1 DEF RowsOnlyAfterRuns
    <3>4. Contract(c)!Begin
      BY <1>0, <3>1, <3>2 DEF Contract!Begin, Stored
    <3>5. \A d \in Clicks \ {c} : UNCHANGED Contract(d)!vars
      BY <1>0, <3>1, RunFrame
    <3> QED BY <3>3, <3>4, <3>5 DEF Contract!Next
  <2>3. CASE Applied(c)
    <3>1. effect[c] = "sent" /\ effect' = [effect EXCEPT ![c] = "applied"]
          /\ UNCHANGED <<click, approval, row>>
      BY <2>3 DEF Applied
    <3>2. RowsOnlyAfterRuns' BY <3>1 DEF RowsOnlyAfterRuns
    <3>3. Contract(c)!Applied BY <1>0, <3>1 DEF Contract!Applied
    <3>4. \A d \in Clicks \ {c} : UNCHANGED Contract(d)!vars
      BY <1>0, <3>1, RunFrame
    <3> QED BY <3>2, <3>3, <3>4 DEF Contract!Next
  <2>4. ASSUME NEW r \in {"done", "could_not", "failed"}, NEW s \in {"success", "error"},
               click[c] = "executing", click' = [click EXCEPT ![c] = r], Log(c, s),
               UNCHANGED <<approval, effect>>
        PROVE  /\ RowsOnlyAfterRuns'
               /\ \A d \in Clicks \ {c} : UNCHANGED Contract(d)!vars
               /\ approval[c] # NoPending /\ row'[c] \in {s, "lost"}
    <3>1. approval[c] # NoPending BY <2>4, RunsHaveApproval
    <3>2. row'[c] \in {s, "lost"} /\ \A d \in Clicks \ {c} : row'[d] = row[d]
      BY <2>4, LogKeeps DEF Inv, TypeInv
    <3>3. \A d \in Clicks \ {c} : UNCHANGED Contract(d)!vars
      BY <1>0, <2>4, <3>2, RunFrame
    <3>4. RowsOnlyAfterRuns' BY <1>0, <2>4, <3>2 DEF RowsOnlyAfterRuns
    <3> QED BY <3>1, <3>2, <3>3, <3>4
  <2>5. ASSUME NEW r \in {"done", "could_not"}, Finish(c, r) PROVE Kept
    <3>1. /\ click[c] = "executing" /\ click' = [click EXCEPT ![c] = r] /\ Log(c, "success")
          /\ UNCHANGED <<approval, effect>> /\ Reports(c, r)
      BY <2>5 DEF Finish
    <3>2. Contract(c)!Finish(r)
      BY <1>0, <2>4, <3>1 DEF Contract!Finish, Reports
    <3> QED BY <2>4, <2>5, <3>1, <3>2 DEF Contract!Next
  <2>6. CASE Fail(c)
    <3>1. /\ click[c] = "executing" /\ click' = [click EXCEPT ![c] = "failed"] /\ Log(c, "error")
          /\ UNCHANGED <<approval, effect>>
      BY <2>6 DEF Fail
    <3>2. Contract(c)!Fail BY <1>0, <2>4, <3>1 DEF Contract!Fail
    <3> QED BY <2>4, <3>1, <3>2 DEF Contract!Next
  <2> QED BY <1>2, <2>1, <2>2, <2>3, <2>5, <2>6 DEF ClickStep, EndClick
<1>3. CASE Restart
  <2>1. /\ UNCHANGED <<approval, effect>>
        /\ click' = [c \in Clicks |-> IF click[c] = "executing" THEN "lost" ELSE click[c]]
    BY <1>3 DEF Restart
  <2>2. \A c \in Clicks : row'[c] = row[c] \/ (click[c] = "executing" /\ row'[c] \in Rows)
    BY <1>3, CutRows DEF Restart, Inv, TypeInv
  <2>3. RowsOnlyAfterRuns' BY <1>0, <2>1, <2>2 DEF RowsOnlyAfterRuns
  <2>4. ASSUME NEW c \in Clicks, click[c] = "executing" PROVE Contract(c)!Cut
    BY <1>0, <2>1, <2>2, <2>4, RunsHaveApproval DEF Contract!Cut, Rows
  <2>5. ASSUME NEW c \in Clicks, click[c] # "executing" PROVE UNCHANGED Contract(c)!vars
    BY <1>0, <2>1, <2>2, <2>5, RunFrame
  <2> QED BY <2>3, <2>4, <2>5 DEF Contract!Next
<1>4. CASE Tick \/ UNCHANGED vars
  <2>1. UNCHANGED <<click, approval, effect, row>> BY <1>4 DEF Tick, vars
  <2> QED BY <2>1, RunFrame DEF RowsOnlyAfterRuns
<1> QED BY <1>1, <1>2, <1>3, <1>4 DEF Next

\* However many turns, requests and restarts overlap, and wherever in the recording of a
\* run the process ends, each request runs its change as the contract has it: what
\* Approvals assumes of a run is what ToolOutcome guarantees.
THEOREM RunsKept == Spec => RunsKeepContract
<1>1. Init => \A c \in Clicks : Contract(c)!Init
  BY DEF Init, Contract!Init
<1> DEFINE Kept == \A c \in Clicks : Contract(c)!Next \/ UNCHANGED Contract(c)!vars
<1>2. (Inv /\ RowsOnlyAfterRuns) /\ [Next]_vars => RowsOnlyAfterRuns' /\ [Kept]_vars
  BY RunSteps
<1> HIDE DEF Kept
<1>3. Spec => [][Kept]_vars BY InitRows, Invariant, <1>2, PTL DEF Spec
<1> USE DEF Kept
<1> QED BY <1>1, <1>3, PTL DEF Spec, RunsKeepContract
==============================================================================
