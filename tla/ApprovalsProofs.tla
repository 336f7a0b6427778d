--------------------------- MODULE ApprovalsProofs ---------------------------
(* Theorems about Approvals, for every set of turns, requests, actions and     *)
(* tokens and every lifetime of an approval.                                   *)
EXTENDS Approvals, TLAPS

Entries == Turns \cup Clicks

\* A transcript stays a sequence of turns and outcomes when an entry is appended.
LEMMA AppendTyped ==
  ASSUME NEW h \in Seq(Entries), NEW e \in Entries
  PROVE  Append(h, e) \in Seq(Entries)
BY DEF Entries

\* Storing or clearing a pending record keeps the document well-typed.
LEMMA PutPendingTyped ==
  ASSUME TypeOK, NEW p \in Pendings \cup {NoPending}, PutPending(p)
  PROVE  pending' \in Pendings \cup {NoPending} /\ retired' \in SUBSET Tokens
BY DEF TypeOK, PutPending, Pendings

\* TypeOK alone is not inductive: ShowCard puts proposal[t] on screen, so a turn that
\* sends a card must have a proposal.
TypeInv == TypeOK /\ \A t \in Turns : turn[t] = "carding" => Stored(proposal[t])

\* A row is of one of its kinds.
LEMMA LogTyped ==
  ASSUME TypeOK, NEW c \in Clicks, NEW s \in {"success", "error"}, Log(c, s)
  PROVE  row' \in [Clicks -> Rows]
BY DEF TypeOK, Log, Rows

LEMMA InitTyped == Init => TypeInv
<1>1. <<>> \in Seq(Turns \cup Clicks) OBVIOUS
<1> QED BY <1>1, TimeAssumption
         DEF Init, TypeInv, TypeOK, Time, TurnPhases, ClickPhases, Effects, Rows

\* Whatever the end of the process leaves behind is well-typed.
LEMMA LeavesTyped ==
  ASSUME TypeInv, Leaves
  PROVE  /\ history' \in Seq(Turns \cup Clicks)
         /\ pending' \in Pendings \cup {NoPending}
         /\ retired' \in SUBSET Tokens
         /\ row' \in [Clicks -> Rows]
<1> USE DEF TypeInv, TypeOK, doc
<1>1. CASE UNCHANGED <<doc, row>> BY <1>1
<1>2. ASSUME NEW t \in Turns, TurnCut(t)
      PROVE  /\ history' \in Seq(Turns \cup Clicks) /\ row' = row
             /\ pending' \in Pendings \cup {NoPending} /\ retired' \in SUBSET Tokens
  <2>1. history' \in Seq(Turns \cup Clicks)
    BY <1>2, AppendTyped DEF TurnCut, SaveHistory, Entries
  <2> QED BY <1>2, <2>1, PutPendingTyped DEF TurnCut
<1>3. ASSUME NEW c \in Clicks, EndCut(c)
      PROVE  /\ history' \in Seq(Turns \cup Clicks) /\ row' \in [Clicks -> Rows]
             /\ pending' \in Pendings \cup {NoPending} /\ retired' \in SUBSET Tokens
  <2>1. history' = history \/ history' = Append(history, c) BY <1>3 DEF EndCut
  <2>2. history' \in Seq(Turns \cup Clicks) BY <2>1, AppendTyped DEF Entries
  <2>3. UNCHANGED <<pending, retired>> \/ PutPending(NoPending) BY <1>3 DEF EndCut
  <2>4. row' \in [Clicks -> Rows] BY <1>3, LogTyped DEF EndCut
  <2> QED BY <2>2, <2>3, <2>4, PutPendingTyped
<1>4. CASE ~durable
  <2>1. PutPending(NoPending) /\ history' = <<>> BY <1>4 DEF Leaves
  <2>2. row' \in [Clicks -> Rows] BY <1>4, LogTyped DEF Leaves
  <2>3. <<>> \in Seq(Turns \cup Clicks) OBVIOUS
  <2> QED BY <2>1, <2>2, <2>3, PutPendingTyped
<1> QED BY <1>1, <1>2, <1>3, <1>4 DEF Leaves

LEMMA NextTyped == TypeInv /\ [Next]_vars => TypeInv'
<1> SUFFICES ASSUME TypeInv, [Next]_vars PROVE TypeInv' OBVIOUS
<1> USE DEF TypeInv, TypeOK, site, doc, turnV, runV
<1>1. ASSUME NEW t \in Turns, Load(t) PROVE TypeInv'
  BY <1>1 DEF Load, TurnPhases
<1>2. ASSUME NEW t \in Turns, NEW a \in Actions, NEW k \in Tokens, Propose(t, a, k)
      PROVE TypeInv'
  <2>1. [token |-> k, action |-> a, expires |-> clock + TTL] \in Pendings
    BY <1>2, TimeAssumption DEF Propose, Pendings, Time
  <2> QED BY <1>2, <2>1 DEF Propose
<1>3. ASSUME NEW t \in Turns, FinishWeb(t) PROVE TypeInv'
  <2>1. history' \in Seq(Turns \cup Clicks)
    BY <1>3, AppendTyped DEF FinishWeb, SaveHistory, Entries
  <2>2. pending' \in Pendings \cup {NoPending} /\ retired' \in SUBSET Tokens
    BY <1>3, PutPendingTyped DEF FinishWeb
  <2>3. cards' \in SUBSET Pendings
    BY <1>3 DEF FinishWeb, Stored
  <2> QED BY <1>3, <2>1, <2>2, <2>3 DEF FinishWeb, TurnPhases
<1>4. ASSUME NEW t \in Turns, SaveBot(t) PROVE TypeInv'
  <2>1. history' \in Seq(Turns \cup Clicks)
    BY <1>4, AppendTyped DEF SaveBot, SaveHistory, Entries
  <2> QED BY <1>4, <2>1 DEF SaveBot, TurnPhases
<1>5. ASSUME NEW t \in Turns, FinishBot(t) PROVE TypeInv'
  BY <1>5 DEF FinishBot, TurnPhases
<1>6. ASSUME NEW t \in Turns, StoreBot(t) PROVE TypeInv'
  <2>1. pending' \in Pendings \cup {NoPending} /\ retired' \in SUBSET Tokens
    BY <1>6, PutPendingTyped DEF StoreBot
  <2> QED BY <1>6, <2>1 DEF StoreBot, TurnPhases
<1>7. ASSUME NEW t \in Turns, ShowCard(t) PROVE TypeInv'
  BY <1>7 DEF ShowCard, TurnPhases, Stored
<1>8. ASSUME NEW t \in Turns, FailTurn(t) PROVE TypeInv'
  BY <1>8 DEF FailTurn, TurnPhases
<1>9. ASSUME NEW c \in Clicks, NEW k \in Tokens \cup {NoToken}, Cancel(c, k) PROVE TypeInv'
  <2>1. pending' \in Pendings \cup {NoPending} /\ retired' \in SUBSET Tokens
    BY <1>9, PutPendingTyped DEF Cancel
  <2> QED BY <1>9, <2>1 DEF Cancel, Press, ClickPhases, Answered
<1>10. ASSUME NEW c \in Clicks, NEW k \in Tokens \cup {NoToken}, Reject(c, k) PROVE TypeInv'
  BY <1>10 DEF Reject, Press, ClickPhases, Answered
<1>11. ASSUME NEW c \in Clicks, NEW k \in Tokens \cup {NoToken}, Approve(c, k) PROVE TypeInv'
  BY <1>11 DEF Approve, Press, ClickPhases, Effects
<1>12. ASSUME NEW c \in Clicks, Applied(c) PROVE TypeInv'
  BY <1>12 DEF Applied, Effects
<1>13. ASSUME NEW c \in Clicks, NEW r \in {"done", "could_not"}, Finish(c, r) PROVE TypeInv'
  <2>1. pending' \in Pendings \cup {NoPending} /\ retired' \in SUBSET Tokens
    BY <1>13, PutPendingTyped DEF Finish
  <2>2. history' \in Seq(Turns \cup Clicks)
    BY <1>13, AppendTyped DEF Finish, Entries
  <2>3. row' \in [Clicks -> Rows] BY <1>13, LogTyped DEF Finish
  <2> QED BY <1>13, <2>1, <2>2, <2>3 DEF Finish, ClickPhases, Answered
<1>14. ASSUME NEW c \in Clicks, Fail(c) PROVE TypeInv'
  <2>1. pending' \in Pendings \cup {NoPending} /\ retired' \in SUBSET Tokens
    BY <1>14, PutPendingTyped DEF Fail
  <2>2. row' \in [Clicks -> Rows] BY <1>14, LogTyped DEF Fail
  <2> QED BY <1>14, <2>1, <2>2 DEF Fail, ClickPhases, Answered
<1>15. CASE Restart
  <2>1. /\ history' \in Seq(Turns \cup Clicks)
        /\ pending' \in Pendings \cup {NoPending}
        /\ retired' \in SUBSET Tokens
        /\ row' \in [Clicks -> Rows]
    BY <1>15, LeavesTyped DEF Restart
  <2> QED BY <1>15, <2>1 DEF Restart, TurnPhases, ClickPhases
<1>16. CASE Tick
  BY <1>16, TimeAssumption DEF Tick, Time
<1>17. CASE UNCHANGED vars
  BY <1>17 DEF vars
<1> QED
  BY <1>1, <1>2, <1>3, <1>4, <1>5, <1>6, <1>7, <1>8, <1>9, <1>10, <1>11, <1>12, <1>13,
     <1>14, <1>15, <1>16, <1>17 DEF Next, TurnStep, EndTurn, ClickStep, EndClick

\* Every reachable state is well-typed (the run "approvals" checks it too).
THEOREM Typing == Spec => []TypeOK
<1>1. TypeInv => TypeOK BY DEF TypeInv
<1> QED BY InitTyped, NextTyped, <1>1, PTL DEF Spec
------------------------------------------------------------------------------
(* The approval invariant. What the store, the screen and the requests have in *)
(* common is a pending record: it is minted once, by one turn, stored at most  *)
(* once, shown only once stored, and retired for good.                         *)

\* A token names one record.
MintedOnce == \A p, q \in minted : p.token = q.token => p = q

\* Everything that names a record names a minted one; retired tokens were minted.
OnlyMinted ==
  /\ cards \subseteq minted
  /\ Stored(pending) => pending \in minted
  /\ \A t \in Turns : Stored(proposal[t]) => proposal[t] \in minted
  /\ \A k \in retired : \E p \in minted : p.token = k

\* No two turns hold the same proposal.
OwnProposal ==
  \A t, u \in Turns : Stored(proposal[t]) /\ proposal[t] = proposal[u] => t = u

\* Before a turn stores its proposal, it is neither stored nor retired.
NotYetStored ==
  \A t \in Turns :
    /\ turn[t] = "idle" => ~Stored(proposal[t])
    /\ turn[t] \in {"running", "sending"} /\ Stored(proposal[t]) =>
         proposal[t] # pending /\ proposal[t].token \notin retired

\* What is stored is not retired.
OpenNotRetired == Stored(pending) => pending.token \notin retired

\* What is on screen, or about to be, was stored.
ShownWasStored ==
  /\ CardsAreStored
  /\ \A t \in Turns : turn[t] = "carding" =>
       proposal[t] = pending \/ proposal[t].token \in retired

\* A request that runs or ran a change has the record of its own card.
RunsItsCard ==
  \A c \in Clicks :
    /\ click[c] = "idle" => effect[c] = "none" /\ approval[c] = NoPending
    /\ click[c] \in {"executing", "done", "could_not", "failed"} => effect[c] # "none"
    /\ effect[c] # "none" => approval[c] \in cards /\ approval[c].token = pressed[c]

\* An answer that closes leaves the token of its request retired.
AnswerRetires ==
  \A c \in Clicks :
    click[c] \in {"done", "could_not", "failed", "cancelled"} /\ pressed[c] # NoToken
      => pressed[c] \in retired

Inv ==
  /\ TypeInv /\ MintedOnce /\ OnlyMinted /\ OwnProposal /\ NotYetStored
  /\ OpenNotRetired /\ ShownWasStored /\ RunsItsCard /\ AnswerRetires
\* PutPending retires what was stored, and nothing else.
LEMMA PutPendingRetires ==
  ASSUME TypeInv, NEW p, PutPending(p)
  PROVE  /\ pending' = p
         /\ retired \subseteq retired'
         /\ Stored(pending) => pending.token \in retired'
         /\ \A k \in retired' : k \in retired \/ (Stored(pending) /\ k = pending.token)
BY DEF PutPending, Stored, TypeInv, TypeOK

\* What storing a turn's proposal does to the document, for that turn and the others.
LEMMA StoreFacts ==
  ASSUME Inv, NEW t \in Turns, turn[t] \in {"running", "sending"}, Stored(proposal[t]),
         PutPending(proposal[t])
  PROVE  /\ pending' = proposal[t]
         /\ retired \subseteq retired'
         /\ Stored(pending) => pending.token \in retired'
         /\ \A k \in retired' : k \in retired \/ (Stored(pending) /\ k = pending.token)
         /\ proposal[t].token \notin retired'
         /\ \A u \in Turns : Stored(proposal[u]) /\ u # t /\ turn[u] \in {"running", "sending"} =>
              proposal[u] # proposal[t] /\ proposal[u].token \notin retired'
<1> USE DEF Inv, Stored
<1>1. /\ pending' = proposal[t]
      /\ retired \subseteq retired'
      /\ Stored(pending) => pending.token \in retired'
      /\ \A k \in retired' : k \in retired \/ (Stored(pending) /\ k = pending.token)
  BY PutPendingRetires
<1>2. proposal[t] # pending /\ proposal[t].token \notin retired
  BY DEF NotYetStored
<1>3. Stored(pending) => pending.token # proposal[t].token
  BY <1>2 DEF MintedOnce, OnlyMinted
<1>4. \A u \in Turns : Stored(proposal[u]) /\ u # t /\ turn[u] \in {"running", "sending"} =>
        proposal[u] # proposal[t] /\ proposal[u].token \notin retired'
  BY <1>1 DEF OwnProposal, NotYetStored, MintedOnce, OnlyMinted
<1> QED BY <1>1, <1>2, <1>3, <1>4

LEMMA InitInv == Init => Inv
BY InitTyped DEF Init, Inv, MintedOnce, OnlyMinted, OwnProposal, NotYetStored,
   OpenNotRetired, ShownWasStored, CardsAreStored, RunsItsCard, AnswerRetires, Stored

\* The steps of a chat turn.
LEMMA TurnInv ==
  ASSUME Inv, TypeInv', NEW t \in Turns, TurnStep(t)
  PROVE  Inv'
<1> USE DEF Inv, doc, turnV, runV, Stored
<1>1. CASE Load(t)
  <2>1. NotYetStored' BY <1>1 DEF Load, NotYetStored, TypeInv, TypeOK
  <2>2. ShownWasStored'
    BY <1>1 DEF Load, ShownWasStored, CardsAreStored, TypeInv, TypeOK
  <2> QED BY <1>1, <2>1, <2>2
          DEF Load, MintedOnce, OnlyMinted, OwnProposal, OpenNotRetired, RunsItsCard,
              AnswerRetires
<1>2. ASSUME NEW a \in Actions, NEW k \in Tokens, Propose(t, a, k) PROVE Inv'
  <2> DEFINE p == [token |-> k, action |-> a, expires |-> clock + TTL]
  <2>1. /\ proposal' = [proposal EXCEPT ![t] = p]
        /\ minted' = minted \cup {p}
        /\ \A q \in minted : q.token # k
        /\ turn[t] = "running"
    BY <1>2 DEF Propose
  <2>2. p # NoPending /\ p.token = k
    BY <1>2, NoPendingAssumption, <2>1 DEF TypeInv, TypeOK
  <2>3. MintedOnce' BY <2>1, <2>2 DEF MintedOnce
  <2>4. OnlyMinted' BY <1>2, <2>1 DEF Propose, OnlyMinted, TypeInv, TypeOK
  <2>5. OwnProposal' BY <2>1, <2>2 DEF OwnProposal, OnlyMinted, TypeInv, TypeOK
  <2>6. NotYetStored'
    <3>1. p # pending /\ k \notin retired BY <2>1, <2>2 DEF OnlyMinted
    <3>2. /\ proposal' = [proposal EXCEPT ![t] = p]
          /\ UNCHANGED <<turn, pending, retired>>
      BY <1>2, <2>1 DEF Propose
    <3> HIDE DEF p
    <3> QED BY <2>1, <2>2, <3>1, <3>2 DEF NotYetStored, TypeInv, TypeOK
  <2>7. ShownWasStored'
    BY <1>2, <2>1 DEF Propose, ShownWasStored, CardsAreStored, TypeInv, TypeOK
  <2> QED BY <1>2, <2>3, <2>4, <2>5, <2>6, <2>7
          DEF Propose, OpenNotRetired, RunsItsCard, AnswerRetires
<1>3. CASE FinishWeb(t)
  <2>1. CASE ~Stored(proposal[t])
    <3>1. NotYetStored' BY <1>3, <2>1 DEF FinishWeb, NotYetStored, TypeInv, TypeOK
    <3>2. ShownWasStored'
      BY <1>3, <2>1 DEF FinishWeb, ShownWasStored, CardsAreStored, TypeInv, TypeOK
    <3> QED BY <1>3, <2>1, <3>1, <3>2
            DEF FinishWeb, MintedOnce, OnlyMinted, OwnProposal, OpenNotRetired,
                RunsItsCard, AnswerRetires
  <2>2. CASE Stored(proposal[t])
    <3>1. /\ turn[t] = "running"
          /\ turn' = [turn EXCEPT ![t] = "done"]
          /\ PutPending(proposal[t])
          /\ cards' = cards \cup {proposal[t]}
          /\ UNCHANGED <<proposal, minted, click, pressed, approval, effect>>
      BY <1>3, <2>2 DEF FinishWeb
    <3>2. /\ pending' = proposal[t]
          /\ retired \subseteq retired'
          /\ Stored(pending) => pending.token \in retired'
          /\ \A k \in retired' : k \in retired \/ (Stored(pending) /\ k = pending.token)
          /\ proposal[t].token \notin retired'
          /\ \A u \in Turns : Stored(proposal[u]) /\ u # t /\ turn[u] \in {"running", "sending"} =>
               proposal[u] # proposal[t] /\ proposal[u].token \notin retired'
      BY <2>2, <3>1, StoreFacts
    <3>6. OnlyMinted' BY <2>2, <3>1, <3>2 DEF OnlyMinted
    <3>7. NotYetStored' BY <3>1, <3>2 DEF NotYetStored, TypeInv, TypeOK
    <3>8. OpenNotRetired' BY <3>2 DEF OpenNotRetired
    <3>9. ShownWasStored'
      <4>1. CardsAreStored'
        BY <3>1, <3>2, NoPendingAssumption
           DEF ShownWasStored, CardsAreStored, TypeInv, TypeOK
      <4> QED BY <3>1, <3>2, <4>1 DEF ShownWasStored, TypeInv, TypeOK
    <3>10. RunsItsCard' BY <3>1 DEF RunsItsCard
    <3>11. AnswerRetires' BY <3>1, <3>2 DEF AnswerRetires
    <3> QED BY <3>1, <3>6, <3>7, <3>8, <3>9, <3>10, <3>11 DEF MintedOnce, OwnProposal
  <2> QED BY <2>1, <2>2
<1>4. CASE SaveBot(t)
  <2>1. NotYetStored' BY <1>4 DEF SaveBot, NotYetStored, TypeInv, TypeOK
  <2>2. ShownWasStored'
    BY <1>4 DEF SaveBot, ShownWasStored, CardsAreStored, TypeInv, TypeOK
  <2> QED BY <1>4, <2>1, <2>2
          DEF SaveBot, MintedOnce, OnlyMinted, OwnProposal, OpenNotRetired, RunsItsCard,
              AnswerRetires
<1>5. CASE FinishBot(t)
  <2>1. NotYetStored' BY <1>5 DEF FinishBot, NotYetStored, TypeInv, TypeOK
  <2>2. ShownWasStored'
    BY <1>5 DEF FinishBot, ShownWasStored, CardsAreStored, TypeInv, TypeOK
  <2> QED BY <1>5, <2>1, <2>2
          DEF FinishBot, MintedOnce, OnlyMinted, OwnProposal, OpenNotRetired,
              RunsItsCard, AnswerRetires
<1>6. CASE StoreBot(t)
  <2>1. /\ turn[t] = "sending"
        /\ Stored(proposal[t])
        /\ turn' = [turn EXCEPT ![t] = "carding"]
        /\ PutPending(proposal[t])
        /\ UNCHANGED <<proposal, cards, minted, click, pressed, approval, effect>>
    BY <1>6 DEF StoreBot
  <2>2. /\ pending' = proposal[t]
        /\ retired \subseteq retired'
        /\ Stored(pending) => pending.token \in retired'
        /\ \A k \in retired' : k \in retired \/ (Stored(pending) /\ k = pending.token)
        /\ proposal[t].token \notin retired'
        /\ \A u \in Turns : Stored(proposal[u]) /\ u # t /\ turn[u] \in {"running", "sending"} =>
             proposal[u] # proposal[t] /\ proposal[u].token \notin retired'
    BY <2>1, StoreFacts
  <2>6. OnlyMinted' BY <2>1, <2>2 DEF OnlyMinted
  <2>7. NotYetStored' BY <2>1, <2>2 DEF NotYetStored, TypeInv, TypeOK
  <2>8. OpenNotRetired' BY <2>2 DEF OpenNotRetired
  <2>9. ShownWasStored'
    <3>1. CardsAreStored'
      BY <2>1, <2>2, NoPendingAssumption
         DEF ShownWasStored, CardsAreStored, TypeInv, TypeOK
    <3> QED BY <2>1, <2>2, <3>1 DEF ShownWasStored, TypeInv, TypeOK
  <2>10. RunsItsCard' BY <2>1 DEF RunsItsCard
  <2>11. AnswerRetires' BY <2>1, <2>2 DEF AnswerRetires
  <2> QED BY <2>1, <2>6, <2>7, <2>8, <2>9, <2>10, <2>11 DEF MintedOnce, OwnProposal
<1>7. CASE ShowCard(t)
  <2>1. OnlyMinted' BY <1>7 DEF ShowCard, OnlyMinted, TypeInv
  <2>2. NotYetStored' BY <1>7 DEF ShowCard, NotYetStored, TypeInv, TypeOK
  <2>3. ShownWasStored'
    BY <1>7 DEF ShowCard, ShownWasStored, CardsAreStored, TypeInv, TypeOK
  <2>4. RunsItsCard' BY <1>7 DEF ShowCard, RunsItsCard
  <2> QED BY <1>7, <2>1, <2>2, <2>3, <2>4
          DEF ShowCard, MintedOnce, OwnProposal, OpenNotRetired, AnswerRetires
<1>8. CASE FailTurn(t)
  <2>1. NotYetStored' BY <1>8 DEF FailTurn, NotYetStored, TypeInv, TypeOK
  <2>2. ShownWasStored'
    BY <1>8 DEF FailTurn, ShownWasStored, CardsAreStored, TypeInv, TypeOK
  <2> QED BY <1>8, <2>1, <2>2
          DEF FailTurn, MintedOnce, OnlyMinted, OwnProposal, OpenNotRetired, RunsItsCard,
              AnswerRetires
<1> QED BY <1>1, <1>2, <1>3, <1>4, <1>5, <1>6, <1>7, <1>8 DEF TurnStep, EndTurn

\* The steps of an approval request and of the tenant.
LEMMA ClickInv ==
  ASSUME Inv, TypeInv', NEW c \in Clicks, ClickStep(c)
  PROVE  Inv'
<1> USE DEF Inv, doc, turnV, runV, Stored
<1>a. ASSUME PutPending(NoPending), turnV' = turnV
      PROVE  /\ MintedOnce' /\ OnlyMinted' /\ OwnProposal' /\ NotYetStored'
             /\ OpenNotRetired' /\ ShownWasStored'
  <2>1. /\ pending' = NoPending
        /\ retired \subseteq retired'
        /\ Stored(pending) => pending.token \in retired'
        /\ \A k \in retired' : k \in retired \/ (Stored(pending) /\ k = pending.token)
    BY <1>a, PutPendingRetires
  <2>2. OnlyMinted' BY <1>a, <2>1 DEF OnlyMinted
  <2>3. NotYetStored'
    BY <1>a, <2>1 DEF NotYetStored, MintedOnce, OnlyMinted
  <2>4. CardsAreStored'
    BY <1>a, <2>1, NoPendingAssumption DEF ShownWasStored, CardsAreStored, TypeInv, TypeOK
  <2>5. ShownWasStored'
    BY <1>a, <2>1, <2>4 DEF ShownWasStored, TypeInv
  <2> QED BY <1>a, <2>1, <2>2, <2>3, <2>5 DEF MintedOnce, OwnProposal, OpenNotRetired
<1>b. \A d \in Clicks : effect[d] # "none" =>
        pending = approval[d] \/ pressed[d] \in retired
  BY DEF RunsItsCard, ShownWasStored, CardsAreStored
<1>1. ASSUME NEW k \in Tokens \cup {NoToken}, Cancel(c, k) PROVE Inv'
  <2>1. /\ click[c] = "idle"
        /\ k \in {p.token : p \in cards} \cup {NoToken}
        /\ pressed' = [pressed EXCEPT ![c] = k]
        /\ click' = [click EXCEPT ![c] = "cancelled"]
        /\ PutPending(NoPending)
        /\ UNCHANGED <<turnV, approval, effect>>
    BY <1>1 DEF Cancel, Press
  <2>2. retired \subseteq retired' /\ (Stored(pending) => pending.token \in retired')
    BY <2>1, PutPendingRetires
  <2>3. k # NoToken => k \in retired'
    BY <2>1, <2>2, NoPendingAssumption DEF ShownWasStored, CardsAreStored, TypeInv, TypeOK
  <2>4. AnswerRetires' BY <2>1, <2>2, <2>3 DEF AnswerRetires, TypeInv, TypeOK
  <2>5. RunsItsCard' BY <2>1 DEF RunsItsCard, TypeInv, TypeOK
  <2> QED BY <1>a, <2>1, <2>4, <2>5
<1>2. ASSUME NEW k \in Tokens \cup {NoToken}, Reject(c, k) PROVE Inv'
  <2>1. AnswerRetires' BY <1>2 DEF Reject, Press, AnswerRetires, TypeInv, TypeOK
  <2>2. RunsItsCard' BY <1>2 DEF Reject, Press, RunsItsCard, TypeInv, TypeOK
  <2> QED BY <1>2, <2>1, <2>2
          DEF Reject, MintedOnce, OnlyMinted, OwnProposal, NotYetStored, OpenNotRetired,
              ShownWasStored, CardsAreStored
<1>3. ASSUME NEW k \in Tokens \cup {NoToken}, Approve(c, k) PROVE Inv'
  <2>1. /\ click[c] = "idle"
        /\ k \in {p.token : p \in cards} \cup {NoToken}
        /\ pressed' = [pressed EXCEPT ![c] = k]
        /\ Stored(pending) /\ pending.token = k
        /\ click' = [click EXCEPT ![c] = "executing"]
        /\ approval' = [approval EXCEPT ![c] = pending]
        /\ effect' = [effect EXCEPT ![c] = "sent"]
        /\ UNCHANGED <<doc, turnV>>
    BY <1>3 DEF Approve, Press, IsPendingValid
  <2>2. pending \in cards
    BY <2>1, NoTokenAssumption DEF MintedOnce, OnlyMinted, TypeInv, TypeOK, Pendings
  <2>3. RunsItsCard' BY <2>1, <2>2 DEF RunsItsCard, TypeInv, TypeOK
  <2>4. AnswerRetires' BY <2>1 DEF AnswerRetires, TypeInv, TypeOK
  <2> QED BY <2>1, <2>3, <2>4
          DEF MintedOnce, OnlyMinted, OwnProposal, NotYetStored, OpenNotRetired,
              ShownWasStored, CardsAreStored
<1>4. CASE Applied(c)
  <2>1. RunsItsCard' BY <1>4 DEF Applied, RunsItsCard, TypeInv, TypeOK
  <2> QED BY <1>4, <2>1
          DEF Applied, MintedOnce, OnlyMinted, OwnProposal, NotYetStored, OpenNotRetired,
              ShownWasStored, CardsAreStored, AnswerRetires
<1>5. ASSUME NEW r \in {"done", "could_not", "failed"},
             click[c] = "executing",
             click' = [click EXCEPT ![c] = r],
             PutPending(NoPending),
             UNCHANGED <<turnV, pressed, approval, effect>>
      PROVE Inv'
  <2>1. retired \subseteq retired' /\ (Stored(pending) => pending.token \in retired')
    BY <1>5, PutPendingRetires
  <2>2. pressed[c] \in retired'
    BY <1>5, <1>b, <2>1, NoPendingAssumption DEF RunsItsCard, TypeInv, TypeOK
  <2>3. AnswerRetires' BY <1>5, <2>1, <2>2 DEF AnswerRetires, TypeInv, TypeOK
  <2>4. RunsItsCard' BY <1>5 DEF RunsItsCard, TypeInv, TypeOK
  <2> QED BY <1>a, <1>5, <2>3, <2>4
<1>6. ASSUME NEW r \in {"done", "could_not"}, Finish(c, r) PROVE Inv'
  BY <1>5, <1>6 DEF Finish
<1>7. CASE Fail(c)
  BY <1>5, <1>7 DEF Fail
<1> QED BY <1>1, <1>2, <1>3, <1>4, <1>6, <1>7 DEF ClickStep, EndClick

\* The end of the process: the document is as it was, has been cleared, or has the
\* proposal of a web turn that was being stored.
LEMMA RestartInv ==
  ASSUME Inv, TypeInv', Restart
  PROVE  Inv'
<1> USE DEF Inv, doc, turnV, runV, Stored
<1>a. /\ UNCHANGED <<proposal, cards, minted, pressed, approval, effect>>
      /\ turn' = [t \in Turns |->
           IF turn[t] \in {"running", "sending", "carding"} THEN "lost" ELSE turn[t]]
      /\ click' = [c \in Clicks |-> IF click[c] = "executing" THEN "lost" ELSE click[c]]
  BY DEF Restart, turnV, runV
<1>b. MintedOnce' /\ OwnProposal' BY <1>a DEF MintedOnce, OwnProposal
<1>c. RunsItsCard' BY <1>a DEF RunsItsCard, TypeInv, TypeOK
<1>1. ASSUME NEW t \in Turns, turn[t] = "running", Stored(proposal[t]), PutPending(proposal[t])
      PROVE  Inv'
  <2>1. /\ pending' = proposal[t]
        /\ retired \subseteq retired'
        /\ Stored(pending) => pending.token \in retired'
        /\ \A k \in retired' : k \in retired \/ (Stored(pending) /\ k = pending.token)
        /\ proposal[t].token \notin retired'
    BY <1>1, StoreFacts
  <2>2. OnlyMinted' BY <1>1, <1>a, <2>1 DEF OnlyMinted
  <2>3. NotYetStored' BY <1>a DEF NotYetStored, TypeInv, TypeOK
  <2>4. OpenNotRetired' BY <2>1 DEF OpenNotRetired
  <2>5. CardsAreStored'
    BY <1>a, <2>1, NoPendingAssumption DEF ShownWasStored, CardsAreStored, TypeInv, TypeOK
  <2>6. ShownWasStored' BY <1>a, <2>5 DEF ShownWasStored, TypeInv, TypeOK
  <2>7. AnswerRetires' BY <1>a, <2>1 DEF AnswerRetires, TypeInv, TypeOK
  <2> QED BY <1>b, <1>c, <2>2, <2>3, <2>4, <2>6, <2>7
<1>2. ASSUME UNCHANGED <<pending, retired>> \/ PutPending(NoPending) PROVE Inv'
  <2>1. /\ retired \subseteq retired'
        /\ (pending' = pending /\ retired' = retired) \/ pending' = NoPending
        /\ Stored(pending) => pending' = pending \/ pending.token \in retired'
        /\ \A k \in retired' : k \in retired \/ (Stored(pending) /\ k = pending.token)
    BY <1>2, PutPendingRetires
  <2>2. OnlyMinted' BY <1>a, <2>1 DEF OnlyMinted
  <2>3. NotYetStored' BY <1>a DEF NotYetStored, TypeInv, TypeOK
  <2>4. OpenNotRetired' BY <2>1 DEF OpenNotRetired
  <2>5. CardsAreStored'
    BY <1>a, <2>1, NoPendingAssumption DEF ShownWasStored, CardsAreStored, TypeInv, TypeOK
  <2>6. ShownWasStored' BY <1>a, <2>5 DEF ShownWasStored, TypeInv, TypeOK
  <2>7. AnswerRetires' BY <1>a, <2>1 DEF AnswerRetires, TypeInv, TypeOK
  <2> QED BY <1>b, <1>c, <2>2, <2>3, <2>4, <2>6, <2>7
<1>3. \/ UNCHANGED <<pending, retired>> \/ PutPending(NoPending)
      \/ \E t \in Turns : turn[t] = "running" /\ Stored(proposal[t]) /\ PutPending(proposal[t])
  BY DEF Restart, Leaves, TurnCut, EndCut
<1> QED BY <1>1, <1>2, <1>3

LEMMA NextInv == Inv /\ [Next]_vars => Inv'
<1> SUFFICES ASSUME Inv, [Next]_vars PROVE Inv' OBVIOUS
<1>1. TypeInv' BY NextTyped DEF Inv
<1>2. ASSUME NEW t \in Turns, TurnStep(t) PROVE Inv' BY <1>1, <1>2, TurnInv
<1>3. ASSUME NEW c \in Clicks, ClickStep(c) PROVE Inv' BY <1>1, <1>3, ClickInv
<1>4. CASE Restart BY <1>1, <1>4, RestartInv
<1>5. CASE Tick \/ UNCHANGED vars
  BY <1>1, <1>5
     DEF Tick, vars, doc, turnV, runV, Inv, MintedOnce, OnlyMinted, OwnProposal,
         NotYetStored, OpenNotRetired, ShownWasStored, CardsAreStored, RunsItsCard,
         AnswerRetires, Stored
<1> QED BY <1>2, <1>3, <1>4, <1>5 DEF Next

THEOREM Invariant == Spec => []Inv
BY InitInv, NextInv, PTL DEF Spec
------------------------------------------------------------------------------
(* What follows from it. *)

\* A change that runs is the one whose card was pressed: for any number of turns,
\* requests and proposals, through every interleaving, restart and replacement.
THEOREM ReviewedOnly == Spec => []OnlyReviewedRuns
<1>1. Inv => OnlyReviewedRuns BY DEF Inv, RunsItsCard, OnlyReviewedRuns
<1> QED BY Invariant, <1>1, PTL

\* A card on screen is the stored approval, or its approval is over.
THEOREM CardsStored == Spec => []CardsAreStored
<1>1. Inv => CardsAreStored BY DEF Inv, ShownWasStored
<1> QED BY Invariant, <1>1, PTL

\* The step in which a request starts its change is Approve.
LEMMA BeginsIsApprove ==
  ASSUME Inv, [Next]_vars, NEW c \in Clicks, Begins(c)
  PROVE  \E k \in Tokens \cup {NoToken} : Approve(c, k)
<1> USE DEF Begins, Inv, TypeInv, TypeOK, doc, turnV, runV
<1>1. ASSUME NEW t \in Turns, TurnStep(t) PROVE click' = click
  BY <1>1 DEF TurnStep, EndTurn, Load, Propose, FinishWeb, SaveBot, FinishBot, StoreBot,
              ShowCard, FailTurn
<1>2. ASSUME NEW d \in Clicks, ClickStep(d)
      PROVE \E k \in Tokens \cup {NoToken} : Approve(c, k)
  <2>1. click' # click BY DEF Begins
  <2>2. ASSUME NEW k \in Tokens \cup {NoToken}, Cancel(d, k) \/ Reject(d, k) PROVE FALSE
    BY <2>2 DEF Cancel, Reject
  <2>3. ~Fail(d) /\ ~Applied(d) /\ \A r \in {"done", "could_not"} : ~Finish(d, r)
    BY DEF Fail, Finish, Applied
  <2>4. ASSUME NEW k \in Tokens \cup {NoToken}, Approve(d, k) PROVE d = c
    BY <2>4 DEF Approve
  <2> QED BY <1>2, <2>2, <2>3, <2>4 DEF ClickStep, EndClick
<1>3. ~Restart BY DEF Restart
<1>4. ~Tick /\ ~UNCHANGED vars BY DEF Tick, vars
<1> QED BY <1>1, <1>2, <1>3, <1>4 DEF Next

\* An approval that has been answered for never starts its change again.
THEOREM ClosedForGood == Spec => ClosedStaysClosed
<1> DEFINE A == \A c, d \in Clicks :
       /\ Begins(c)
       /\ click[d] \in {"done", "could_not", "failed", "cancelled"}
       => pressed[d] # pressed'[c]
<1>1. Inv /\ [Next]_vars => [A]_vars
  <2> SUFFICES ASSUME Inv, [Next]_vars,
                      NEW c \in Clicks, NEW d \in Clicks, Begins(c),
                      click[d] \in {"done", "could_not", "failed", "cancelled"},
                      pressed[d] = pressed'[c]
               PROVE  FALSE
    OBVIOUS
  <2>1. PICK k \in Tokens \cup {NoToken} : Approve(c, k) BY BeginsIsApprove
  <2>2. Stored(pending) /\ pending.token = k /\ pressed'[c] = k
    BY <2>1 DEF Approve, Press, IsPendingValid, Inv, TypeInv, TypeOK
  <2>3. k # NoToken
    BY <2>2, NoTokenAssumption DEF Inv, TypeInv, TypeOK, Stored, Pendings
  <2> QED BY <2>2, <2>3 DEF Inv, AnswerRetires, OpenNotRetired
<1> QED BY Invariant, <1>1, PTL DEF Spec, ClosedStaysClosed

\* No change starts once its approval has expired.
THEOREM NoLateRun == Spec => NoRunAfterExpiry
<1> DEFINE A == \A c \in Clicks : Begins(c) =>
       \E p \in minted : p.token = pressed'[c] /\ clock < p.expires
<1>1. Inv /\ [Next]_vars => [A]_vars
  <2> SUFFICES ASSUME Inv, [Next]_vars, NEW c \in Clicks, Begins(c)
               PROVE  \E p \in minted : p.token = pressed'[c] /\ clock < p.expires
    OBVIOUS
  <2>1. PICK k \in Tokens \cup {NoToken} : Approve(c, k) BY BeginsIsApprove
  <2>2. Stored(pending) /\ pending.token = k /\ pressed'[c] = k /\ clock < pending.expires
    BY <2>1 DEF Approve, Press, IsPendingValid, Inv, TypeInv, TypeOK
  <2> QED BY <2>2 DEF Inv, OnlyMinted
<1> QED BY Invariant, <1>1, PTL DEF Spec, NoRunAfterExpiry
------------------------------------------------------------------------------
(* What is recorded of a change.                                                *)

\* A change that was sent is being run, was lost with its process, or was logged.
SentIsLogged ==
  \A c \in Clicks : effect[c] # "none" => row[c] # "none" \/ click[c] \in {"executing", "lost"}

LEMMA InitLogged == Init => SentIsLogged
BY DEF Init, SentIsLogged

\* Writing a row leaves the others alone, and never takes one back.
LEMMA LogKeeps ==
  ASSUME TypeOK, NEW c \in Clicks, NEW s \in {"success", "error"}, Log(c, s)
  PROVE  /\ row'[c] \in {s, "lost"}
         /\ \A d \in Clicks \ {c} : row'[d] = row[d]
         /\ \A d \in Clicks : row[d] # "none" => row'[d] # "none"
BY DEF TypeOK, Log

\* The end of the process takes no row back.
LEMMA LeavesKeepsRows ==
  ASSUME TypeOK, Leaves
  PROVE  \A d \in Clicks : row[d] # "none" => row'[d] # "none"
BY LogKeeps DEF Leaves, TurnCut, EndCut

LEMMA NextLogged == Inv /\ SentIsLogged /\ [Next]_vars => SentIsLogged'
<1> SUFFICES ASSUME Inv, SentIsLogged, [Next]_vars PROVE SentIsLogged' OBVIOUS
<1> USE DEF Inv, TypeInv, TypeOK, SentIsLogged, site, doc, turnV, runV
<1>1. ASSUME NEW t \in Turns, TurnStep(t) PROVE UNCHANGED <<runV, row>>
  BY <1>1 DEF TurnStep, EndTurn, Load, Propose, FinishWeb, SaveBot, FinishBot, StoreBot,
              ShowCard, FailTurn
<1>2. ASSUME NEW c \in Clicks, NEW k \in Tokens \cup {NoToken}, Cancel(c, k) \/ Reject(c, k)
      PROVE  SentIsLogged'
  <2>1. click[c] = "idle" /\ UNCHANGED <<effect, row>>
    BY <1>2 DEF Cancel, Reject, Press
  <2>2. PICK r \in {"cancelled", "invalid"} : click' = [click EXCEPT ![c] = r]
    BY <1>2 DEF Cancel, Reject
  <2>3. effect[c] = "none" BY <2>1 DEF RunsItsCard
  <2> QED BY <2>1, <2>2, <2>3
<1>3. ASSUME NEW c \in Clicks, NEW k \in Tokens \cup {NoToken}, Approve(c, k) PROVE SentIsLogged'
  BY <1>3 DEF Approve
<1>4. ASSUME NEW c \in Clicks, Applied(c) PROVE SentIsLogged'
  BY <1>4 DEF Applied
<1>5. ASSUME NEW c \in Clicks, NEW s \in {"success", "error"}, NEW r, Log(c, s),
             click' = [click EXCEPT ![c] = r], effect' = effect
      PROVE  SentIsLogged'
  BY <1>5, LogKeeps
<1>6. ASSUME NEW c \in Clicks, EndClick(c) PROVE SentIsLogged'
  BY <1>5, <1>6 DEF EndClick, Finish, Fail
<1>7. CASE Restart
  <2>1. \A d \in Clicks : row[d] # "none" => row'[d] # "none"
    BY <1>7, LeavesKeepsRows DEF Restart
  <2> QED BY <1>7, <2>1 DEF Restart
<1>8. CASE Tick \/ UNCHANGED vars BY <1>8 DEF Tick, vars
<1> QED BY <1>1, <1>2, <1>3, <1>4, <1>6, <1>7, <1>8 DEF Next, ClickStep

\* A change the tenant has performed has its audit row, is still being run, was lost with
\* the process, or has a row that the audit store refused: for any overlap of approvals,
\* refusals and restarts.
THEOREM RecordedUnlessLost == Spec => []UnrecordedOnlyIfLost
<1>1. Inv /\ SentIsLogged => UnrecordedOnlyIfLost
  BY DEF Inv, TypeInv, TypeOK, Rows, SentIsLogged, UnrecordedOnlyIfLost
<1> QED BY InitInv, NextInv, InitLogged, NextLogged, <1>1, PTL DEF Spec
------------------------------------------------------------------------------
(* What the transcript tells of.                                                *)

\* A request whose run is over: it was pressed, its row went out, its approval is closed.
Over(c) == click[c] # "idle" /\ pressed[c] \in retired /\ row[c] # "none"

\* Running turns carry copies of the transcript, which they save again.
ToldIsOver ==
  \A c \in Clicks :
    /\ c \in ToSet(history) => Over(c)
    /\ \A t \in Turns : c \in ToSet(seen[t]) => Over(c)

\* Appending to a transcript adds the entry and loses none.
LEMMA AppendSet ==
  ASSUME NEW h \in Seq(Entries), NEW e \in Entries
  PROVE  ToSet(Append(h, e)) = ToSet(h) \cup {e}
<1>1. /\ Len(h) \in Nat /\ DOMAIN h = 1 .. Len(h)
      /\ DOMAIN Append(h, e) = 1 .. (Len(h) + 1)
      /\ \A i \in 1 .. Len(h) : Append(h, e)[i] = h[i]
      /\ Append(h, e)[Len(h) + 1] = e
  OBVIOUS
<1>2. ASSUME NEW x \in ToSet(Append(h, e)) PROVE x \in ToSet(h) \cup {e}
  <2>1. PICK i \in 1 .. (Len(h) + 1) : x = Append(h, e)[i] BY <1>1 DEF ToSet
  <2>2. i \in 1 .. Len(h) \/ i = Len(h) + 1 BY <1>1, <2>1
  <2> QED BY <1>1, <2>1, <2>2 DEF ToSet
<1>3. ASSUME NEW x \in ToSet(h) \cup {e} PROVE x \in ToSet(Append(h, e))
  <2>1. CASE x = e
    <3>1. Len(h) + 1 \in 1 .. (Len(h) + 1) BY <1>1
    <3> QED BY <1>1, <2>1, <3>1 DEF ToSet
  <2>2. CASE x \in ToSet(h)
    <3>1. PICK i \in 1 .. Len(h) : x = h[i] BY <1>1, <2>2 DEF ToSet
    <3>2. i \in 1 .. (Len(h) + 1) BY <1>1, <3>1
    <3> QED BY <1>1, <3>1, <3>2 DEF ToSet
  <2> QED BY <1>3, <2>1, <2>2
<1> QED BY <1>2, <1>3

LEMMA InitTold == Init => ToldIsOver
<1>1. ToSet(<<>>) = {} BY DEF ToSet
<1> QED BY <1>1 DEF Init, ToldIsOver

\* The store never forgets that an approval was closed.
LEMMA RetiredStays ==
  ASSUME Inv, [Next]_vars
  PROVE  retired \subseteq retired'
BY PutPendingRetires
   DEF Inv, Next, TurnStep, EndTurn, Load, Propose, FinishWeb, SaveBot, FinishBot, StoreBot,
       ShowCard, FailTurn, ClickStep, EndClick, Cancel, Reject, Approve, Applied, Finish, Fail,
       Restart, Leaves, TurnCut, EndCut, Tick, vars, doc

\* A run that is over stays over.
LEMMA OverStays ==
  ASSUME Inv, [Next]_vars, NEW c \in Clicks, Over(c)
  PROVE  Over(c)'
<1> USE DEF Inv, TypeInv, TypeOK, Over, site, doc, turnV, runV
<1>1. retired \subseteq retired' BY RetiredStays
<1>2. click'[c] # "idle" /\ pressed'[c] = pressed[c] /\ row'[c] # "none"
  <2>1. ASSUME NEW t \in Turns, TurnStep(t) PROVE UNCHANGED <<runV, row>>
    BY <2>1 DEF TurnStep, EndTurn, Load, Propose, FinishWeb, SaveBot, FinishBot, StoreBot,
                ShowCard, FailTurn
  <2>2. ASSUME NEW d \in Clicks, NEW k \in Tokens \cup {NoToken},
               Cancel(d, k) \/ Reject(d, k) \/ Approve(d, k)
        PROVE  click'[c] = click[c] /\ pressed'[c] = pressed[c] /\ row' = row
    <3>1. d # c BY <2>2 DEF Cancel, Reject, Approve, Press
    <3> QED BY <2>2, <3>1 DEF Cancel, Reject, Approve, Press
  <2>3. ASSUME NEW d \in Clicks, Applied(d) PROVE UNCHANGED <<click, pressed, row>>
    BY <2>3 DEF Applied
  <2>4. ASSUME NEW d \in Clicks, EndClick(d)
        PROVE  click'[c] # "idle" /\ pressed' = pressed /\ row'[c] # "none"
    BY <2>4, LogKeeps DEF EndClick, Finish, Fail
  <2>5. CASE Restart
    BY <2>5, LeavesKeepsRows DEF Restart
  <2>6. CASE Tick \/ UNCHANGED vars BY <2>6 DEF Tick, vars
  <2> QED BY <2>1, <2>2, <2>3, <2>4, <2>5, <2>6 DEF Next, ClickStep
<1> QED BY <1>1, <1>2

\* Clearing the pending record closes the approval of whoever is running.
LEMMA ClearCloses ==
  ASSUME Inv, NEW c \in Clicks, click[c] = "executing", PutPending(NoPending)
  PROVE  pressed[c] \in retired'
<1>1. retired \subseteq retired' /\ (Stored(pending) => pending.token \in retired')
  BY PutPendingRetires DEF Inv
<1>2. approval[c] \in cards /\ approval[c].token = pressed[c]
  BY DEF Inv, RunsItsCard
<1>3. approval[c] = pending \/ pressed[c] \in retired
  BY <1>2 DEF Inv, ShownWasStored, CardsAreStored
<1>4. approval[c] \in Pendings BY <1>2 DEF Inv, TypeInv, TypeOK
<1> QED BY <1>1, <1>2, <1>3, <1>4, NoPendingAssumption DEF Stored

\* The outcome of a run is appended to the transcript when the run is over.
LEMMA OutcomeIsOver ==
  ASSUME Inv, NEW c \in Clicks, click[c] = "executing", click'[c] # "idle",
         PutPending(NoPending), Log(c, "success"), pressed' = pressed
  PROVE  Over(c)'
<1>1. pressed[c] \in retired' BY ClearCloses
<1>2. row'[c] # "none" BY LogKeeps DEF Inv, TypeInv
<1> QED BY <1>1, <1>2 DEF Over

\* What a step can put in the transcript, or in a turn's copy of it: what was there or in
\* some copy, the turn itself, or the outcome of a run that is over.
LEMMA NewEntries ==
  ASSUME Inv, ToldIsOver, [Next]_vars, NEW c \in Clicks,
         c \in ToSet(history') \/ \E t \in Turns : c \in ToSet(seen'[t])
  PROVE  Over(c)'
<1> USE DEF Inv, TypeInv, TypeOK, site, doc, turnV, runV
<1>0. history \in Seq(Entries) /\ (\A t \in Turns : seen[t] \in Seq(Entries))
      /\ ToSet(<<>>) = {}
  BY DEF Entries, ToSet
<1>a. ASSUME c \in ToSet(history) \/ \E t \in Turns : c \in ToSet(seen[t]) PROVE Over(c)'
  BY <1>a, OverStays DEF ToldIsOver
<1>b. ASSUME NEW t \in Turns, SaveHistory(t), seen' = seen PROVE Over(c)'
  <2>1. ToSet(history') = ToSet(seen[t]) \cup {t}
    BY <1>0, <1>b, AppendSet DEF SaveHistory, Entries
  <2>2. c # t BY EntriesAssumption
  <2> QED BY <1>a, <1>b, <2>1, <2>2
<1>c. ASSUME NEW d \in Clicks, click[d] = "executing", click'[d] # "idle", PutPending(NoPending),
             Log(d, "success"), history' = Append(history, d), UNCHANGED <<pressed, seen>>
      PROVE  Over(c)'
  <2>1. ToSet(history') = ToSet(history) \cup {d}
    BY <1>0, <1>c, AppendSet DEF Entries
  <2>2. Over(d)' BY <1>c, OutcomeIsOver
  <2> QED BY <1>a, <1>c, <2>1, <2>2
<1>1. ASSUME NEW t \in Turns, TurnStep(t) PROVE Over(c)'
  <2>1. CASE Load(t) BY <1>a, <2>1 DEF Load
  <2>2. CASE FinishWeb(t) \/ SaveBot(t)
    BY <1>b, <2>2 DEF FinishWeb, SaveBot
  <2>3. CASE UNCHANGED <<history, seen>> BY <1>a, <2>3
  <2> QED BY <1>1, <2>1, <2>2, <2>3
          DEF TurnStep, EndTurn, Propose, FinishBot, StoreBot, ShowCard, FailTurn
<1>2. ASSUME NEW d \in Clicks, ClickStep(d) PROVE Over(c)'
  <2>1. ASSUME NEW r \in {"done", "could_not"}, Finish(d, r) PROVE Over(c)'
    <3>1. /\ click[d] = "executing" /\ click'[d] # "idle" /\ PutPending(NoPending)
          /\ Log(d, "success") /\ history' = Append(history, d) /\ UNCHANGED <<pressed, seen>>
      BY <2>1 DEF Finish
    <3> QED BY <1>c, <3>1
  <2>2. CASE UNCHANGED <<history, seen>> BY <1>a, <2>2
  <2> QED BY <1>2, <2>1, <2>2 DEF ClickStep, EndClick, Cancel, Reject, Approve, Applied, Fail
<1>3. CASE Restart
  <2>1. /\ UNCHANGED <<pressed, seen>>
        /\ \A d \in Clicks : click'[d] = IF click[d] = "executing" THEN "lost" ELSE click[d]
    BY <1>3 DEF Restart
  <2>2. CASE history' = history \/ history' = <<>> BY <1>0, <1>a, <2>1, <2>2
  <2>3. ASSUME NEW t \in Turns, TurnCut(t) PROVE Over(c)'
    BY <1>b, <2>1, <2>3 DEF TurnCut
  <2>4. ASSUME NEW d \in Clicks, EndCut(d), history' # history PROVE Over(c)'
    <3>1. /\ click[d] = "executing" /\ PutPending(NoPending) /\ Log(d, "success")
          /\ history' = Append(history, d)
      BY <2>4 DEF EndCut
    <3> QED BY <1>c, <2>1, <3>1
  <2> QED BY <1>3, <2>2, <2>3, <2>4 DEF Restart, Leaves
<1>4. CASE Tick \/ UNCHANGED vars BY <1>4, <1>a DEF Tick, vars
<1> QED BY <1>1, <1>2, <1>3, <1>4 DEF Next

\* The transcript tells of no run that is not over, wherever the process may have ended:
\* the row went out first, then the approval was closed, then the outcome was saved.
THEOREM ToldOnlyWhenOver == Spec => []TranscriptTellsOfClosed
<1>1. ToldIsOver => TranscriptTellsOfClosed BY DEF ToldIsOver, Over, TranscriptTellsOfClosed
<1>2. Inv /\ ToldIsOver /\ [Next]_vars => ToldIsOver' BY NewEntries DEF ToldIsOver
<1> QED BY InitInv, NextInv, InitTold, <1>1, <1>2, PTL DEF Spec

\* The durable transcript forgets an entry only by a turn that had not loaded it.
THEOREM ForgettingOverlaps == Spec => ForgetsOnlyByOverlap
<1> DEFINE A == durable => \A e \in ToSet(history) \ ToSet(history') :
                  \E t \in Turns : /\ turn[t] = "running"
                                   /\ turn'[t] \in {"done", "sending", "lost"}
                                   /\ e \notin ToSet(seen[t])
<1>1. ASSUME Inv, [Next]_vars PROVE A
  <2> SUFFICES ASSUME durable, NEW e \in ToSet(history) \ ToSet(history')
               PROVE  \E t \in Turns : /\ turn[t] = "running"
                                       /\ turn'[t] \in {"done", "sending", "lost"}
                                       /\ e \notin ToSet(seen[t])
    OBVIOUS
  <2>1. history' # history OBVIOUS
  <2>2. history \in Seq(Entries) /\ \A t \in Turns : seen[t] \in Seq(Entries)
    BY <1>1 DEF Inv, TypeInv, TypeOK, Entries
  <2>3. ASSUME NEW t \in Turns, FinishWeb(t) \/ SaveBot(t) \/ (Restart /\ TurnCut(t))
        PROVE  /\ turn[t] = "running" /\ turn'[t] \in {"done", "sending", "lost"}
               /\ e \notin ToSet(seen[t])
    <3>1. turn[t] = "running" /\ turn'[t] \in {"done", "sending", "lost"} /\ history' = Append(seen[t], t)
      BY <1>1, <2>3
         DEF FinishWeb, SaveBot, Restart, TurnCut, SaveHistory, Inv, TypeInv, TypeOK
    <3>2. ToSet(seen[t]) \subseteq ToSet(history') BY <2>2, <3>1, AppendSet DEF Entries
    <3> QED BY <3>1, <3>2
  <2>4. ASSUME NEW c \in Clicks, NEW r \in {"done", "could_not"}, Finish(c, r) PROVE FALSE
    <3>1. ToSet(history) \subseteq ToSet(history')
      BY <2>2, <2>4, AppendSet DEF Finish, Entries
    <3> QED BY <3>1
  <2>5. ASSUME NEW t \in Turns, TurnStep(t) PROVE FinishWeb(t) \/ SaveBot(t)
    BY <2>1, <2>5 DEF TurnStep, EndTurn, Load, Propose, FinishBot, StoreBot, ShowCard, FailTurn,
                      doc
  <2>6. ASSUME NEW c \in Clicks, ClickStep(c)
        PROVE  \E r \in {"done", "could_not"} : Finish(c, r)
    BY <2>1, <2>6 DEF ClickStep, EndClick, Cancel, Reject, Approve, Applied, Fail, doc
  <2>7. ASSUME Restart PROVE \E t \in Turns : TurnCut(t)
    <3>1. ASSUME NEW c \in Clicks, EndCut(c) PROVE FALSE
      <4>1. history' = Append(history, c) BY <2>1, <3>1 DEF EndCut, doc
      <4> QED BY <2>2, <4>1, AppendSet DEF Entries
    <3> QED BY <2>1, <2>7, <3>1 DEF Restart, Leaves, doc
  <2>8. ~Tick /\ ~UNCHANGED vars BY <2>1 DEF Tick, vars, doc
  <2> QED BY <1>1, <2>3, <2>4, <2>5, <2>6, <2>7, <2>8 DEF Next
<1>2. Inv /\ [Next]_vars => [A]_vars BY <1>1
<1> QED BY Invariant, <1>2, PTL DEF Spec, ForgetsOnlyByOverlap
==============================================================================
