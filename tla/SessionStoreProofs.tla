-------------------------- MODULE SessionStoreProofs --------------------------
(* Theorems about SessionStore: any number of turns, requests and instances, any *)
(* number of failed reads and writes.                                            *)
EXTENDS SessionStore, TLAPS

Labels == Busy \cup {"idle", "chatting", "saved", "executing", "done", "rejected", "cancelled",
                     "failed"}

\* Labels at which the copy is known to be absent, and known to be there.
Creating == {"create", "restoring", "recreating"}
Keeping  == {"storing", "clearing", "closing", "dropping"}

\* Labels of a request that has used or cancelled its approval.
After == {"cleared", "loaded", "recreating", "recording", "done", "failed", "cancelled"}
------------------------------------------------------------------------------
(* Every step reads or writes the document for one process.                      *)

\* p reads, outside of a call or at the start of one, and goes on to l.
Reading(p, l) ==
  /\ Read(p) /\ Goto(p, l)
  /\ pc[p] \in {"idle", "chatting", "saved", "executing", "cleared", "loaded"}
  /\ l \in Labels \ {"done"}
  /\ l \in Creating => copy'[p] = NoDoc
  /\ l \in Keeping => copy'[p] # NoDoc
  /\ pc[p] \in {"saved", "done"} => p \in Turns
  /\ p \in Clicks /\ l \in After => \/ pc[p] \in After
                                    \/ copy'[p] = NoDoc
                                    \/ copy'[p].pending = NoPending
  /\ p \in Clicks /\ pc[p] \in After => l \in After
  /\ \/ UNCHANGED pressed /\ l \notin {"executing", "rejected"}
     \/ /\ p \in Clicks /\ pc[p] = "idle"
        /\ \E k \in Turns : /\ Card(k)
                            /\ pressed' = [pressed EXCEPT ![p] = k]
                            /\ l = "executing" => copy'[p] # NoDoc /\ copy'[p].pending = k
                            /\ l = "rejected" => copy'[p] = NoDoc \/ copy'[p].pending # k

\* p writes d, which changes one field of its copy, keeps x and goes on to l.
Writing(p, d, l, x) ==
  /\ Write(p, d) /\ Goto(p, l) /\ copy' = [copy EXCEPT ![p] = x]
  /\ pc[p] \in Midway
  /\ d \in Docs /\ x \in Docs \cup {NoDoc} /\ l \in Labels \ {"executing"}
  /\ l \in Midway => l = "storing" /\ x = Empty /\ d = Empty
  /\ \/ copy[p] = NoDoc /\ d = Empty
     \/ \E h \in SUBSET Procs : d = Saved(copy[p], h)
     \/ copy[p] # NoDoc /\ p \in Turns /\ pc[p] = "storing" /\ d = [copy[p] EXCEPT !.pending = p]
     \/ copy[p] # NoDoc /\ p \in Clicks /\ l \in After /\ d = [copy[p] EXCEPT !.pending = NoPending]
  /\ p \in Turns => (l = "done" <=> pc[p] = "storing")
  /\ p \in Turns /\ pc[p] = "storing" => copy[p] # NoDoc /\ d = [copy[p] EXCEPT !.pending = p]
  /\ p \in Clicks /\ pc[p] \in After => l \in After
  /\ p \in Clicks /\ l \in After => pc[p] \in After \/ d.pending = NoPending
  /\ UNCHANGED pressed

\* What p holds in a call is known from where it stands, and is the stored document
\* unless the store failed it or somebody else wrote.
Fresh ==
  \A p \in Procs :
    /\ pc[p] \in Creating => copy[p] = NoDoc
    /\ pc[p] \in Keeping => copy[p] # NoDoc
    /\ pc[p] \in Midway /\ p \notin stale \cup blind => copy[p] = doc

\* The empty document is one, and so is every copy with a field replaced.
LEMMA DocsShape ==
  /\ Empty \in Docs /\ Empty # NoDoc /\ Empty.pending = NoPending /\ Empty.history = {}
  /\ \A d \in Docs, h \in SUBSET Procs :
       /\ [d EXCEPT !.history = h] \in Docs
       /\ [d EXCEPT !.history = h].pending = d.pending
  /\ \A d \in Docs, k \in Turns \cup {NoPending} :
       /\ [d EXCEPT !.pending = k] \in Docs
       /\ [d EXCEPT !.pending = k].pending = k
  /\ \A d \in Docs \cup {NoDoc}, h \in SUBSET Procs : Saved(d, h) \in Docs
  /\ \A d \in Docs : d.history \in SUBSET Procs /\ d # NoDoc
<1>1. Empty = [history |-> {}, pending |-> NoPending] BY DEF Empty, Abstract!Empty
<1>2. Empty \in Docs /\ Empty.pending = NoPending /\ Empty.history = {} BY <1>1 DEF Docs
<1>3. ASSUME NEW d \in Docs, NEW h \in SUBSET Procs
      PROVE  [d EXCEPT !.history = h] \in Docs /\ [d EXCEPT !.history = h].pending = d.pending
  BY <1>3 DEF Docs
<1>4. ASSUME NEW d \in Docs, NEW k \in Turns \cup {NoPending}
      PROVE  [d EXCEPT !.pending = k] \in Docs /\ [d EXCEPT !.pending = k].pending = k
  BY <1>4 DEF Docs
<1>5. ASSUME NEW d \in Docs \cup {NoDoc}, NEW h \in SUBSET Procs PROVE Saved(d, h) \in Docs
  BY <1>2, <1>3 DEF Saved
<1>6. \A d \in Docs : d.history \in SUBSET Procs /\ d # NoDoc BY NoDocAssumption DEF Docs
<1> QED BY <1>2, <1>3, <1>4, <1>5, <1>6

\* What a read leaves in the copy is a document or none.
LEMMA ReadCopy ==
  ASSUME TypeOK, NEW p \in Procs, Read(p)
  PROVE  copy' \in [Procs -> Docs \cup {NoDoc}] /\ copy'[p] \in Docs \cup {NoDoc}
BY DEF Read, TypeOK

LEMMA OpenAtReads ==
  ASSUME TypeOK, NEW p \in Procs, NEW l \in {"chatting", "storing", "loaded"},
         NEW m \in Creating, OpenAt(p, l, m),
         pc[p] \in {"idle", "saved", "cleared"}, pc[p] = "saved" => p \in Turns,
         p \in Clicks => pc[p] = "cleared" /\ l = "loaded" /\ m = "recreating"
  PROVE  /\ \E n \in {l, m} : Reading(p, n)
         /\ seen' \in [Procs -> SUBSET Procs]
<1> DEFINE n == IF copy'[p] = NoDoc THEN m ELSE l
<1>1. Read(p) /\ Goto(p, n) /\ UNCHANGED pressed
      /\ seen' = [seen EXCEPT ![p] = IF copy'[p] = NoDoc THEN {} ELSE copy'[p].history]
  BY DEF OpenAt
<1>2. copy'[p] \in Docs \cup {NoDoc} BY <1>1, ReadCopy
<1>3. seen' \in [Procs -> SUBSET Procs]
  <2>1. (IF copy'[p] = NoDoc THEN {} ELSE copy'[p].history) \in SUBSET Procs
    BY <1>2, DocsShape
  <2> QED BY <1>1, <2>1 DEF TypeOK
<1>4. n \in Labels \ {"done"} /\ n \notin {"executing", "rejected"} /\ n \in {l, m}
  BY DEF Labels, Busy, Midway, Creating
<1>5. (n \in Creating => copy'[p] = NoDoc) /\ (n \in Keeping => copy'[p] # NoDoc)
  BY DEF Creating, Keeping
<1>6. p \in Clicks => pc[p] \in After /\ n \in After BY <1>4 DEF After
<1> HIDE DEF n
<1>7. Reading(p, n) BY <1>1, <1>4, <1>5, <1>6 DEF Reading
<1> QED BY <1>3, <1>4, <1>7

LEMMA CreateAtWrites ==
  ASSUME TypeOK, Fresh, NEW p \in Procs, NEW m \in Creating,
         NEW l \in {"chatting", "storing", "loaded"}, CreateAt(p, m, l),
         p \in Clicks => m = "recreating" /\ l = "loaded"
  PROVE  Writing(p, Empty, l, Empty) /\ UNCHANGED seen
<1>1. pc[p] = m /\ Write(p, Empty) /\ copy' = [copy EXCEPT ![p] = Empty] /\ Goto(p, l)
      /\ UNCHANGED <<seen, pressed>>
  BY DEF CreateAt
<1>2. copy[p] = NoDoc BY <1>1 DEF Fresh
<1>3. pc[p] \in Midway BY <1>1 DEF Midway, Creating
<1>4. l \in Labels \ {"executing"} /\ (l \in Midway => l = "storing") /\ l # "done"
      /\ pc[p] # "storing"
  BY <1>1 DEF Labels, Busy, Midway, Creating
<1>5. p \in Clicks => pc[p] \in After /\ l \in After BY <1>1 DEF After
<1> QED BY <1>1, <1>2, <1>3, <1>4, <1>5, DocsShape DEF Writing

LEMMA ClearAtReads ==
  ASSUME TypeOK, NEW p \in Clicks, NEW m \in {"clearing", "closing", "dropping"},
         NEW l \in {"cleared", "failed", "cancelled"}, ClearAt(p, m, l),
         pc[p] \in {"idle", "executing"},
         \/ UNCHANGED pressed
         \/ pc[p] = "idle" /\ \E k \in Turns : Card(k) /\ pressed' = [pressed EXCEPT ![p] = k]
  PROVE  (\E n \in {l, m} : Reading(p, n)) /\ UNCHANGED seen
<1> DEFINE n == IF copy'[p] # NoDoc /\ copy'[p].pending # NoPending THEN m ELSE l
<1>1. Read(p) /\ Goto(p, n) /\ UNCHANGED seen BY DEF ClearAt
<1>2. n \in Labels \ {"done"} /\ n \notin {"executing", "rejected"} /\ n \in {l, m}
      /\ n \notin Creating /\ pc[p] \notin After
  BY DEF Labels, Busy, Midway, Creating, After
<1>3. n \in Keeping => copy'[p] # NoDoc BY DEF Keeping
<1>4. n \in After => copy'[p] = NoDoc \/ copy'[p].pending = NoPending BY DEF After
<1> HIDE DEF n
<1>5. Reading(p, n) BY <1>1, <1>2, <1>3, <1>4 DEF Reading
<1> QED BY <1>1, <1>2, <1>5

LEMMA ClearWriteWrites ==
  ASSUME TypeOK, Fresh, NEW p \in Clicks, NEW m \in {"clearing", "closing", "dropping"},
         NEW l \in {"cleared", "failed", "cancelled"}, ClearWrite(p, m, l)
  PROVE  (\E d : Writing(p, d, l, NoDoc)) /\ UNCHANGED seen
<1> DEFINE d == Cleared(copy[p])
<1>1. pc[p] = m /\ Write(p, d) /\ copy' = [copy EXCEPT ![p] = NoDoc] /\ Goto(p, l)
      /\ UNCHANGED <<seen, pressed>>
  BY DEF ClearWrite, Leave
<1>2. p \in Procs /\ copy[p] # NoDoc /\ copy[p] \in Docs
  BY <1>1 DEF Fresh, Keeping, Procs, TypeOK
<1>3. d = [copy[p] EXCEPT !.pending = NoPending] BY DEF Cleared
<1> HIDE DEF d
<1>4. d \in Docs /\ d.pending = NoPending BY <1>2, <1>3, DocsShape
<1>5. pc[p] \in Midway /\ l \in Labels \ {"executing"} /\ l \notin Midway /\ l \in After
  BY <1>1 DEF Midway, Labels, Busy, After
<1>6. p \notin Turns BY ProcsAssumption
<1> QED BY <1>1, <1>2, <1>3, <1>4, <1>5, <1>6 DEF Writing

\* The transcript is saved.
LEMMA SaveWrites ==
  ASSUME TypeOK, NEW p \in Procs, NEW m \in {"saving", "recording"}, pc[p] = m,
         NEW l \in {"saved", "done"},
         \/ m = "saving" /\ l = "saved" /\ p \in Turns
         \/ m = "recording" /\ l = "done" /\ p \in Clicks,
         Write(p, Saved(copy[p], seen[p] \cup {p})), Leave(p, l),
         seen' = [seen EXCEPT ![p] = {}], UNCHANGED pressed
  PROVE  (\E d : Writing(p, d, l, NoDoc)) /\ seen' \in [Procs -> SUBSET Procs]
<1> DEFINE h == seen[p] \cup {p}
           d == Saved(copy[p], h)
<1>1. h \in SUBSET Procs /\ copy[p] \in Docs \cup {NoDoc} BY DEF TypeOK
<1>2. d \in Docs BY <1>1, DocsShape
<1>3. Write(p, d) /\ copy' = [copy EXCEPT ![p] = NoDoc] /\ Goto(p, l) BY DEF Leave
<1>4. pc[p] \in Midway /\ l \in Labels \ {"executing"} /\ l \notin Midway
  BY DEF Midway, Labels, Busy
<1>5. /\ p \in Clicks => pc[p] \in After /\ l \in After
      /\ p \in Turns => l # "done" /\ pc[p] # "storing"
  BY ProcsAssumption DEF After
<1>6. \E g \in SUBSET Procs : d = Saved(copy[p], g) BY <1>1
<1>7. seen' \in [Procs -> SUBSET Procs] BY DEF TypeOK
<1> HIDE DEF d
<1>8. Writing(p, d, l, NoDoc) BY <1>2, <1>3, <1>4, <1>5, <1>6 DEF Writing
<1> QED BY <1>7, <1>8

LEMMA BeginReads ==
  ASSUME TypeOK, NEW p \in Procs, NEW l \in {"saving", "recording"},
         pc[p] = IF l = "saving" THEN "chatting" ELSE "loaded",
         Read(p), Goto(p, l), UNCHANGED <<seen, pressed>>
  PROVE  Reading(p, l) /\ UNCHANGED seen
BY DEF Reading, Labels, Busy, Midway, Creating, Keeping, After

LEMMA ApproveReads ==
  ASSUME TypeOK, NEW c \in Clicks, NEW k \in Turns, Approve(c, k)
  PROVE  (\E l : Reading(c, l)) /\ UNCHANGED seen
<1> DEFINE l == IF copy'[c] # NoDoc /\ copy'[c].pending = k THEN "executing" ELSE "rejected"
<1>1. Read(c) /\ Goto(c, l) /\ pc[c] = "idle" /\ Card(k) /\ UNCHANGED seen
      /\ pressed' = [pressed EXCEPT ![c] = k]
  BY DEF Approve
<1>2. l \in Labels \ {"done"} /\ l \notin Creating /\ l \notin Keeping /\ l \notin After
      /\ pc[c] \notin After
  BY <1>1 DEF Labels, Creating, Keeping, After
<1>3. /\ l = "executing" => copy'[c] # NoDoc /\ copy'[c].pending = k
      /\ l = "rejected" => copy'[c] = NoDoc \/ copy'[c].pending # k
  OBVIOUS
<1> HIDE DEF l
<1>4. Reading(c, l) BY <1>1, <1>2, <1>3 DEF Reading
<1> QED BY <1>1, <1>4

\* A turn set on storing its proposal.
LEMMA StoreWrites ==
  ASSUME TypeOK, Fresh, NEW t \in Turns, Store(t)
  PROVE  (\E d : Writing(t, d, "done", NoDoc)) /\ UNCHANGED seen
<1> DEFINE d == [copy[t] EXCEPT !.pending = t]
<1>1. pc[t] = "storing" /\ Write(t, d) /\ copy' = [copy EXCEPT ![t] = NoDoc] /\ Goto(t, "done")
      /\ UNCHANGED <<seen, pressed>>
  BY DEF Store, Leave
<1>2. t \in Procs /\ t \notin Clicks BY ProcsAssumption DEF Procs
<1>3. copy[t] # NoDoc /\ copy[t] \in Docs BY <1>1, <1>2 DEF Fresh, Keeping, TypeOK
<1>4. d \in Docs BY <1>3, DocsShape
<1>5. pc[t] \in Midway /\ "done" \in Labels \ {"executing"} /\ "done" \notin Midway
  BY <1>1 DEF Midway, Labels, Busy
<1>6. copy[t] # NoDoc /\ t \in Turns /\ pc[t] = "storing" /\ d = [copy[t] EXCEPT !.pending = t]
  BY <1>1, <1>3
<1> HIDE DEF d
<1>7. Writing(t, d, "done", NoDoc) BY <1>1, <1>2, <1>4, <1>5, <1>6 DEF Writing
<1> QED BY <1>1, <1>7

\* Every step is one or the other.
LEMMA Steps ==
  ASSUME TypeOK, Fresh, Next
  PROVE  /\ \E p \in Procs : (\E l : Reading(p, l)) \/ (\E d, l, x : Writing(p, d, l, x))
         /\ seen' \in [Procs -> SUBSET Procs]
<1> USE DEF Procs
<1> DEFINE Done == /\ \E p \in Procs : (\E l : Reading(p, l)) \/ (\E d, l, x : Writing(p, d, l, x))
                   /\ seen' \in [Procs -> SUBSET Procs]
<1>1. UNCHANGED seen => seen' \in [Procs -> SUBSET Procs] BY DEF TypeOK
<1>2. ASSUME NEW t \in Turns, TurnStep(t) PROVE Done
  <2>0. t \in Procs /\ t \notin Clicks BY ProcsAssumption
  <2>1. CASE Load(t)
    <3>1. pc[t] = "idle" /\ OpenAt(t, "chatting", "create") BY <2>1 DEF Load
    <3> QED BY <2>0, <3>1, OpenAtReads DEF Creating
  <2>2. CASE CreateAt(t, "create", "chatting")
    BY <2>0, <2>2, <1>1, CreateAtWrites DEF Creating
  <2>3. CASE BeginSave(t) BY <2>0, <2>3, <1>1, BeginReads DEF BeginSave
  <2>4. CASE Save(t) BY <2>0, <2>4, SaveWrites DEF Save
  <2>5. CASE BeginStore(t)
    <3>1. pc[t] = "saved" /\ OpenAt(t, "storing", "restoring") BY <2>5 DEF BeginStore
    <3> QED BY <2>0, <3>1, OpenAtReads DEF Creating
  <2>6. CASE CreateAt(t, "restoring", "storing")
    BY <2>0, <2>6, <1>1, CreateAtWrites DEF Creating
  <2>7. CASE Store(t) BY <2>0, <2>7, <1>1, StoreWrites
  <2> QED BY <1>2, <2>1, <2>2, <2>3, <2>4, <2>5, <2>6, <2>7 DEF TurnStep
<1>3. ASSUME NEW c \in Clicks, ClickStep(c) PROVE Done
  <2>0. c \in Procs /\ c \notin Turns BY ProcsAssumption
  <2>1. ASSUME NEW k \in Turns, Approve(c, k) PROVE Done BY <2>0, <2>1, <1>1, ApproveReads
  <2>2. ASSUME NEW k \in Turns, Cancel(c, k) PROVE Done
    <3>1. pc[c] = "idle" /\ Card(k) /\ pressed' = [pressed EXCEPT ![c] = k]
          /\ ClearAt(c, "dropping", "cancelled")
      BY <2>2 DEF Cancel
    <3> QED BY <2>0, <3>1, <1>1, ClearAtReads
  <2>3. CASE Ran(c)
    <3>1. pc[c] = "executing" /\ ClearAt(c, "clearing", "cleared") /\ UNCHANGED pressed
      BY <2>3 DEF Ran
    <3> QED BY <2>0, <3>1, <1>1, ClearAtReads
  <2>4. CASE RunFailed(c)
    <3>1. pc[c] = "executing" /\ ClearAt(c, "closing", "failed") /\ UNCHANGED pressed
      BY <2>4 DEF RunFailed
    <3> QED BY <2>0, <3>1, <1>1, ClearAtReads
  <2>5. CASE ClearWrite(c, "clearing", "cleared") BY <2>0, <2>5, <1>1, ClearWriteWrites
  <2>6. CASE ClearWrite(c, "closing", "failed") BY <2>0, <2>6, <1>1, ClearWriteWrites
  <2>7. CASE ClearWrite(c, "dropping", "cancelled") BY <2>0, <2>7, <1>1, ClearWriteWrites
  <2>8. CASE Reload(c)
    <3>1. pc[c] = "cleared" /\ OpenAt(c, "loaded", "recreating") BY <2>8 DEF Reload
    <3> QED BY <2>0, <3>1, OpenAtReads DEF Creating
  <2>9. CASE CreateAt(c, "recreating", "loaded")
    BY <2>0, <2>9, <1>1, CreateAtWrites DEF Creating
  <2>10. CASE BeginRecord(c) BY <2>0, <2>10, <1>1, BeginReads DEF BeginRecord
  <2>11. CASE Record(c) BY <2>0, <2>11, SaveWrites DEF Record
  <2> HIDE DEF Done
  <2> QED BY <1>3, <2>1, <2>2, <2>3, <2>4, <2>5, <2>6, <2>7, <2>8, <2>9, <2>10, <2>11
          DEF ClickStep
<1> QED BY <1>2, <1>3 DEF Next
------------------------------------------------------------------------------
(* The inductive invariant. One instance never makes a copy stale, a store that  *)
(* has not failed has misled nobody, and one that has holds no approval out to a *)
(* handler that could not read it.                                               *)

SameHome == \A p, q \in Procs : home[p] = home[q]

Calm == /\ SameHome => stale = {} /\ lost = FALSE
        /\ faults = 0 => failed = {}
        /\ blind \subseteq failed

\* What a failed call leaves in a copy is no document, or a new one.
Harmless == \A p \in blind : pc[p] \in Midway => copy[p] \in {NoDoc, Empty}

Inv == TypeOK /\ Fresh /\ Calm /\ Harmless

LEMMA InitInv == Init => Inv
<1> SUFFICES ASSUME Init PROVE Inv OBVIOUS
<1>1. TypeOK
  <2>1. failed \in SUBSET Procs /\ blind \in SUBSET Procs /\ stale \in SUBSET Procs /\ lost \in BOOLEAN
    BY DEF Init
  <2>2. faults \in 0 .. MaxFaults BY FaultsAssumption DEF Init
  <2> QED BY <2>1, <2>2 DEF Init, TypeOK
<1>2. Fresh BY DEF Init, Fresh, Creating, Keeping, Midway
<1>3. Calm /\ Harmless BY DEF Init, Calm, Harmless
<1> QED BY <1>1, <1>2, <1>3 DEF Inv

LEMMA ReadingInv ==
  ASSUME Inv, NEW p \in Procs, NEW l, Reading(p, l), seen' \in [Procs -> SUBSET Procs]
  PROVE  Inv'
<1>1. Read(p) /\ Goto(p, l) /\ l \in Labels BY DEF Reading
<1>2. pc' = [pc EXCEPT ![p] = l] /\ home' = home /\ doc' = doc /\ stale' = stale \ {p}
      /\ lost' = lost
  BY <1>1 DEF Goto, Read
<1>3. copy' \in [Procs -> Docs \cup {NoDoc}] BY <1>1, ReadCopy DEF Inv
<1>4. pressed' \in [Clicks -> Turns \cup {NoPending}] BY DEF Reading, Inv, TypeOK
<1>5. /\ faults' \in 0 .. MaxFaults
      /\ blind' \in SUBSET Procs /\ stale' \in SUBSET Procs /\ failed' \in SUBSET Procs
  BY <1>1, FaultsAssumption DEF Read, Faulty, Inv, TypeOK
<1>6. pc' \in [Procs -> Labels] BY <1>1, <1>2 DEF Inv, TypeOK, Labels
<1>7. TypeOK' BY <1>2, <1>3, <1>4, <1>5, <1>6 DEF Inv, TypeOK, Labels
<1>8. Fresh'
  <2>1. ASSUME NEW q \in Procs
        PROVE  /\ pc'[q] \in Creating => copy'[q] = NoDoc
               /\ pc'[q] \in Keeping => copy'[q] # NoDoc
               /\ pc'[q] \in Midway /\ q \notin stale' \cup blind' => copy'[q] = doc'
    <3>1. CASE q = p
      <4>1. pc'[q] = l BY <1>2, <3>1 DEF Inv, TypeOK
      <4>2. q \notin blind' => copy'[q] = doc BY <1>1, <3>1 DEF Read, Faulty, Inv, TypeOK
      <4> QED BY <1>2, <3>1, <4>1, <4>2 DEF Reading
    <3>2. CASE q # p
      <4>1. pc'[q] = pc[q] BY <1>2, <3>2 DEF Inv, TypeOK
      <4>2. copy'[q] = copy[q] BY <1>1, <3>2 DEF Read, Inv, TypeOK
      <4>3. (q \in blind' <=> q \in blind) /\ (q \in stale' <=> q \in stale)
        BY <1>1, <3>2 DEF Read, Faulty
      <4> QED BY <1>2, <4>1, <4>2, <4>3 DEF Inv, Fresh
    <3> QED BY <3>1, <3>2
  <2> QED BY <2>1 DEF Fresh
<1>9. Calm'
  <2>1. SameHome' => stale' = {} /\ lost' = FALSE BY <1>2 DEF Inv, Calm, SameHome
  <2>2. faults' = 0 => failed' = {}
    <3>1. faults \in Nat BY FaultsAssumption DEF Inv, TypeOK
    <3> QED BY <1>1, <3>1 DEF Read, Faulty, Inv, Calm
  <2>3. blind' \subseteq failed' BY <1>1 DEF Read, Faulty, Inv, Calm
  <2> QED BY <2>1, <2>2, <2>3 DEF Calm
<1>10. Harmless'
  <2>1. ASSUME NEW q \in blind', pc'[q] \in Midway PROVE copy'[q] \in {NoDoc, Empty}
    <3>1. CASE q = p BY <1>1, <2>1, <3>1 DEF Read, Inv, TypeOK
    <3>2. CASE q # p
      <4>1. q \in blind /\ copy'[q] = copy[q] /\ pc'[q] = pc[q]
        BY <1>1, <1>2, <1>5, <2>1, <3>2 DEF Read, Faulty, Inv, TypeOK
      <4> QED BY <2>1, <4>1 DEF Inv, Harmless
    <3> QED BY <3>1, <3>2
  <2> QED BY <2>1 DEF Harmless
<1> QED BY <1>7, <1>8, <1>9, <1>10 DEF Inv

LEMMA WritingInv ==
  ASSUME Inv, NEW p \in Procs, NEW d, NEW l, NEW x, Writing(p, d, l, x),
         seen' \in [Procs -> SUBSET Procs]
  PROVE  Inv'
<1>1. /\ Write(p, d) /\ pc' = [pc EXCEPT ![p] = l] /\ copy' = [copy EXCEPT ![p] = x]
      /\ pc[p] \in Midway /\ d \in Docs /\ x \in Docs \cup {NoDoc} /\ l \in Labels
      /\ (l \in Midway => l = "storing" /\ x = Empty /\ d = Empty) /\ UNCHANGED pressed
  BY DEF Writing, Goto
<1>2. home' = home /\ Free(p) BY <1>1 DEF Write
<1>3. \/ /\ doc' = d /\ stale' = (stale \cup {q \in Procs : pc[q] \in Midway}) \ {p}
         /\ blind' = blind \ {p} /\ faults' = faults /\ failed' = failed
         /\ lost' = (lost \/ p \in stale)
      \/ /\ faults < MaxFaults /\ faults' = faults + 1 /\ blind' = blind \cup {p}
         /\ failed' = failed \cup {p} /\ doc' = doc /\ stale' = stale /\ lost' = lost
  BY <1>1 DEF Write, Faulty
<1>4. TypeOK'
  <2>1. doc' \in Docs \cup {NoDoc} BY <1>1, <1>3 DEF Inv, TypeOK
  <2>2. copy' \in [Procs -> Docs \cup {NoDoc}] BY <1>1 DEF Inv, TypeOK
  <2>3. pc' \in [Procs -> Labels] BY <1>1 DEF Inv, TypeOK, Labels
  <2>4. faults' \in 0 .. MaxFaults BY <1>3, FaultsAssumption DEF Inv, TypeOK
  <2>5. /\ blind' \in SUBSET Procs /\ stale' \in SUBSET Procs /\ failed' \in SUBSET Procs
        /\ lost' \in BOOLEAN
    BY <1>3 DEF Inv, TypeOK
  <2> QED BY <1>1, <1>2, <2>1, <2>2, <2>3, <2>4, <2>5 DEF Inv, TypeOK, Labels
<1>5. Fresh'
  <2>1. ASSUME NEW q \in Procs
        PROVE  /\ pc'[q] \in Creating => copy'[q] = NoDoc
               /\ pc'[q] \in Keeping => copy'[q] # NoDoc
               /\ pc'[q] \in Midway /\ q \notin stale' \cup blind' => copy'[q] = doc'
    <3>1. CASE q = p
      <4>1. pc'[q] = l /\ copy'[q] = x BY <1>1, <3>1 DEF Inv, TypeOK
      <4>2. q \notin blind' => doc' = d BY <1>3, <3>1
      <4>3. d # NoDoc BY <1>1, DocsShape
      <4>4. l \in Creating \cup Keeping => l \in Midway BY DEF Creating, Keeping, Midway
      <4>5. l = "storing" => l \notin Creating BY DEF Creating
      <4> QED BY <1>1, <4>1, <4>2, <4>3, <4>4, <4>5
    <3>2. CASE q # p
      <4>1. pc'[q] = pc[q] /\ copy'[q] = copy[q] BY <1>1, <3>2 DEF Inv, TypeOK
      <4>2. pc[q] \in Midway /\ q \notin stale' \cup blind'
              => doc' = doc /\ q \notin stale \cup blind
        BY <1>3, <3>2
      <4> QED BY <4>1, <4>2 DEF Inv, Fresh
    <3> QED BY <3>1, <3>2
  <2> QED BY <2>1 DEF Fresh
<1>6. Calm'
  <2>1. ASSUME SameHome' PROVE stale' = {} /\ lost' = FALSE
    <3>1. SameHome BY <1>2, <2>1 DEF SameHome
    <3>2. \A q \in Procs \ {p} : pc[q] \notin Midway
      BY <1>2, <3>1 DEF Free, SameHome, Busy
    <3> QED BY <1>3, <3>1, <3>2 DEF Inv, Calm
  <2>2. faults' = 0 => failed' = {}
    <3>1. faults \in Nat BY FaultsAssumption DEF Inv, TypeOK
    <3> QED BY <1>3, <3>1 DEF Inv, Calm
  <2>3. blind' \subseteq failed' BY <1>3 DEF Inv, Calm
  <2> QED BY <2>1, <2>2, <2>3 DEF Calm
<1>7. Harmless'
  <2>1. ASSUME NEW q \in blind', pc'[q] \in Midway PROVE copy'[q] \in {NoDoc, Empty}
    <3>1. CASE q = p BY <1>1, <2>1, <3>1 DEF Inv, TypeOK
    <3>2. CASE q # p
      <4>1. q \in blind /\ q \in Procs BY <1>3, <3>2 DEF Inv, TypeOK
      <4>2. copy'[q] = copy[q] /\ pc'[q] = pc[q] BY <1>1, <3>2, <4>1 DEF Inv, TypeOK
      <4> QED BY <2>1, <4>1, <4>2 DEF Inv, Harmless
    <3> QED BY <3>1, <3>2
  <2> QED BY <2>1 DEF Harmless
<1> QED BY <1>4, <1>5, <1>6, <1>7 DEF Inv

LEMMA StutterInv == Inv /\ UNCHANGED vars => Inv'
<1> SUFFICES ASSUME Inv, UNCHANGED vars PROVE Inv' OBVIOUS
<1>1. TypeOK' BY DEF vars, Inv, TypeOK
<1>2. Fresh' BY DEF vars, Inv, Fresh
<1>3. Calm' /\ Harmless' BY DEF vars, Inv, Calm, SameHome, Harmless
<1> QED BY <1>1, <1>2, <1>3 DEF Inv

LEMMA NextInv == Inv /\ [Next]_vars => Inv'
<1>1. ASSUME Inv, Next PROVE Inv'
  <2>1. PICK p \in Procs : (\E l : Reading(p, l)) \/ (\E d, l, x : Writing(p, d, l, x))
    BY <1>1, Steps DEF Inv
  <2>2. seen' \in [Procs -> SUBSET Procs] BY <1>1, Steps DEF Inv
  <2> QED BY <1>1, <2>1, <2>2, ReadingInv, WritingInv
<1> QED BY <1>1, StutterInv

\* A write that starts from the stored document changes one field of it, or none.
LEMMA FreshIsAtomic ==
  ASSUME Inv, NEW p \in Procs \ (stale \cup blind), NEW d, NEW l, NEW x, Writing(p, d, l, x)
  PROVE  Abstract!Next \/ UNCHANGED doc
<1>1. copy[p] = doc BY DEF Inv, Fresh, Writing
<1>2. doc' = d \/ UNCHANGED doc BY DEF Writing, Write
<1>3. CASE copy[p] = NoDoc /\ d = Empty
  BY <1>1, <1>2, <1>3 DEF Abstract!Next, Abstract!Create, Empty
<1>4. CASE \E h \in SUBSET Procs : d = Saved(copy[p], h)
  BY <1>1, <1>2, <1>4 DEF Abstract!Next, Abstract!Save, Saved, Empty
<1>5. CASE copy[p] # NoDoc /\ p \in Turns /\ d = [copy[p] EXCEPT !.pending = p]
  BY <1>1, <1>2, <1>5 DEF Abstract!Next, Abstract!SetPending
<1>6. CASE copy[p] # NoDoc /\ d = [copy[p] EXCEPT !.pending = NoPending]
  BY <1>1, <1>2, <1>6 DEF Abstract!Next, Abstract!SetPending
<1> QED BY <1>3, <1>4, <1>5, <1>6 DEF Writing

\* Where an approval stands whose request is on its way: its card has been shown, and
\* once the request is past the clearing the record is gone for good, unless its own
\* calls failed or an older copy came back.
Closed ==
  /\ \A c \in Clicks : pressed[c] # NoPending => Card(pressed[c])
  /\ ~lost => \A c \in Clicks \ failed :
                pressed[c] # NoPending /\ pc[c] \in After
                  => doc = NoDoc \/ doc.pending # pressed[c]

\* A card once shown stays.
LEMMA CardsStay ==
  ASSUME Inv, NEW p \in Procs, NEW k \in Turns, Card(k),
         (\E l : Reading(p, l)) \/ (\E d, l, x : Writing(p, d, l, x))
  PROVE  p # k /\ Card(k)'
<1>1. pc[k] = "done" BY DEF Card
<1>2. PICK l : pc' = [pc EXCEPT ![p] = l] /\ pc[p] # "done"
  BY DEF Reading, Writing, Goto, Midway
<1> QED BY <1>1, <1>2 DEF Card, Procs, Inv, TypeOK

LEMMA ReadingCloses ==
  ASSUME Inv, Closed, NEW p \in Procs, NEW l, Reading(p, l)
  PROVE  Closed'
<1>1. Read(p) /\ pc' = [pc EXCEPT ![p] = l] /\ doc' = doc /\ home' = home
  BY DEF Reading, Read, Goto
<1>2. \/ pressed' = pressed
      \/ /\ p \in Clicks /\ pc[p] = "idle"
         /\ \E k \in Turns : Card(k) /\ pressed' = [pressed EXCEPT ![p] = k]
  BY DEF Reading
<1>3. ASSUME NEW c \in Clicks, c # p
      PROVE  pressed'[c] = pressed[c] /\ pc'[c] = pc[c]
  BY <1>1, <1>2, <1>3 DEF Inv, TypeOK, Procs
<1>4. ASSUME NEW c \in Clicks, pressed'[c] # NoPending PROVE pc'[pressed'[c]] = "done"
  <2>1. pressed'[c] \in Turns /\ Card(pressed'[c])
    <3>1. CASE pressed' = pressed BY <3>1, <1>4 DEF Closed, Inv, TypeOK
    <3>2. ASSUME NEW k \in Turns, p \in Clicks, Card(k), pressed' = [pressed EXCEPT ![p] = k]
          PROVE  pressed'[c] \in Turns /\ Card(pressed'[c])
      <4>1. CASE c = p BY <3>2, <4>1 DEF Inv, TypeOK
      <4>2. CASE c # p BY <3>2, <4>2, <1>4 DEF Closed, Inv, TypeOK
      <4> QED BY <4>1, <4>2
    <3> QED BY <1>2, <3>1, <3>2
  <2>2. pc[pressed'[c]] = "done" BY <2>1 DEF Card
  <2>3. pc[p] # "done" BY ProcsAssumption DEF Reading
  <2>4. pc'[pressed'[c]] = "done" BY <1>1, <2>1, <2>2, <2>3 DEF Inv, TypeOK, Procs
  <2> QED BY <2>4
<1>5. ASSUME ~lost', NEW c \in Clicks \ failed', pressed'[c] # NoPending, pc'[c] \in After
      PROVE  doc' = NoDoc \/ doc'.pending # pressed'[c]
  <2>1. ~lost /\ c \notin failed BY <1>1, <1>5 DEF Read, Faulty
  <2>2. CASE c = p
    <3>0. copy'[p] = doc BY <1>1, <1>5, <2>2 DEF Read, Faulty, Inv, TypeOK
    <3>1. pc'[c] = l BY <1>1, <2>2 DEF Inv, TypeOK
    <3>2. CASE pc[p] \in After
      <4>1. pressed' = pressed BY <1>2, <3>2 DEF After
      <4> QED BY <1>1, <1>5, <2>1, <2>2, <3>2, <4>1 DEF Closed
    <3>3. CASE pc[p] \notin After
      <4>1. copy'[p] = NoDoc \/ copy'[p].pending = NoPending
        BY <1>5, <2>2, <3>1, <3>3 DEF Reading
      <4> QED BY <1>1, <1>5, <3>0, <4>1
    <3> QED BY <3>2, <3>3
  <2>3. CASE c # p BY <1>1, <1>3, <1>5, <2>1, <2>3 DEF Closed
  <2> QED BY <2>2, <2>3
<1> QED BY <1>4, <1>5 DEF Closed, Card

\* A write of a copy without k's approval stores k's only if it is k that writes it.
LEMMA OthersKeepOut ==
  ASSUME NEW p \in Procs, NEW d, NEW l, NEW x, Writing(p, d, l, x), NEW k \in Turns,
         copy[p] \in Docs \cup {NoDoc}, copy[p] = NoDoc \/ copy[p].pending # k,
         pc[k] = "done"
  PROVE  d.pending # k
<1>0. k # NoPending BY ProcsAssumption
<1>1. CASE d = Empty BY <1>0, <1>1, DocsShape
<1>2. ASSUME NEW h \in SUBSET Procs, d = Saved(copy[p], h) PROVE d.pending # k
  <2>1. CASE copy[p] = NoDoc
    <3>1. d = [Empty EXCEPT !.history = h] BY <1>2, <2>1 DEF Saved
    <3> QED BY <1>0, <3>1, DocsShape
  <2>2. CASE copy[p] # NoDoc
    <3>1. d = [copy[p] EXCEPT !.history = h] BY <1>2, <2>2 DEF Saved
    <3> QED BY <2>2, <3>1, DocsShape
  <2> QED BY <2>1, <2>2
<1>3. CASE copy[p] # NoDoc /\ p \in Turns /\ pc[p] = "storing" /\ d = [copy[p] EXCEPT !.pending = p]
  <2>1. d.pending = p BY <1>3, DocsShape
  <2> QED BY <1>3, <2>1
<1>4. CASE copy[p] # NoDoc /\ d = [copy[p] EXCEPT !.pending = NoPending]
  <2>1. d.pending = NoPending BY <1>4, DocsShape
  <2> QED BY <1>0, <2>1
<1> QED BY <1>1, <1>2, <1>3, <1>4 DEF Writing

LEMMA WritingCloses ==
  ASSUME Inv, Closed, NEW p \in Procs, NEW d, NEW l, NEW x, Writing(p, d, l, x)
  PROVE  Closed'
<1>1. /\ Write(p, d) /\ pc' = [pc EXCEPT ![p] = l] /\ pc[p] \in Midway /\ d \in Docs
      /\ home' = home /\ pressed' = pressed
  BY DEF Writing, Write, Goto
<1>2. ASSUME NEW c \in Clicks, pressed'[c] # NoPending PROVE pc'[pressed'[c]] = "done"
  <2>1. pressed'[c] = pressed[c] /\ pressed[c] \in Turns /\ Card(pressed[c])
    BY <1>1, <1>2 DEF Closed, Inv, TypeOK
  <2>2. pc[pressed[c]] = "done" /\ pc[p] # "done" BY <1>1, <2>1 DEF Card, Midway
  <2>3. pc'[pressed[c]] = "done" BY <1>1, <2>1, <2>2 DEF Inv, TypeOK, Procs
  <2> QED BY <2>1, <2>3
<1>3. ASSUME ~lost', NEW c \in Clicks \ failed', pressed'[c] # NoPending, pc'[c] \in After
      PROVE  doc' = NoDoc \/ doc'.pending # pressed'[c]
  <2>0. /\ failed' = failed \/ failed' = failed \cup {p}
        /\ lost' = lost \/ lost' = (lost \/ p \in stale)
    BY <1>1 DEF Write, Faulty
  <2>1. ~lost /\ c \notin failed
    <3>1. ~lost BY <1>3, <2>0
    <3>2. c \notin failed BY <1>3, <2>0
    <3> QED BY <3>1, <3>2
  <2>2. (doc' = d /\ p \notin stale) \/ (doc' = doc /\ p \in failed')
    BY <1>1, <1>3 DEF Write, Faulty
  <2>4. pressed'[c] = pressed[c] /\ pressed[c] \in Turns /\ pc[pressed[c]] = "done"
    BY <1>1, <1>3 DEF Closed, Card, Inv, TypeOK
  <2>5. CASE doc' = doc /\ p \in failed'
    <3>0. c # p BY <1>3, <2>5
    <3>1. pc'[c] = pc[c] BY <1>1, <1>3, <3>0 DEF Inv, TypeOK, Procs
    <3> QED BY <1>3, <2>1, <2>4, <2>5, <3>1 DEF Closed
  <2>6. CASE doc' = d /\ p \notin stale /\ d.pending = NoPending BY <1>3, <2>6
  <2>7. CASE doc' = d /\ p \notin stale /\ d.pending # NoPending
    <3>1. pc[c] \in After
      <4>1. CASE c = p
        <5>1. l \in After BY <1>1, <1>3, <4>1 DEF Inv, TypeOK, Procs
        <5> QED BY <2>7, <4>1, <5>1 DEF Writing
      <4>2. CASE c # p BY <1>1, <1>3, <4>2 DEF Inv, TypeOK, Procs
      <4> QED BY <4>1, <4>2
    <3>2. doc = NoDoc \/ doc.pending # pressed[c] BY <2>1, <2>4, <3>1, <1>3 DEF Closed
    <3>3. copy[p] \in {doc, NoDoc, Empty} BY <1>1, <2>7 DEF Inv, Fresh, Harmless
    <3>4. copy[p] \in Docs \cup {NoDoc} /\ (copy[p] = NoDoc \/ copy[p].pending # pressed[c])
      BY <2>4, <3>2, <3>3, DocsShape, ProcsAssumption DEF Inv, TypeOK
    <3> QED BY <1>1, <2>4, <2>7, <3>4, OthersKeepOut
  <2> QED BY <2>2, <2>5, <2>6, <2>7
<1> QED BY <1>2, <1>3 DEF Closed, Card

LEMMA ClosedInv ==
  /\ Init => Closed
  /\ Inv /\ Closed /\ [Next]_vars => Closed'
<1>1. Init => Closed BY DEF Init, Closed
<1>2. ASSUME Inv, Closed, Next PROVE Closed'
  <2>1. PICK p \in Procs : (\E l : Reading(p, l)) \/ (\E d, l, x : Writing(p, d, l, x))
    BY <1>2, Steps DEF Inv
  <2> QED BY <1>2, <2>1, ReadingCloses, WritingCloses
<1>3. ASSUME Inv, Closed, UNCHANGED vars PROVE Closed' BY <1>3 DEF vars, Closed, Card, SameHome
<1> QED BY <1>1, <1>2, <1>3

\* An approval is executed only if the read found it on offer.
LEMMA RetakenIsLost ==
  ASSUME Inv, Closed, Next, NEW c \in Clicks, NEW e \in Clicks, Retakes(c, e)
  PROVE  e \in failed \/ lost
<1>0. /\ pc[c] = "idle" /\ pc'[c] = "executing"
      /\ pc[e] \in {"done", "failed", "cancelled"} /\ pressed[e] = pressed'[c]
  BY DEF Retakes
<1>1. PICK p \in Procs : (\E l : Reading(p, l)) \/ (\E d, l, x : Writing(p, d, l, x))
  BY Steps DEF Inv
<1>2. c \in Procs BY DEF Procs
<1>3. p = c
  <2>1. PICK l : pc' = [pc EXCEPT ![p] = l] BY <1>1 DEF Reading, Writing, Goto
  <2> QED BY <1>0, <1>2, <2>1 DEF Inv, TypeOK
<1>4. PICK l : Reading(c, l) BY <1>0, <1>1, <1>3 DEF Writing, Midway
<1>5. l = "executing" BY <1>0, <1>2, <1>4 DEF Reading, Goto, Inv, TypeOK
<1>6. PICK k \in Turns : pressed' = [pressed EXCEPT ![c] = k] /\ copy'[c] # NoDoc
                         /\ copy'[c].pending = k
  BY <1>4, <1>5 DEF Reading
<1>7. pressed'[c] = k /\ k # NoPending BY <1>6, ProcsAssumption DEF Inv, TypeOK
<1>8. copy'[c] = doc BY <1>2, <1>4, <1>6 DEF Reading, Read, Faulty, Inv, TypeOK
<1>9. pressed[e] # NoPending /\ pc[e] \in After BY <1>0, <1>7 DEF After
<1>10. ASSUME e \notin failed, ~lost PROVE FALSE
  <2>1. doc = NoDoc \/ doc.pending # pressed[e] BY <1>9, <1>10 DEF Closed
  <2> QED BY <1>0, <1>6, <1>7, <1>8, <2>1
<1> QED BY <1>10
------------------------------------------------------------------------------
(* The approval on a card nobody has meddled with.                              *)

\* k's approval is stored, no read or write has failed, no older copy was written, no other
\* turn has stored a proposal, and no request has cleared anything.
Quiet(k) ==
  /\ Card(k) /\ failed = {} /\ ~lost
  /\ \A t \in Turns \ {k} : ~Card(t)
  /\ \A c \in Clicks : pc[c] \notin After

Offered == \A k \in Turns : Quiet(k) => doc # NoDoc /\ doc.pending = k

\* A quiet approval was so before the step of anybody else, who is then no other turn that
\* stores and no request that clears.
LEMMA QuietBefore ==
  ASSUME Inv, NEW p \in Procs, NEW l, pc' = [pc EXCEPT ![p] = l], pc[p] # "done",
         failed \subseteq failed', lost => lost',
         p \in Clicks /\ pc[p] \in After => l \in After,
         NEW k \in Turns, p # k, Quiet(k)'
  PROVE  Quiet(k) /\ (p \in Turns => l # "done") /\ (p \in Clicks => l \notin After)
<1>1. pc'[p] = l /\ \A q \in Procs \ {p} : pc'[q] = pc[q] BY DEF Inv, TypeOK
<1>2. Card(k) BY <1>1 DEF Quiet, Card, Procs
<1>3. failed = {} /\ ~lost BY DEF Quiet
<1>4. \A t \in Turns \ {k} : ~Card(t) BY <1>1 DEF Quiet, Card, Procs
<1>5. \A c \in Clicks : pc[c] \notin After BY <1>1 DEF Quiet, Procs
<1>6. (p \in Turns => l # "done") /\ (p \in Clicks => l \notin After)
  BY <1>1 DEF Quiet, Card
<1> QED BY <1>2, <1>3, <1>4, <1>5, <1>6 DEF Quiet

LEMMA ReadingOffers ==
  ASSUME Inv, Offered, NEW p \in Procs, NEW l, Reading(p, l)
  PROVE  Offered'
<1>1. /\ pc' = [pc EXCEPT ![p] = l] /\ doc' = doc /\ lost' = lost /\ failed \subseteq failed'
      /\ pc[p] # "done" /\ l # "done"
      /\ p \in Clicks /\ pc[p] \in After => l \in After
  BY DEF Reading, Read, Faulty, Goto
<1> SUFFICES ASSUME NEW k \in Turns, Quiet(k)' PROVE doc' # NoDoc /\ doc'.pending = k
  BY DEF Offered
<1>2. p # k BY <1>1 DEF Quiet, Card, Inv, TypeOK
<1>3. Quiet(k) BY <1>1, <1>2, QuietBefore
<1> QED BY <1>1, <1>3 DEF Offered

LEMMA WritingOffers ==
  ASSUME Inv, Offered, NEW p \in Procs, NEW d, NEW l, NEW x, Writing(p, d, l, x)
  PROVE  Offered'
<1>1. /\ pc' = [pc EXCEPT ![p] = l] /\ Write(p, d) /\ d \in Docs /\ pc[p] \in Midway
      /\ pc[p] # "done" /\ (p \in Clicks /\ pc[p] \in After => l \in After)
  BY DEF Writing, Goto, Midway
<1>2. failed \subseteq failed' /\ (lost => lost')
  <2>1. failed \subseteq failed' BY <1>1 DEF Write, Faulty
  <2>2. CASE lost' = (lost \/ p \in stale) BY <2>1, <2>2, Zenon
  <2>3. CASE lost' = lost BY <2>1, <2>3, Zenon
  <2>4. lost' = (lost \/ p \in stale) \/ lost' = lost BY <1>1, Zenon DEF Write
  <2> QED BY <2>2, <2>3, <2>4
<1> SUFFICES ASSUME NEW k \in Turns, Quiet(k)' PROVE doc' # NoDoc /\ doc'.pending = k
  BY DEF Offered
<1>3. failed' = {} /\ ~lost' BY DEF Quiet
<1>4. doc' = d /\ p \notin stale
  BY <1>1, <1>3 DEF Write, Faulty
<1>5. copy[p] = doc
  <2>1. p \notin blind BY <1>2, <1>3 DEF Inv, Calm
  <2> QED BY <1>1, <1>4, <2>1 DEF Inv, Fresh
<1>6. d # NoDoc BY <1>1, NoDocAssumption
<1>7. CASE p = k
  <2>1. l = "done" BY <1>1, <1>7 DEF Quiet, Card, Inv, TypeOK
  <2>2. copy[k] # NoDoc /\ copy[k] \in Docs /\ d = [copy[k] EXCEPT !.pending = k]
    BY <1>7, <2>1 DEF Writing, Inv, TypeOK
  <2>3. d.pending = k BY <2>2, DocsShape
  <2> QED BY <1>4, <1>6, <2>3
<1>8. CASE p # k
  <2>1. Quiet(k) /\ (p \in Turns => l # "done") /\ (p \in Clicks => l \notin After)
    BY <1>1, <1>2, <1>8, QuietBefore
  <2>2. doc # NoDoc /\ doc.pending = k /\ doc \in Docs
    BY <2>1 DEF Offered, Inv, TypeOK
  <2>3. PICK h \in SUBSET Procs : d = Saved(copy[p], h)
    BY <1>5, <2>1, <2>2 DEF Writing
  <2>4. d = [doc EXCEPT !.history = h] BY <1>5, <2>2, <2>3 DEF Saved
  <2>5. d.pending = k BY <2>2, <2>4, DocsShape
  <2> QED BY <1>4, <1>6, <2>5
<1> QED BY <1>7, <1>8

LEMMA OfferedInv ==
  /\ Init => Offered
  /\ Inv /\ Offered /\ [Next]_vars => Offered'
<1>1. Init => Offered BY DEF Init, Offered, Quiet, Card, Procs
<1>2. ASSUME Inv, Offered, Next PROVE Offered'
  <2>1. PICK p \in Procs : (\E l : Reading(p, l)) \/ (\E d, l, x : Writing(p, d, l, x))
    BY <1>2, Steps DEF Inv
  <2> QED BY <1>2, <2>1, ReadingOffers, WritingOffers
<1>3. ASSUME Inv, Offered, UNCHANGED vars PROVE Offered'
  BY <1>3 DEF vars, Offered, Quiet, Card
<1> QED BY <1>1, <1>2, <1>3

\* A request on a quiet approval finds it.
LEMMA RefusedIsDisturbed ==
  ASSUME Inv, Offered, Next, NEW c \in Clicks, NEW k \in Turns,
         pc[c] = "idle", pc'[c] = "rejected", pressed'[c] = k,
         failed' = {}, ~lost, \A t \in Turns \ {k} : pc[t] # "done",
         \A e \in Clicks \ {c} : ~HasCleared(e)
  PROVE  FALSE
<1>1. PICK p \in Procs : (\E l : Reading(p, l)) \/ (\E d, l, x : Writing(p, d, l, x))
  BY Steps DEF Inv
<1>2. c \in Procs BY DEF Procs
<1>3. p = c
  <2>1. PICK l : pc' = [pc EXCEPT ![p] = l] BY <1>1 DEF Reading, Writing, Goto
  <2> QED BY <1>2, <2>1 DEF Inv, TypeOK
<1>4. PICK l : Reading(c, l) BY <1>1, <1>3 DEF Writing, Midway
<1>5. l = "rejected" BY <1>2, <1>4 DEF Reading, Goto, Inv, TypeOK
<1>6. PICK m \in Turns : /\ Card(m) /\ pressed' = [pressed EXCEPT ![c] = m]
                         /\ copy'[c] = NoDoc \/ copy'[c].pending # m
  BY <1>4, <1>5 DEF Reading
<1>7. m = k BY <1>6 DEF Inv, TypeOK
<1>8. copy'[c] = doc /\ failed = {}
  BY <1>2, <1>4 DEF Reading, Read, Faulty, Inv, TypeOK
<1>9. \A e \in Clicks : pc[e] \notin After BY DEF HasCleared, After
<1>10. Quiet(k) BY <1>6, <1>7, <1>8, <1>9 DEF Quiet, Card
<1> QED BY <1>6, <1>7, <1>8, <1>10 DEF Offered
------------------------------------------------------------------------------
(* The theorems.                                                                *)

\* The invariant all the others rest on.
THEOREM Invariant == Spec => [](Inv /\ Closed /\ Offered)
<1>1. Init => Inv /\ Closed /\ Offered BY InitInv, ClosedInv, OfferedInv
<1>2. (Inv /\ Closed /\ Offered) /\ [Next]_vars => (Inv /\ Closed /\ Offered)'
  BY NextInv, ClosedInv, OfferedInv
<1> QED BY <1>1, <1>2, PTL DEF Spec

\* Every variable keeps its type: what is stored is always a whole document.
THEOREM Typing == Spec => []TypeOK
<1>1. Inv /\ Closed /\ Offered => TypeOK BY DEF Inv
<1> QED BY <1>1, Invariant, PTL

\* A call that was neither failed by the store nor overtaken by another instance updates
\* one field of the document.
THEOREM Undisturbed == Spec => UndisturbedIsAtomic
<1> DEFINE Kept == \A p \in Procs \ (stale \cup blind) :
                     pc[p] \in Midway /\ pc'[p] # pc[p] => Abstract!Next \/ UNCHANGED doc
<1>1. ASSUME Inv, [Next]_vars PROVE Kept
  <2> SUFFICES ASSUME NEW p \in Procs \ (stale \cup blind), pc[p] \in Midway, pc'[p] # pc[p]
               PROVE  Abstract!Next \/ UNCHANGED doc
    OBVIOUS
  <2>1. Next BY <1>1 DEF vars
  <2>2. PICK q \in Procs : (\E l : Reading(q, l)) \/ (\E d, l, x : Writing(q, d, l, x))
    BY <1>1, <2>1, Steps DEF Inv
  <2>3. CASE \E l : Reading(q, l) BY <2>3 DEF Reading, Read
  <2>4. ASSUME NEW d, NEW l, NEW x, Writing(q, d, l, x)
        PROVE  Abstract!Next \/ UNCHANGED doc
    <3>1. p = q BY <1>1, <2>4 DEF Writing, Goto, Inv, TypeOK
    <3> QED BY <1>1, <2>4, <3>1, FreshIsAtomic
  <2> QED BY <2>2, <2>3, <2>4
<1>2. (Inv /\ Closed /\ Offered) /\ [Next]_vars => [Kept]_vars BY <1>1
<1> QED BY <1>2, Invariant, PTL DEF Spec, UndisturbedIsAtomic

\* One instance with a working store keeps the promise of SessionDoc, however its turns
\* and approvals overlap.
THEOREM OneInstance == Spec => OneInstanceIsAtomic
<1> DEFINE Kept == Alone => Abstract!Next \/ UNCHANGED doc
<1>1. ASSUME Inv, [Next]_vars, Alone PROVE Abstract!Next \/ UNCHANGED doc
  <2>1. CASE UNCHANGED vars BY <2>1 DEF vars
  <2>2. ASSUME NEW p \in Procs, NEW l, Reading(p, l) PROVE UNCHANGED doc
    BY <2>2 DEF Reading, Read
  <2>3. ASSUME NEW p \in Procs, NEW d, NEW l, NEW x, Writing(p, d, l, x)
        PROVE  Abstract!Next \/ UNCHANGED doc
    <3>1. faults \in Nat BY <1>1, FaultsAssumption DEF Inv, TypeOK
    <3>2. faults = 0 BY <1>1, <2>3, <3>1 DEF Writing, Write, Faulty, Alone
    <3>3. stale = {} /\ blind = {} BY <1>1, <3>2 DEF Inv, Calm, SameHome, Alone
    <3> QED BY <1>1, <2>3, <3>3, FreshIsAtomic
  <2> QED BY <1>1, <2>1, <2>2, <2>3, Steps DEF Inv
<1>2. (Inv /\ Closed /\ Offered) /\ [Next]_vars => [Kept]_vars BY <1>1
<1> QED BY <1>2, Invariant, PTL DEF Spec, OneInstanceIsAtomic

\* With any number of instances and failures, an approval that was used or cancelled works
\* again only if the request on it failed to clear it or an older copy of the document was
\* written over a newer one: an etag and an answer that tells of a failure would exclude both.
THEOREM ReturnsOnly == Spec => ReturnsOnlyIfLost
<1> DEFINE Kept == \A c, d \in Clicks : Retakes(c, d) => d \in failed \/ lost
<1>1. ASSUME Inv, Closed, [Next]_vars PROVE Kept
  <2>1. CASE UNCHANGED vars BY <2>1 DEF vars, Retakes
  <2>2. CASE Next BY <1>1, <2>2, RetakenIsLost
  <2> QED BY <1>1, <2>1, <2>2
<1>2. (Inv /\ Closed /\ Offered) /\ [Next]_vars => [Kept]_vars BY <1>1
<1> QED BY <1>2, Invariant, PTL DEF Spec, ReturnsOnlyIfLost

\* On one instance with a working store no approval is taken up twice: neither cause exists.
THEOREM OneInstanceCloses == Spec => OneInstanceClosesForGood
<1> DEFINE Kept == Alone => \A c, d \in Clicks : ~Retakes(c, d)
<1>1. ASSUME Inv, Closed, [Next]_vars, Alone PROVE \A c, d \in Clicks : ~Retakes(c, d)
  <2>1. CASE UNCHANGED vars BY <2>1 DEF vars, Retakes
  <2>2. CASE Next
    <3>1. faults = 0
      <4>1. faults \in Nat /\ (faults' = faults \/ faults' = faults + 1)
        BY <1>1, <2>2, Steps, FaultsAssumption
           DEF Inv, TypeOK, Reading, Read, Writing, Write, Faulty
      <4> QED BY <1>1, <4>1 DEF Alone
    <3>2. failed = {} /\ lost = FALSE BY <1>1, <3>1 DEF Inv, Calm, SameHome, Alone
    <3> QED BY <1>1, <2>2, <3>2, RetakenIsLost
  <2> QED BY <1>1, <2>1, <2>2
<1>2. (Inv /\ Closed /\ Offered) /\ [Next]_vars => [Kept]_vars BY <1>1
<1> QED BY <1>2, Invariant, PTL DEF Spec, OneInstanceClosesForGood

\* With any number of instances, a card is refused only for a reason: a failure, a lost
\* update, a later proposal, or another request that cleared it.
THEOREM CardsWork == Spec => CardsWorkUnlessLost
<1> DEFINE Kept == \A c \in Clicks, k \in Turns :
                     pc[c] = "idle" /\ pc'[c] = "rejected" /\ pressed'[c] = k =>
                       \/ failed' # {} \/ lost
                       \/ \E t \in Turns \ {k} : pc[t] = "done"
                       \/ \E d \in Clicks \ {c} : HasCleared(d)
<1>1. ASSUME Inv, Offered, [Next]_vars PROVE Kept
  <2>1. CASE UNCHANGED vars BY <2>1 DEF vars
  <2>2. CASE Next BY <1>1, <2>2, RefusedIsDisturbed
  <2> QED BY <1>1, <2>1, <2>2
<1>2. (Inv /\ Closed /\ Offered) /\ [Next]_vars => [Kept]_vars BY <1>1
<1> QED BY <1>2, Invariant, PTL DEF Spec, CardsWorkUnlessLost

\* As long as one instance serves the conversation and no store call fails, the store is
\* the document of SessionDoc.
THEOREM ImplementsDoc == Spec /\ [][Alone]_vars => Abstract!Spec
<1>1. Init => doc = NoDoc BY DEF Init
<1>2. [Alone => Abstract!Next \/ UNCHANGED doc]_vars /\ [Alone]_vars => [Abstract!Next]_doc
  BY DEF vars
<1> QED BY <1>1, <1>2, OneInstance, PTL DEF Spec, OneInstanceIsAtomic, Abstract!Spec
==============================================================================
