---------------------------- MODULE SessionStore -----------------------------
(* The session document of one conversation in Cosmos, used by several          *)
(* application instances. Every call of SessionService reads the document,      *)
(* changes its copy and upserts the whole of it, without an etag. On one        *)
(* instance the synchronous SDK blocks the event loop from the read to the      *)
(* write; between instances nothing does. A failed read looks like an absent    *)
(* document, a failed write is logged and forgotten.                            *)
(*                                                                              *)
(* A turn is get_or_create, the LLM loop, save, and set_pending if it proposed  *)
(* a write; an approval is get_pending, the run, clear_pending, get_or_create   *)
(* and save. A transcript is the set of the turns and approvals it tells of;    *)
(* the token of an approval is the turn that proposed it.                       *)
EXTENDS Naturals

CONSTANTS
  Turns, Clicks,
  Instances,
  MaxFaults,    \* bound: failed reads and writes
  NoPending, NoDoc

Procs == Turns \cup Clicks

ASSUME ProcsAssumption == Turns \cap Clicks = {} /\ NoPending \notin Turns
ASSUME FaultsAssumption == MaxFaults \in Nat

Docs == [history : SUBSET Procs, pending : Turns \cup {NoPending}]
ASSUME NoDocAssumption == NoDoc \notin Docs

VARIABLES
  doc,      \* the stored document
  home,     \* the instance that serves each turn and each approval request
  pc,       \* where each of them stands
  copy,     \* the document as its last read returned it
  seen,     \* the transcript it will save, without its own entry
  pressed,  \* the token of an approval request
  faults,   \* failed reads and writes so far
  blind,    \* ghost: those whose copy a failed read or write has put wrong
  stale,    \* ghost: those whose copy is older than somebody else's last write
  failed,   \* ghost: those who have had a failed read or write
  lost      \* ghost: somebody has written a stale copy over a newer document

vars == <<doc, home, pc, copy, seen, pressed, faults, blind, stale, failed, lost>>

Abstract == INSTANCE SessionDoc WITH Entries <- Procs, Tokens <- Turns

Empty == Abstract!Empty

\* Between the read and the write of a call.
Midway == {"create", "saving", "storing", "restoring", "clearing", "dropping", "closing",
           "recreating", "recording"}

\* Where the handler has not reached its next suspension point.
Busy == Midway \cup {"cleared", "loaded"}

TypeOK ==
  /\ doc \in Docs \cup {NoDoc}
  /\ home \in [Procs -> Instances]
  /\ pc \in [Procs -> Busy \cup {"idle", "chatting", "saved", "executing", "done", "rejected",
                                 "cancelled", "failed"}]
  /\ copy \in [Procs -> Docs \cup {NoDoc}]
  /\ seen \in [Procs -> SUBSET Procs]
  /\ pressed \in [Clicks -> Turns \cup {NoPending}]
  /\ faults \in 0 .. MaxFaults
  /\ blind \in SUBSET Procs /\ stale \in SUBSET Procs
  /\ failed \in SUBSET Procs /\ lost \in BOOLEAN

Init ==
  /\ doc = NoDoc
  /\ home \in [Procs -> Instances]
  /\ pc = [p \in Procs |-> "idle"]
  /\ copy = [p \in Procs |-> NoDoc]
  /\ seen = [p \in Procs |-> {}]
  /\ pressed = [c \in Clicks |-> NoPending]
  /\ faults = 0 /\ blind = {} /\ stale = {} /\ failed = {} /\ lost = FALSE
------------------------------------------------------------------------------
(* The two halves of a call.                                                    *)

\* Mutant: an asynchronous client, which lets other handlers in between.
Free_Async(p) == TRUE

\* p's instance is not inside a call of another handler.
Free(p) == \A q \in Procs \ {p} : home[q] = home[p] => pc[q] \notin Busy

\* p's read or write fails.
Faulty(p) ==
  /\ faults < MaxFaults
  /\ faults' = faults + 1
  /\ blind' = blind \cup {p}
  /\ failed' = failed \cup {p}

\* get: the document, None if there is none, and None if the read fails.
Read(p) ==
  /\ Free(p)
  /\ \/ /\ copy' = [copy EXCEPT ![p] = doc]
        /\ blind' = blind \ {p}
        /\ UNCHANGED <<faults, failed>>
     \/ /\ Faulty(p)
        /\ copy' = [copy EXCEPT ![p] = NoDoc]
  /\ stale' = stale \ {p}
  /\ UNCHANGED <<doc, home, lost>>

\* _write: an upsert of the whole document, or a failure nobody hears of.
Write(p, d) ==
  /\ Free(p)
  /\ \/ /\ doc' = d
        /\ stale' = (stale \cup {q \in Procs : pc[q] \in Midway}) \ {p}
        /\ blind' = blind \ {p}
        /\ lost' = (lost \/ p \in stale)
        /\ UNCHANGED <<faults, failed>>
     \/ /\ Faulty(p)
        /\ UNCHANGED <<doc, stale, lost>>
  /\ UNCHANGED home

Goto(p, l) == pc' = [pc EXCEPT ![p] = l]

\* Mutant: save builds a new document also where there is one.
Saved_New(d, h) == [Empty EXCEPT !.history = h]

\* save: the transcript of the document, or of a new one, is replaced.
Saved(d, h) == IF d = NoDoc THEN [Empty EXCEPT !.history = h] ELSE [d EXCEPT !.history = h]

\* Mutants: clear_pending pops the wrong key; it pops nothing.
Cleared_WrongKey(d) == [pending |-> d.pending]
Cleared_Nothing(d) == d

\* clear_pending: the pending record is popped.
Cleared(d) == [d EXCEPT !.pending = NoPending]

\* The call is over, and its copy with it.
Leave(p, l) == copy' = [copy EXCEPT ![p] = NoDoc] /\ Goto(p, l)

\* The first read of get_or_create: go on to l, or create the document at m first.
OpenAt(p, l, m) ==
  /\ Read(p)
  /\ Goto(p, IF copy'[p] = NoDoc THEN m ELSE l)
  /\ seen' = [seen EXCEPT ![p] = IF copy'[p] = NoDoc THEN {} ELSE copy'[p].history]
  /\ UNCHANGED pressed

\* Its write, of an empty document.
CreateAt(p, m, l) ==
  /\ pc[p] = m
  /\ Write(p, Empty)
  /\ copy' = [copy EXCEPT ![p] = Empty]
  /\ Goto(p, l)
  /\ UNCHANGED <<seen, pressed>>
------------------------------------------------------------------------------
(* A chat turn.                                                                 *)

Load(t) == pc[t] = "idle" /\ OpenAt(t, "chatting", "create")

\* The LLM loop is over: save.
BeginSave(t) ==
  /\ pc[t] = "chatting"
  /\ Read(t)
  /\ Goto(t, "saving")
  /\ UNCHANGED <<seen, pressed>>

Save(t) ==
  /\ pc[t] = "saving"
  /\ Write(t, Saved(copy[t], seen[t] \cup {t}))
  /\ Leave(t, "saved")
  /\ seen' = [seen EXCEPT ![t] = {}]
  /\ UNCHANGED pressed

\* The turn proposed a write: set_pending, which is get_or_create and a write.
BeginStore(t) == pc[t] = "saved" /\ OpenAt(t, "storing", "restoring")

Store(t) ==
  /\ pc[t] = "storing"
  /\ Write(t, [copy[t] EXCEPT !.pending = t])
  /\ Leave(t, "done")
  /\ UNCHANGED <<seen, pressed>>

TurnStep(t) ==
  \/ Load(t) \/ CreateAt(t, "create", "chatting")
  \/ BeginSave(t) \/ Save(t)
  \/ BeginStore(t) \/ CreateAt(t, "restoring", "storing") \/ Store(t)
------------------------------------------------------------------------------
(* An approval request on the card of turn k.                                   *)

Card(k) == pc[k] = "done"

\* get_pending and the check of the token. (Expiry only turns more requests away.)
Approve(c, k) ==
  /\ pc[c] = "idle" /\ Card(k)
  /\ Read(c)
  /\ pressed' = [pressed EXCEPT ![c] = k]
  /\ Goto(c, IF copy'[c] # NoDoc /\ copy'[c].pending = k THEN "executing" ELSE "rejected")
  /\ UNCHANGED seen

\* clear_pending reads; it writes only if there is a record. Afterwards at l.
ClearAt(p, m, l) ==
  /\ Read(p)
  /\ Goto(p, IF copy'[p] # NoDoc /\ copy'[p].pending # NoPending THEN m ELSE l)
  /\ UNCHANGED seen

ClearWrite(p, m, l) ==
  /\ pc[p] = m
  /\ Write(p, Cleared(copy[p]))
  /\ Leave(p, l)
  /\ UNCHANGED <<seen, pressed>>

Cancel(c, k) ==
  /\ pc[c] = "idle" /\ Card(k)
  /\ pressed' = [pressed EXCEPT ![c] = k]
  /\ ClearAt(c, "dropping", "cancelled")

\* The run is over, with a result or by an exception.
Ran(c) == pc[c] = "executing" /\ ClearAt(c, "clearing", "cleared") /\ UNCHANGED pressed

RunFailed(c) == pc[c] = "executing" /\ ClearAt(c, "closing", "failed") /\ UNCHANGED pressed

\* The outcome is recorded: get_or_create, then save.
Reload(c) == pc[c] = "cleared" /\ OpenAt(c, "loaded", "recreating")

BeginRecord(c) ==
  /\ pc[c] = "loaded"
  /\ Read(c)
  /\ Goto(c, "recording")
  /\ UNCHANGED <<seen, pressed>>

Record(c) ==
  /\ pc[c] = "recording"
  /\ Write(c, Saved(copy[c], seen[c] \cup {c}))
  /\ Leave(c, "done")
  /\ seen' = [seen EXCEPT ![c] = {}]
  /\ UNCHANGED pressed

ClickStep(c) ==
  \/ \E k \in Turns : Approve(c, k) \/ Cancel(c, k)
  \/ Ran(c) \/ RunFailed(c)
  \/ ClearWrite(c, "clearing", "cleared")
  \/ ClearWrite(c, "closing", "failed") \/ ClearWrite(c, "dropping", "cancelled")
  \/ Reload(c) \/ CreateAt(c, "recreating", "loaded")
  \/ BeginRecord(c) \/ Record(c)

Next == (\E t \in Turns : TurnStep(t)) \/ (\E c \in Clicks : ClickStep(c))

Spec == Init /\ [][Next]_vars
------------------------------------------------------------------------------
(* What the store promises.                                                     *)

\* One instance serves the conversation, and the store has not failed.
Alone == faults' = 0 /\ \A p, q \in Procs : home[p] = home[q]

\* One instance with a working store updates the document as Approvals assumes: one
\* field at a time, atomically, whatever turns and approvals overlap. The synchronous
\* SDK is what makes it so.
OneInstanceIsAtomic == [][Alone => Abstract!Next \/ UNCHANGED doc]_vars

\* Also with several instances and failures, a call whose own read and write worked
\* and that nobody else's write came between changes one field only: save never drops
\* an approval, set_pending and clear_pending never touch the transcript.
UndisturbedIsAtomic ==
  [][\A p \in Procs \ (stale \cup blind) :
       pc[p] \in Midway /\ pc'[p] # pc[p] => Abstract!Next \/ UNCHANGED doc]_vars

\* c takes up an approval that d's request has used or cancelled before.
Retakes(c, d) ==
  /\ pc[c] = "idle" /\ pc'[c] = "executing"
  /\ pc[d] \in {"done", "failed", "cancelled"}
  /\ pressed[d] = pressed'[c]

\* On one instance with a working store, nobody does.
OneInstanceClosesForGood == [][Alone => \A c, d \in Clicks : ~Retakes(c, d)]_vars

\* With any number of instances and failures there are two causes only: d's own request
\* could not read or write the document, or a copy was written over a newer document.
\* No other failed call, and no empty document created after one, brings an approval back.
ReturnsOnlyIfLost ==
  [][\A c, d \in Clicks : Retakes(c, d) => d \in failed \/ lost]_vars

\* p has cleared the record of an approval, or found none.
HasCleared(p) == pc[p] \in {"cleared", "recreating", "loaded", "recording", "done", "failed",
                           "cancelled"}

\* A card is refused, because its record was never written or is gone, for four reasons
\* only: a read or a write failed, a copy was written over a newer document, another turn
\* has stored its own proposal, or another request has cleared the record. No other save
\* and no empty document of get_or_create makes a card useless.
CardsWorkUnlessLost ==
  [][\A c \in Clicks, k \in Turns :
       pc[c] = "idle" /\ pc'[c] = "rejected" /\ pressed'[c] = k =>
         \/ failed' # {} \/ lost
         \/ \E t \in Turns \ {k} : pc[t] = "done"
         \/ \E d \in Clicks \ {c} : HasCleared(d)]_vars

\* docs/ARCHITECTURE.md has sessions "scale across instances", and confirmations.py
\* answers a second use with "was already used": no approval is taken up again.
ClosesForGood == [][\A c, d \in Clicks : ~Retakes(c, d)]_vars
==============================================================================
