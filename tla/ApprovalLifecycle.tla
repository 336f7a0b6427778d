-------------------------- MODULE ApprovalLifecycle --------------------------
(* What the approval of a change promises, without sessions, turns, cards or   *)
(* clocks: an approval opens once, at most one is open in a session, it closes *)
(* once and for good, requests start its change only while it is open, and     *)
(* answering such a request leaves it closed. Approvals implements this.       *)
(*                                                                             *)
(* The promise is deliberately not "at most one request runs an approval":     *)
(* the code closes an approval after its change ran, so a second request may   *)
(* start meanwhile (Approvals!SingleUse).                                      *)
CONSTANTS Tokens, Clicks, NoToken

VARIABLES
  stage,    \* of each approval: "unopened", "open" or "closed"
  state,    \* of each request: "none", "running", "answered" or "lost"
  on        \* the approval each request runs

vars == <<stage, state, on>>

Init ==
  /\ stage = [k \in Tokens |-> "unopened"]
  /\ state = [c \in Clicks |-> "none"]
  /\ on = [c \in Clicks |-> NoToken]

\* All open approvals are closed.
Closed == [k \in Tokens |-> IF stage[k] = "open" THEN "closed" ELSE stage[k]]

\* An approval opens and closes the one it replaces.
Open(k) ==
  /\ stage[k] = "unopened"
  /\ stage' = [Closed EXCEPT ![k] = "open"]
  /\ UNCHANGED <<state, on>>

\* The technician cancels, or the store is lost.
Close == stage' = Closed /\ UNCHANGED <<state, on>>

\* A request starts the change.
Begin(c, k) ==
  /\ stage[k] = "open"
  /\ state[c] = "none"
  /\ state' = [state EXCEPT ![c] = "running"]
  /\ on' = [on EXCEPT ![c] = k]
  /\ UNCHANGED stage

\* It is answered.
End(c) ==
  /\ state[c] = "running"
  /\ state' = [state EXCEPT ![c] = "answered"]
  /\ stage' = Closed
  /\ UNCHANGED on

\* The process dies: requests are lost, and the approvals too unless stored durably;
\* what it was doing to an approval may have been done.
Die ==
  /\ state' = [c \in Clicks |-> IF state[c] = "running" THEN "lost" ELSE state[c]]
  /\ \/ stage' \in {stage, Closed}
     \/ \E k \in Tokens : stage[k] = "unopened" /\ stage' = [Closed EXCEPT ![k] = "open"]
  /\ UNCHANGED on

Next ==
  \/ \E k \in Tokens : Open(k)
  \/ \E c \in Clicks, k \in Tokens : Begin(c, k)
  \/ \E c \in Clicks : End(c)
  \/ Close
  \/ Die

Spec == Init /\ [][Next]_vars
==============================================================================
