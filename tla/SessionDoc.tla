----------------------------- MODULE SessionDoc ------------------------------
(* The session document as the handlers of Approvals use it: each call of the   *)
(* session service is one atomic update of one field. SessionStore shows when   *)
(* the store keeps that promise.                                                *)
CONSTANTS Entries, Tokens, NoPending, NoDoc

VARIABLE doc

Empty == [history |-> {}, pending |-> NoPending]

\* get_or_create.
Create == doc = NoDoc /\ doc' = Empty

\* save: only the transcript changes.
Save(h) ==
  doc' = IF doc = NoDoc THEN [Empty EXCEPT !.history = h] ELSE [doc EXCEPT !.history = h]

\* set_pending, clear_pending: only the pending record does.
SetPending(k) == doc # NoDoc /\ doc' = [doc EXCEPT !.pending = k]

Next ==
  \/ Create
  \/ \E h \in SUBSET Entries : Save(h)
  \/ \E k \in Tokens \cup {NoPending} : SetPending(k)

Spec == doc = NoDoc /\ [][Next]_doc
==============================================================================
