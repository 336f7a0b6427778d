----------------------------- MODULE MCApprovals -----------------------------
(* Approvals for TLC.                                                          *)
EXTENDS Approvals, TLC

\* Messages, requests and tokens are interchangeable: no
\* property names one. Used by the runs that check no liveness.
Symmetry == Permutations(Turns) \cup Permutations(Clicks) \cup Permutations(Tokens)
==============================================================================
