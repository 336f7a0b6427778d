---------------------------- MODULE MCSessionStore ---------------------------
(* SessionStore for TLC. Turns, requests and instances are interchangeable.    *)
EXTENDS SessionStore, TLC

Symmetry == Permutations(Turns) \cup Permutations(Clicks) \cup Permutations(Instances)
==============================================================================
