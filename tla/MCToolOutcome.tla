---------------------------- MODULE MCToolOutcome ----------------------------
(* ToolOutcome for TLC. Users are interchangeable.                             *)
EXTENDS ToolOutcome, TLC

Symmetry == Permutations(Users)
==============================================================================
