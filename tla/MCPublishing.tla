---------------------------- MODULE MCPublishing ----------------------------
(* Instances of one announcement for TLC.                                  *)
EXTENDS Publishing, TLC

CONSTANTS news, events, staff, q1, q2

Symmetry == Permutations(Request) \cup Permutations(Category)
=============================================================================
