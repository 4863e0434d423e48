--------------------------- MODULE MCSubscriptions ---------------------------
(* Instances of the subscriptions of one user for TLC.                     *)
EXTENDS Subscriptions, TLC

CONSTANTS q1, q2, l1, l2, l3, l4

Symmetry == Permutations(Request) \cup Permutations(Link)
=============================================================================
