----------------------------- MODULE MCAccounts -----------------------------
(* Instances of the accounts for TLC.                                      *)
EXTENDS Accounts, TLC

CONSTANTS root, guest, q1, q2, i1, i2, s1, s2

Symmetry ==
  Permutations(Request) \cup Permutations(Session) \cup Permutations(Invitation)
=============================================================================
