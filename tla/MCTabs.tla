-------------------------------- MODULE MCTabs --------------------------------
(* Instances of the tabs of one user for TLC.                              *)
EXTENDS TabConnection, TLC

\* Tabs and sockets are interchangeable; only for runs without liveness.
Symmetry == Permutations(Tab) \cup Permutations(Socket)
=============================================================================
