------------------------------ MODULE MCDelivery ------------------------------
(* Instances of the delivery pipeline for TLC.                             *)
EXTENDS AnnouncementDelivery, TLC

CONSTANTS u1, p1, p2, w1, w2, h1, h2

\* Handlers are interchangeable; only for runs without liveness.
Symmetry == Permutations(Handler)
=============================================================================
