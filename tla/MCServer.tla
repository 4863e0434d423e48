------------------------------ MODULE MCServer ------------------------------
(* Instances of one WebSocket object for TLC.                              *)
EXTENDS WebSocketServer, TLC

CONSTANTS s1, s2, s3, s4, alice, link1, approvals

Symmetry == Permutations(Socket)
=============================================================================
