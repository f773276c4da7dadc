------------------------------ MODULE MCBroadcast ------------------------------
(* BroadcastQueue on two numbers that are alike, with two runs at a time. *)
EXTENDS BroadcastQueue

CONSTANTS n1, n2, r1, r2
=============================================================================
