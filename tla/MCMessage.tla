------------------------------- MODULE MCMessage -------------------------------
(* MessageRecord with a sender, a receiver and one reaction at a time.         *)
EXTENDS MessageRecord

CONSTANTS s1, s2, x1, ann, bob
=============================================================================
