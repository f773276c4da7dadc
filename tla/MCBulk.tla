-------------------------------- MODULE MCBulk --------------------------------
(* BulkBatch with three messages and two cancel requests at a time.           *)
EXTENDS BulkBatch, TLC

CONSTANTS c1, c2
=============================================================================
