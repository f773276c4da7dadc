-------------------------------- MODULE MCAccess --------------------------------
(* EventGateway with one key, a client, a socket and an administrator. *)
EXTENDS EventGateway

CONSTANTS k1, q1, a1, s1, x1
=============================================================================
