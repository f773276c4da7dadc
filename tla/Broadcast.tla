------------------------------- MODULE Broadcast -------------------------------
(***************************************************************************)
(* What a bulk batch promises: its messages go out in their order, each of *)
(* them once, until the batch is closed - at its end, by a cancel, by an   *)
(* error or with the process.  After that no message is begun, and the one *)
(* begun before, at most, still goes out.                                  *)
(***************************************************************************)
EXTENDS Integers

CONSTANT Total  \* messages.length

VARIABLES
  handed,  \* how often each message went out
  begun,   \* the next message has been begun and may still go out
  closed   \* no further message is begun

vars == <<handed, begun, closed>>

Index == 0..Total - 1

Init ==
  /\ handed = [i \in Index |-> 0]
  /\ begun = FALSE
  /\ closed = FALSE

\* It is the turn of message i.
Due(i) == \A j \in Index : handed[j] = IF j < i THEN 1 ELSE 0

Begin(i) ==
  /\ ~closed
  /\ ~begun
  /\ Due(i)
  /\ begun' = TRUE
  /\ UNCHANGED <<handed, closed>>

Hand(i) ==
  /\ begun \/ ~closed
  /\ Due(i)
  /\ handed' = [handed EXCEPT ![i] = 1]
  /\ begun' = FALSE
  /\ UNCHANGED closed

\* A message begun may be given up with the process.
Close ==
  /\ closed' = TRUE
  /\ begun' \in {begun, FALSE}
  /\ UNCHANGED handed

Next == (\E i \in Index : Begin(i) \/ Hand(i)) \/ Close

Spec == Init /\ [][Next]_vars
=============================================================================
