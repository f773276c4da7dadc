------------------------------- MODULE BulkBatch -------------------------------
(***************************************************************************)
(* One bulk batch of BulkMessageService: its row in message_batches, the   *)
(* run of processBatch that sends its messages, the cancellation flag the  *)
(* two share in the `processingBatches` map, and the cancelBatch requests. *)
(* batchId is a unique column, so a batch is created once; batches share   *)
(* nothing else.                                                           *)
(*                                                                         *)
(* processBatch keeps the entity it has read and saves all of it; so does  *)
(* cancelBatch with its own.  A step is the code between two awaits, with  *)
(* the save that was awaited taking effect at its start.                   *)
(***************************************************************************)
EXTENDS Integers

CONSTANTS
  Total,     \* messages.length
  Cancels,   \* cancelBatch requests in flight at one time
  NoEntity   \* no row, or nothing read

VARIABLES
  row,      \* the row in message_batches
  flag,     \* processingBatches.get(id)
  pc,       \* what processBatch awaits
  batch,    \* the entity processBatch works on
  cancel,   \* the entity each cancelBatch has read and is saving
  handed,   \* how often each message was handed to the engine
  found     \* whether cancels came before or after processBatch read the row

vars == <<row, flag, pc, batch, cancel, handed, found>>

BatchStatus == {"pending", "processing", "completed", "cancelled", "failed"}
Index == 0..Total - 1
Entity == [status : BatchStatus, sent : Int, failed : Int, pending : Int,
           cancelled : Int, currentIndex : 0..Total, stopOnError : BOOLEAN]

ASSUME BatchAssumption ==
  /\ Total \in Nat \ {0}
  /\ NoEntity \notin Entity

-----------------------------------------------------------------------------
TypeOK ==
  /\ row \in Entity \cup {NoEntity}
  /\ flag \in {"unset", "active", "cancelled"}
  /\ pc \in {"idle", "find", "start", "abort", "typing", "send", "save", "sleep", "final"}
  /\ batch \in Entity \cup {NoEntity}
  /\ cancel \in [Cancels -> Entity \cup {NoEntity}]
  /\ handed \in [Index -> Nat]
  /\ found \subseteq {"unread", "read"}

Init ==
  /\ row = NoEntity
  /\ flag = "unset"
  /\ pc = "idle"
  /\ batch = NoEntity
  /\ cancel = [c \in Cancels |-> NoEntity]
  /\ handed = [i \in Index |-> 0]
  /\ found = {}

-----------------------------------------------------------------------------
\* createBatch: the row is saved and processBatch started.
Create(stopOnError) ==
  /\ row = NoEntity
  /\ row' = [status |-> "pending", sent |-> 0, failed |-> 0, pending |-> Total,
             cancelled |-> 0, currentIndex |-> 0, stopOnError |-> stopOnError]
  /\ pc' = "find"
  /\ UNCHANGED <<flag, batch, cancel, handed, found>>

-----------------------------------------------------------------------------
(* processBatch                                                            *)

\* findOne; the batch is marked active and PROCESSING, whatever its status.
Find ==
  /\ pc = "find"
  /\ flag' = "active"
  /\ batch' = [row EXCEPT !.status = "processing"]
  /\ pc' = "start"
  /\ UNCHANGED <<row, cancel, handed, found>>

\* Mutant: the final status is computed for a cancelled batch as well.
FinalStatusAlways(b) ==
  IF b.failed > 0 /\ b.sent = 0 THEN "failed" ELSE "completed"

\* A cancelled batch keeps the status its entity has.
FinalStatus(b) ==
  IF flag # "active" THEN b.status
  ELSE IF b.failed > 0 /\ b.sent = 0 THEN "failed" ELSE "completed"

Finish(b) ==
  /\ pc' = "final"
  /\ batch' = [b EXCEPT !.status = FinalStatus(b)]
  /\ UNCHANGED handed

HandOver(b) ==
  /\ pc' = "send"
  /\ handed' = [handed EXCEPT ![b.currentIndex] = @ + 1]

\* sendMessage: typing is simulated before a text message is handed over, unless
\* that is switched off; any other message is handed over at once.
SendMessage(b) ==
  /\ batch' = b
  /\ \/ HandOver(b)
     \/ pc' = "typing" /\ UNCHANGED handed

\* Mutant: the head of the loop does not look for a cancel.
LoopUnchecked(b) ==
  IF b.currentIndex < Total THEN SendMessage(b) ELSE Finish(b)

\* The head of the loop: the next message, unless the batch was cancelled.
Loop(b) ==
  IF b.currentIndex < Total /\ flag = "active" THEN SendMessage(b) ELSE Finish(b)

\* The simulated typing is over; nothing looks for a cancel again.
Typed ==
  /\ pc = "typing"
  /\ HandOver(batch)
  /\ UNCHANGED <<row, flag, batch, cancel, found>>

\* Mutant: the batch is marked active once PROCESSING is saved.
StartThenActivate(connected) ==
  /\ pc = "start"
  /\ connected
  /\ row' = batch
  /\ flag' = "active"
  /\ SendMessage(batch)
  /\ UNCHANGED <<cancel, found>>

\* PROCESSING is saved.  A session whose engine is gone fails the batch.
Start(connected) ==
  /\ pc = "start"
  /\ row' = batch
  /\ IF connected THEN Loop(batch)
     ELSE pc' = "abort" /\ batch' = [batch EXCEPT !.status = "failed"] /\ UNCHANGED handed
  /\ UNCHANGED <<flag, cancel, found>>

\* The flag stays set.
Aborted ==
  /\ pc = "abort"
  /\ row' = batch
  /\ pc' = "idle"
  /\ batch' = NoEntity
  /\ UNCHANGED <<flag, cancel, handed, found>>

\* Mutant: a failed message stays among the pending ones.
CountedKeepsPending(ok) ==
  IF ok THEN [batch EXCEPT !.sent = @ + 1, !.pending = @ - 1]
  ELSE [batch EXCEPT !.failed = @ + 1]

Counted(ok) ==
  IF ok THEN [batch EXCEPT !.sent = @ + 1, !.pending = @ - 1]
  ELSE [batch EXCEPT !.failed = @ + 1, !.pending = @ - 1]

\* Progress is saved after every tenth message and the last one.
SavesAfter(i) == i % 10 = 0 \/ i = Total - 1

\* The delay is skipped after the last message and after a cancel.
Pause(b) ==
  IF b.currentIndex < Total /\ flag = "active"
    THEN pc' = "sleep" /\ batch' = b /\ UNCHANGED handed
    ELSE Loop(b)

\* Mutant: stopOnError marks the batch FAILED and goes on.
AnswerWithoutBreak(ok) ==
  /\ pc = "send"
  /\ LET b == [Counted(ok) EXCEPT !.currentIndex = @ + 1]
     IN  IF SavesAfter(batch.currentIndex)
           THEN pc' = "save" /\ batch' = b /\ UNCHANGED handed
           ELSE Pause(b)
  /\ UNCHANGED <<row, flag, cancel, found>>

\* The engine has sent the message, or thrown.
Answer(ok) ==
  /\ pc = "send"
  /\ IF ~ok /\ batch.stopOnError
       THEN Finish([Counted(ok) EXCEPT !.status = "failed"])
       ELSE LET b == [Counted(ok) EXCEPT !.currentIndex = @ + 1]
            IN  IF SavesAfter(batch.currentIndex)
                  THEN pc' = "save" /\ batch' = b /\ UNCHANGED handed
                  ELSE Pause(b)
  /\ UNCHANGED <<row, flag, cancel, found>>

Saved ==
  /\ pc = "save"
  /\ row' = batch
  /\ Pause(batch)
  /\ UNCHANGED <<flag, cancel, found>>

\* Mutant: a cancelled batch never leaves its delay.
WakesIfActive ==
  /\ pc = "sleep"
  /\ flag = "active"
  /\ Loop(batch)
  /\ UNCHANGED <<row, flag, cancel, found>>

Wakes ==
  /\ pc = "sleep"
  /\ Loop(batch)
  /\ UNCHANGED <<row, flag, cancel, found>>

Finished ==
  /\ pc = "final"
  /\ row' = batch
  /\ flag' = "unset"
  /\ pc' = "idle"
  /\ batch' = NoEntity
  /\ UNCHANGED <<cancel, handed, found>>

\* A query throws: createBatch logs what processBatch is rejected with.
DatabaseFails ==
  /\ pc \in {"find", "start", "abort", "save", "final"}
  /\ pc' = "idle"
  /\ batch' = NoEntity
  /\ UNCHANGED <<row, flag, cancel, handed, found>>

-----------------------------------------------------------------------------
(* cancelBatch                                                             *)

Cancel(c) ==
  /\ cancel[c] = NoEntity
  /\ row # NoEntity
  /\ row.status \notin {"completed", "cancelled"}
  /\ cancel' = [cancel EXCEPT ![c] = row]
  /\ flag' = "cancelled"
  /\ found' = found \cup {IF pc = "find" THEN "unread" ELSE "read"}
  /\ UNCHANGED <<row, pc, batch, handed>>

\* Mutant: the messages cancelled are still counted as pending.
CancelledKeepsPending(b) ==
  [b EXCEPT !.status = "cancelled", !.cancelled = b.pending]

Cancelled(b) ==
  [b EXCEPT !.status = "cancelled", !.cancelled = b.pending, !.pending = 0]

CancelSaved(c) ==
  /\ cancel[c] # NoEntity
  /\ row' = Cancelled(cancel[c])
  /\ cancel' = [cancel EXCEPT ![c] = NoEntity]
  /\ UNCHANGED <<flag, pc, batch, handed, found>>

\* The save throws: the request fails, the flag stays.
CancelFails(c) ==
  /\ cancel[c] # NoEntity
  /\ cancel' = [cancel EXCEPT ![c] = NoEntity]
  /\ UNCHANGED <<row, flag, pc, batch, handed, found>>

-----------------------------------------------------------------------------
\* Mutant: the interrupted batch is resumed where its row says.
RestartResumes ==
  /\ pc' = IF row # NoEntity /\ row.status = "processing" THEN "find" ELSE "idle"
  /\ batch' = NoEntity
  /\ flag' = "unset"
  /\ cancel' = [c \in Cancels |-> NoEntity]
  /\ UNCHANGED <<row, handed, found>>

\* Mutant: the gateway starts without looking at the batches.
RestartOnly ==
  /\ pc' = "idle"
  /\ batch' = NoEntity
  /\ flag' = "unset"
  /\ cancel' = [c \in Cancels |-> NoEntity]
  /\ UNCHANGED <<row, handed, found>>

\* Mutant: the batch gets a status that the entity does not know.
RestartInterrupts ==
  /\ row' = IF row # NoEntity /\ row.status = "processing"
              THEN [row EXCEPT !.status = "interrupted"] ELSE row
  /\ pc' = "idle"
  /\ batch' = NoEntity
  /\ flag' = "unset"
  /\ cancel' = [c \in Cancels |-> NoEntity]
  /\ UNCHANGED <<handed, found>>

\* The process dies at any time; onApplicationBootstrap.
Restart ==
  /\ row' = IF row # NoEntity /\ row.status = "processing"
              THEN [row EXCEPT !.status = "failed"] ELSE row
  /\ pc' = "idle"
  /\ batch' = NoEntity
  /\ flag' = "unset"
  /\ cancel' = [c \in Cancels |-> NoEntity]
  /\ UNCHANGED <<handed, found>>

ProcessStep ==
  \/ Find
  \/ \E connected \in BOOLEAN : Start(connected)
  \/ Aborted
  \/ Typed
  \/ \E ok \in BOOLEAN : Answer(ok)
  \/ Saved
  \/ Wakes
  \/ Finished
  \/ DatabaseFails

Next ==
  \/ \E stopOnError \in BOOLEAN : Create(stopOnError)
  \/ ProcessStep
  \/ \E c \in Cancels : Cancel(c) \/ CancelSaved(c) \/ CancelFails(c)
  \/ Restart

\* The engine answers or throws, delays and typing elapse and saves return.
Fairness == WF_vars(ProcessStep) /\ \A c \in Cancels : WF_vars(CancelSaved(c) \/ CancelFails(c))

Spec == Init /\ [][Next]_vars
FairSpec == Spec /\ Fairness

-----------------------------------------------------------------------------
(* What the service promises.                                              *)

\* The progress of the row accounts for every message, whichever of the two
\* stale entities was saved last, and never counts one that the engine was not
\* handed.  (A cancel accepted before processBatch has read the row is undone by it,
\* and a second one then cancels the same messages again.)
Accounting ==
  row # NoEntity =>
    /\ "unread" \notin found =>
         row.sent + row.failed + row.pending + row.cancelled = Total
    /\ \A i \in Index : handed[i] = 0 => row.sent + row.failed <= i

\* onApplicationBootstrap's comment: no message is sent twice, after a restart
\* either.
AtMostOnce == \A i \in Index : handed[i] <= 1

\* onApplicationBootstrap's comment: a row is PROCESSING only while this process
\* drives the batch.  Only a cancel, or a query that threw, can leave it behind.
Driven ==
  row # NoEntity /\ row.status = "processing" =>
    pc # "idle" \/ found # {} \/ flag # "unset"

\* COMPLETED: every message was handed to the engine, in spite of cancels, unless
\* stopOnError ended the batch.
CompletedMeansAll ==
  row # NoEntity /\ row.status = "completed" /\ ~row.stopOnError =>
    \A i \in Index : handed[i] = 1

\* Cancel a running batch: once a cancel has come, no message is begun any more and
\* none goes out but the one whose typing was being simulated, unless the cancel came
\* before processBatch had read the row.
CancelStops ==
  []["read" \in found =>
       /\ handed' # handed => pc = "typing"
       /\ pc' = "typing" => pc = "typing"]_vars

\* stopOnError: nothing goes out after the first error.
StopsOnError ==
  [][batch # NoEntity /\ batch.stopOnError /\ batch.failed > 0 => handed' = handed]_vars

\* A cancel holds: a batch that was reported cancelled stays cancelled.
CancelHolds ==
  [][row # NoEntity /\ row.status = "cancelled" => row'.status = "cancelled"]_vars

\* All of it together: the batch is a Broadcast that is closed once its run has
\* left the loop, once a cancel has come, and for good when the process has died;
\* the message whose typing is simulated is begun.
Closed ==
  \/ "read" \in found
  \/ row # NoEntity /\ pc \in {"abort", "final", "idle"}

Abstract == INSTANCE Broadcast WITH closed <- Closed, begun <- pc = "typing"

Broadcasts == Abstract!Spec

\* Every batch comes to an end.
Ends == pc = "find" ~> pc = "idle"
=============================================================================
