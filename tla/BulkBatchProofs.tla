---------------------------- MODULE BulkBatchProofs ----------------------------
(***************************************************************************)
(* Proofs about BulkBatch for batches of any size and any number of        *)
(* cancelBatch requests.                                                   *)
(***************************************************************************)
EXTENDS BulkBatch, TLAPS

\* processBatch holds an entity while it runs, and a message to send while it
\* simulates typing or waits for the engine.
Holding ==
  /\ pc \notin {"idle", "find"} => batch \in Entity
  /\ pc \in {"typing", "send"} => batch.currentIndex < Total
  /\ pc = "find" => row \in Entity

TypeInv == TypeOK /\ Holding

\* An EXCEPT of several fields is a chain of EXCEPTs of one.
LEMMA SentType ==
  ASSUME NEW b \in Entity, NEW m \in Int, NEW n \in Int
  PROVE  [b EXCEPT !.sent = m, !.pending = n] \in Entity
<1>1. [b EXCEPT !.sent = m] \in Entity
  BY DEF Entity
<1>2. [[b EXCEPT !.sent = m] EXCEPT !.pending = n] \in Entity
  BY <1>1 DEF Entity
<1> QED
  BY <1>2

LEMMA FailedType ==
  ASSUME NEW b \in Entity, NEW m \in Int, NEW n \in Int
  PROVE  [b EXCEPT !.failed = m, !.pending = n] \in Entity
<1>1. [b EXCEPT !.failed = m] \in Entity
  BY DEF Entity
<1>2. [[b EXCEPT !.failed = m] EXCEPT !.pending = n] \in Entity
  BY <1>1 DEF Entity
<1> QED
  BY <1>2

LEMMA CancelledType ==
  ASSUME NEW b \in Entity
  PROVE  Cancelled(b) \in Entity /\ Cancelled(b).currentIndex = b.currentIndex
<1>1. [b EXCEPT !.status = "cancelled"] \in Entity
  BY DEF Entity, BatchStatus
<1>2. b.pending \in Int
  BY DEF Entity
<1>3. [[b EXCEPT !.status = "cancelled"] EXCEPT !.cancelled = b.pending] \in Entity
  BY <1>1, <1>2 DEF Entity
<1>4. \A d \in Entity : [d EXCEPT !.pending = 0] \in Entity
  BY DEF Entity
<1>5. Cancelled(b).currentIndex = b.currentIndex
  BY DEF Entity, Cancelled
<1> QED
  BY <1>3, <1>4, <1>5 DEF Cancelled

LEMMA CountedType ==
  ASSUME batch \in Entity, NEW ok \in BOOLEAN
  PROVE  /\ Counted(ok) \in Entity
         /\ Counted(ok).currentIndex = batch.currentIndex
         /\ Counted(ok).stopOnError = batch.stopOnError
<1>1. batch.sent + 1 \in Int /\ batch.failed + 1 \in Int /\ batch.pending - 1 \in Int
  BY DEF Entity
<1>2. CASE ok
  BY <1>1, <1>2, SentType DEF Counted, Entity
<1>3. CASE ~ok
  BY <1>1, <1>3, FailedType DEF Counted, Entity
<1> QED
  BY <1>2, <1>3

LEMMA FinishType ==
  ASSUME BatchAssumption, TypeOK, NEW b \in Entity, Finish(b)
  PROVE  batch' \in Entity /\ pc' = "final" /\ handed' \in [Index -> Nat]
  BY DEF Finish, FinalStatus, Entity, BatchStatus, TypeOK

LEMMA LoopType ==
  ASSUME BatchAssumption, TypeOK, NEW b \in Entity, Loop(b)
  PROVE  /\ batch' \in Entity /\ pc' \in {"typing", "send", "final"}
         /\ pc' # "final" => batch'.currentIndex < Total
         /\ handed' \in [Index -> Nat]
<1>1. CASE b.currentIndex < Total /\ flag = "active"
  <2>1. b.currentIndex \in Index
    BY <1>1 DEF Entity, Index, BatchAssumption
  <2> QED
    BY <1>1, <2>1 DEF Loop, SendMessage, HandOver, TypeOK
<1>2. CASE ~(b.currentIndex < Total /\ flag = "active")
  BY <1>2, FinishType DEF Loop
<1> QED
  BY <1>1, <1>2

LEMMA PauseType ==
  ASSUME BatchAssumption, TypeOK, NEW b \in Entity, Pause(b)
  PROVE  /\ batch' \in Entity /\ pc' \in {"typing", "send", "final", "sleep"}
         /\ pc' \in {"typing", "send"} => batch'.currentIndex < Total
         /\ handed' \in [Index -> Nat]
<1>1. CASE b.currentIndex < Total /\ flag = "active"
  BY <1>1 DEF Pause, TypeOK
<1>2. CASE ~(b.currentIndex < Total /\ flag = "active")
  BY <1>2, LoopType DEF Pause
<1> QED
  BY <1>1, <1>2

\* Every step keeps the types.
LEMMA TypeStep == ASSUME BatchAssumption, TypeInv, [Next]_vars PROVE TypeInv'
<1> USE DEF TypeInv
<1>1. ASSUME NEW s \in BOOLEAN, Create(s) PROVE TypeInv'
  BY <1>1 DEF Create, TypeOK, Holding, Entity, BatchStatus, BatchAssumption
<1>2. CASE Find
  BY <1>2 DEF Find, TypeOK, Holding, Entity, BatchStatus
<1>3. ASSUME NEW connected \in BOOLEAN, Start(connected) PROVE TypeInv'
  <2>1. batch \in Entity
    BY <1>3 DEF Start, Holding
  <2>2. CASE connected
    BY <1>3, <2>1, <2>2, LoopType DEF Start, TypeOK, Holding
  <2>3. CASE ~connected
    BY <1>3, <2>1, <2>3 DEF Start, TypeOK, Holding, Entity, BatchStatus
  <2> QED
    BY <2>2, <2>3
<1>4. CASE Aborted
  BY <1>4 DEF Aborted, TypeOK, Holding
<1>5. ASSUME NEW ok \in BOOLEAN, Answer(ok) PROVE TypeInv'
  <2> DEFINE b == [Counted(ok) EXCEPT !.currentIndex = @ + 1]
             f == [Counted(ok) EXCEPT !.status = "failed"]
  <2>1. batch \in Entity /\ batch.currentIndex < Total
    BY <1>5 DEF Answer, Holding
  <2>2. b \in Entity /\ f \in Entity
    BY <2>1, CountedType DEF Entity, BatchStatus, BatchAssumption
  <2>3. CASE ~ok /\ batch.stopOnError
    BY <1>5, <2>2, <2>3, FinishType DEF Answer, TypeOK, Holding
  <2>4. CASE ~(~ok /\ batch.stopOnError) /\ SavesAfter(batch.currentIndex)
    BY <1>5, <2>2, <2>4 DEF Answer, TypeOK, Holding
  <2>5. CASE ~(~ok /\ batch.stopOnError) /\ ~SavesAfter(batch.currentIndex)
    BY <1>5, <2>2, <2>5, PauseType DEF Answer, TypeOK, Holding
  <2> QED
    BY <2>3, <2>4, <2>5
<1>6. CASE Saved
  BY <1>6, PauseType DEF Saved, TypeOK, Holding
<1>7. CASE Wakes
  BY <1>7, LoopType DEF Wakes, TypeOK, Holding
<1>8. CASE Finished
  BY <1>8 DEF Finished, TypeOK, Holding
<1>9. CASE DatabaseFails
  BY <1>9 DEF DatabaseFails, TypeOK, Holding
<1>10. ASSUME NEW c \in Cancels, Cancel(c) PROVE TypeInv'
  <2>1. row \in Entity
    BY <1>10 DEF Cancel, TypeOK
  <2>2. row.status \in BatchStatus
    BY <2>1 DEF Entity
  <2> QED
    BY <1>10, <2>1, <2>2 DEF Cancel, TypeOK, Holding
<1>11. ASSUME NEW c \in Cancels, CancelSaved(c) PROVE TypeInv'
  <2>1. cancel[c] \in Entity
    BY <1>11 DEF CancelSaved, TypeOK
  <2>2. Cancelled(cancel[c]) \in Entity
    BY <2>1, CancelledType
  <2> QED
    BY <1>11, <2>1, <2>2 DEF CancelSaved, TypeOK, Holding
<1>12. ASSUME NEW c \in Cancels, CancelFails(c) PROVE TypeInv'
  BY <1>12 DEF CancelFails, TypeOK, Holding
<1>13. CASE Restart
  BY <1>13 DEF Restart, TypeOK, Holding, Entity, BatchStatus
<1>14. CASE UNCHANGED vars
  BY <1>14 DEF vars, TypeOK, Holding
<1>15. CASE Typed
  <2>1. batch \in Entity /\ batch.currentIndex \in Index
    BY <1>15 DEF Typed, Holding, Entity, Index, BatchAssumption
  <2> QED
    BY <1>15, <2>1 DEF Typed, HandOver, TypeOK, Holding
<1> QED
  BY <1>1, <1>2, <1>3, <1>4, <1>5, <1>6, <1>7, <1>8, <1>9, <1>10, <1>11, <1>12,
     <1>13, <1>14, <1>15 DEF Next, ProcessStep

LEMMA TypeInit == ASSUME BatchAssumption, Init PROVE TypeInv
  BY DEF Init, TypeInv, TypeOK, Holding, BatchStatus

LEMMA TypeInvariant == Spec => []TypeInv
<1>1. Init => TypeInv
  BY TypeInit, BatchAssumption
<1>2. TypeInv /\ [Next]_vars => TypeInv'
  BY TypeStep, BatchAssumption
<1> QED
  BY <1>1, <1>2, PTL DEF Spec

\* The state of processBatch, its row and the cancels keep their types.
THEOREM BatchTyped == Spec => []TypeOK
  BY TypeInvariant, PTL DEF TypeInv

-----------------------------------------------------------------------------
(* CancelStops and AtMostOnce rest on where a batch may be when.           *)

\* The flag is set to active only when processBatch reads the row, which it does
\* once, before every cancel that counts.
CancelInv ==
  /\ row = NoEntity => found = {} /\ pc = "idle"
  /\ pc = "find" => "read" \notin found
  /\ "read" \in found => flag # "active"

\* The messages before currentIndex were handed over, once; while the engine is
\* busy the one at currentIndex was as well.
UpTo(i) == \A j \in Index : handed[j] = IF j < i THEN 1 ELSE 0

HandedInv ==
  /\ row = NoEntity => pc = "idle" /\ UpTo(0) /\ \A c \in Cancels : cancel[c] = NoEntity
  /\ pc = "find" =>
       /\ UpTo(0)
       /\ row.currentIndex = 0
       /\ \A c \in Cancels : cancel[c] # NoEntity => cancel[c].currentIndex = 0
  /\ pc \in {"start", "typing", "save", "sleep"} => UpTo(batch.currentIndex)
  /\ pc = "send" => UpTo(batch.currentIndex + 1)
  /\ AtMostOnce

Inv == TypeInv /\ CancelInv /\ HandedInv

Running == {"start", "typing", "send", "save", "sleep"}

\* A step hands over the next message, while the flag is active or after its typing,
\* or none.
HandsNext ==
  \/ handed' = handed
  \/ /\ flag = "active" \/ pc = "typing"
     /\ pc \in Running /\ pc' = "send"
     /\ \E i \in Index : UpTo(i) /\ handed' = [handed EXCEPT ![i] = 1]

LEMMA OverHanded ==
  ASSUME BatchAssumption, TypeOK, NEW b \in Entity, UpTo(b.currentIndex),
         b.currentIndex < Total, AtMostOnce, pc \in Running,
         flag = "active" \/ pc = "typing", batch' = b, HandOver(b)
  PROVE  /\ UpTo(batch.currentIndex + 1)'
         /\ AtMostOnce'
         /\ HandsNext
         /\ handed' # handed
<1>1. b.currentIndex \in Index
  BY DEF Entity, Index, BatchAssumption
<1>2. handed' = [handed EXCEPT ![b.currentIndex] = @ + 1] /\ pc' = "send"
  BY DEF HandOver
<1>3. handed[b.currentIndex] = 0
  BY <1>1 DEF UpTo, Index
<1>4. \A j \in Index : handed'[j] = IF j = b.currentIndex THEN 1 ELSE handed[j]
  BY <1>1, <1>2, <1>3 DEF TypeOK
<1>5. \A j \in Index : handed'[j] = IF j < b.currentIndex + 1 THEN 1 ELSE 0
  BY <1>1, <1>4 DEF UpTo, Index
<1>6. handed' = [handed EXCEPT ![b.currentIndex] = 1]
  BY <1>2, <1>3 DEF TypeOK
<1>7. HandsNext
  BY <1>1, <1>2, <1>6 DEF HandsNext
<1>8. AtMostOnce'
  BY <1>5 DEF AtMostOnce
<1> QED
  BY <1>1, <1>3, <1>4, <1>5, <1>7, <1>8 DEF UpTo

LEMMA LoopHanded ==
  ASSUME BatchAssumption, TypeOK, NEW b \in Entity, UpTo(b.currentIndex),
         AtMostOnce, pc \in Running, Loop(b)
  PROVE  /\ pc' = "send" => UpTo(batch.currentIndex + 1)'
         /\ pc' = "typing" => UpTo(batch.currentIndex)'
         /\ AtMostOnce'
         /\ HandsNext
<1>1. CASE b.currentIndex < Total /\ flag = "active"
  <2>1. batch' = b
    BY <1>1 DEF Loop, SendMessage
  <2>2. CASE HandOver(b)
    BY <1>1, <2>1, <2>2, OverHanded DEF HandOver
  <2>3. CASE pc' = "typing" /\ UNCHANGED handed
    BY <2>1, <2>3 DEF UpTo, AtMostOnce, HandsNext
  <2> QED
    BY <1>1, <2>2, <2>3 DEF Loop, SendMessage
<1>2. CASE ~(b.currentIndex < Total /\ flag = "active")
  BY <1>2 DEF Loop, Finish, AtMostOnce, HandsNext
<1> QED
  BY <1>1, <1>2

LEMMA PauseHanded ==
  ASSUME BatchAssumption, TypeOK, NEW b \in Entity, UpTo(b.currentIndex),
         AtMostOnce, pc \in Running, Pause(b)
  PROVE  /\ pc' = "send" => UpTo(batch.currentIndex + 1)'
         /\ pc' \in {"typing", "sleep"} => UpTo(batch.currentIndex)'
         /\ AtMostOnce'
         /\ HandsNext
<1>1. CASE b.currentIndex < Total /\ flag = "active"
  BY <1>1 DEF Pause, UpTo, AtMostOnce, HandsNext
<1>2. CASE ~(b.currentIndex < Total /\ flag = "active")
  <2>1. Loop(b)
    BY <1>2 DEF Pause
  <2> QED
    BY <1>2, <2>1, LoopHanded, LoopType
<1> QED
  BY <1>1, <1>2

\* Handing a message over needs an active flag or simulated typing before it; every
\* step keeps the order of the messages.
LEMMA HandedStep ==
  ASSUME BatchAssumption, Inv, TypeInv', [Next]_vars
  PROVE  HandedInv' /\ HandsNext
<1> USE DEF Inv, TypeInv
<1>1. ASSUME NEW s \in BOOLEAN, Create(s) PROVE HandedInv' /\ HandsNext
  <2>1. row' \in Entity /\ row'.currentIndex = 0
    BY <1>1 DEF Create, Entity, BatchStatus, BatchAssumption
  <2>2. row' # NoEntity
    BY <2>1 DEF BatchAssumption
  <2> QED
    BY <1>1, <2>1, <2>2 DEF Create, HandedInv, HandsNext, UpTo, AtMostOnce
<1>2. CASE Find
  <2>1. row \in Entity /\ row.currentIndex = 0
    BY <1>2 DEF Find, Holding, HandedInv
  <2>2. batch'.currentIndex = 0
    BY <1>2, <2>1 DEF Find, Entity
  <2> QED
    BY <1>2, <2>1, <2>2 DEF Find, HandedInv, HandsNext, UpTo, AtMostOnce, BatchAssumption
<1>3. ASSUME NEW connected \in BOOLEAN, Start(connected) PROVE HandedInv' /\ HandsNext
  <2>1. batch \in Entity /\ row' = batch /\ row' # NoEntity
    BY <1>3 DEF Start, Holding, BatchAssumption
  <2>2. CASE connected
    <3>1. pc \in Running /\ Loop(batch) /\ UpTo(batch.currentIndex) /\ AtMostOnce
      BY <1>3, <2>2 DEF Start, HandedInv, Running
    <3> QED
      BY <2>1, <3>1, LoopHanded, LoopType DEF HandedInv
  <2>3. CASE ~connected
    BY <1>3, <2>1, <2>3 DEF Start, HandedInv, HandsNext, AtMostOnce
  <2> QED
    BY <2>2, <2>3
<1>4. CASE Aborted
  BY <1>4 DEF Aborted, HandedInv, HandsNext, AtMostOnce, Holding, BatchAssumption
<1>5. ASSUME NEW ok \in BOOLEAN, Answer(ok) PROVE HandedInv' /\ HandsNext
  <2> DEFINE b == [Counted(ok) EXCEPT !.currentIndex = @ + 1]
  <2>1. batch \in Entity /\ batch.currentIndex < Total /\ row' = row /\ row # NoEntity
    BY <1>5 DEF Answer, Holding, HandedInv
  <2>2. b \in Entity /\ b.currentIndex = batch.currentIndex + 1
    BY <2>1, CountedType DEF Entity, BatchAssumption
  <2>3. pc \in Running /\ UpTo(b.currentIndex) /\ AtMostOnce
    BY <1>5, <2>2 DEF Answer, HandedInv, Running
  <2>4. CASE ~ok /\ batch.stopOnError
    BY <1>5, <2>1, <2>3, <2>4 DEF Answer, Finish, HandedInv, HandsNext, AtMostOnce
  <2>5. CASE ~(~ok /\ batch.stopOnError) /\ SavesAfter(batch.currentIndex)
    <3>1. pc' = "save" /\ batch' = b /\ handed' = handed
      BY <1>5, <2>5 DEF Answer
    <3> QED
      BY <2>1, <2>3, <3>1 DEF HandedInv, HandsNext, UpTo, AtMostOnce
  <2>6. CASE ~(~ok /\ batch.stopOnError) /\ ~SavesAfter(batch.currentIndex)
    <3>1. Pause(b)
      BY <1>5, <2>6 DEF Answer
    <3>2. /\ pc' = "send" => UpTo(batch.currentIndex + 1)'
          /\ pc' \in {"typing", "sleep"} => UpTo(batch.currentIndex)'
          /\ AtMostOnce' /\ HandsNext
          /\ pc' \in {"typing", "send", "final", "sleep"}
      BY <2>2, <2>3, <3>1, PauseHanded, PauseType
    <3> QED
      BY <2>1, <3>2 DEF HandedInv
  <2> QED
    BY <2>4, <2>5, <2>6
<1>6. CASE Saved
  <2>1. batch \in Entity /\ row' = batch /\ row' # NoEntity
    BY <1>6 DEF Saved, Holding, BatchAssumption
  <2>2. pc \in Running /\ Pause(batch) /\ UpTo(batch.currentIndex) /\ AtMostOnce
    BY <1>6 DEF Saved, HandedInv, Running
  <2> QED
    BY <2>1, <2>2, PauseHanded, PauseType DEF HandedInv
<1>7. CASE Wakes
  <2>1. batch \in Entity /\ row' = row /\ row # NoEntity
    BY <1>7 DEF Wakes, Holding, HandedInv
  <2>2. pc \in Running /\ Loop(batch) /\ UpTo(batch.currentIndex) /\ AtMostOnce
    BY <1>7 DEF Wakes, HandedInv, Running
  <2> QED
    BY <2>1, <2>2, LoopHanded, LoopType DEF HandedInv
<1>8. CASE Finished
  BY <1>8 DEF Finished, HandedInv, HandsNext, AtMostOnce, Holding, BatchAssumption
<1>9. CASE DatabaseFails
  BY <1>9 DEF DatabaseFails, HandedInv, HandsNext, AtMostOnce, UpTo
<1>10. ASSUME NEW c \in Cancels, Cancel(c) PROVE HandedInv' /\ HandsNext
  <2>1. cancel' = [cancel EXCEPT ![c] = row] /\ row # NoEntity
    BY <1>10 DEF Cancel
  <2>2. \A d \in Cancels : cancel'[d] = IF d = c THEN row ELSE cancel[d]
    BY <2>1 DEF TypeOK
  <2>3. UNCHANGED <<row, pc, batch, handed>>
    BY <1>10 DEF Cancel
  <2> QED
    BY <2>1, <2>2, <2>3 DEF HandedInv, HandsNext, AtMostOnce, UpTo
<1>11. ASSUME NEW c \in Cancels, CancelSaved(c) PROVE HandedInv' /\ HandsNext
  <2>1. cancel[c] \in Entity /\ row # NoEntity
    BY <1>11 DEF CancelSaved, TypeOK, HandedInv
  <2>2. row' \in Entity /\ row'.currentIndex = cancel[c].currentIndex
    BY <1>11, <2>1, CancelledType DEF CancelSaved
  <2>3. row' # NoEntity
    BY <2>2 DEF BatchAssumption
  <2>4. \A d \in Cancels : cancel'[d] = IF d = c THEN NoEntity ELSE cancel[d]
    BY <1>11 DEF CancelSaved, TypeOK
  <2>5. UNCHANGED <<pc, batch, handed>> /\ cancel[c] # NoEntity
    BY <1>11 DEF CancelSaved
  <2> QED
    BY <2>1, <2>2, <2>3, <2>4, <2>5 DEF HandedInv, HandsNext, AtMostOnce, UpTo
<1>12. ASSUME NEW c \in Cancels, CancelFails(c) PROVE HandedInv' /\ HandsNext
  <2>1. \A d \in Cancels : cancel'[d] = IF d = c THEN NoEntity ELSE cancel[d]
    BY <1>12 DEF CancelFails, TypeOK
  <2>2. UNCHANGED <<row, pc, batch, handed>>
    BY <1>12 DEF CancelFails
  <2> QED
    BY <2>1, <2>2 DEF HandedInv, HandsNext, AtMostOnce, UpTo
<1>13. CASE Restart
  <2>1. row' = NoEntity => row = NoEntity
    <3>1. row = NoEntity \/ row \in Entity
      BY DEF TypeOK
    <3>2. row \in Entity => [row EXCEPT !.status = "failed"] \in Entity
      BY DEF Entity, BatchStatus
    <3> QED
      BY <1>13, <3>1, <3>2 DEF Restart, BatchAssumption
  <2> QED
    BY <1>13, <2>1 DEF Restart, HandedInv, HandsNext, AtMostOnce, UpTo
<1>14. CASE UNCHANGED vars
  BY <1>14 DEF vars, HandedInv, HandsNext, AtMostOnce, UpTo
<1>15. CASE Typed
  <2>1. /\ batch \in Entity /\ batch.currentIndex < Total /\ row' = row /\ row # NoEntity
        /\ pc = "typing" /\ batch' = batch /\ HandOver(batch)
    BY <1>15 DEF Typed, Holding, HandedInv
  <2>2. pc \in Running /\ UpTo(batch.currentIndex) /\ AtMostOnce
    BY <2>1 DEF HandedInv, Running
  <2> QED
    BY <2>1, <2>2, OverHanded DEF HandedInv, HandOver
<1> QED
  BY <1>1, <1>2, <1>3, <1>4, <1>5, <1>6, <1>7, <1>8, <1>9, <1>10, <1>11, <1>12,
     <1>13, <1>14, <1>15 DEF Next, ProcessStep

LEMMA CancelStep ==
  ASSUME BatchAssumption, Inv, TypeInv', [Next]_vars
  PROVE  CancelInv'
<1> USE DEF Inv, TypeInv
<1>0. row \in Entity \/ row = NoEntity
  BY DEF TypeOK
<1>1. ASSUME NEW s \in BOOLEAN, Create(s) PROVE CancelInv'
  <2>1. row' \in Entity
    BY <1>1 DEF Create, Entity, BatchStatus, BatchAssumption
  <2> QED
    BY <1>1, <2>1 DEF Create, CancelInv, BatchAssumption
<1>2. CASE Find
  BY <1>2 DEF Find, CancelInv, Holding, BatchAssumption
<1>3. ASSUME NEW connected \in BOOLEAN, Start(connected) PROVE CancelInv'
  <2>1. batch \in Entity /\ row' = batch /\ row' # NoEntity
    BY <1>3 DEF Start, Holding, BatchAssumption
  <2>2. pc' # "find"
    BY <1>3, <2>1, LoopType DEF Start
  <2> QED
    BY <1>3, <2>1, <2>2 DEF Start, CancelInv
<1>4. CASE Aborted
  BY <1>4 DEF Aborted, CancelInv, Holding, BatchAssumption
<1>5. ASSUME NEW ok \in BOOLEAN, Answer(ok) PROVE CancelInv'
  <2>1. row' = row /\ row # NoEntity /\ UNCHANGED <<flag, found>>
    BY <1>5 DEF Answer, CancelInv
  <2>2. pc' # "find"
    <3>1. Counted(ok) \in Entity /\ Counted(ok).currentIndex = batch.currentIndex
      BY <1>5, CountedType DEF Answer, Holding
    <3>2. [Counted(ok) EXCEPT !.currentIndex = @ + 1] \in Entity
      BY <1>5, <3>1 DEF Answer, Holding, Entity, BatchAssumption
    <3> QED
      BY <1>5, <3>2, PauseType DEF Answer, Finish
  <2> QED
    BY <2>1, <2>2 DEF CancelInv
<1>6. CASE Saved
  <2>1. batch \in Entity /\ row' = batch /\ row' # NoEntity
    BY <1>6 DEF Saved, Holding, BatchAssumption
  <2>2. pc' # "find"
    BY <1>6, <2>1, PauseType DEF Saved
  <2> QED
    BY <1>6, <2>1, <2>2 DEF Saved, CancelInv
<1>7. CASE Wakes
  <2>1. batch \in Entity /\ row' = row /\ row # NoEntity
    BY <1>7 DEF Wakes, Holding, CancelInv
  <2>2. pc' # "find"
    BY <1>7, <2>1, LoopType DEF Wakes
  <2> QED
    BY <1>7, <2>1, <2>2 DEF Wakes, CancelInv
<1>8. CASE Finished
  BY <1>8 DEF Finished, CancelInv, Holding, BatchAssumption
<1>9. CASE DatabaseFails
  BY <1>9 DEF DatabaseFails, CancelInv
<1>10. ASSUME NEW c \in Cancels, Cancel(c) PROVE CancelInv'
  BY <1>10 DEF Cancel, CancelInv
<1>11. ASSUME NEW c \in Cancels, CancelSaved(c) PROVE CancelInv'
  <2>1. row' \in Entity
    BY <1>11, CancelledType DEF CancelSaved, TypeOK
  <2>2. row' # NoEntity
    BY <2>1 DEF BatchAssumption
  <2>3. row # NoEntity \/ (pc = "idle" /\ found = {})
    BY DEF CancelInv
  <2> QED
    BY <1>11, <2>2, <2>3 DEF CancelSaved, CancelInv
<1>12. ASSUME NEW c \in Cancels, CancelFails(c) PROVE CancelInv'
  BY <1>12 DEF CancelFails, CancelInv
<1>13. CASE Restart
  <2>1. row \in Entity => [row EXCEPT !.status = "failed"] \in Entity
    BY DEF Entity, BatchStatus
  <2>2. row' = NoEntity => row = NoEntity
    BY <1>0, <1>13, <2>1 DEF Restart, BatchAssumption
  <2> QED
    BY <1>13, <2>2 DEF Restart, CancelInv
<1>14. CASE UNCHANGED vars
  BY <1>14 DEF vars, CancelInv
<1>15. CASE Typed
  BY <1>15 DEF Typed, HandOver, CancelInv
<1> QED
  BY <1>1, <1>2, <1>3, <1>4, <1>5, <1>6, <1>7, <1>8, <1>9, <1>10, <1>11, <1>12,
     <1>13, <1>14, <1>15 DEF Next, ProcessStep

LEMMA InvInit == ASSUME BatchAssumption, Init PROVE Inv
  BY TypeInit DEF Init, Inv, CancelInv, HandedInv, UpTo, AtMostOnce, Index, BatchAssumption

LEMMA Invariant == Spec => []Inv
<1>1. Init => Inv
  BY InvInit, BatchAssumption
<1>2. Inv /\ [Next]_vars => Inv'
  BY TypeStep, HandedStep, CancelStep, BatchAssumption DEF Inv
<1> QED
  BY <1>1, <1>2, PTL DEF Spec

\* onApplicationBootstrap's comment: no message is handed to the engine twice,
\* whatever cancels, failures and restarts come in between.
THEOREM NothingSentTwice == Spec => []AtMostOnce
<1>1. Inv => AtMostOnce
  BY DEF Inv, HandedInv
<1> QED
  BY <1>1, Invariant, PTL

LEMMA LoopBegins ==
  ASSUME BatchAssumption, NEW b \in Entity, UpTo(b.currentIndex), Loop(b) \/ Pause(b),
         pc' = "typing"
  PROVE  flag = "active" /\ handed' = handed /\ \E i \in Index : UpTo(i)
<1>1. b.currentIndex < Total /\ flag = "active" /\ SendMessage(b)
  BY DEF Loop, Pause, Finish
<1>2. b.currentIndex \in Index
  BY <1>1 DEF Entity, Index, BatchAssumption
<1> QED
  BY <1>1, <1>2 DEF SendMessage, HandOver

\* Typing starts in the loop only, for the next message, while the flag is active.
LEMMA TypingBegins ==
  ASSUME BatchAssumption, Inv, [Next]_vars, pc # "typing", pc' = "typing"
  PROVE  /\ pc \in Running /\ flag = "active"
         /\ handed' = handed /\ found' = found
         /\ \E i \in Index : UpTo(i)
<1> USE DEF Inv, TypeInv
<1>1. CASE Start(TRUE) \/ Start(FALSE) \/ Saved \/ Wakes
  <2>1. /\ batch \in Entity /\ UpTo(batch.currentIndex) /\ pc \in Running /\ found' = found
        /\ Loop(batch) \/ Pause(batch)
    BY <1>1 DEF Start, Saved, Wakes, Holding, HandedInv, Running
  <2> QED
    BY <2>1, LoopBegins
<1>2. ASSUME NEW ok \in BOOLEAN, Answer(ok)
      PROVE  /\ pc \in Running /\ flag = "active"
             /\ handed' = handed /\ found' = found
             /\ \E i \in Index : UpTo(i)
  <2> DEFINE b == [Counted(ok) EXCEPT !.currentIndex = @ + 1]
  <2>1. batch \in Entity /\ batch.currentIndex < Total /\ found' = found /\ pc \in Running
    BY <1>2 DEF Answer, Holding, Running
  <2>2. b \in Entity /\ b.currentIndex = batch.currentIndex + 1
    BY <2>1, CountedType DEF Entity, BatchAssumption
  <2>3. UpTo(b.currentIndex)
    BY <1>2, <2>2 DEF Answer, HandedInv
  <2>4. Pause(b)
    BY <1>2 DEF Answer, Finish
  <2> HIDE DEF b
  <2> QED
    BY <2>1, <2>2, <2>3, <2>4, LoopBegins
<1>3. (\E connected \in BOOLEAN : Start(connected)) => Start(TRUE) \/ Start(FALSE)
  OBVIOUS
<1> QED
  BY <1>1, <1>2, <1>3 DEF Next, ProcessStep, Create, Find, Aborted, Typed, HandOver, Finished,
     DatabaseFails, Cancel, CancelSaved, CancelFails, Restart, vars

\* Typing ends with the hand-over, or with the process.
LEMMA TypingEnds ==
  ASSUME BatchAssumption, Inv, [Next]_vars, pc = "typing", pc' # "typing", handed' = handed
  PROVE  Restart
<1>1. ~Typed
  <2> SUFFICES ASSUME Typed PROVE FALSE
    OBVIOUS
  <2>1. /\ batch \in Entity /\ batch.currentIndex < Total /\ UpTo(batch.currentIndex)
        /\ TypeOK /\ AtMostOnce /\ batch' = batch /\ HandOver(batch)
    BY DEF Typed, Inv, TypeInv, Holding, HandedInv
  <2> QED
    BY <2>1, OverHanded DEF Running
<1> QED
  BY <1>1 DEF Next, ProcessStep, Create, Find, Start, Aborted, Answer, Saved, Wakes, Finished,
     DatabaseFails, Cancel, CancelSaved, CancelFails, vars, Inv, CancelInv

\* cancelBatch: once a cancel has come, unless before processBatch had read the row,
\* no message is begun, and only the one whose typing is simulated is handed over.
THEOREM CancelledIsQuiet == Spec => CancelStops
<1>1. Inv /\ [Next]_vars
        => ["read" \in found =>
              /\ handed' # handed => pc = "typing"
              /\ pc' = "typing" => pc = "typing"]_vars
  <2> SUFFICES ASSUME Inv, [Next]_vars, "read" \in found
               PROVE  /\ handed' # handed => pc = "typing"
                      /\ pc' = "typing" => pc = "typing"
    OBVIOUS
  <2>1. TypeInv'
    BY TypeStep, BatchAssumption DEF Inv
  <2>2. flag # "active"
    BY DEF Inv, CancelInv
  <2>3. handed' # handed => pc = "typing"
    BY <2>1, <2>2, HandedStep, BatchAssumption DEF HandsNext
  <2>4. pc' = "typing" => pc = "typing"
    BY <2>2, TypingBegins, BatchAssumption
  <2> QED
    BY <2>3, <2>4
<1> QED
  BY <1>1, Invariant, PTL DEF Spec, CancelStops

-----------------------------------------------------------------------------
(* The batch implements Broadcast.                                         *)

LEMMA RowStays ==
  ASSUME BatchAssumption, TypeInv, TypeInv', [Next]_vars, row # NoEntity
  PROVE  row' # NoEntity
<1> USE DEF TypeInv
<1>1. row \in Entity
  BY DEF TypeOK
<1>2. CASE row' = row
  BY <1>2
<1>3. CASE row' = batch /\ pc \in {"start", "abort", "save", "final"}
  BY <1>3 DEF Holding, BatchAssumption
<1>4. ASSUME NEW c \in Cancels, CancelSaved(c) PROVE row' # NoEntity
  BY <1>4, CancelledType DEF CancelSaved, TypeOK, BatchAssumption
<1>5. CASE Restart
  <2>1. [row EXCEPT !.status = "failed"] \in Entity
    BY <1>1 DEF Entity, BatchStatus
  <2> QED
    BY <1>1, <1>5, <2>1 DEF Restart, BatchAssumption
<1>6. CASE \E stopOnError \in BOOLEAN : Create(stopOnError)
  BY <1>6 DEF Create
<1> QED
  BY <1>2, <1>3, <1>4, <1>5, <1>6 DEF Next, ProcessStep, Find, Start, Aborted, Typed, Answer,
     Saved, Wakes, Finished, DatabaseFails, Cancel, CancelFails, vars

\* A batch once closed is never opened again: there is no way back into the loop.
LEMMA StaysClosed ==
  ASSUME BatchAssumption, TypeInv, TypeInv', [Next]_vars, Closed
  PROVE  Closed'
<1>1. found \subseteq found'
  BY DEF Next, ProcessStep, Create, Find, Start, Aborted, Typed, Answer, Saved, Wakes,
     Finished, DatabaseFails, Cancel, CancelSaved, CancelFails, Restart, vars
<1>2. CASE row # NoEntity /\ pc \in {"abort", "final", "idle"}
  <2>1. row' # NoEntity
    BY <1>2, RowStays
  <2>2. pc' \in {pc, "idle"}
    BY <1>2 DEF Next, ProcessStep, Create, Find, Start, Aborted, Typed, Answer, Saved, Wakes,
       Finished, DatabaseFails, Cancel, CancelSaved, CancelFails, Restart, vars
  <2> QED
    BY <1>2, <2>1, <2>2 DEF Closed
<1> QED
  BY <1>1, <1>2 DEF Closed

\* BulkMessageService sends a batch as Broadcast says: in order, each message once, until
\* the batch is closed; after that no message is begun, and the one begun goes out at most.
THEOREM Implements == Spec => Broadcasts
<1>1. Init => Abstract!Init
  BY BatchAssumption DEF Init, Closed, Abstract!Init, Index, Abstract!Index
<1>2. Inv /\ [Next]_vars => [Abstract!Next]_Abstract!vars
  <2> SUFFICES ASSUME Inv, [Next]_vars
               PROVE  Abstract!Next \/ UNCHANGED Abstract!vars
    OBVIOUS
  <2>1. TypeInv /\ TypeInv'
    BY TypeStep, BatchAssumption DEF Inv
  <2>2. HandsNext
    BY <2>1, HandedStep, BatchAssumption
  <2>3. Closed => Closed'
    BY <2>1, StaysClosed, BatchAssumption
  <2>4. \A i \in Index : UpTo(i) => Abstract!Due(i)
    BY DEF UpTo, Abstract!Due, Index, Abstract!Index
  <2>5. CASE handed' = handed /\ pc # "typing" /\ pc' = "typing"
    <3>1. PICK i \in Index : UpTo(i)
      BY <2>5, TypingBegins, BatchAssumption
    <3>2. pc \in Running /\ flag = "active" /\ found' = found
      BY <2>5, TypingBegins, BatchAssumption
    <3>3. ~Closed /\ ~Closed'
      BY <2>5, <3>2 DEF Closed, Running, Inv, CancelInv
    <3> QED
      BY <2>4, <2>5, <3>1, <3>3
         DEF Abstract!Next, Abstract!Begin, Closed, Index, Abstract!Index
  <2>6. CASE handed' = handed /\ pc = "typing" /\ pc' # "typing"
    <3>1. Restart /\ row # NoEntity
      BY <2>6, TypingEnds, BatchAssumption DEF Inv, CancelInv
    <3>2. Closed'
      BY <2>1, <3>1, RowStays, BatchAssumption DEF Restart, Closed
    <3> QED
      BY <2>6, <3>2 DEF Abstract!Next, Abstract!Close, Closed
  <2>7. CASE handed' = handed /\ (pc = "typing" <=> pc' = "typing")
    <3>1. CASE Closed' = Closed
      BY <2>7, <3>1 DEF Abstract!vars
    <3>2. CASE ~Closed /\ Closed'
      BY <2>7, <3>2 DEF Abstract!Next, Abstract!Close, Closed
    <3> QED
      BY <2>3, <3>1, <3>2 DEF Closed
  <2>8. ASSUME flag = "active" \/ pc = "typing", pc \in Running, pc' = "send",
               NEW i \in Index, UpTo(i), handed' = [handed EXCEPT ![i] = 1]
        PROVE  Abstract!Hand(i)
    <3>1. pc = "typing" \/ "read" \notin found
      BY <2>8 DEF Inv, CancelInv
    <3>2. handed[i] = 0 /\ handed'[i] = 1
      BY <2>1, <2>8 DEF UpTo, TypeInv, TypeOK, Index
    <3>3. found' = found
      <4>1. handed' # handed
        BY <3>2
      <4>2. \A c \in Cancels : ~Cancel(c)
        BY <4>1 DEF Cancel
      <4> QED
        BY <4>2 DEF Next, ProcessStep, Create, Find, Start, Aborted, Typed, Answer, Saved,
           Wakes, Finished, DatabaseFails, CancelSaved, CancelFails, Restart, vars
    <3>4. Closed' = Closed
      BY <2>8, <3>3 DEF Closed, Running
    <3>5. pc = "typing" \/ ~Closed
      BY <2>8, <3>1 DEF Closed, Running
    <3> QED
      BY <2>4, <2>8, <3>4, <3>5 DEF Abstract!Hand, Closed
  <2> QED
    BY <2>2, <2>5, <2>6, <2>7, <2>8 DEF HandsNext, Abstract!Next, Index, Abstract!Index
<1> QED
  BY <1>1, <1>2, Invariant, PTL DEF Spec, Broadcasts, Abstract!Spec

-----------------------------------------------------------------------------
(***************************************************************************)
(* What the row of a batch says: its progress, COMPLETED, and PROCESSING.  *)
(*                                                                         *)
(* Entities are copied between the row, processBatch and the cancels and   *)
(* are saved in any order, so that what is to hold of the row has to hold  *)
(* of every copy.                                                          *)
(***************************************************************************)

\* An entity claims no more than what was handed to the engine.
Honest(b, h) ==
  /\ b.status = "completed" /\ ~b.stopOnError => \A i \in Index : h[i] = 1
  /\ \A i \in Index : h[i] = 0 => b.sent + b.failed <= i

\* It accounts for all messages, the cancelled ones if it has been cancelled.
Balanced(b) ==
  /\ b.sent + b.failed + b.pending + b.cancelled = Total
  /\ b.status # "cancelled" => b.cancelled = 0

HonestInv ==
  /\ row # NoEntity => Honest(row, handed)
  /\ pc \notin {"idle", "find"} => Honest(batch, handed)
  /\ \A c \in Cancels : cancel[c] # NoEntity => Honest(cancel[c], handed)
  /\ pc \in Running => batch.sent + batch.failed <= batch.currentIndex

BalancedInv ==
  "unread" \notin found =>
    /\ row # NoEntity => Balanced(row)
    /\ pc \notin {"idle", "find"} => Balanced(batch)
    /\ \A c \in Cancels :
         cancel[c] # NoEntity =>
           Balanced(cancel[c]) /\ cancel[c].status # "cancelled" /\ pc # "find"
    /\ pc = "find" => row.status # "cancelled"

\* What becomes of the status, and of the flag that is removed last.
StatusInv ==
  /\ pc = "find" => row.status \in {"pending", "cancelled"}
  /\ pc \in Running => batch.status = "processing" /\ (flag = "active" \/ found # {})
  /\ pc = "abort" => batch.status = "failed"
  /\ pc = "final" /\ batch.status = "processing" => found # {}
  /\ pc = "final" => batch.status # "cancelled"
  /\ pc \notin {"idle", "find"} => flag # "unset"
  /\ row = NoEntity => \A c \in Cancels : cancel[c] = NoEntity
  /\ Driven

AccountingInv == Inv /\ HonestInv /\ BalancedInv /\ StatusInv

-----------------------------------------------------------------------------
(* Entities *)

LEMMA HonestStays ==
  ASSUME TypeOK, HandsNext, NEW b, Honest(b, handed)
  PROVE  Honest(b, handed')
<1>1. CASE handed' = handed
  BY <1>1
<1>2. ASSUME NEW i \in Index, handed' = [handed EXCEPT ![i] = 1]
      PROVE  Honest(b, handed')
  <2>1. \A j \in Index : handed'[j] = IF j = i THEN 1 ELSE handed[j]
    BY <1>2 DEF TypeOK
  <2> QED
    BY <2>1 DEF Honest
<1> QED
  BY <1>1, <1>2 DEF HandsNext

\* A change of status only.
LEMMA Restated ==
  ASSUME NEW b \in Entity, NEW s \in BatchStatus
  PROVE  LET d == [b EXCEPT !.status = s]
         IN  /\ d \in Entity /\ d.status = s
             /\ d.sent = b.sent /\ d.failed = b.failed /\ d.pending = b.pending
             /\ d.cancelled = b.cancelled /\ d.currentIndex = b.currentIndex
             /\ d.stopOnError = b.stopOnError
BY DEF Entity

LEMMA HonestRestated ==
  ASSUME NEW b \in Entity, NEW s \in BatchStatus, NEW h, Honest(b, h),
         s = "completed" /\ ~b.stopOnError => \A i \in Index : h[i] = 1
  PROVE  Honest([b EXCEPT !.status = s], h)
BY Restated DEF Honest

LEMMA BalancedRestated ==
  ASSUME NEW b \in Entity, NEW s \in BatchStatus, Balanced(b), s # "cancelled",
         b.status # "cancelled"
  PROVE  Balanced([b EXCEPT !.status = s])
BY Restated DEF Balanced

LEMMA CancelledFields ==
  ASSUME NEW b \in Entity
  PROVE  /\ Cancelled(b) \in Entity /\ Cancelled(b).status = "cancelled"
         /\ Cancelled(b).sent = b.sent /\ Cancelled(b).failed = b.failed
         /\ Cancelled(b).pending = 0 /\ Cancelled(b).cancelled = b.pending
<1>1. Cancelled(b) \in Entity
  BY CancelledType
<1> QED
  BY <1>1 DEF Cancelled, Entity

LEMMA HonestCancelled ==
  ASSUME NEW b \in Entity, NEW h, Honest(b, h)
  PROVE  Honest(Cancelled(b), h)
BY CancelledFields DEF Honest

LEMMA BalancedCancelled ==
  ASSUME NEW b \in Entity, Balanced(b), b.status # "cancelled"
  PROVE  Balanced(Cancelled(b))
<1>1. b.sent \in Int /\ b.failed \in Int /\ b.pending \in Int /\ b.cancelled \in Int
  BY DEF Entity
<1> QED
  BY <1>1, CancelledFields DEF Balanced

LEMMA CountedFields ==
  ASSUME batch \in Entity, NEW ok \in BOOLEAN
  PROVE  LET d == Counted(ok)
         IN  /\ d \in Entity /\ d.status = batch.status
             /\ d.sent + d.failed = batch.sent + batch.failed + 1
             /\ d.pending = batch.pending - 1 /\ d.cancelled = batch.cancelled
             /\ d.currentIndex = batch.currentIndex /\ d.stopOnError = batch.stopOnError
<1>1. batch.sent \in Int /\ batch.failed \in Int /\ batch.pending \in Int
  BY DEF Entity
<1>2. Counted(ok) \in Entity
  BY CountedType
<1>3. CASE ok
  BY <1>1, <1>2, <1>3 DEF Counted, Entity
<1>4. CASE ~ok
  BY <1>1, <1>2, <1>4 DEF Counted, Entity
<1> QED
  BY <1>3, <1>4

-----------------------------------------------------------------------------
(* Progress of processBatch *)

\* What the loop may be entered with.
Ready(b) ==
  /\ b \in Entity
  /\ b.status = "processing"
  /\ b.sent + b.failed <= b.currentIndex
  /\ UpTo(b.currentIndex)
  /\ Honest(b, handed)

\* What it then leads to.
Onward(b) ==
  /\ pc' \in {"typing", "send", "sleep", "final"}
  /\ Honest(batch', handed')
  /\ pc' # "final" => batch' = b /\ flag = "active"
  /\ pc' = "final" => batch'.status # "cancelled"
  /\ pc' = "final" /\ batch'.status = "processing" => flag # "active"
  /\ Balanced(b) => Balanced(batch')

LEMMA FinishOnward ==
  ASSUME BatchAssumption, TypeOK, NEW b \in Entity, Finish(b), Honest(b, handed),
         b.status \in {"processing", "failed"},
         b.status = "processing" /\ flag = "active" => \A i \in Index : handed[i] = 1,
         b.status = "failed" => b.stopOnError
  PROVE  Onward(b)
<1>1. FinalStatus(b) \in BatchStatus /\ FinalStatus(b) # "cancelled"
  BY DEF FinalStatus, BatchStatus
<1>2. FinalStatus(b) = "completed" /\ ~b.stopOnError => \A i \in Index : handed[i] = 1
  BY DEF FinalStatus
<1>3. FinalStatus(b) = "processing" => flag # "active"
  BY DEF FinalStatus
<1>4. batch' = [b EXCEPT !.status = FinalStatus(b)] /\ pc' = "final" /\ handed' = handed
  BY DEF Finish
<1>5. batch'.status = FinalStatus(b)
  BY <1>1, <1>4, Restated
<1>6. Honest(batch', handed')
  BY <1>1, <1>2, <1>4, HonestRestated
<1>7. Balanced(b) => Balanced(batch')
  BY <1>1, <1>4, BalancedRestated
<1> QED
  BY <1>1, <1>3, <1>4, <1>5, <1>6, <1>7 DEF Onward

LEMMA LoopOnward ==
  ASSUME BatchAssumption, TypeOK, AtMostOnce, pc \in Running, NEW b, Ready(b), Loop(b)
  PROVE  Onward(b)
<1>1. CASE b.currentIndex < Total /\ flag = "active"
  <2>1. pc' \in {"typing", "send"} /\ batch' = b
    BY <1>1 DEF Loop, SendMessage, HandOver
  <2>2. HandsNext
    BY LoopHanded DEF Ready
  <2>3. Honest(b, handed')
    BY <2>2, HonestStays DEF Ready
  <2> QED
    BY <1>1, <2>1, <2>3 DEF Onward
<1>2. CASE ~(b.currentIndex < Total /\ flag = "active")
  <2>1. Finish(b)
    BY <1>2 DEF Loop
  <2>2. flag = "active" => \A i \in Index : handed[i] = 1
    BY <1>2 DEF Ready, UpTo, Index, Entity, BatchAssumption
  <2> QED
    BY <2>1, <2>2, FinishOnward DEF Ready
<1> QED
  BY <1>1, <1>2

LEMMA PauseOnward ==
  ASSUME BatchAssumption, TypeOK, AtMostOnce, pc \in Running, NEW b, Ready(b), Pause(b)
  PROVE  Onward(b)
<1>1. CASE b.currentIndex < Total /\ flag = "active"
  BY <1>1 DEF Pause, Onward, Ready
<1>2. CASE ~(b.currentIndex < Total /\ flag = "active")
  BY <1>2, LoopOnward DEF Pause
<1> QED
  BY <1>1, <1>2

\* A step of the loop keeps what is said of all the copies.
LEMMA OnwardKeeps ==
  ASSUME BatchAssumption, AccountingInv, HandsNext, NEW b, Onward(b),
         pc' # "final" => b.status = "processing" /\ b.sent + b.failed <= b.currentIndex,
         "unread" \notin found => Balanced(b),
         row' # NoEntity, Honest(row', handed), "unread" \notin found => Balanced(row'),
         flag # "unset", flag # "active" => found # {},
         UNCHANGED <<flag, cancel, found>>
  PROVE  AccountingInv' <=> Inv'
<1>1. TypeOK
  BY DEF AccountingInv, Inv, TypeInv
<1>2. pc' \in {"typing", "send", "sleep", "final"}
  BY DEF Onward
<1>3. HonestInv'
  <2>1. Honest(row', handed')
    BY <1>1, HonestStays
  <2>2. \A c \in Cancels : cancel[c] # NoEntity => Honest(cancel[c], handed')
    BY <1>1, HonestStays DEF AccountingInv, HonestInv
  <2> QED
    BY <1>2, <2>1, <2>2 DEF HonestInv, Onward, Running
<1>4. BalancedInv'
  BY <1>2 DEF BalancedInv, Onward, AccountingInv
<1>5. StatusInv'
  BY <1>2 DEF StatusInv, Onward, Running, Driven, AccountingInv
<1> QED
  BY <1>3, <1>4, <1>5 DEF AccountingInv

-----------------------------------------------------------------------------
(* Steps *)

LEMMA CreateOK ==
  ASSUME BatchAssumption, AccountingInv, NEW s \in BOOLEAN, Create(s)
  PROVE  HonestInv' /\ BalancedInv' /\ StatusInv'
<1>1. row' = [status |-> "pending", sent |-> 0, failed |-> 0, pending |-> Total,
              cancelled |-> 0, currentIndex |-> 0, stopOnError |-> s]
      /\ pc' = "find" /\ UNCHANGED <<flag, batch, cancel, handed, found>>
      /\ \A c \in Cancels : cancel[c] = NoEntity
  BY DEF Create, AccountingInv, StatusInv
<1>2. Honest(row', handed) /\ Balanced(row')
  BY <1>1 DEF Honest, Balanced, Index, BatchAssumption
<1>3. HonestInv'
  BY <1>1, <1>2 DEF HonestInv, Running
<1>4. BalancedInv'
  BY <1>1, <1>2 DEF BalancedInv
<1>5. StatusInv'
  BY <1>1 DEF StatusInv, Running, Driven
<1> QED
  BY <1>3, <1>4, <1>5

LEMMA FindOK ==
  ASSUME BatchAssumption, AccountingInv, Find
  PROVE  HonestInv' /\ BalancedInv' /\ StatusInv'
<1>1. row \in Entity /\ row # NoEntity /\ UpTo(0) /\ row.currentIndex = 0
  BY DEF Find, AccountingInv, Inv, TypeInv, Holding, HandedInv, BatchAssumption
<1>2. /\ batch' = [row EXCEPT !.status = "processing"] /\ pc' = "start" /\ flag' = "active"
      /\ pc = "find" /\ UNCHANGED <<row, cancel, handed, found>>
  BY DEF Find
<1>3. /\ batch'.status = "processing" /\ batch'.sent = row.sent /\ batch'.failed = row.failed
      /\ batch'.currentIndex = 0
  BY <1>1, <1>2, Restated DEF BatchStatus
<1>4. Honest(row, handed)
  BY <1>1 DEF AccountingInv, HonestInv
<1>5. Honest(batch', handed)
  BY <1>1, <1>2, <1>4, HonestRestated DEF BatchStatus
<1>6. row.sent + row.failed <= 0
  BY <1>1, <1>4 DEF Honest, UpTo, Index, BatchAssumption
<1>7. "unread" \notin found => Balanced(row) /\ Balanced(batch')
  BY <1>1, <1>2, BalancedRestated DEF BatchStatus, AccountingInv, BalancedInv
<1>8. HonestInv'
  BY <1>2, <1>3, <1>5, <1>6 DEF HonestInv, AccountingInv, Running
<1>9. BalancedInv'
  BY <1>1, <1>2, <1>7 DEF BalancedInv, AccountingInv
<1>10. StatusInv'
  BY <1>1, <1>2, <1>3 DEF StatusInv, Running, Driven
<1> QED
  BY <1>8, <1>9, <1>10

LEMMA StartOK ==
  ASSUME BatchAssumption, AccountingInv, HandsNext, Inv',
         NEW connected \in BOOLEAN, Start(connected)
  PROVE  HonestInv' /\ BalancedInv' /\ StatusInv'
<1>1. /\ batch \in Entity /\ batch # NoEntity /\ row' = batch /\ pc = "start"
      /\ UNCHANGED <<flag, cancel, found>> /\ TypeOK /\ AtMostOnce
  BY DEF Start, AccountingInv, Inv, TypeInv, Holding, HandedInv, BatchAssumption
<1>2. /\ batch.status = "processing" /\ Honest(batch, handed)
      /\ batch.sent + batch.failed <= batch.currentIndex
      /\ "unread" \notin found => Balanced(batch)
      /\ flag # "unset" /\ (flag # "active" => found # {})
  BY <1>1 DEF AccountingInv, HonestInv, BalancedInv, StatusInv, Running
<1>3. CASE connected
  <2>1. Ready(batch)
    BY <1>1, <1>2 DEF Ready, AccountingInv, Inv, HandedInv
  <2>2. Onward(batch)
    BY <1>1, <1>3, <2>1, LoopOnward DEF Start, Running
  <2> QED
    BY <1>1, <1>2, <2>2, OnwardKeeps DEF AccountingInv
<1>4. CASE ~connected
  <2>1. batch' = [batch EXCEPT !.status = "failed"] /\ pc' = "abort" /\ handed' = handed
    BY <1>4 DEF Start
  <2>2. Honest(batch', handed) /\ batch'.status = "failed"
        /\ ("unread" \notin found => Balanced(batch'))
    BY <1>1, <1>2, <2>1, Restated, HonestRestated, BalancedRestated DEF BatchStatus
  <2>3. HonestInv'
    BY <1>1, <1>2, <2>1, <2>2 DEF HonestInv, AccountingInv, Running
  <2>4. BalancedInv'
    BY <1>1, <1>2, <2>1, <2>2 DEF BalancedInv, AccountingInv
  <2>5. StatusInv'
    BY <1>1, <1>2, <2>1, <2>2 DEF StatusInv, Running, Driven
  <2> QED
    BY <2>3, <2>4, <2>5
<1> QED
  BY <1>3, <1>4

LEMMA AnswerOK ==
  ASSUME BatchAssumption, AccountingInv, HandsNext, Inv',
         NEW ok \in BOOLEAN, Answer(ok)
  PROVE  HonestInv' /\ BalancedInv' /\ StatusInv'
<1> DEFINE d == Counted(ok)
           n == [d EXCEPT !.currentIndex = @ + 1]
           f == [d EXCEPT !.status = "failed"]
<1>1. /\ batch \in Entity /\ batch.currentIndex < Total /\ pc = "send" /\ row' = row
      /\ UpTo(batch.currentIndex + 1)
      /\ UNCHANGED <<flag, cancel, found>> /\ TypeOK /\ AtMostOnce /\ row # NoEntity
  BY DEF Answer, AccountingInv, Inv, TypeInv, Holding, HandedInv
<1>2. /\ batch.status = "processing" /\ Honest(batch, handed)
      /\ batch.sent + batch.failed <= batch.currentIndex
      /\ "unread" \notin found => Balanced(batch) /\ Balanced(row)
      /\ flag # "unset" /\ (flag # "active" => found # {})
      /\ Honest(row, handed)
  BY <1>1 DEF AccountingInv, HonestInv, BalancedInv, StatusInv, Running
<1>3. /\ d \in Entity /\ d.status = "processing"
      /\ d.sent + d.failed = batch.sent + batch.failed + 1
      /\ d.pending = batch.pending - 1 /\ d.cancelled = batch.cancelled
      /\ d.currentIndex = batch.currentIndex /\ d.stopOnError = batch.stopOnError
  BY <1>1, <1>2, CountedFields
<1>4. "unread" \notin found => Balanced(d)
  <2>1. /\ batch.sent \in Int /\ batch.failed \in Int /\ batch.pending \in Int
        /\ batch.cancelled \in Int /\ d.sent \in Int /\ d.failed \in Int
    BY <1>1, <1>3 DEF Entity
  <2> QED
    BY <1>2, <1>3, <2>1 DEF Balanced
<1>5. Honest(d, handed)
  <2>1. \A i \in Index : handed[i] = 0 => batch.currentIndex + 1 <= i
    BY <1>1 DEF UpTo, Index, Entity, BatchAssumption
  <2>2. batch.sent \in Int /\ batch.failed \in Int /\ batch.currentIndex \in Int
    BY <1>1 DEF Entity, BatchAssumption
  <2> QED
    BY <1>2, <1>3, <2>1, <2>2 DEF Honest, Index, BatchAssumption
<1>6. CASE ~ok /\ batch.stopOnError
  <2>1. Finish(f)
    BY <1>6 DEF Answer
  <2>2. f \in Entity /\ f.status = "failed" /\ f.stopOnError = batch.stopOnError /\ Honest(f, handed)
        /\ ("unread" \notin found => Balanced(f))
    BY <1>3, <1>4, <1>5, Restated, HonestRestated, BalancedRestated DEF BatchStatus
  <2> HIDE DEF f
  <2>3. Onward(f)
    BY <1>1, <1>6, <2>1, <2>2, FinishOnward
  <2>4. pc' = "final"
    BY <2>1 DEF Finish
  <2> QED
    BY <1>1, <1>2, <2>2, <2>3, <2>4, OnwardKeeps DEF AccountingInv
<1>7. /\ n \in Entity /\ n.status = "processing" /\ n.currentIndex = batch.currentIndex + 1
      /\ n.sent = d.sent /\ n.failed = d.failed /\ n.pending = d.pending
      /\ n.cancelled = d.cancelled /\ n.stopOnError = d.stopOnError
  BY <1>1, <1>3 DEF Entity, BatchAssumption
<1>8. Ready(n) /\ ("unread" \notin found => Balanced(n))
  <2>1. Honest(n, handed)
    BY <1>5, <1>7, <1>3 DEF Honest
  <2>2. "unread" \notin found => Balanced(n)
    BY <1>4, <1>7, <1>3 DEF Balanced
  <2>3. n.sent + n.failed <= n.currentIndex
    BY <1>1, <1>2, <1>3, <1>7 DEF Entity, BatchAssumption
  <2>4. UpTo(n.currentIndex)
    BY <1>1, <1>7
  <2> HIDE DEF n
  <2> QED
    BY <1>7, <2>1, <2>2, <2>3, <2>4 DEF Ready
<1>9. CASE ~(~ok /\ batch.stopOnError) /\ SavesAfter(batch.currentIndex)
  <2>1. pc' = "save" /\ batch' = n /\ handed' = handed
    BY <1>9 DEF Answer
  <2> HIDE DEF n
  <2>2. HonestInv'
    BY <1>1, <1>2, <1>8, <2>1 DEF HonestInv, AccountingInv, Running, Ready
  <2>3. BalancedInv'
    BY <1>1, <1>2, <1>8, <2>1 DEF BalancedInv, AccountingInv
  <2>4. StatusInv'
    BY <1>1, <1>2, <1>8, <2>1 DEF StatusInv, AccountingInv, Running, Driven, Ready
  <2> QED
    BY <2>2, <2>3, <2>4
<1>10. CASE ~(~ok /\ batch.stopOnError) /\ ~SavesAfter(batch.currentIndex)
  <2>1. Pause(n)
    BY <1>10 DEF Answer
  <2> HIDE DEF n
  <2>2. Onward(n)
    BY <1>1, <1>8, <2>1, PauseOnward DEF Running
  <2> QED
    BY <1>1, <1>2, <1>8, <2>2, OnwardKeeps DEF AccountingInv, Ready
<1> QED
  BY <1>6, <1>9, <1>10

LEMMA SavedOK ==
  ASSUME BatchAssumption, AccountingInv, HandsNext, Inv', Saved
  PROVE  HonestInv' /\ BalancedInv' /\ StatusInv'
<1>1. /\ batch \in Entity /\ batch # NoEntity /\ row' = batch /\ pc = "save" /\ Pause(batch)
      /\ UNCHANGED <<flag, cancel, found>> /\ TypeOK /\ AtMostOnce
  BY DEF Saved, AccountingInv, Inv, TypeInv, Holding, HandedInv, BatchAssumption
<1>2. /\ batch.status = "processing" /\ Honest(batch, handed)
      /\ batch.sent + batch.failed <= batch.currentIndex
      /\ "unread" \notin found => Balanced(batch)
      /\ flag # "unset" /\ (flag # "active" => found # {})
  BY <1>1 DEF AccountingInv, HonestInv, BalancedInv, StatusInv, Running
<1>3. Ready(batch)
  BY <1>1, <1>2 DEF Ready, AccountingInv, Inv, HandedInv
<1>4. Onward(batch)
  BY <1>1, <1>3, PauseOnward DEF Running
<1> QED
  BY <1>1, <1>2, <1>4, OnwardKeeps DEF AccountingInv

LEMMA WakesOK ==
  ASSUME BatchAssumption, AccountingInv, HandsNext, Inv', Wakes
  PROVE  HonestInv' /\ BalancedInv' /\ StatusInv'
<1>1. /\ batch \in Entity /\ row' = row /\ row # NoEntity /\ pc = "sleep" /\ Loop(batch)
      /\ UNCHANGED <<flag, cancel, found>> /\ TypeOK /\ AtMostOnce
  BY DEF Wakes, AccountingInv, Inv, TypeInv, Holding, HandedInv
<1>2. /\ batch.status = "processing" /\ Honest(batch, handed) /\ Honest(row, handed)
      /\ batch.sent + batch.failed <= batch.currentIndex
      /\ "unread" \notin found => Balanced(batch) /\ Balanced(row)
      /\ flag # "unset" /\ (flag # "active" => found # {})
  BY <1>1 DEF AccountingInv, HonestInv, BalancedInv, StatusInv, Running
<1>3. Ready(batch)
  BY <1>1, <1>2 DEF Ready, AccountingInv, Inv, HandedInv
<1>4. Onward(batch)
  BY <1>1, <1>3, LoopOnward DEF Running
<1> QED
  BY <1>1, <1>2, <1>4, OnwardKeeps DEF AccountingInv

LEMMA TypedOK ==
  ASSUME BatchAssumption, AccountingInv, HandsNext, Typed
  PROVE  HonestInv' /\ BalancedInv' /\ StatusInv'
<1>1. /\ pc = "typing" /\ pc' = "send" /\ TypeOK
      /\ UNCHANGED <<row, flag, batch, cancel, found>>
  BY DEF Typed, HandOver, AccountingInv, Inv, TypeInv
<1>2. HonestInv'
  <2>1. \A b : Honest(b, handed) => Honest(b, handed')
    BY <1>1, HonestStays
  <2> QED
    BY <1>1, <2>1 DEF HonestInv, AccountingInv, Running
<1>3. BalancedInv'
  BY <1>1 DEF BalancedInv, AccountingInv
<1>4. StatusInv'
  BY <1>1 DEF StatusInv, AccountingInv, Running, Driven
<1> QED
  BY <1>2, <1>3, <1>4

\* The run ends: the row is what it has saved last.
LEMMA EndOK ==
  ASSUME BatchAssumption, AccountingInv, Aborted \/ Finished \/ DatabaseFails
  PROVE  HonestInv' /\ BalancedInv' /\ StatusInv'
<1>1. /\ pc' = "idle" /\ UNCHANGED <<cancel, handed, found>>
      /\ pc \in {"find", "start", "abort", "save", "final"}
  BY DEF Aborted, Finished, DatabaseFails
<1>2. \/ row' = row /\ flag' = flag
      \/ /\ row' = batch /\ pc \in {"abort", "final"} /\ batch # NoEntity
         /\ \/ flag' = flag /\ pc = "abort"
            \/ flag' = "unset" /\ pc = "final"
  BY DEF Aborted, Finished, DatabaseFails, AccountingInv, Inv, TypeInv, Holding, BatchAssumption
<1>3. HonestInv'
  BY <1>1, <1>2 DEF HonestInv, AccountingInv, Running
<1>4. BalancedInv'
  BY <1>1, <1>2 DEF BalancedInv, AccountingInv
<1>5. StatusInv'
  BY <1>1, <1>2 DEF StatusInv, AccountingInv, Running, Driven
<1> QED
  BY <1>3, <1>4, <1>5

LEMMA CancelOK ==
  ASSUME BatchAssumption, AccountingInv, NEW c \in Cancels, Cancel(c)
  PROVE  HonestInv' /\ BalancedInv' /\ StatusInv'
<1>1. /\ \A x \in Cancels : cancel'[x] = IF x = c THEN row ELSE cancel[x]
      /\ row # NoEntity /\ row.status # "cancelled" /\ flag' = "cancelled"
      /\ found' = found \cup {IF pc = "find" THEN "unread" ELSE "read"}
      /\ UNCHANGED <<row, pc, batch, handed>>
  BY DEF Cancel, AccountingInv, Inv, TypeInv, TypeOK
<1>2. HonestInv'
  BY <1>1 DEF HonestInv, AccountingInv
<1>3. BalancedInv'
  BY <1>1 DEF BalancedInv, AccountingInv
<1>4. StatusInv'
  BY <1>1 DEF StatusInv, AccountingInv, Driven
<1> QED
  BY <1>2, <1>3, <1>4

LEMMA CancelSavedOK ==
  ASSUME BatchAssumption, AccountingInv, NEW c \in Cancels, CancelSaved(c)
  PROVE  HonestInv' /\ BalancedInv' /\ StatusInv'
<1>1. cancel[c] \in Entity /\ cancel[c] # NoEntity
  BY DEF CancelSaved, AccountingInv, Inv, TypeInv, TypeOK
<1>2. /\ \A x \in Cancels : cancel'[x] = IF x = c THEN NoEntity ELSE cancel[x]
      /\ row' = Cancelled(cancel[c]) /\ UNCHANGED <<flag, pc, batch, handed, found>>
  BY DEF CancelSaved, AccountingInv, Inv, TypeInv, TypeOK
<1>3. row' \in Entity /\ row' # NoEntity /\ row'.status = "cancelled"
  BY <1>1, <1>2, CancelledFields DEF BatchAssumption
<1>4. Honest(row', handed)
  BY <1>1, <1>2, HonestCancelled DEF AccountingInv, HonestInv
<1>5. "unread" \notin found => Balanced(row') /\ pc # "find"
  BY <1>1, <1>2, BalancedCancelled DEF AccountingInv, BalancedInv
<1>6. HonestInv'
  BY <1>2, <1>3, <1>4 DEF HonestInv, AccountingInv
<1>7. BalancedInv'
  BY <1>2, <1>3, <1>5 DEF BalancedInv, AccountingInv
<1>8. StatusInv'
  BY <1>2, <1>3 DEF StatusInv, AccountingInv, Driven
<1> QED
  BY <1>6, <1>7, <1>8

LEMMA CancelFailsOK ==
  ASSUME BatchAssumption, AccountingInv, NEW c \in Cancels, CancelFails(c)
  PROVE  HonestInv' /\ BalancedInv' /\ StatusInv'
<1>1. /\ \A x \in Cancels : cancel'[x] = IF x = c THEN NoEntity ELSE cancel[x]
      /\ UNCHANGED <<row, flag, pc, batch, handed, found>>
  BY DEF CancelFails, AccountingInv, Inv, TypeInv, TypeOK
<1>2. HonestInv'
  BY <1>1 DEF HonestInv, AccountingInv
<1>3. BalancedInv'
  BY <1>1 DEF BalancedInv, AccountingInv
<1>4. StatusInv'
  BY <1>1 DEF StatusInv, AccountingInv, Driven
<1> QED
  BY <1>2, <1>3, <1>4

\* onApplicationBootstrap fails what was interrupted.
LEMMA RestartOK ==
  ASSUME BatchAssumption, AccountingInv, Restart
  PROVE  HonestInv' /\ BalancedInv' /\ StatusInv'
<1>1. /\ pc' = "idle" /\ \A c \in Cancels : cancel'[c] = NoEntity
      /\ UNCHANGED <<handed, found>>
  BY DEF Restart
<1>2. row' # NoEntity =>
        row # NoEntity /\ Honest(row', handed) /\ row'.status # "processing"
        /\ ("unread" \notin found => Balanced(row'))
  <2>1. row = NoEntity \/ row \in Entity
    BY DEF AccountingInv, Inv, TypeInv, TypeOK
  <2>2. CASE row # NoEntity /\ row.status = "processing"
    <3>1. row' = [row EXCEPT !.status = "failed"] /\ row \in Entity
      BY <2>1, <2>2 DEF Restart
    <3> QED
      BY <2>2, <3>1, Restated, HonestRestated, BalancedRestated
         DEF BatchStatus, AccountingInv, HonestInv, BalancedInv
  <2>3. CASE ~(row # NoEntity /\ row.status = "processing")
    BY <2>3 DEF Restart, AccountingInv, HonestInv, BalancedInv
  <2> QED
    BY <2>2, <2>3
<1>3. HonestInv'
  BY <1>1, <1>2 DEF HonestInv, Running
<1>4. BalancedInv'
  BY <1>1, <1>2 DEF BalancedInv
<1>5. StatusInv'
  BY <1>1, <1>2 DEF StatusInv, Driven, Running
<1> QED
  BY <1>3, <1>4, <1>5

LEMMA AccountingStep ==
  ASSUME BatchAssumption, AccountingInv, [Next]_vars
  PROVE  AccountingInv'
<1>1. TypeInv' /\ HandsNext /\ Inv'
  BY TypeStep, HandedStep, CancelStep DEF AccountingInv, Inv
<1>2. CASE UNCHANGED vars
  BY <1>1, <1>2 DEF vars, AccountingInv, HonestInv, BalancedInv, StatusInv, Driven
<1>3. CASE Next
  <2>1. HonestInv' /\ BalancedInv' /\ StatusInv'
    BY <1>1, <1>3, CreateOK, FindOK, StartOK, TypedOK, AnswerOK, SavedOK, WakesOK, EndOK,
       CancelOK, CancelSavedOK, CancelFailsOK, RestartOK DEF Next, ProcessStep
  <2> QED
    BY <1>1, <2>1 DEF AccountingInv
<1> QED
  BY <1>2, <1>3

LEMMA AccountingInvariant == Spec => []AccountingInv
<1>1. Init => AccountingInv
  BY InvInit, BatchAssumption
     DEF Init, AccountingInv, HonestInv, BalancedInv, StatusInv, Driven, Running
<1>2. AccountingInv /\ [Next]_vars => AccountingInv'
  BY AccountingStep, BatchAssumption
<1> QED
  BY <1>1, <1>2, PTL DEF Spec

-----------------------------------------------------------------------------
(* stopOnError *)

\* Nothing has failed that was to end the batch, as long as its loop runs, nor
\* anything before the loop in any copy that could still be saved.
ErrorInv ==
  /\ pc \in Running => ~(batch.stopOnError /\ batch.failed > 0)
  /\ pc = "find" =>
       row.failed = 0 /\ \A c \in Cancels : cancel[c] # NoEntity => cancel[c].failed = 0

LEMMA LoopEntity ==
  ASSUME NEW b, Loop(b) \/ Pause(b)
  PROVE  pc' \in {"typing", "send", "sleep", "final"} /\ (pc' # "final" => batch' = b)
BY DEF Loop, SendMessage, HandOver, Pause, Finish

LEMMA ErrorAnswered ==
  ASSUME AccountingInv, ErrorInv, NEW ok \in BOOLEAN, Answer(ok)
  PROVE  ErrorInv'
<1>1. batch \in Entity /\ pc = "send"
  BY DEF AccountingInv, Inv, TypeInv, Holding, Answer
<1>2. CASE ~ok /\ batch.stopOnError
  BY <1>2 DEF Answer, Finish, ErrorInv, Running
<1>3. CASE ~(~ok /\ batch.stopOnError)
  <2> DEFINE b == [Counted(ok) EXCEPT !.currentIndex = @ + 1]
  <2>1. Counted(ok).failed = IF ok THEN batch.failed ELSE batch.failed + 1
    BY <1>1 DEF Counted, Entity
  <2>2. Counted(ok) \in Entity /\ Counted(ok).stopOnError = batch.stopOnError
    BY <1>1, CountedFields
  <2>3. b.stopOnError = batch.stopOnError /\ b.failed = Counted(ok).failed
    BY <2>2 DEF Entity
  <2>4. ~(b.stopOnError /\ b.failed > 0)
    BY <1>1, <1>3, <2>1, <2>3 DEF ErrorInv, Running, Entity
  <2>5. \/ pc' = "save" /\ batch' = b
        \/ Pause(b)
    BY <1>3 DEF Answer
  <2>6. pc' \in {"save", "typing", "send", "sleep", "final"} /\ (pc' # "final" => batch' = b)
    BY <2>5, LoopEntity
  <2> QED
    BY <2>4, <2>6 DEF ErrorInv, Running
<1> QED
  BY <1>2, <1>3

LEMMA ErrorStep ==
  ASSUME BatchAssumption, AccountingInv, ErrorInv, [Next]_vars
  PROVE  ErrorInv'
<1>1. TypeOK /\ Holding
  BY DEF AccountingInv, Inv, TypeInv
<1>2. CASE pc' = "idle"
  BY <1>2 DEF ErrorInv, Running
<1>3. CASE UNCHANGED vars
  BY <1>3 DEF vars, ErrorInv
<1>4. ASSUME NEW stopOnError \in BOOLEAN, Create(stopOnError) PROVE ErrorInv'
  BY <1>4 DEF Create, ErrorInv, Running, AccountingInv, StatusInv
<1>5. CASE Find
  <2>1. batch'.failed = row.failed /\ pc' = "start"
    BY <1>1, <1>5 DEF Find, Holding, Entity
  <2> QED
    BY <1>5, <2>1 DEF Find, ErrorInv, Running
<1>6. CASE (\E connected \in BOOLEAN : Start(connected)) \/ Saved \/ Wakes
  <2>1. /\ pc \in Running /\ pc' \in {"abort", "typing", "send", "sleep", "final"}
        /\ pc' \in {"typing", "send", "sleep"} => batch' = batch
    BY <1>6, LoopEntity DEF Start, Saved, Wakes, Running
  <2> QED
    BY <2>1 DEF ErrorInv, Running
<1>7. ASSUME NEW c \in Cancels, Cancel(c) \/ CancelSaved(c) \/ CancelFails(c) PROVE ErrorInv'
  <2>1. pc' = pc /\ batch' = batch
    BY <1>7 DEF Cancel, CancelSaved, CancelFails
  <2>2. CASE pc # "find"
    BY <2>1, <2>2 DEF ErrorInv
  <2>3. CASE pc = "find"
    <3>1. row.failed = 0 /\ \A x \in Cancels : cancel[x] # NoEntity => cancel[x].failed = 0
      BY <2>3 DEF ErrorInv
    <3>2. CancelSaved(c) => row'.failed = 0
      BY <1>1, <3>1, CancelledFields DEF CancelSaved, TypeOK
    <3>3. row'.failed = 0
      BY <1>7, <3>1, <3>2 DEF Cancel, CancelFails
    <3>4. \A x \in Cancels : cancel'[x] \in {cancel[x], row, NoEntity}
      BY <1>1, <1>7 DEF Cancel, CancelSaved, CancelFails, TypeOK
    <3> QED
      BY <2>1, <2>3, <3>1, <3>3, <3>4 DEF ErrorInv, Running
  <2> QED
    BY <2>2, <2>3
<1>8. CASE Typed
  BY <1>8 DEF Typed, HandOver, ErrorInv, Running
<1> QED
  BY <1>2, <1>3, <1>4, <1>5, <1>6, <1>7, <1>8, ErrorAnswered
     DEF Next, ProcessStep, Aborted, Finished, DatabaseFails, Restart

LEMMA ErrorInvariant == Spec => [](AccountingInv /\ ErrorInv)
<1>1. Init => ErrorInv
  BY DEF Init, ErrorInv, Running
<1>2. AccountingInv /\ ErrorInv /\ [Next]_vars => ErrorInv'
  BY ErrorStep, BatchAssumption
<1> QED
  BY <1>1, <1>2, AccountingInvariant, PTL DEF Spec

-----------------------------------------------------------------------------
(* Theorems *)

\* Whichever stale entity was saved last, the progress of the row accounts for every
\* message and counts none that was not handed to the engine.
THEOREM ProgressAccounts == Spec => []Accounting
<1>1. AccountingInv => Accounting
  BY DEF AccountingInv, HonestInv, BalancedInv, Accounting, Honest, Balanced
<1> QED
  BY <1>1, AccountingInvariant, PTL

\* A row says PROCESSING only while a run drives the batch, a cancel has come, or a
\* query of the run has thrown.
THEOREM ProcessingIsDriven == Spec => []Driven
<1>1. AccountingInv => Driven
  BY DEF AccountingInv, StatusInv
<1> QED
  BY <1>1, AccountingInvariant, PTL

\* A row says COMPLETED only when every message was handed to the engine, unless
\* stopOnError has ended the batch.
THEOREM CompletedIsComplete == Spec => []CompletedMeansAll
<1>1. AccountingInv => CompletedMeansAll
  BY DEF AccountingInv, HonestInv, Honest, CompletedMeansAll
<1> QED
  BY <1>1, AccountingInvariant, PTL

\* processBatch: once a message of a stopOnError batch has failed, nothing more is
\* handed to the engine.
THEOREM ErrorsStop == Spec => StopsOnError
<1>1. AccountingInv /\ ErrorInv /\ [Next]_vars
        => [batch # NoEntity /\ batch.stopOnError /\ batch.failed > 0 => handed' = handed]_vars
  <2> SUFFICES ASSUME AccountingInv, ErrorInv, [Next]_vars,
                      batch # NoEntity /\ batch.stopOnError /\ batch.failed > 0
               PROVE  handed' = handed
    OBVIOUS
  <2>1. HandsNext
    BY TypeStep, HandedStep, BatchAssumption DEF AccountingInv, Inv
  <2>2. pc \notin Running
    BY DEF ErrorInv
  <2> QED
    BY <2>1, <2>2 DEF HandsNext
<1> QED
  BY <1>1, ErrorInvariant, PTL DEF Spec, StopsOnError
=============================================================================
