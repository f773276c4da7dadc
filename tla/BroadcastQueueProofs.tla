------------------------- MODULE BroadcastQueueProofs -------------------------
(***************************************************************************)
(* Proofs about the broadcast queue, for any set of numbers, any number of *)
(* runs and any number of attempts.                                        *)
(*                                                                         *)
(* That no number gets a second message rests on the marks being honest:   *)
(* a run sends to a pending contact only.  That the marks stay honest when *)
(* a run delivers rests on NoRival: whatever else lists one of its pending *)
(* contacts has made that contact excused.                                 *)
(***************************************************************************)
EXTENDS BroadcastQueue, TLAPS

Live == {"send", "retry", "pause"}

\* The part of TypeOK about one run.
RunOK(s) ==
  /\ s \in RunState
  /\ s.at = "off" => s = Off
  /\ s.at \in {"send", "retry"} <=> s.contact # NoContact
  /\ s.contact # NoContact => s.contact \in Pending(s.queue)
  /\ s.at = "retry" => s.attempt < MaxAttempts

\* A run changes and the others do not.
Moves(r, new) == RunOK(new) /\ run' = [run EXCEPT ![r] = new]

-----------------------------------------------------------------------------
(* Types                                                                   *)

LEMMA EmptyType == Empty \in Queue /\ Pending(Empty) = {} /\ RunOK(Off)
<1>1. Empty \in Queue /\ Pending(Empty) = {}
  BY DEF Empty, Queue, ContactStatus, Pending
<1>2. 0 \in 0..MaxAttempts
  BY QueueAssumption
<1>3. Off \in RunState
  BY <1>1, <1>2 DEF Off, RunState
<1> QED
  BY <1>1, <1>3 DEF RunOK, Off

LEMMA NewQueueType ==
  ASSUME NEW vault \in SUBSET Numbers
  PROVE  NewQueue(vault) \in Queue /\ Pending(NewQueue(vault)) = vault
BY DEF NewQueue, Queue, ContactStatus, Pending

LEMMA MergedType ==
  ASSUME NEW vault \in SUBSET Numbers, NEW queue \in Queue
  PROVE  Merged(queue, vault) \in Queue
BY DEF Merged, Queue, ContactStatus

\* TypeOK is RunOK of every run and the rest.
LEMMA TypeParts ==
  TypeOK <=> /\ stored \in Queue /\ shown \in Queue
             /\ busy \in BOOLEAN /\ abort \in BOOLEAN
             /\ run = [r \in Runs |-> run[r]]
             /\ \A r \in Runs : RunOK(run[r])
             /\ got \in [Numbers -> 0..2] /\ excused \in SUBSET Numbers
             /\ busy => \E r \in Runs : run[r].here /\ run[r].at \in Live
<1>1. run \in [Runs -> RunState] <=>
        run = [r \in Runs |-> run[r]] /\ \A r \in Runs : run[r] \in RunState
  OBVIOUS
<1> QED
  BY <1>1 DEF TypeOK, RunOK, Live

LEMMA MovesParts ==
  ASSUME TypeOK, NEW r \in Runs, NEW new, Moves(r, new)
  PROVE  /\ run' = [s \in Runs |-> run'[s]]
         /\ run'[r] = new /\ \A s \in Runs \ {r} : run'[s] = run[s]
         /\ \A s \in Runs : RunOK(run'[s])
<1>1. run \in [Runs -> RunState]
  BY DEF TypeOK
<1>2. \A s \in Runs : RunOK(run[s])
  BY TypeParts
<1> QED
  BY <1>1, <1>2 DEF Moves

\* A run that moves on without touching the page keeps TypeOK while it is live.
LEMMA ToMoves ==
  ASSUME TypeOK, NEW r \in Runs, NEW at \in Live, NEW queue \in Queue,
         NEW contact \in Numbers \cup {NoContact}, NEW attempt \in 0..MaxAttempts,
         To(r, at, queue, contact, attempt),
         at \in {"send", "retry"} <=> contact # NoContact,
         contact # NoContact => contact \in Pending(queue),
         at = "retry" => attempt < MaxAttempts
  PROVE  \E new : /\ Moves(r, new)
                  /\ new.at = at /\ new.here = run[r].here /\ new.queue = queue
                  /\ new.contact = contact
<1> DEFINE new == [at |-> at, here |-> run[r].here, cut |-> run[r].cut,
                   auto |-> run[r].auto, queue |-> queue, contact |-> contact,
                   attempt |-> attempt]
<1>1. run[r] \in RunState
  BY DEF TypeOK
<1>2. run[r].here \in BOOLEAN /\ run[r].cut \in BOOLEAN /\ run[r].auto \in BOOLEAN
  BY <1>1 DEF RunState
<1>3. at \in {"off", "prepare", "send", "retry", "pause"} /\ at # "off"
  BY DEF Live
<1>4. new \in RunState
  BY <1>2, <1>3 DEF RunState
<1>5. RunOK(new)
  BY <1>3, <1>4 DEF RunOK
<1>6. run' = [run EXCEPT ![r] = new]
  BY DEF To
<1>7. /\ Moves(r, new)
      /\ new.at = at /\ new.here = run[r].here /\ new.queue = queue /\ new.contact = contact
  BY <1>5, <1>6 DEF Moves
<1> HIDE DEF new
<1> QED
  BY <1>7

\* The queue of run r with the outcome of its contact.
Settled(r, status) == [run[r].queue EXCEPT ![run[r].contact] = status]

\* What Settle does, to be used instead of its definition.
LEMMA SettleParts ==
  ASSUME TypeOK, NEW r \in Runs, run[r].at \in {"send", "retry"},
         NEW status \in {"sent", "failed"}, Settle(r, status)
  PROVE  /\ Settled(r, status) \in Queue
         /\ \E new : /\ Moves(r, new)
                     /\ \/ new = Off
                        \/ new.at = "pause" /\ new.here = run[r].here /\ new.queue = Settled(r, status)
                     /\ new = Off /\ run[r].here => ~busy'
         /\ stored' \in {Settled(r, status), Empty}
         /\ shown' \in IF run[r].here THEN {Settled(r, status), Empty} ELSE {shown}
         /\ busy' \in {busy, FALSE}
         /\ abort' = abort
<1> DEFINE queue == Settled(r, status)
<1>1. run[r] \in RunState /\ run[r].contact \in Numbers
  BY DEF TypeOK, RunState
<1>2. queue \in Queue
  BY <1>1 DEF Settled, RunState, Queue, ContactStatus
<1> DEFINE more == Pending(queue) # {} /\ ~Aborted(r)
<1>3. CASE more
  <2>1. To(r, "pause", queue, NoContact, 0)
    BY <1>3 DEF Settle, Settled
  <2>2. 0 \in 0..MaxAttempts
    BY QueueAssumption
  <2>3. PICK new : Moves(r, new) /\ new.at = "pause" /\ new.here = run[r].here /\ new.queue = queue
    BY <1>2, <2>1, <2>2, ToMoves DEF Live
  <2>4. new # Off
    BY <2>3 DEF Off
  <2> QED
    BY <1>2, <1>3, <2>3, <2>4 DEF Settle, Settled
<1>4. CASE ~more
  <2>1. Moves(r, Off)
    BY <1>4, EmptyType DEF Settle, Settled, Moves
  <2> QED
    BY <1>1, <1>2, <1>4, <2>1 DEF Settle, Settled, RunState
<1> QED
  BY <1>3, <1>4

\* What Launch does.
LEMMA LaunchParts ==
  ASSUME TypeOK, NEW r \in Runs, NEW queue \in Queue, NEW here \in BOOLEAN,
         NEW auto \in BOOLEAN, Launch(r, queue, here, auto)
  PROVE  /\ \E new : /\ Moves(r, new)
                     /\ \/ new = Off /\ (here => ~busy')
                        \/ new.at = "send" /\ new.here = here /\ new.queue = queue
         /\ stored' \in {queue, Empty}
         /\ shown' \in IF here THEN {queue, Empty} ELSE {shown}
         /\ here /\ shown' = Empty => Pending(queue) = {}
         /\ ~here => busy' = busy
         /\ busy' \in BOOLEAN /\ abort' \in BOOLEAN /\ got' = got
<1>1. CASE Pending(queue) = {}
  <2>1. Moves(r, Off)
    BY <1>1, EmptyType DEF Launch, Moves
  <2> QED
    BY <1>1, <2>1 DEF Launch, TypeOK
<1>2. CASE Pending(queue) # {}
  <2>1. PICK n \in Pending(queue) : run' = [run EXCEPT ![r] =
              [at |-> "send", here |-> here, cut |-> FALSE, auto |-> auto,
               queue |-> queue, contact |-> n, attempt |-> 1]]
    BY <1>2 DEF Launch
  <2> DEFINE new == [at |-> "send", here |-> here, cut |-> FALSE, auto |-> auto,
                     queue |-> queue, contact |-> n, attempt |-> 1]
  <2>2. n \in Numbers /\ n # NoContact /\ 1 \in 0..MaxAttempts
    BY QueueAssumption DEF Pending
  <2>3. new \in RunState
    BY <2>2 DEF RunState
  <2>4. /\ Moves(r, new)
        /\ new.at = "send" /\ new.here = here /\ new.queue = queue
    BY <2>1, <2>2, <2>3 DEF Moves, RunOK
  <2> HIDE DEF new
  <2>5. Empty # queue
    BY <1>2, EmptyType
  <2> QED
    BY <1>2, <2>4, <2>5 DEF Launch, TypeOK
<1> QED
  BY <1>1, <1>2

LEMMA LaunchHere ==
  ASSUME TypeOK, NEW r \in Runs, NEW queue \in Queue, Launch(r, queue, TRUE, FALSE)
  PROVE  \E new : Moves(r, new) /\ (new = Off \/ (new.here = TRUE /\ new.queue = queue))
<1>1. TRUE \in BOOLEAN /\ FALSE \in BOOLEAN
  OBVIOUS
<1>2. \E new : /\ Moves(r, new)
              /\ \/ new = Off /\ (TRUE => ~busy')
                 \/ new.at = "send" /\ new.here = TRUE /\ new.queue = queue
  BY ONLY TypeOK, r \in Runs, queue \in Queue, Launch(r, queue, TRUE, FALSE), <1>1, LaunchParts
<1> QED
  BY <1>2

-----------------------------------------------------------------------------
(* The inductive invariant                                                 *)

\* What is true of one queue, of those that HonestMarks speaks of.
Claims(queue) ==
  \A n \in Numbers : /\ queue[n] = "sent" => got[n] >= 1
                     /\ queue[n] \in {"pending", "failed"} => got[n] = 0 \/ n \in excused

\* Whoever else lists a contact that a run has still to send to: it is excused.
NoRival ==
  \A r \in Runs : \A n \in Pending(run[r].queue) :
    /\ \A s \in Runs \ {r} : run[s].queue[n] # "none" => n \in excused
    /\ shown[n] \in {"sent", "failed"} => n \in excused
    /\ ~run[r].here /\ shown[n] # "none" => n \in excused

MarksInv == HonestMarks /\ SentOnce /\ NoRival

LEMMA HonestParts ==
  HonestMarks <=> /\ Claims(stored) /\ Claims(shown)
                  /\ \A r \in Runs : Claims(run[r].queue)
BY DEF HonestMarks, Claims

LEMMA EmptyClaims == Claims(Empty) /\ Claims(Empty)'
BY DEF Claims, Empty

\* A step of a run at contact c, with queue q as the outcome of it.
LEMMA LoopKeeps ==
  ASSUME TypeOK, MarksInv, NEW r \in Runs, NEW new, NEW q, NEW c,
         Moves(r, new), q \in Queue,
         new.queue \in {q, Empty}, new.queue = Empty \/ new.here = run[r].here,
         \A n \in Numbers :
           \/ q[n] = run[r].queue[n]
           \/ n = c /\ c \in Pending(run[r].queue) /\ q[n] \in {"sent", "failed"},
         excused \subseteq excused',
         got' = got \/ (c \in Pending(run[r].queue) /\ got' = [got EXCEPT ![c] = After(c)]),
         got' # got => \/ c \in excused'
                       \/ /\ q[c] = "sent" /\ stored' \in {q, Empty}
                          /\ run[r].here => shown' \in {q, Empty},
         c \in Pending(run[r].queue) /\ q[c] = "sent" => got' = [got EXCEPT ![c] = After(c)],
         stored' \in {stored, q, Empty},
         shown' \in IF run[r].here THEN {shown, q, Empty} ELSE {shown}
  PROVE  MarksInv'
<1> DEFINE old == run[r].queue
<1>1. /\ run'[r] = new /\ \A s \in Runs \ {r} : run'[s] = run[s]
  BY MovesParts
<1>2. old \in Queue /\ shown \in Queue /\ got \in [Numbers -> 0..2]
  BY DEF TypeOK, RunState
<1>3. \A n \in Numbers : /\ q[n] # "none" => old[n] # "none"
                         /\ q[n] = "pending" => old[n] = "pending"
                         /\ Empty[n] = "none"
  BY DEF Pending, Empty
<1>4. Claims(stored) /\ Claims(shown) /\ (\A s \in Runs : Claims(run[s].queue))
  BY HonestParts DEF MarksInv
<1>5. \A n \in Numbers : got'[n] # got[n] => n = c /\ old[n] = "pending" /\ got'[n] = 1
  <2>1. c \in Pending(old) => After(c) = 1
    BY <1>4 DEF After, Claims, Pending
  <2> QED
    BY <1>2, <2>1 DEF Pending
<1>6. \A n \in Numbers : got'[n] \in 0..1
  BY <1>2, <1>5 DEF MarksInv, SentOnce
<1>7. c \in Pending(old) => got' = got \/ got'[c] = 1
  BY <1>2, <1>5 DEF Pending
<1>8. NoRival'
  <2> SUFFICES ASSUME NEW t \in Runs, NEW n \in Pending(run'[t].queue)
               PROVE  /\ \A s \in Runs \ {t} : run'[s].queue[n] # "none" => n \in excused'
                      /\ shown'[n] \in {"sent", "failed"} => n \in excused'
                      /\ ~run'[t].here /\ shown'[n] # "none" => n \in excused'
    BY DEF NoRival, Pending
  <2>1. n \in Numbers /\ n \in Pending(run[t].queue)
    BY <1>1, <1>3 DEF Pending
  <2>2. \A s \in Runs : run'[s].queue[n] # "none" => run[s].queue[n] # "none"
    BY <1>1, <1>3, <2>1
  <2>3. run'[t].here = run[t].here
    BY <1>1, <1>3 DEF Pending
  <2>4. /\ \A s \in Runs \ {t} : run[s].queue[n] # "none" => n \in excused'
        /\ shown[n] \in {"sent", "failed"} => n \in excused'
        /\ ~run[t].here /\ shown[n] # "none" => n \in excused'
    BY <2>1 DEF MarksInv, NoRival
  <2>5. CASE shown' = shown
    BY <2>2, <2>3, <2>4, <2>5
  <2>6. CASE shown' = Empty
    BY <1>3, <2>1, <2>2, <2>4, <2>6
  <2>7. CASE shown' = q /\ run[r].here
    <3>1. CASE t = r
      <4>1. q[n] = "pending"
        BY <1>1, <1>3, <2>1, <3>1 DEF Pending
      <4> QED
        BY <2>2, <2>3, <2>4, <2>7, <3>1, <4>1
    <3>2. CASE t # r
      BY <1>3, <2>1, <2>2, <2>4, <2>7, <3>2
    <3> QED
      BY <3>1, <3>2
  <2> QED
    BY <2>5, <2>6, <2>7
<1>9. Claims(q)'
  <2> SUFFICES ASSUME NEW n \in Numbers
               PROVE  /\ q[n] = "sent" => got'[n] >= 1
                      /\ q[n] \in {"pending", "failed"} => got'[n] = 0 \/ n \in excused'
    BY DEF Claims
  <2>1. got[n] \in 0..2
    BY <1>2
  <2>2. /\ old[n] = "sent" => got[n] >= 1
        /\ old[n] \in {"pending", "failed"} => got[n] = 0 \/ n \in excused'
    BY <1>4 DEF Claims
  <2>3. CASE q[n] = old[n] /\ ~(n = c /\ c \in Pending(old))
    BY <1>5, <2>1, <2>2, <2>3 DEF Pending
  <2>4. CASE n = c /\ c \in Pending(old)
    <3>1. q[n] = "sent" => got'[n] = 1
      <4>1. ASSUME q[n] = "sent" PROVE got'[n] = 1
        <5>1. got'[n] = After(c)
          BY <1>2, <2>4, <4>1
        <5> QED
          BY <1>4, <2>4, <5>1 DEF After, Claims, Pending
      <4> QED
        BY <4>1
    <3>2. old[n] = "pending"
      BY <2>4 DEF Pending
    <3>3. q[n] # "sent" /\ got' # got => n \in excused'
      BY <2>4
    <3> QED
      BY <2>1, <2>2, <3>1, <3>2, <3>3
  <2> QED
    BY <2>3, <2>4
<1>10. \A s \in Runs \ {r} : Claims(run[s].queue)'
  <2> SUFFICES ASSUME NEW s \in Runs \ {r}, NEW n \in Numbers
               PROVE  /\ run'[s].queue[n] = "sent" => got'[n] >= 1
                      /\ run'[s].queue[n] \in {"pending", "failed"}
                           => got'[n] = 0 \/ n \in excused'
    BY DEF Claims
  <2>1. /\ run[s].queue[n] = "sent" => got[n] >= 1
        /\ run[s].queue[n] \in {"pending", "failed"} => got[n] = 0 \/ n \in excused'
    BY <1>4 DEF Claims
  <2>2. got'[n] # got[n] /\ run[s].queue[n] # "none" => n \in excused'
    BY <1>5 DEF MarksInv, NoRival, Pending
  <2> QED
    BY <1>1, <1>2, <1>5, <2>1, <2>2
<1>11. Claims(stored)'
  <2>1. CASE stored' = stored
    <3> SUFFICES ASSUME NEW n \in Numbers
                 PROVE  /\ stored[n] = "sent" => got'[n] >= 1
                        /\ stored[n] \in {"pending", "failed"} => got'[n] = 0 \/ n \in excused'
      BY <2>1 DEF Claims
    <3>1. /\ stored[n] = "sent" => got[n] >= 1
          /\ stored[n] \in {"pending", "failed"} => got[n] = 0 \/ n \in excused'
      BY <1>4 DEF Claims
    <3>2. got'[n] # got[n] => n \in excused' \/ stored' \in {q, Empty}
      BY <1>5
    <3>3. CASE stored' \in {q, Empty}
      BY <1>9, <2>1, <3>3, EmptyClaims DEF Claims
    <3>4. CASE got'[n] = got[n] \/ n \in excused'
      BY <1>2, <1>5, <3>1, <3>4
    <3> QED
      BY <3>2, <3>3, <3>4
  <2>2. CASE stored' = q
    BY <1>9, <2>2 DEF Claims
  <2>3. CASE stored' = Empty
    BY <2>3 DEF Claims, Empty
  <2> QED
    BY <2>1, <2>2, <2>3
<1>12. Claims(shown)'
  <2>1. CASE shown' = shown
    <3> SUFFICES ASSUME NEW n \in Numbers
                 PROVE  /\ shown[n] = "sent" => got'[n] >= 1
                        /\ shown[n] \in {"pending", "failed"} => got'[n] = 0 \/ n \in excused'
      BY <2>1 DEF Claims
    <3>1. /\ shown[n] = "sent" => got[n] >= 1
          /\ shown[n] \in {"pending", "failed"} => got[n] = 0 \/ n \in excused'
      BY <1>4 DEF Claims
    <3>2. CASE got'[n] = got[n] \/ n \in excused'
      BY <1>2, <1>5, <3>1, <3>2
    <3>3. CASE run[r].here /\ shown' \in {q, Empty}
      BY <1>9, <2>1, <3>3, EmptyClaims DEF Claims
    <3>4. CASE got'[n] # got[n] /\ ~run[r].here /\ n \notin excused'
      <4>1. n \in Pending(old) /\ n \notin excused
        BY <1>5, <3>4 DEF Pending
      <4>2. shown[n] = "none"
        BY <3>4, <4>1 DEF MarksInv, NoRival
      <4> QED
        BY <4>2
    <3> QED
      BY <1>5, <3>2, <3>3, <3>4
  <2>2. CASE shown' = q
    BY <1>9, <2>2 DEF Claims
  <2>3. CASE shown' = Empty
    BY <2>3 DEF Claims, Empty
  <2> QED
    BY <2>1, <2>2, <2>3
<1>13. Claims(run[r].queue)'
  BY <1>1, <1>9, EmptyClaims DEF Claims
<1>14. HonestMarks'
  BY <1>10, <1>11, <1>12, <1>13 DEF HonestMarks, Claims
<1> QED
  BY <1>6, <1>8, <1>14 DEF MarksInv, SentOnce

\* A handler that gives run r the queue q.
LEMMA LaunchKeeps ==
  ASSUME TypeOK, MarksInv, NEW r \in Runs, NEW new, NEW q \in Queue, NEW here \in BOOLEAN,
         Moves(r, new),
         new.queue \in {q, Empty}, new.queue = Empty \/ new.here = here,
         stored' \in {q, Empty}, shown' \in IF here THEN {q, Empty} ELSE {shown},
         got' = got, excused \subseteq excused', Claims(q)',
         \A n \in Numbers, s \in Runs \ {r} :
           q[n] # "none" /\ n \in Pending(run[s].queue) => n \in excused',
         \A n \in Pending(q), s \in Runs \ {r} : run[s].queue[n] # "none" => n \in excused',
         ~here => \A n \in Pending(q) : shown[n] # "none" => n \in excused'
  PROVE  MarksInv'
<1>1. /\ run'[r] = new /\ \A s \in Runs \ {r} : run'[s] = run[s]
  BY MovesParts
<1>2. Claims(stored) /\ Claims(shown) /\ (\A s \in Runs : Claims(run[s].queue))
  BY HonestParts DEF MarksInv
<1>3. \A n \in Numbers : Empty[n] = "none"
  BY DEF Empty
<1>4. ASSUME NEW old, Claims(old) PROVE Claims(old)'
  BY <1>4 DEF Claims
<1>5. Claims(stored)' /\ Claims(shown)'
  BY <1>2, <1>4, EmptyClaims DEF Claims
<1>6. \A s \in Runs : Claims(run[s].queue)'
  BY <1>1, <1>2, <1>4, EmptyClaims DEF Claims
<1>7. NoRival'
  <2> SUFFICES ASSUME NEW t \in Runs, NEW n \in Pending(run'[t].queue)
               PROVE  /\ \A s \in Runs \ {t} : run'[s].queue[n] # "none" => n \in excused'
                      /\ shown'[n] \in {"sent", "failed"} => n \in excused'
                      /\ ~run'[t].here /\ shown'[n] # "none" => n \in excused'
    BY DEF NoRival, Pending
  <2>1. n \in Numbers
    BY DEF Pending
  <2>2. CASE t = r
    <3>1. n \in Pending(q) /\ run'[t].here = here
      BY <1>1, <1>3, <2>1, <2>2 DEF Pending
    <3>2. \A s \in Runs \ {t} : run'[s].queue[n] # "none" => n \in excused'
      BY <1>1, <2>2, <3>1
    <3>3. CASE here
      BY <1>3, <2>1, <3>1, <3>2, <3>3 DEF Pending
    <3>4. CASE ~here
      BY <3>1, <3>2, <3>4
    <3> QED
      BY <3>3, <3>4
  <2>3. CASE t # r
    <3>1. n \in Pending(run[t].queue) /\ run'[t] = run[t]
      BY <1>1, <2>3
    <3>2. /\ \A s \in Runs \ {t} : run[s].queue[n] # "none" => n \in excused
          /\ shown[n] \in {"sent", "failed"} => n \in excused
          /\ ~run[t].here /\ shown[n] # "none" => n \in excused
      BY <3>1 DEF MarksInv, NoRival
    <3>3. q[n] # "none" => n \in excused'
      BY <2>1, <2>3, <3>1
    <3>4. \A s \in Runs \ {t} : run'[s].queue[n] # "none" => n \in excused'
      BY <1>1, <1>3, <2>1, <3>2, <3>3
    <3>5. shown'[n] \notin {"none", shown[n]} => n \in excused'
      BY <1>3, <2>1, <3>3
    <3> QED
      BY <3>1, <3>2, <3>4, <3>5
  <2> QED
    BY <2>2, <2>3
<1>8. HonestMarks'
  BY <1>5, <1>6 DEF HonestMarks, Claims
<1> QED
  BY <1>7, <1>8 DEF MarksInv, SentOnce

\* A new queue from the vault.
LEMMA AskKeeps ==
  ASSUME TypeOK, MarksInv, NEW r \in Runs, NEW vault \in SUBSET Numbers,
         NEW here \in BOOLEAN, NEW auto \in BOOLEAN,
         Launch(r, NewQueue(vault), here, auto), AskAgain(vault, here)
  PROVE  MarksInv'
<1> DEFINE q == NewQueue(vault)
<1>1. q \in Queue /\ \A n \in Numbers : /\ q[n] \in {"pending", "none"}
                                        /\ q[n] = "pending" => n \in vault
  BY NewQueueType DEF NewQueue
<1>2. got \in [Numbers -> 0..2]
  BY DEF TypeOK
<1>3. /\ stored' \in {q, Empty} /\ shown' \in IF here THEN {q, Empty} ELSE {shown}
      /\ got' = got
  BY <1>1, LaunchParts
<1>4. PICK new : /\ Moves(r, new)
                 /\ new = Off \/ (new.here = here /\ new.queue = q)
  BY <1>1, LaunchParts
<1>5. new.queue \in {q, Empty} /\ (new.queue = Empty \/ new.here = here)
  BY <1>4 DEF Off
<1>6. /\ excused \subseteq excused'
      /\ \A n \in vault : got[n] > 0 \/ n \in Held \/ (~here /\ shown[n] # "none")
                         => n \in excused'
  BY DEF AskAgain
<1>7. Claims(q)'
  BY <1>1, <1>2, <1>3, <1>6 DEF Claims
<1>8. \A n \in Numbers, s \in Runs : run[s].queue[n] # "none" => n \in Held
  BY DEF Held
<1>9. \A n \in Numbers, s \in Runs \ {r} :
        q[n] # "none" /\ n \in Pending(run[s].queue) => n \in excused'
  BY <1>1, <1>6, <1>8 DEF Pending
<1>10. \A n \in Pending(q), s \in Runs \ {r} : run[s].queue[n] # "none" => n \in excused'
  BY <1>1, <1>6, <1>8 DEF Pending
<1>11. ~here => \A n \in Pending(q) : shown[n] # "none" => n \in excused'
  BY <1>1, <1>6 DEF Pending
<1> HIDE DEF q
<1> QED
  BY <1>1, <1>3, <1>4, <1>5, <1>6, <1>7, <1>9, <1>10, <1>11, LaunchKeeps

\* The queue that the page shows, merged with the vault.
LEMMA ResumeKeeps ==
  ASSUME TypeOK, MarksInv, NEW r \in Runs, Resume(r)
  PROVE  MarksInv'
<1>0. PICK vault, q :
        /\ vault \in SUBSET Numbers /\ q = Merged(shown, vault)
        /\ Launch(r, Merged(shown, vault), TRUE, FALSE)
        /\ excused' = excused \cup
             {n \in Pending(Merged(shown, vault)) : shown[n] # "pending" \/ n \in Held}
  BY DEF Resume
<1>1. /\ Launch(r, q, TRUE, FALSE)
      /\ excused' = excused \cup {n \in Pending(q) : shown[n] # "pending" \/ n \in Held}
  BY <1>0
<1>2. q \in Queue /\ \A n \in Numbers :
        q[n] # "none" => \/ q[n] = "pending"
                         \/ q[n] = shown[n] /\ shown[n] \in {"sent", "failed"}
  BY <1>0, MergedType DEF Merged, TypeOK
<1>3. /\ stored' \in {q, Empty} /\ shown' \in {q, Empty} /\ got' = got
  BY <1>1, <1>2, LaunchParts
<1>4. PICK new : /\ Moves(r, new)
                 /\ new = Off \/ (new.here = TRUE /\ new.queue = q)
  <2>1. q \in Queue
    BY <1>2
  <2> QED
    BY <1>1, <2>1, LaunchHere
<1>5. new.queue \in {q, Empty} /\ (new.queue = Empty \/ new.here = TRUE)
  BY <1>4 DEF Off
<1>6. /\ excused \subseteq excused'
      /\ \A n \in Pending(q) : shown[n] # "pending" \/ n \in Held => n \in excused'
  BY <1>1
<1>7. Claims(shown)
  BY HonestParts DEF MarksInv
<1>8. Claims(q)'
  <2> SUFFICES ASSUME NEW n \in Numbers
               PROVE  /\ q[n] = "sent" => got[n] >= 1
                      /\ q[n] \in {"pending", "failed"} => got[n] = 0 \/ n \in excused'
    BY <1>3 DEF Claims
  <2>1. n \in Pending(q) <=> q[n] = "pending"
    BY DEF Pending
  <2> QED
    BY <1>2, <1>6, <1>7, <2>1 DEF Claims
<1>9. \A n \in Numbers, s \in Runs : run[s].queue[n] # "none" => n \in Held
  BY DEF Held
<1>10. \A n \in Pending(q), s \in Runs \ {r} : run[s].queue[n] # "none" => n \in excused'
  BY <1>6, <1>9 DEF Pending
<1>11. \A n \in Numbers, s \in Runs \ {r} :
         q[n] # "none" /\ n \in Pending(run[s].queue) => n \in excused'
  <2> SUFFICES ASSUME NEW n \in Numbers, NEW s \in Runs \ {r},
                      q[n] # "none", n \in Pending(run[s].queue)
               PROVE  n \in excused'
    OBVIOUS
  <2>1. CASE q[n] = "pending"
    BY <1>10, <2>1 DEF Pending
  <2>2. CASE shown[n] \in {"sent", "failed"}
    BY <1>6, <2>2 DEF MarksInv, NoRival
  <2> QED
    BY <1>2, <2>1, <2>2
<1> QED
  BY <1>2, <1>3, <1>4, <1>5, <1>6, <1>8, <1>10, <1>11, LaunchKeeps

-----------------------------------------------------------------------------
(* The steps                                                               *)

LEMMA InitOK == Init => TypeOK /\ MarksInv
<1> SUFFICES ASSUME Init PROVE TypeOK /\ MarksInv
  OBVIOUS
<1>1. \A r \in Runs : run[r] = Off /\ RunOK(run[r])
  BY EmptyType DEF Init
<1>2. TypeOK
  <2>1. got \in [Numbers -> 0..2] /\ excused \in SUBSET Numbers /\ run = [r \in Runs |-> run[r]]
    BY DEF Init
  <2> QED
    BY <1>1, <2>1, EmptyType, TypeParts DEF Init
<1>3. \A r \in Runs : run[r].queue = Empty
  BY <1>1 DEF Off
<1>4. HonestMarks
  BY <1>3, EmptyClaims, HonestParts DEF Init
<1>5. NoRival
  BY <1>3, EmptyType DEF NoRival
<1> QED
  BY <1>2, <1>4, <1>5 DEF Init, MarksInv, SentOnce

\* Only run r has changed, and the page is busy only if it was before and still is.
LEMMA TypeKept ==
  ASSUME TypeOK, NEW r \in Runs, NEW new, Moves(r, new),
         stored' \in Queue, shown' \in Queue, busy' \in BOOLEAN, abort' \in BOOLEAN,
         got' \in [Numbers -> 0..2], excused' \in SUBSET Numbers,
         busy' => \/ new.here /\ new.at \in Live
                  \/ busy /\ ~(run[r].here /\ run[r].at \in Live)
  PROVE  TypeOK'
<1>1. /\ run' = [s \in Runs |-> run'[s]]
      /\ run'[r] = new /\ \A s \in Runs \ {r} : run'[s] = run[s]
      /\ \A s \in Runs : RunOK(run'[s])
  BY MovesParts
<1>2. busy' => \E s \in Runs : run'[s].here /\ run'[s].at \in Live
  BY <1>1, TypeParts
<1>3. run' \in [Runs -> RunState]
  BY <1>1 DEF RunOK
<1> QED
  BY <1>1, <1>2, <1>3 DEF TypeOK, RunOK, Live

LEMMA AfterType ==
  ASSUME TypeOK, NEW n \in Numbers
  PROVE  [got EXCEPT ![n] = After(n)] \in [Numbers -> 0..2]
BY DEF TypeOK, After

LEMMA LaunchType ==
  ASSUME TypeOK, NEW r \in Runs, run[r].at \in {"off", "prepare"}, NEW queue \in Queue,
         NEW here \in BOOLEAN, NEW auto \in BOOLEAN, Launch(r, queue, here, auto),
         excused' \in SUBSET Numbers
  PROVE  TypeOK'
<1>1. PICK new : /\ Moves(r, new)
                 /\ \/ new = Off /\ (here => ~busy')
                    \/ new.at = "send" /\ new.here = here /\ new.queue = queue
  BY LaunchParts
<1>2. /\ stored' \in {queue, Empty} /\ shown' \in {queue, Empty, shown}
      /\ (~here => busy' = busy) /\ busy' \in BOOLEAN /\ abort' \in BOOLEAN /\ got' = got
  BY LaunchParts
<1>3. ~(run[r].at \in Live)
  BY DEF Live
<1>4. busy' => \/ new.here /\ new.at \in Live
               \/ busy /\ ~(run[r].here /\ run[r].at \in Live)
  BY <1>1, <1>2, <1>3 DEF Live
<1> QED
  BY <1>1, <1>2, <1>4, EmptyType, TypeKept DEF TypeOK

\* A contact of run r is settled, with or without a delivery.
LEMMA SettleOK ==
  ASSUME TypeOK, MarksInv, NEW r \in Runs, run[r].at \in {"send", "retry"},
         NEW status \in {"sent", "failed"}, Settle(r, status),
         excused' \in SUBSET Numbers, excused \subseteq excused',
         \/ got' = got /\ status = "failed"
         \/ /\ got' = [got EXCEPT ![run[r].contact] = After(run[r].contact)]
            /\ status = "sent" \/ run[r].contact \in excused'
  PROVE  TypeOK' /\ MarksInv'
<1>1. PICK q, c : q = Settled(r, status) /\ c = run[r].contact
  OBVIOUS
<1>2. PICK new : /\ Moves(r, new)
                 /\ \/ new = Off
                    \/ new.at = "pause" /\ new.here = run[r].here /\ new.queue = q
                 /\ new = Off /\ run[r].here => ~busy'
  BY <1>1, SettleParts
<1>3. /\ q \in Queue /\ stored' \in {q, Empty}
      /\ shown' \in IF run[r].here THEN {q, Empty} ELSE {shown}
      /\ busy' \in {busy, FALSE} /\ abort' = abort
  BY <1>1, SettleParts
<1>4. /\ c \in Pending(run[r].queue) /\ c \in Numbers /\ run[r].queue \in Queue
  BY <1>1 DEF TypeOK, RunState, Pending
<1>5. got' \in [Numbers -> 0..2]
  BY <1>1, <1>4, AfterType DEF TypeOK
<1>6. new.queue \in {q, Empty} /\ (new.queue = Empty \/ new.here = run[r].here)
  BY <1>2 DEF Off
<1>7. busy' => \/ new.here /\ new.at \in Live
               \/ busy /\ ~(run[r].here /\ run[r].at \in Live)
  BY <1>2, <1>3 DEF Live, TypeOK
<1>8. TypeOK'
  BY <1>2, <1>3, <1>5, <1>7, EmptyType, TypeKept DEF TypeOK
<1>9. q[c] = status /\ \A n \in Numbers : q[n] = run[r].queue[n] \/ (n = c /\ q[n] = status)
  BY <1>1, <1>4 DEF Queue, Settled
<1>10. shown' \in IF run[r].here THEN {shown, q, Empty} ELSE {shown}
  BY <1>3
<1>11. run[r].here => shown' \in {q, Empty}
  BY <1>3
<1>12. \A n \in Numbers :
         \/ q[n] = run[r].queue[n]
         \/ n = c /\ c \in Pending(run[r].queue) /\ q[n] \in {"sent", "failed"}
  BY <1>4, <1>9
<1>13. got' = got \/ (c \in Pending(run[r].queue) /\ got' = [got EXCEPT ![c] = After(c)])
  BY <1>1, <1>4
<1>14. got' # got => \/ c \in excused'
                     \/ /\ q[c] = "sent" /\ stored' \in {q, Empty}
                        /\ run[r].here => shown' \in {q, Empty}
  BY <1>1, <1>3, <1>9, <1>11
<1>15. q[c] = "sent" => got' = [got EXCEPT ![c] = After(c)]
  BY <1>1, <1>9
<1>16. Moves(r, new) /\ q \in Queue /\ stored' \in {stored, q, Empty}
  BY <1>2, <1>3
<1>17. MarksInv'
  BY <1>6, <1>10, <1>12, <1>13, <1>14, <1>15, <1>16, LoopKeeps
<1> QED
  BY <1>8, <1>17

\* A run moves on and nothing is delivered.
LEMMA QuietOK ==
  ASSUME TypeOK, MarksInv, NEW r \in Runs, NEW new, Moves(r, new),
         new.queue \in {run[r].queue, Empty}, new.queue = Empty \/ new.here = run[r].here,
         got' = got, excused' = excused, busy' \in BOOLEAN, abort' \in BOOLEAN,
         stored' \in {stored, run[r].queue},
         shown' \in IF run[r].here THEN {shown, run[r].queue} ELSE {shown},
         busy' => \/ new.here /\ new.at \in Live
                  \/ busy /\ ~(run[r].here /\ run[r].at \in Live)
  PROVE  TypeOK' /\ MarksInv'
<1>1. PICK q, c : q = run[r].queue /\ c = run[r].contact
  OBVIOUS
<1>2. q \in Queue
  BY <1>1 DEF TypeOK, RunState
<1>3. TypeOK'
  BY <1>1, <1>2, TypeKept DEF TypeOK
<1>4. c \in Pending(run[r].queue) => q[c] # "sent"
  BY <1>1 DEF Pending
<1>5. MarksInv'
  BY <1>1, <1>2, <1>4, LoopKeeps
<1> QED
  BY <1>3, <1>5

LEMMA StartOK ==
  ASSUME TypeOK, MarksInv, NEW r \in Runs, Start(r)
  PROVE  TypeOK' /\ MarksInv'
<1>1. PICK vault \in SUBSET Numbers, here \in BOOLEAN, auto \in BOOLEAN :
         Launch(r, NewQueue(vault), here, auto) /\ AskAgain(vault, here)
  BY DEF Start
<1>2. excused' \in SUBSET Numbers
  BY <1>1 DEF AskAgain, TypeOK
<1>3. run[r].at \in {"off", "prepare"} /\ NewQueue(vault) \in Queue
  BY NewQueueType DEF Start
<1> QED
  BY <1>1, <1>2, <1>3, AskKeeps, LaunchType

LEMMA PreparedOK ==
  ASSUME TypeOK, MarksInv, NEW r \in Runs, Prepared(r)
  PROVE  TypeOK' /\ MarksInv'
<1>1. run[r].here \in BOOLEAN
  BY DEF TypeOK, RunState
<1>2. PICK vault \in SUBSET Numbers, here \in BOOLEAN, auto \in BOOLEAN :
         Launch(r, NewQueue(vault), here, auto) /\ AskAgain(vault, here)
  BY <1>1 DEF Prepared
<1>3. excused' \in SUBSET Numbers
  BY <1>2 DEF AskAgain, TypeOK
<1>4. run[r].at \in {"off", "prepare"} /\ NewQueue(vault) \in Queue
  BY NewQueueType DEF Prepared
<1> QED
  BY <1>2, <1>3, <1>4, AskKeeps, LaunchType

LEMMA ResumeOK ==
  ASSUME TypeOK, MarksInv, NEW r \in Runs, Resume(r)
  PROVE  TypeOK' /\ MarksInv'
<1>1. PICK vault, q :
        /\ vault \in SUBSET Numbers /\ q = Merged(shown, vault) /\ Launch(r, q, TRUE, FALSE)
        /\ excused' = excused \cup {n \in Pending(q) : shown[n] # "pending" \/ n \in Held}
  BY DEF Resume
<1>2. q \in Queue /\ excused' \in SUBSET Numbers
  BY <1>1, MergedType DEF TypeOK, Pending
<1>3. PICK here \in BOOLEAN, auto \in BOOLEAN : Launch(r, q, here, auto)
  BY <1>1
<1>4. run[r].at \in {"off", "prepare"}
  BY DEF Resume
<1>5. TypeOK'
  BY <1>2, <1>3, <1>4, LaunchType
<1> QED
  BY <1>5, ResumeKeeps

LEMMA AutomateOK ==
  ASSUME TypeOK, MarksInv, NEW r \in Runs, Automate(r)
  PROVE  TypeOK' /\ MarksInv'
<1> DEFINE old == Off
           mid == [old EXCEPT !.at = "prepare"]
           new == [mid EXCEPT !.auto = TRUE]
<1>1. old \in RunState /\ old.queue = Empty /\ old.contact = NoContact
  BY EmptyType DEF RunOK, Off
<1> HIDE DEF old
<1>2. mid \in RunState /\ mid.queue = Empty /\ mid.contact = NoContact /\ mid.at = "prepare"
  BY <1>1 DEF RunState
<1> HIDE DEF mid
<1>3. new \in RunState /\ new.queue = Empty /\ new.contact = NoContact /\ new.at = "prepare"
  BY <1>2 DEF RunState
<1>4. run' = [run EXCEPT ![r] = new]
  BY DEF Automate, mid, old
<1> HIDE DEF new
<1>5. Moves(r, new)
  BY <1>3, <1>4 DEF Moves, RunOK
<1>6. /\ ~(run[r].at \in Live) /\ abort' = FALSE
      /\ UNCHANGED <<stored, shown, busy, got, excused>>
  BY DEF Automate, Live
<1> QED
  BY <1>3, <1>5, <1>6, QuietOK DEF TypeOK

LEMMA AbandonOK ==
  ASSUME TypeOK, MarksInv, NEW r \in Runs, Abandon(r)
  PROVE  TypeOK' /\ MarksInv'
<1>1. Moves(r, Off) /\ Off.queue = Empty
  BY EmptyType DEF Abandon, Moves, Off
<1>2. ~(run[r].at \in Live) /\ UNCHANGED <<stored, shown, busy, abort, got, excused>>
  BY DEF Abandon, Live
<1> QED
  BY <1>1, <1>2, QuietOK DEF TypeOK

LEMMA SentOK ==
  ASSUME TypeOK, MarksInv, NEW r \in Runs, Sent(r)
  PROVE  TypeOK' /\ MarksInv'
<1>1. /\ run[r].at \in {"send", "retry"} /\ Settle(r, "sent") /\ excused' = excused
      /\ got' = [got EXCEPT ![run[r].contact] = After(run[r].contact)]
  BY DEF Sent, Deliver
<1> QED
  BY <1>1, SettleOK DEF TypeOK

LEMMA GiveUpOK ==
  ASSUME TypeOK, MarksInv, NEW r \in Runs, GiveUp(r)
  PROVE  TypeOK' /\ MarksInv'
<1>1. /\ run[r].at \in {"send", "retry"} /\ Settle(r, "failed") /\ excused' = excused
      /\ got' = got
  BY DEF GiveUp
<1> QED
  BY <1>1, SettleOK DEF TypeOK

\* A request that has failed and is to be tried again.
LEMMA RetryOK ==
  ASSUME TypeOK, MarksInv, NEW r \in Runs, run[r].at = "send",
         run[r].attempt < MaxAttempts,
         To(r, "retry", run[r].queue, run[r].contact, run[r].attempt), UNCHANGED page,
         excused' \in SUBSET Numbers, excused \subseteq excused',
         \/ got' = got
         \/ /\ got' = [got EXCEPT ![run[r].contact] = After(run[r].contact)]
            /\ run[r].contact \in excused'
  PROVE  TypeOK' /\ MarksInv'
<1>1. PICK q, c : q = run[r].queue /\ c = run[r].contact
  OBVIOUS
<1>2. /\ c \in Pending(q) /\ c \in Numbers /\ q \in Queue /\ c # NoContact
      /\ run[r].attempt \in 0..MaxAttempts
  BY <1>1 DEF TypeOK, RunState, Pending
<1>3. PICK new : /\ Moves(r, new)
                 /\ new.at = "retry" /\ new.here = run[r].here /\ new.queue = q
  BY <1>1, <1>2, ToMoves DEF Live
<1>4. got' \in [Numbers -> 0..2]
  BY <1>1, <1>2, AfterType DEF TypeOK
<1>5. stored' = stored /\ shown' = shown /\ busy' = busy /\ abort' = abort
  BY DEF page
<1>6. busy' => (new.here /\ new.at \in Live) \/ (busy /\ ~(run[r].here /\ run[r].at \in Live))
  BY <1>3, <1>5 DEF Live, TypeOK, RunState
<1>7. TypeOK'
  BY <1>3, <1>4, <1>5, <1>6, TypeKept DEF TypeOK
<1>8. q[c] = "pending"
  BY <1>2 DEF Pending
<1>9. got' = got \/ (c \in Pending(run[r].queue) /\ got' = [got EXCEPT ![c] = After(c)])
  BY <1>1, <1>2
<1>10. got' # got => c \in excused'
  BY <1>1
<1>11. MarksInv'
  BY <1>1, <1>2, <1>3, <1>5, <1>8, <1>9, <1>10, LoopKeeps
<1> QED
  BY <1>7, <1>11

LEMMA RefusedOK ==
  ASSUME TypeOK, MarksInv, NEW r \in Runs, Refused(r)
  PROVE  TypeOK' /\ MarksInv'
<1>1. run[r].at = "send" /\ Error(r) /\ got' = got /\ excused' = excused
  BY DEF Refused
<1>2. CASE Settle(r, "failed")
  BY <1>1, <1>2, SettleOK DEF TypeOK
<1>3. CASE /\ run[r].attempt < MaxAttempts
           /\ To(r, "retry", run[r].queue, run[r].contact, run[r].attempt)
           /\ UNCHANGED page
  BY <1>1, <1>3, RetryOK DEF TypeOK
<1> QED
  BY <1>1, <1>2, <1>3 DEF Error

LEMMA LostOK ==
  ASSUME TypeOK, MarksInv, NEW r \in Runs, Lost(r)
  PROVE  TypeOK' /\ MarksInv'
<1>1. /\ run[r].at = "send" /\ Error(r)
      /\ excused' = excused \cup {run[r].contact}
      /\ \/ got' = got
         \/ got' = [got EXCEPT ![run[r].contact] = After(run[r].contact)]
  BY DEF Lost, Deliver
<1>2. run[r].contact \in Numbers
  BY <1>1 DEF TypeOK, RunState
<1>3. /\ excused' \in SUBSET Numbers /\ excused \subseteq excused'
      /\ run[r].contact \in excused'
  BY <1>1, <1>2 DEF TypeOK
<1>4. CASE Settle(r, "failed")
  BY <1>1, <1>3, <1>4, SettleOK
<1>5. CASE /\ run[r].attempt < MaxAttempts
           /\ To(r, "retry", run[r].queue, run[r].contact, run[r].attempt)
           /\ UNCHANGED page
  BY <1>1, <1>3, <1>5, RetryOK
<1> QED
  BY <1>1, <1>4, <1>5 DEF Error

LEMMA AgainOK ==
  ASSUME TypeOK, MarksInv, NEW r \in Runs, Again(r)
  PROVE  TypeOK' /\ MarksInv'
<1>1. PICK q, c : q = run[r].queue /\ c = run[r].contact
  OBVIOUS
<1>2. /\ c \in Pending(q) /\ c \in Numbers /\ q \in Queue /\ c # NoContact
      /\ run[r].attempt + 1 \in 0..MaxAttempts
  BY <1>1, QueueAssumption DEF TypeOK, RunState, Again
<1>3. To(r, "send", q, c, run[r].attempt + 1)
  BY <1>1 DEF Again
<1>4. PICK new : /\ Moves(r, new)
                 /\ new.at = "send" /\ new.here = run[r].here /\ new.queue = q
  BY <1>2, <1>3, ToMoves DEF Live
<1>5. UNCHANGED <<stored, shown, busy, abort, got, excused>>
  BY DEF Again, page
<1>6. busy' => (new.here /\ new.at \in Live) \/ (busy /\ ~(run[r].here /\ run[r].at \in Live))
  BY <1>4, <1>5 DEF Live, TypeOK, RunState
<1> QED
  BY <1>1, <1>4, <1>5, <1>6, QuietOK DEF TypeOK

LEMMA ResumedOK ==
  ASSUME TypeOK, MarksInv, NEW r \in Runs, Resumed(r)
  PROVE  TypeOK' /\ MarksInv'
<1>1. PICK q, n : q = run[r].queue /\ n \in Pending(q) /\ To(r, "send", q, n, 1)
  BY DEF Resumed
<1>2. q \in Queue /\ n \in Numbers /\ n # NoContact /\ 1 \in 0..MaxAttempts
  BY <1>1, QueueAssumption DEF TypeOK, RunState, Pending
<1>3. PICK new : /\ Moves(r, new)
                 /\ new.at = "send" /\ new.here = run[r].here /\ new.queue = q
  BY <1>1, <1>2, ToMoves DEF Live
<1>4. /\ UNCHANGED <<stored, busy, abort, got, excused>>
      /\ shown' \in IF run[r].here THEN {shown, run[r].queue} ELSE {shown}
  BY DEF Resumed
<1>5. busy' => (new.here /\ new.at \in Live) \/ (busy /\ ~(run[r].here /\ run[r].at \in Live))
  BY <1>3, <1>4 DEF Live, TypeOK, RunState
<1> QED
  BY <1>1, <1>3, <1>4, <1>5, QuietOK DEF TypeOK

LEMMA BreakOK ==
  ASSUME TypeOK, MarksInv, NEW r \in Runs, Break(r)
  PROVE  TypeOK' /\ MarksInv'
<1>1. Moves(r, Off) /\ Off.queue = Empty
  BY EmptyType DEF Break, Moves, Off
<1>2. /\ UNCHANGED <<abort, got, excused>> /\ stored' = run[r].queue
      /\ shown' \in IF run[r].here THEN {shown, run[r].queue} ELSE {shown}
      /\ busy' \in BOOLEAN /\ (busy' => busy /\ ~run[r].here)
  BY DEF Break, TypeOK
<1> QED
  BY <1>1, <1>2, QuietOK DEF TypeOK

\* The page changes and no run does.
LEMMA PageOK ==
  ASSUME TypeOK, MarksInv, UNCHANGED <<run, got, excused>>,
         stored' \in {stored, Empty}, shown' \in {shown, Empty}, busy' = busy,
         abort' \in BOOLEAN
  PROVE  TypeOK' /\ MarksInv'
<1>1. TypeOK'
  BY EmptyType DEF TypeOK
<1>2. \A n \in Numbers : Empty[n] = "none"
  BY DEF Empty
<1>3. NoRival'
  BY <1>2 DEF MarksInv, NoRival, Pending
<1>4. Claims(stored)' /\ Claims(shown)' /\ \A r \in Runs : Claims(run[r].queue)'
  BY HonestParts, EmptyClaims DEF MarksInv, Claims
<1>5. HonestMarks'
  BY <1>4 DEF HonestMarks, Claims
<1> QED
  BY <1>1, <1>3, <1>5 DEF MarksInv, SentOnce

LEMMA CancelAutomationOK ==
  ASSUME TypeOK, MarksInv, CancelAutomation
  PROVE  TypeOK' /\ MarksInv'
<1>1. \A r \in Runs : /\ run'[r] = run[r] \/ (run'[r] = Off /\ run[r].at = "prepare")
                      /\ RunOK(run'[r])
  BY EmptyType, TypeParts DEF CancelAutomation
<1>2. UNCHANGED <<stored, shown, busy, got, excused>> /\ abort' = TRUE
      /\ run' = [r \in Runs |-> run'[r]]
  BY DEF CancelAutomation
<1>3. busy' => \E r \in Runs : run'[r].here /\ run'[r].at \in Live
  BY <1>1, <1>2, TypeParts DEF Live
<1>4. run' \in [Runs -> RunState]
  BY <1>1, <1>2 DEF RunOK
<1>5. TypeOK'
  BY <1>1, <1>2, <1>3, <1>4 DEF TypeOK, RunOK, Live
<1>6. \A r \in Runs : \/ run'[r] = run[r]
                      \/ run'[r].queue = Empty
  BY <1>1 DEF Off
<1>7. \A n \in Numbers : Empty[n] = "none"
  BY DEF Empty
<1>8. NoRival'
  BY <1>2, <1>6, <1>7 DEF MarksInv, NoRival, Pending
<1>9. Claims(stored)' /\ Claims(shown)'
  BY <1>2, HonestParts DEF MarksInv, Claims
<1>10. ASSUME NEW r \in Runs PROVE Claims(run[r].queue)'
  BY <1>2, <1>6, HonestParts, EmptyClaims DEF MarksInv, Claims
<1>11. HonestMarks'
  BY <1>9, <1>10 DEF HonestMarks, Claims
<1> QED
  BY <1>2, <1>5, <1>8, <1>11 DEF MarksInv, SentOnce

LEMMA NavigateOK ==
  ASSUME TypeOK, MarksInv, Navigate
  PROVE  TypeOK' /\ MarksInv'
<1>1. /\ shown' = stored /\ stored' = stored /\ busy' = FALSE /\ abort' = FALSE
      /\ got' = got /\ excused' = excused \cup Held
  BY DEF Navigate, Mount
<1>2. ASSUME NEW r \in Runs
      PROVE  RunOK(run'[r]) /\ run'[r].queue = run[r].queue
  <2>1. RunOK(run[r])
    BY TypeParts
  <2>2. CASE run[r].at = "off"
    BY <2>1, <2>2, EmptyType DEF Navigate, RunOK
  <2>3. CASE run[r].at # "off"
    <3> DEFINE new == [at |-> run[r].at, here |-> FALSE, cut |-> Aborted(r),
                       auto |-> run[r].auto, queue |-> run[r].queue,
                       contact |-> run[r].contact, attempt |-> run[r].attempt]
    <3>1. Aborted(r) \in BOOLEAN
      BY <2>1 DEF RunOK, RunState, Aborted, TypeOK
    <3>2. new \in RunState
      BY <2>1, <3>1 DEF RunOK, RunState
    <3>3. run'[r] = new
      BY <2>3 DEF Navigate
    <3> QED
      BY <2>1, <2>3, <3>2, <3>3 DEF RunOK
  <2> QED
    BY <2>2, <2>3
<1>3. run' = [r \in Runs |-> run'[r]]
  BY DEF Navigate
<1>4. run' \in [Runs -> RunState]
  BY <1>2, <1>3 DEF RunOK
<1>5. excused' \in SUBSET Numbers
  BY <1>1 DEF Held, TypeOK
<1>6. TypeOK'
  BY <1>1, <1>2, <1>4, <1>5 DEF TypeOK, RunOK
<1>7. \A r \in Runs : \A n \in Pending(run'[r].queue) : n \in excused'
  BY <1>1, <1>2 DEF Held, Pending
<1>8. NoRival'
  BY <1>7 DEF NoRival
<1>9. Claims(stored)' /\ Claims(shown)'
  BY <1>1, HonestParts DEF MarksInv, Claims
<1>10. ASSUME NEW r \in Runs PROVE Claims(run[r].queue)'
  BY <1>1, <1>2, HonestParts DEF MarksInv, Claims
<1>11. HonestMarks'
  BY <1>9, <1>10 DEF HonestMarks, Claims
<1> QED
  BY <1>1, <1>6, <1>8, <1>11 DEF MarksInv, SentOnce

LEMMA ReloadOK ==
  ASSUME TypeOK, MarksInv, Reload
  PROVE  TypeOK' /\ MarksInv'
<1> DEFINE inFlight == {run[r].contact : r \in {s \in Runs : run[s].at = "send"}}
<1>1. /\ shown' = stored /\ stored' = stored /\ busy' = FALSE /\ abort' = FALSE
      /\ excused' = excused \cup inFlight /\ run' = [r \in Runs |-> Off]
  BY DEF Reload, Mount
<1>2. PICK late \in SUBSET inFlight :
        got' = [n \in Numbers |-> IF n \in late THEN After(n) ELSE got[n]]
  BY DEF Reload
<1>3. \A n \in inFlight : n \in Numbers /\ (got[n] = 0 \/ n \in excused)
  <2> SUFFICES ASSUME NEW r \in Runs, run[r].at = "send"
               PROVE  /\ run[r].contact \in Numbers
                      /\ got[run[r].contact] = 0 \/ run[r].contact \in excused
    OBVIOUS
  <2>1. run[r].contact \in Pending(run[r].queue)
    BY DEF TypeOK
  <2> QED
    BY <2>1, HonestParts DEF MarksInv, Claims, Pending
<1>4. \A n \in Numbers : \/ got'[n] = got[n]
                         \/ got'[n] = 1 /\ n \in excused'
  BY <1>1, <1>2, <1>3 DEF After
<1>5. \A n \in Numbers : got[n] \in 0..2 /\ got[n] <= 1
  BY DEF TypeOK, MarksInv, SentOnce
<1>6. got' \in [Numbers -> 0..2]
  BY <1>2, <1>4, <1>5
<1>7. excused' \in SUBSET Numbers
  BY <1>1, <1>3 DEF TypeOK
<1>8. \A r \in Runs : RunOK(run'[r]) /\ run'[r].queue = Empty
  BY <1>1, EmptyType DEF Off
<1>9. run' \in [Runs -> RunState]
  BY <1>1, EmptyType DEF RunOK
<1>10. TypeOK'
  BY <1>1, <1>6, <1>7, <1>8, <1>9 DEF TypeOK, RunOK
<1>11. NoRival'
  BY <1>8, EmptyType DEF NoRival
<1>12. Claims(stored)' /\ Claims(shown)'
  <2> SUFFICES ASSUME NEW n \in Numbers
               PROVE  /\ stored[n] = "sent" => got'[n] >= 1
                      /\ stored[n] \in {"pending", "failed"} => got'[n] = 0 \/ n \in excused'
    BY <1>1 DEF Claims
  <2>1. /\ stored[n] = "sent" => got[n] >= 1
        /\ stored[n] \in {"pending", "failed"} => got[n] = 0 \/ n \in excused'
    BY <1>1, HonestParts DEF MarksInv, Claims
  <2> QED
    BY <1>4, <2>1
<1>13. ASSUME NEW r \in Runs PROVE Claims(run[r].queue)'
  BY <1>8, EmptyClaims DEF Claims
<1>14. HonestMarks'
  BY <1>12, <1>13 DEF HonestMarks, Claims
<1>15. SentOnce'
  BY <1>4, <1>5 DEF SentOnce
<1> QED
  BY <1>10, <1>11, <1>14, <1>15 DEF MarksInv

LEMMA NextOK ==
  ASSUME TypeOK, MarksInv, [Next]_vars
  PROVE  TypeOK' /\ MarksInv'
<1>1. ASSUME NEW r \in Runs, User(r) PROVE TypeOK' /\ MarksInv'
  BY <1>1, StartOK, ResumeOK, AutomateOK DEF User
<1>2. ASSUME NEW r \in Runs, Loop(r) PROVE TypeOK' /\ MarksInv'
  BY <1>2, PreparedOK, AbandonOK, SentOK, RefusedOK, LostOK, AgainOK, GiveUpOK,
     ResumedOK, BreakOK DEF Loop
<1>3. CASE Cancel
  BY <1>3, PageOK DEF Cancel
<1>4. CASE Clear
  BY <1>4, PageOK DEF Clear, TypeOK
<1>5. CASE UNCHANGED vars
  BY <1>5, PageOK DEF vars, page, TypeOK
<1> QED
  BY <1>1, <1>2, <1>3, <1>4, <1>5, CancelAutomationOK, NavigateOK, ReloadOK DEF Next

-----------------------------------------------------------------------------
(* What is proved of every behaviour.                                      *)

\* The state stays of its type, and the page is blocked only while a run of its own is
\* under way (isBroadcasting of PhoneNumberGenerator.tsx), for any numbers and runs.
THEOREM QueueTypes == Spec => []TypeOK
<1>1. TypeOK /\ MarksInv /\ [Next]_vars => TypeOK' /\ MarksInv'
  BY NextOK
<1> QED
  BY <1>1, InitOK, PTL DEF Spec

\* No number gets a second message but the excused ones (PhoneNumberGenerator.tsx:635-711).
THEOREM NobodyTwice == Spec => []SentOnce
<1>1. TypeOK /\ MarksInv /\ [Next]_vars => TypeOK' /\ MarksInv'
  BY NextOK
<1>2. MarksInv => SentOnce
  BY DEF MarksInv
<1> QED
  BY <1>1, <1>2, InitOK, PTL DEF Spec

\* What a queue says of a contact is true (sendBroadcastThrottled.ts:117-134).
THEOREM MarksStayHonest == Spec => []HonestMarks
<1>1. TypeOK /\ MarksInv /\ [Next]_vars => TypeOK' /\ MarksInv'
  BY NextOK
<1>2. MarksInv => HonestMarks
  BY DEF MarksInv
<1> QED
  BY <1>1, <1>2, InitOK, PTL DEF Spec
=============================================================================
