-------------------------- MODULE SessionSerialProofs --------------------------
(***************************************************************************)
(* Proofs about SessionLifecycle when requests do not overlap: one request *)
(* and one reconnect attempt at a time, and stop and delete only between   *)
(* attempts, for any number of engines, budgets, attempts allowed and      *)
(* pending writes.  The theorems are false without it: requests that       *)
(* overlap open two browsers, and clobber each other's updates.            *)
(***************************************************************************)
EXTENDS SessionLifecycleProofs

Serial ==
  /\ QuietCalls
  /\ \A a, b \in ApiCalls : a = b
  /\ \A a, b \in Attempts : a = b

AttemptsIdle == \A a \in Attempts : Idle(a)

\* Only the budget in the map has a timer, and a session without engine, or that is
\* being stopped, has none and is in no reconnect attempt.
BudgetInv ==
  /\ \A b \in Budgets : timer[b] => budget = b
  /\ stopping \/ registered = None => budget = None /\ AttemptsIdle

\* Whoever awaits an engine awaits the registered one, but for initialize().
AwaitsRegistered(p) ==
  /\ pc[p] = "start.hook" => p \in ApiCalls /\ ~stopping /\ registered = None
  /\ pc[p] \in {"stop.close", "delete.close"} =>
       p \in ApiCalls /\ stopping /\ eng[p] = registered
  /\ pc[p] = "reconnect.close" => p \in Attempts /\ eng[p] = registered
  /\ pc[p] = "init.status" =>
       /\ eng[p] = registered
       /\ \A e \in Engines : ~client[e]
       /\ p \in ApiCalls => AttemptsIdle /\ \A b \in Budgets : ~timer[b]
  /\ pc[p] # "reconnect.undo"

\* Only the registered engine has an open client.
OpenIsRegistered == \A e \in Engines : client[e] => registered = e

SerialInv ==
  TypeInv /\ BudgetInv /\ OpenIsRegistered /\ \A p \in Procs : AwaitsRegistered(p)

-----------------------------------------------------------------------------
(* Steps of the processes.                                                 *)

\* What is to be shown of every step, types apart.
Kept == BudgetInv' /\ OpenIsRegistered' /\ \A q \in Procs : AwaitsRegistered(q)'

LEMMA Moved ==
  ASSUME TypeInv, NEW p \in Procs, NEW l, NEW e, Goto(p, l, e)
  PROVE  /\ pc'[p] = l /\ eng'[p] = e
         /\ \A q \in Procs : q # p => pc'[q] = pc[q] /\ eng'[q] = eng[q]
BY DEF Goto, TypeInv, TypeOK

\* A process that goes on to something other than an attempt's initialize.
LEMMA AttemptsStay ==
  ASSUME SessionAssumption, NEW p \in ApiCalls,
         \A q \in Procs : q # p => pc'[q] = pc[q]
  PROVE  AttemptsIdle' <=> AttemptsIdle
BY DEF AttemptsIdle, Idle, Procs, SessionAssumption

LEMMA StartKept ==
  ASSUME SessionAssumption, Serial, SerialInv, NEW p \in ApiCalls, Start(p)
  PROVE  Kept
<1>1. p \in Procs /\ TypeInv /\ BudgetInv /\ OpenIsRegistered
      /\ \A q \in Procs : AwaitsRegistered(q)
  BY DEF SerialInv, Procs
<1>2. /\ registered = None /\ stopping' = FALSE /\ Idle(p)
      /\ UNCHANGED <<registered, budget, attempts, timer, client, status>>
  BY DEF Start, budgets, adapters
<1>3. /\ pc'[p] = "start.hook"
      /\ \A q \in Procs : q # p => pc'[q] = pc[q] /\ eng'[q] = eng[q]
  BY <1>1, Moved DEF Start
<1>4. AttemptsIdle' <=> AttemptsIdle
  BY <1>3, AttemptsStay
<1>5. BudgetInv'
  BY <1>1, <1>2, <1>4 DEF BudgetInv
<1>6. OpenIsRegistered'
  BY <1>1, <1>2 DEF OpenIsRegistered
<1>7. \A q \in Procs : AwaitsRegistered(q)'
  <2> SUFFICES ASSUME NEW q \in Procs PROVE AwaitsRegistered(q)'
    OBVIOUS
  <2>1. CASE q = p
    BY <1>2, <1>3, <2>1 DEF AwaitsRegistered
  <2>2. CASE q # p
    <3>1. q \notin ApiCalls
      BY <2>2 DEF Serial
    <3> QED
      BY <1>1, <1>2, <1>3, <1>4, <2>2, <3>1 DEF AwaitsRegistered
  <2> QED
    BY <2>1, <2>2
<1> QED
  BY <1>5, <1>6, <1>7 DEF Kept

\* No client is open and nobody else works on an engine when a start registers one.
LEMMA StartHookDoneKept ==
  ASSUME SessionAssumption, Serial, SerialInv, NEW p \in Procs, StartHookDone(p)
  PROVE  Kept
<1>1. p \in Procs /\ TypeInv /\ BudgetInv /\ OpenIsRegistered
      /\ \A q \in Procs : AwaitsRegistered(q)
  BY DEF SerialInv
<1>2. p \in ApiCalls /\ ~stopping /\ registered = None /\ budget = None /\ AttemptsIdle
  BY <1>1 DEF StartHookDone, AwaitsRegistered, BudgetInv
<1>3. PICK e \in Engines : registered' = e /\ Goto(p, "init.status", e)
  BY DEF StartHookDone, InitializeEngine
<1>4. /\ budget' \in Budgets
      /\ UNCHANGED <<stopping, timer, client>>
  BY DEF StartHookDone
<1>5. /\ pc'[p] = "init.status" /\ eng'[p] = e
      /\ \A q \in Procs : q # p => pc'[q] = pc[q] /\ eng'[q] = eng[q]
  BY <1>1, <1>3, Moved
<1>6. AttemptsIdle'
  BY <1>2, <1>5, AttemptsStay
<1>7. (\A b \in Budgets : ~timer[b]) /\ (\A f \in Engines : ~client[f])
  BY <1>1, <1>2 DEF BudgetInv, OpenIsRegistered, SessionAssumption
<1>8. BudgetInv'
  BY <1>2, <1>3, <1>4, <1>7 DEF BudgetInv, SessionAssumption
<1>9. OpenIsRegistered'
  BY <1>4, <1>7 DEF OpenIsRegistered
<1>10. \A q \in Procs : AwaitsRegistered(q)'
  <2> SUFFICES ASSUME NEW q \in Procs PROVE AwaitsRegistered(q)'
    OBVIOUS
  <2>1. CASE q = p
    BY <1>3, <1>4, <1>5, <1>6, <1>7, <2>1 DEF AwaitsRegistered
  <2>2. CASE q # p
    <3>1. q \in Attempts /\ pc'[q] = "idle"
      BY <1>2, <1>5, <2>2 DEF Serial, Procs, AttemptsIdle, Idle
    <3> QED
      BY <3>1 DEF AwaitsRegistered
  <2> QED
    BY <2>1, <2>2
<1> QED
  BY <1>8, <1>9, <1>10 DEF Kept

LEMMA OpenClientKept ==
  ASSUME SessionAssumption, Serial, SerialInv, NEW p \in Procs, OpenClient(p)
  PROVE  Kept
<1>1. TypeInv /\ BudgetInv /\ OpenIsRegistered /\ \A q \in Procs : AwaitsRegistered(q)
  BY DEF SerialInv
<1>2. pc[p] = "init.status" /\ eng[p] = registered /\ eng[p] \in Engines
      /\ \A f \in Engines : ~client[f]
  BY <1>1 DEF OpenClient, AwaitsRegistered, TypeInv, HoldsEngine
<1>3. /\ \A f \in Engines : client'[f] <=> f = eng[p]
      /\ UNCHANGED <<registered, stopping, budget, timer>>
  BY <1>1, <1>2 DEF OpenClient, service, budgets, TypeInv, TypeOK
<1>4. /\ pc'[p] = "init.client"
      /\ \A q \in Procs : q # p => pc'[q] = pc[q] /\ eng'[q] = eng[q]
  BY <1>1, Moved DEF OpenClient
<1>5. AttemptsIdle' <=> AttemptsIdle
  BY <1>2, <1>4 DEF AttemptsIdle, Idle, Procs
<1>6. BudgetInv'
  BY <1>1, <1>3, <1>5 DEF BudgetInv
<1>7. OpenIsRegistered'
  BY <1>2, <1>3 DEF OpenIsRegistered
<1>8. \A q \in Procs : AwaitsRegistered(q)'
  <2> SUFFICES ASSUME NEW q \in Procs PROVE AwaitsRegistered(q)'
    OBVIOUS
  <2>1. CASE q = p
    BY <1>4, <2>1 DEF AwaitsRegistered
  <2>2. CASE q # p
    <3>1. pc[q] # "init.status"
      BY <1>1, <1>2, <2>2 DEF AwaitsRegistered, Serial, Procs, AttemptsIdle, Idle
    <3> QED
      BY <1>1, <1>3, <1>4, <2>2, <3>1 DEF AwaitsRegistered
  <2> QED
    BY <2>1, <2>2
<1> QED
  BY <1>6, <1>7, <1>8 DEF Kept

\* A stop that the attempt would have to undo does not come.
LEMMA ClientOpenedKept ==
  ASSUME SessionAssumption, Serial, SerialInv, NEW p \in Procs, ClientOpened(p) \/ ClientFails(p)
  PROVE  Kept
<1>1. TypeInv /\ BudgetInv /\ OpenIsRegistered /\ \A q \in Procs : AwaitsRegistered(q)
  BY DEF SerialInv
<1>2. pc[p] = "init.client"
  BY DEF ClientOpened, ClientFails
<1>3. p \in Attempts => ~stopping /\ registered # None
  BY <1>1, <1>2 DEF BudgetInv, AttemptsIdle, Idle
<1>4. Return(p) /\ UNCHANGED <<registered, stopping, budget, client>>
      /\ \/ timer' = timer
         \/ budget # None /\ timer' = [timer EXCEPT ![budget] = TRUE] /\ p \in Attempts
  BY <1>3 DEF ClientOpened, ClientFails, ScheduleReconnect, budgets, adapters, service
<1>5. /\ pc'[p] = "idle"
      /\ \A q \in Procs : q # p => pc'[q] = pc[q] /\ eng'[q] = eng[q]
  BY <1>1, <1>4, Moved DEF Return
<1>6. AttemptsIdle => AttemptsIdle'
  BY <1>5 DEF AttemptsIdle, Idle, Procs
<1>7. \A b \in Budgets : timer'[b] => budget = b
  BY <1>1, <1>4 DEF BudgetInv, TypeInv, TypeOK
<1>8. BudgetInv'
  BY <1>1, <1>4, <1>6, <1>7 DEF BudgetInv
<1>9. OpenIsRegistered'
  BY <1>1, <1>4 DEF OpenIsRegistered
<1>10. \A q \in Procs : AwaitsRegistered(q)'
  <2> SUFFICES ASSUME NEW q \in Procs PROVE AwaitsRegistered(q)'
    OBVIOUS
  <2>1. CASE q = p
    BY <1>5, <2>1 DEF AwaitsRegistered
  <2>2. CASE q # p
    <3>1. pc[q] = "init.status" /\ q \in ApiCalls => timer' = timer
      BY <1>1, <1>2, <1>4 DEF AwaitsRegistered, AttemptsIdle, Idle
    <3> QED
      BY <1>1, <1>4, <1>5, <1>6, <2>2, <3>1 DEF AwaitsRegistered
  <2> QED
    BY <2>1, <2>2
<1> QED
  BY <1>8, <1>9, <1>10 DEF Kept

\* stop and delete clear the timer, and meet no attempt.
LEMMA CloseCallKept ==
  ASSUME SessionAssumption, Serial, SerialInv, NEW p \in ApiCalls, Stop(p) \/ Delete(p)
  PROVE  Kept
<1>1. p \in Procs /\ TypeInv /\ BudgetInv /\ OpenIsRegistered
      /\ \A q \in Procs : AwaitsRegistered(q)
  BY DEF SerialInv, Procs
<1>2. /\ AttemptsIdle /\ stopping' = TRUE /\ CancelReconnect /\ client' = client
      /\ \/ /\ registered # None /\ client[registered] /\ registered' = registered
            /\ Goto(p, "stop.close", registered) \/ Goto(p, "delete.close", registered)
         \/ /\ ~(registered # None /\ client[registered]) /\ registered' = None
            /\ Goto(p, "stop.save", None) \/ Goto(p, "delete.hook", None)
  BY DEF Stop, Delete, Serial, AttemptsIdle, adapters
<1>3. budget' = None /\ \A b \in Budgets : ~timer'[b]
  BY <1>1, <1>2 DEF CancelReconnect, BudgetInv, TypeInv, TypeOK
<1>4. \A q \in Procs : q # p => pc'[q] = pc[q] /\ eng'[q] = eng[q]
  BY <1>1, <1>2, Moved
<1>5. \/ pc'[p] \in {"stop.close", "delete.close"} /\ eng'[p] = registered /\ registered' = registered
      \/ pc'[p] \in {"stop.save", "delete.hook"}
  BY <1>1, <1>2, Moved
<1>6. AttemptsIdle'
  BY <1>2, <1>4, AttemptsStay
<1>7. BudgetInv'
  BY <1>3, <1>6 DEF BudgetInv
<1>8. OpenIsRegistered'
  <2>1. registered' = registered \/ \A e \in Engines : ~client[e]
    BY <1>1, <1>2 DEF OpenIsRegistered, SessionAssumption
  <2> QED
    BY <1>1, <1>2, <2>1 DEF OpenIsRegistered
<1>9. \A q \in Procs : AwaitsRegistered(q)'
  <2> SUFFICES ASSUME NEW q \in Procs PROVE AwaitsRegistered(q)'
    OBVIOUS
  <2>1. CASE q = p
    BY <1>2, <1>5, <2>1 DEF AwaitsRegistered
  <2>2. CASE q # p
    <3>1. pc'[q] = "idle"
      BY <1>2, <1>4, <2>2 DEF Serial, Procs, AttemptsIdle, Idle
    <3> QED
      BY <3>1 DEF AwaitsRegistered
  <2> QED
    BY <2>1, <2>2
<1> QED
  BY <1>7, <1>8, <1>9 DEF Kept

LEMMA ClosedKept ==
  ASSUME SessionAssumption, Serial, SerialInv, NEW p \in ApiCalls, StopClosed(p) \/ DeleteClosed(p)
  PROVE  Kept
<1>1. p \in Procs /\ TypeInv /\ BudgetInv /\ OpenIsRegistered
      /\ \A q \in Procs : AwaitsRegistered(q)
  BY DEF SerialInv, Procs
<1>2. stopping /\ eng[p] = registered /\ eng[p] \in Engines
  BY <1>1 DEF StopClosed, DeleteClosed, AwaitsRegistered, TypeInv, HoldsEngine
<1>3. /\ Close(eng[p]) /\ registered' = None /\ UNCHANGED <<stopping, budget, timer>>
      /\ Goto(p, "stop.save", None) \/ Goto(p, "delete.hook", None)
  BY DEF StopClosed, DeleteClosed, budgets
<1>4. \A e \in Engines : ~client'[e]
  BY <1>1, <1>2, <1>3 DEF Close, OpenIsRegistered, TypeInv, TypeOK
<1>5. /\ pc'[p] \in {"stop.save", "delete.hook"}
      /\ \A q \in Procs : q # p => pc'[q] = pc[q] /\ eng'[q] = eng[q]
  BY <1>1, <1>3, Moved
<1>6. AttemptsIdle /\ AttemptsIdle' /\ budget = None
  BY <1>1, <1>2, <1>5, AttemptsStay DEF BudgetInv
<1>7. BudgetInv'
  BY <1>1, <1>3, <1>6 DEF BudgetInv
<1>8. OpenIsRegistered'
  BY <1>4 DEF OpenIsRegistered
<1>9. \A q \in Procs : AwaitsRegistered(q)'
  <2> SUFFICES ASSUME NEW q \in Procs PROVE AwaitsRegistered(q)'
    OBVIOUS
  <2>1. CASE q = p
    BY <1>5, <2>1 DEF AwaitsRegistered
  <2>2. CASE q # p
    <3>1. pc'[q] = "idle"
      BY <1>5, <1>6, <2>2 DEF Serial, Procs, AttemptsIdle, Idle
    <3> QED
      BY <3>1 DEF AwaitsRegistered
  <2> QED
    BY <2>1, <2>2
<1> QED
  BY <1>7, <1>8, <1>9 DEF Kept

\* A call or an attempt ends; a failed attempt may arm the timer of its budget.
LEMMA ReturnKept ==
  ASSUME SessionAssumption, Serial, SerialInv, NEW p \in Procs,
         \/ p \in ApiCalls /\ (StopSaved(p) \/ DeleteFails(p) \/ DeleteHookDone(p))
         \/ p \in Attempts /\ ReconnectFails(p)
  PROVE  Kept
<1>1. TypeInv /\ BudgetInv /\ OpenIsRegistered /\ \A q \in Procs : AwaitsRegistered(q)
  BY DEF SerialInv
<1>2. /\ Return(p) /\ UNCHANGED <<registered, stopping, budget, client>>
      /\ \/ timer' = timer
         \/ /\ budget # None /\ timer' = [timer EXCEPT ![budget] = TRUE]
            /\ p \in Attempts /\ ~Idle(p)
  BY DEF StopSaved, DeleteFails, DeleteHookDone, ReconnectFails, ScheduleReconnect,
         service, budgets, adapters, Idle
<1>3. /\ pc'[p] = "idle"
      /\ \A q \in Procs : q # p => pc'[q] = pc[q] /\ eng'[q] = eng[q]
  BY <1>1, <1>2, Moved DEF Return
<1>4. AttemptsIdle => AttemptsIdle'
  BY <1>3 DEF AttemptsIdle, Idle, Procs
<1>5. \A b \in Budgets : timer'[b] => budget = b
  BY <1>1, <1>2 DEF BudgetInv, TypeInv, TypeOK
<1>6. BudgetInv'
  BY <1>1, <1>2, <1>4, <1>5 DEF BudgetInv
<1>7. OpenIsRegistered'
  BY <1>1, <1>2 DEF OpenIsRegistered
<1>8. \A q \in Procs : AwaitsRegistered(q)'
  <2> SUFFICES ASSUME NEW q \in Procs PROVE AwaitsRegistered(q)'
    OBVIOUS
  <2>1. CASE q = p
    BY <1>3, <2>1 DEF AwaitsRegistered
  <2>2. CASE q # p
    <3>1. pc[q] = "init.status" /\ q \in ApiCalls => timer' = timer
      BY <1>1, <1>2 DEF AwaitsRegistered, AttemptsIdle
    <3> QED
      BY <1>1, <1>2, <1>3, <1>4, <2>2, <3>1 DEF AwaitsRegistered
  <2> QED
    BY <2>1, <2>2
<1> QED
  BY <1>6, <1>7, <1>8 DEF Kept

\* An attempt begins only for a session that has an engine and is not being stopped.
LEMMA TimerFiresKept ==
  ASSUME SessionAssumption, Serial, SerialInv, NEW p \in Attempts, TimerFires(p)
  PROVE  Kept
<1>1. p \in Procs /\ TypeInv /\ BudgetInv /\ OpenIsRegistered
      /\ \A q \in Procs : AwaitsRegistered(q)
  BY DEF SerialInv, Procs
<1>2. PICK b \in Budgets :
        /\ Idle(p) /\ timer[b]
        /\ timer' = [timer EXCEPT ![b] = FALSE]
        /\ IF stopping \/ attempts[b] >= MaxAttempts
             THEN UNCHANGED <<attempts, registered, status, procs, writes>>
             ELSE /\ attempts' = [attempts EXCEPT ![b] = @ + 1]
                  /\ IF registered # None /\ client[registered]
                       THEN /\ Goto(p, "reconnect.close", registered)
                            /\ UNCHANGED <<registered, status, writes>>
                       ELSE InitializeEngine(p, writes, status)
        /\ UNCHANGED <<row, stopping, budget, client, codes>>
  BY DEF TimerFires
<1>3. budget = b /\ ~stopping /\ registered # None
  BY <1>1, <1>2 DEF BudgetInv, SessionAssumption
<1>4. client' = client /\ stopping' = stopping /\ budget' = budget
  BY <1>2
<1>5. \A c \in Budgets : timer'[c] => timer[c]
  BY <1>1, <1>2 DEF TypeInv, TypeOK
<1>6. \A q \in ApiCalls : pc[q] \notin {"start.hook", "stop.close", "delete.close", "init.status"}
  BY <1>1, <1>2, <1>3 DEF AwaitsRegistered, Procs
<1>7. CASE UNCHANGED <<registered, procs>>
  <2>1. BudgetInv'
    BY <1>1, <1>3, <1>4, <1>5, <1>7 DEF BudgetInv, AttemptsIdle, Idle, procs
  <2>2. OpenIsRegistered'
    BY <1>1, <1>4, <1>7 DEF OpenIsRegistered
  <2>3. \A q \in Procs : AwaitsRegistered(q)'
    <3> SUFFICES ASSUME NEW q \in Procs PROVE AwaitsRegistered(q)'
      OBVIOUS
    <3>1. AwaitsRegistered(q) /\ pc' = pc /\ eng' = eng /\ registered' = registered
      BY <1>1, <1>7 DEF procs
    <3> QED
      BY <1>4, <1>5, <3>1 DEF AwaitsRegistered, AttemptsIdle, Idle
  <2> QED
    BY <2>1, <2>2, <2>3 DEF Kept
<1>8. ASSUME NEW e \in Engines, NEW l \in {"reconnect.close", "init.status"}, Goto(p, l, e),
             registered' = e, \A f \in Engines : client[f] => f = e,
             l = "init.status" => \A f \in Engines : ~client[f]
      PROVE  Kept
  <2>1. /\ pc'[p] = l /\ eng'[p] = e
        /\ \A q \in Procs : q # p => pc'[q] = pc[q] /\ eng'[q] = eng[q]
    BY <1>1, <1>8, Moved
  <2>2. e # None
    BY DEF SessionAssumption
  <2>3. BudgetInv'
    BY <1>1, <1>3, <1>4, <1>5, <1>8, <2>2 DEF BudgetInv
  <2>4. OpenIsRegistered'
    BY <1>4, <1>8 DEF OpenIsRegistered
  <2>5. \A q \in Procs : AwaitsRegistered(q)'
    <3> SUFFICES ASSUME NEW q \in Procs PROVE AwaitsRegistered(q)'
      OBVIOUS
    <3>1. CASE q = p
      <4>1. q \notin ApiCalls
        BY <3>1 DEF SessionAssumption
      <4> QED
        BY <1>4, <1>8, <2>1, <3>1, <4>1 DEF AwaitsRegistered
    <3>2. CASE q # p
      <4>1. q \in ApiCalls
        BY <3>2 DEF Serial, Procs
      <4> QED
        BY <1>1, <1>6, <2>1, <3>2, <4>1 DEF AwaitsRegistered, SessionAssumption
    <3> QED
      BY <3>1, <3>2
  <2> QED
    BY <2>3, <2>4, <2>5 DEF Kept
<1>9. CASE Goto(p, "reconnect.close", registered) /\ registered' = registered
  BY <1>1, <1>3, <1>8, <1>9 DEF OpenIsRegistered, TypeInv, TypeOK
<1>10. CASE InitializeEngine(p, writes, status) /\ ~client[registered]
  <2>1. \A f \in Engines : ~client[f]
    BY <1>1, <1>10 DEF OpenIsRegistered
  <2>2. PICK e \in Engines : registered' = e /\ Goto(p, "init.status", e)
    BY <1>10 DEF InitializeEngine
  <2> QED
    BY <1>8, <2>1, <2>2
<1> QED
  BY <1>2, <1>3, <1>7, <1>9, <1>10

LEMMA OldEngineClosedKept ==
  ASSUME SessionAssumption, Serial, SerialInv, NEW p \in Attempts, OldEngineClosed(p)
  PROVE  Kept
<1>1. p \in Procs /\ TypeInv /\ BudgetInv /\ OpenIsRegistered
      /\ \A q \in Procs : AwaitsRegistered(q)
  BY DEF SerialInv, Procs
<1>2. /\ pc[p] = "reconnect.close" /\ client' = [client EXCEPT ![eng[p]] = FALSE] /\ UNCHANGED <<stopping, budget, timer>>
      /\ eng[p] = registered /\ eng[p] \in Engines
  BY <1>1 DEF OldEngineClosed, budgets, AwaitsRegistered, TypeInv, HoldsEngine
<1>3. PICK e \in Engines : registered' = e /\ Goto(p, "init.status", e)
  BY DEF OldEngineClosed, InitializeEngine
<1>4. ~stopping /\ registered # None /\ e # None
  BY <1>1, <1>2 DEF BudgetInv, AttemptsIdle, Idle, SessionAssumption
<1>5. \A f \in Engines : ~client'[f]
  BY <1>1, <1>2 DEF OpenIsRegistered, TypeInv, TypeOK
<1>6. /\ pc'[p] = "init.status" /\ eng'[p] = e
      /\ \A q \in Procs : q # p => pc'[q] = pc[q] /\ eng'[q] = eng[q]
  BY <1>1, <1>3, Moved
<1>7. \A q \in ApiCalls : pc[q] \notin {"start.hook", "stop.close", "delete.close", "init.status"}
  BY <1>1, <1>2, <1>4 DEF AwaitsRegistered, Procs, AttemptsIdle, Idle
<1>8. BudgetInv'
  BY <1>1, <1>2, <1>3, <1>4 DEF BudgetInv
<1>9. OpenIsRegistered'
  BY <1>5 DEF OpenIsRegistered
<1>10. \A q \in Procs : AwaitsRegistered(q)'
  <2> SUFFICES ASSUME NEW q \in Procs PROVE AwaitsRegistered(q)'
    OBVIOUS
  <2>1. CASE q = p
    BY <1>3, <1>5, <1>6, <2>1 DEF AwaitsRegistered, SessionAssumption
  <2>2. CASE q # p
    <3>1. q \in ApiCalls
      BY <2>2 DEF Serial, Procs
    <3> QED
      BY <1>1, <1>6, <1>7, <2>2, <3>1 DEF AwaitsRegistered, SessionAssumption
  <2> QED
    BY <2>1, <2>2
<1> QED
  BY <1>8, <1>9, <1>10 DEF Kept

-----------------------------------------------------------------------------
(* Engine events, the database and restarts.                               *)

\* What the invariant speaks of does not change.
LEMMA StillKept ==
  ASSUME SerialInv, UNCHANGED <<registered, stopping, budget, timer, client, pc, eng>>
  PROVE  Kept
BY DEF SerialInv, Kept, BudgetInv, OpenIsRegistered, AwaitsRegistered, AttemptsIdle, Idle

LEMMA EventKept ==
  ASSUME SessionAssumption, Serial, SerialInv, NEW e \in Engines, Event(e)
  PROVE  Kept
<1>1. CASE Qr(e) \/ QrDrawn(e) \/ QrFails(e) \/ Authenticated(e) \/ Ready(e) \/ AuthFailure(e)
  BY <1>1, StillKept DEF Qr, QrDrawn, QrFails, Authenticated, Ready, AuthFailure, service, budgets,
                         adapters, procs
<1>2. CASE Disconnected(e)
  <2>1. TypeInv /\ BudgetInv /\ OpenIsRegistered /\ \A q \in Procs : AwaitsRegistered(q)
    BY DEF SerialInv
  <2>2. /\ client[e] /\ UNCHANGED <<registered, stopping, budget, client, pc, eng>>
        /\ \/ timer' = timer
           \/ budget # None /\ timer' = [timer EXCEPT ![budget] = TRUE]
    BY <1>2 DEF Disconnected, Emits, service, procs
  <2>3. \A b \in Budgets : timer'[b] => budget = b
    BY <2>1, <2>2 DEF BudgetInv, TypeInv, TypeOK
  <2>4. BudgetInv'
    BY <2>1, <2>2, <2>3 DEF BudgetInv, AttemptsIdle, Idle
  <2>5. OpenIsRegistered'
    BY <2>1, <2>2 DEF OpenIsRegistered
  <2>6. \A q \in Procs : AwaitsRegistered(q)'
    <3> SUFFICES ASSUME NEW q \in Procs PROVE AwaitsRegistered(q)'
      OBVIOUS
    <3>1. AwaitsRegistered(q) /\ pc[q] # "init.status"
      BY <2>1, <2>2 DEF AwaitsRegistered
    <3> QED
      BY <2>2, <3>1 DEF AwaitsRegistered
  <2> QED
    BY <2>4, <2>5, <2>6 DEF Kept
<1> QED
  BY <1>1, <1>2 DEF Event, QrSettles

LEMMA FreshKept ==
  ASSUME Fresh
  PROVE  Kept
BY DEF Fresh, Kept, BudgetInv, OpenIsRegistered, AwaitsRegistered, AttemptsIdle, Idle, Procs

LEMMA SerialStep ==
  ASSUME SessionAssumption, Serial, SerialInv, [Next]_vars
  PROVE  SerialInv'
<1>1. TypeInv'
  BY TypeStep DEF SerialInv
<1>2. Kept
  <2>1. ASSUME NEW p \in ApiCalls, Call(p) PROVE Kept
    BY <2>1, StartKept, CloseCallKept DEF Call
  <2>2. ASSUME NEW p \in Procs, InitStep(p) PROVE Kept
    BY <2>2, StartHookDoneKept, OpenClientKept, ClientOpenedKept DEF InitStep
  <2>3. ASSUME NEW p \in ApiCalls, StopStep(p) \/ DeleteStep(p) PROVE Kept
    BY <2>3, ClosedKept, ReturnKept DEF StopStep, DeleteStep, Procs
  <2>4. ASSUME NEW p \in Attempts, TimerFires(p) \/ ReconnectStep(p) PROVE Kept
    <3>1. ~UndoClosed(p)
      BY DEF UndoClosed, SerialInv, AwaitsRegistered, Procs
    <3> QED
      BY <2>4, <3>1, TimerFiresKept, OldEngineClosedKept, ReturnKept DEF ReconnectStep, Procs
  <2>5. ASSUME NEW e \in Engines, Event(e) PROVE Kept
    BY <2>5, EventKept
  <2>6. CASE ApplyWrite \/ UNCHANGED vars
    BY <2>6, StillKept DEF ApplyWrite, vars, service, budgets, adapters, procs
  <2>7. CASE Restart
    BY <2>7, FreshKept DEF Restart
  <2> QED
    BY <2>1, <2>2, <2>3, <2>4, <2>5, <2>6, <2>7 DEF Next
<1> QED
  BY <1>1, <1>2 DEF Kept, SerialInv

LEMMA SerialInit == ASSUME SessionAssumption, Init PROVE SerialInv
<1>1. TypeInv
  BY TypeInit
<1> QED
  BY <1>1 DEF Init, SerialInv, BudgetInv, OpenIsRegistered, AwaitsRegistered, AttemptsIdle, Idle,
              Procs

LEMMA SerialInvariant == Serial => (Spec => []SerialInv)
<1>1. Serial /\ Init => Serial /\ SerialInv
  BY SerialInit, SessionAssumption
<1>2. (Serial /\ SerialInv) /\ [Next]_vars => (Serial /\ SerialInv)'
  BY SerialStep, SessionAssumption DEF Serial
<1> QED
  BY <1>1, <1>2, PTL DEF Spec

-----------------------------------------------------------------------------
(* The order of the updates.                                               *)

\* A session whose registered engine shows its QR code or is ready will not show
\* initializing once the pending updates are applied.
ClobberInv ==
  registered # None /\ status[registered] \in {"qr_ready", "ready"} => Shown # "initializing"

\* No update issued or applied, and no engine registered or changed.
LEMMA SteadyKeeps ==
  ASSUME ClobberInv, UNCHANGED <<row, writes, status>>, registered' \in {registered, None}
  PROVE  ClobberInv'
BY DEF ClobberInv, Shown

\* A newly registered engine is disconnected.
LEMMA InitializeKeeps ==
  ASSUME TypeInv, NEW p, NEW w, NEW s \in [Engines -> EngineStatus], InitializeEngine(p, w, s)
  PROVE  ClobberInv'
<1>1. PICK e \in Engines : registered' = e /\ status' = [s EXCEPT ![e] = "disconnected"]
  BY DEF InitializeEngine
<1> QED
  BY <1>1 DEF ClobberInv

\* Every other update than initializing.
LEMMA ReportKeeps ==
  ASSUME TypeInv, NEW d \in {"qr_ready", "ready", "disconnected", "failed"},
         NEW p \in Procs \cup {None}, row' = row, writes' = Append(writes, Update(d, p))
  PROVE  ClobberInv'
<1>1. d \in EngineStatus
  BY DEF EngineStatus, Active
<1> QED
  BY <1>1, ReportShown DEF ClobberInv

LEMMA RequestKeeps ==
  ASSUME SerialInv, ClobberInv, NEW p \in ApiCalls, Call(p) \/ StopStep(p) \/ DeleteStep(p)
  PROVE  ClobberInv'
<1>0. TypeInv /\ p \in Procs
  BY DEF SerialInv, Procs
<1>1. CASE Start(p) \/ Delete(p) \/ StopSaved(p) \/ DeleteFails(p)
  BY <1>1, SteadyKeeps DEF Start, Delete, StopSaved, DeleteFails, adapters, service
<1>2. CASE Stop(p)
  <2>1. CASE registered # None /\ client[registered]
    BY <1>2, <2>1, SteadyKeeps DEF Stop, adapters
  <2>2. CASE ~(registered # None /\ client[registered])
    BY <1>0, <1>2, <2>2, ReportKeeps DEF Stop
  <2> QED
    BY <2>1, <2>2
<1>3. CASE StopClosed(p) \/ DeleteClosed(p)
  BY <1>0, <1>3, ReportKeeps DEF StopClosed, DeleteClosed, Report
<1>4. CASE DeleteHookDone(p)
  BY <1>4 DEF DeleteHookDone, ClobberInv, Shown
<1> QED
  BY <1>1, <1>2, <1>3, <1>4 DEF Call, StopStep, DeleteStep

\* OpenClient writes initializing: its engine is the registered one, and starts.
LEMMA InitStepKeeps ==
  ASSUME SerialInv, ClobberInv, NEW p \in Procs, InitStep(p) PROVE ClobberInv'
<1>0. TypeInv /\ AwaitsRegistered(p) /\ status \in [Engines -> EngineStatus]
  BY DEF SerialInv, TypeInv, TypeOK
<1>1. CASE StartHookDone(p)
  BY <1>0, <1>1, InitializeKeeps DEF StartHookDone
<1>2. CASE OpenClient(p)
  <2>1. eng[p] = registered /\ registered' = registered /\ eng[p] \in Engines
    BY <1>0, <1>2 DEF OpenClient, AwaitsRegistered, service, TypeInv, HoldsEngine
  <2> QED
    BY <1>0, <1>2, <2>1 DEF OpenClient, ClobberInv
<1>3. CASE ClientOpened(p)
  BY <1>3, SteadyKeeps DEF ClientOpened, adapters
<1>4. CASE ClientFails(p)
  BY <1>0, <1>4, ReportKeeps DEF ClientFails, Report
<1> QED
  BY <1>1, <1>2, <1>3, <1>4 DEF InitStep

LEMMA ReconnectKeeps ==
  ASSUME SerialInv, ClobberInv, NEW p \in Attempts, TimerFires(p) \/ ReconnectStep(p)
  PROVE  ClobberInv'
<1>0. TypeInv /\ p \in Procs /\ status \in [Engines -> EngineStatus]
  BY DEF SerialInv, Procs, TypeInv, TypeOK
<1>1. CASE TimerFires(p)
  <2>1. row' = row /\ (UNCHANGED <<registered, status, writes>> \/ InitializeEngine(p, writes, status))
    BY <1>1 DEF TimerFires
  <2> QED
    BY <1>0, <2>1, SteadyKeeps, InitializeKeeps
<1>2. CASE OldEngineClosed(p)
  <2>1. [status EXCEPT ![eng[p]] = "disconnected"] \in [Engines -> EngineStatus]
    BY <1>0 DEF EngineStatus
  <2> QED
    BY <1>0, <1>2, <2>1, InitializeKeeps DEF OldEngineClosed
<1>3. CASE UndoClosed(p)
  BY <1>0, <1>3, ReportKeeps DEF UndoClosed, Report
<1>4. CASE ReconnectFails(p)
  BY <1>4, SteadyKeeps DEF ReconnectFails, adapters, service
<1> QED
  BY <1>1, <1>2, <1>3, <1>4 DEF ReconnectStep

LEMMA EventKeeps ==
  ASSUME SerialInv, ClobberInv, NEW e \in Engines, Event(e) PROVE ClobberInv'
<1>0. TypeInv
  BY DEF SerialInv
<1>1. CASE Qr(e) \/ QrFails(e)
  BY <1>1, SteadyKeeps DEF Qr, QrFails, adapters, service
<1>2. CASE QrDrawn(e) \/ Authenticated(e) \/ Ready(e) \/ Disconnected(e) \/ AuthFailure(e)
  BY <1>0, <1>2, ReportKeeps DEF QrDrawn, Authenticated, Ready, Disconnected, AuthFailure, Report
<1> QED
  BY <1>1, <1>2 DEF Event, QrSettles

LEMMA ClobberStep ==
  ASSUME SerialInv, ClobberInv, [Next]_vars PROVE ClobberInv'
<1>1. CASE ApplyWrite
  <2>1. UNCHANGED <<registered, status>>
    BY <1>1 DEF ApplyWrite, service, adapters
  <2> QED
    BY <1>1, <2>1, ApplyShown DEF ClobberInv, SerialInv
<1>2. CASE Restart
  BY <1>2 DEF Restart, Fresh, ClobberInv
<1>3. CASE UNCHANGED vars
  BY <1>3, SteadyKeeps DEF vars, adapters, service
<1> QED
  BY <1>1, <1>2, <1>3, RequestKeeps, InitStepKeeps, ReconnectKeeps, EventKeeps DEF Next

-----------------------------------------------------------------------------
(* Theorems                                                                *)

\* Two browsers never run on the profile of a session.
THEOREM BrowserAlone == Serial => (Spec => []OneBrowser)
<1>1. SerialInv => OneBrowser
  BY DEF SerialInv, OpenIsRegistered, OneBrowser, Open
<1> QED
  BY <1>1, SerialInvariant, PTL

\* An open browser is the registered engine's: stop and delete can reach it.
THEOREM BrowserReachable == Serial => (Spec => []NoOrphan)
<1>1. SerialInv => NoOrphan
  BY DEF SerialInv, OpenIsRegistered, NoOrphan, Open
<1> QED
  BY <1>1, SerialInvariant, PTL

\* stoppingSessions' comment holds as long as requests and attempts do not overlap: what
\* is open when a stop or delete is over is the registered engine's.
THEOREM StopWinsAlone == Serial => (Spec => []StopWins)
<1>1. SerialInv => StopWins
  BY DEF SerialInv, OpenIsRegistered, StopWins, Open
<1> QED
  BY <1>1, SerialInvariant, PTL

\* A session has one reconnect timer at most, and none once it is being stopped.
THEOREM TimerAlone == Serial => (Spec => []OneTimer)
<1>1. SerialInv => OneTimer
  BY SessionAssumption DEF SerialInv, BudgetInv, OneTimer, SessionAssumption
<1> QED
  BY <1>1, SerialInvariant, PTL

\* initializeEngine's comment on the order of its updates: the row of a session whose
\* engine shows its QR code or is ready does not come to rest at initializing.
THEOREM NeverClobbers == Serial => (Spec => []NoClobber)
<1>1. Init => ClobberInv
  BY DEF Init, ClobberInv
<1>2. SerialInv /\ ClobberInv /\ [Next]_vars => ClobberInv'
  BY ClobberStep
<1>3. ClobberInv => NoClobber
  BY DEF ClobberInv, NoClobber, Shown
<1> QED
  BY <1>1, <1>2, <1>3, SerialInvariant, PTL DEF Spec
=============================================================================
