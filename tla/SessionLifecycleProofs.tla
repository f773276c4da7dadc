------------------------- MODULE SessionLifecycleProofs -------------------------
(***************************************************************************)
(* Proofs about SessionLifecycle for any number of engines, requests,      *)
(* attempts and pending writes.                                            *)
(***************************************************************************)
EXTENDS SessionLifecycle, TLAPS

UpdateSet == [to : EngineStatus, by : Procs \cup {None}]

\* A process awaits an engine exactly while its step works on one.
HoldsEngine ==
  \A p \in Procs :
    pc[p] \in {"init.status", "init.client", "stop.close", "delete.close",
               "reconnect.close", "reconnect.undo"} => eng[p] \in Engines

TypeInv == TypeOK /\ HoldsEngine

LEMMA GotoType ==
  ASSUME TypeInv, NEW p \in Procs, NEW l \in Awaits \cup {"idle"}, NEW e \in Engines \cup {None},
         Goto(p, l, e),
         l \in {"init.status", "init.client", "stop.close", "delete.close",
                "reconnect.close", "reconnect.undo"} => e \in Engines
  PROVE  /\ pc' \in [Procs -> Awaits \cup {"idle"}]
         /\ eng' \in [Procs -> Engines \cup {None}]
         /\ HoldsEngine'
<1>1. /\ pc' \in [Procs -> Awaits \cup {"idle"}]
      /\ eng' \in [Procs -> Engines \cup {None}]
  BY DEF Goto, TypeInv, TypeOK
<1>2. \A q \in Procs : pc'[q] = (IF q = p THEN l ELSE pc[q]) /\ eng'[q] = (IF q = p THEN e ELSE eng[q])
  BY DEF Goto, TypeInv, TypeOK
<1> QED
  BY <1>1, <1>2 DEF HoldsEngine, TypeInv

LEMMA ReturnType ==
  ASSUME TypeInv, NEW p \in Procs, Return(p)
  PROVE  /\ pc' \in [Procs -> Awaits \cup {"idle"}]
         /\ eng' \in [Procs -> Engines \cup {None}]
         /\ HoldsEngine'
  BY GotoType DEF Return

\* The queue of pending writes.
LEMMA WritesType ==
  ASSUME TypeInv, NEW d \in EngineStatus, NEW p \in Procs \cup {None},
         NEW w \in Seq(UpdateSet)
  PROVE  Append(w, Update(d, p)) \in Seq(UpdateSet) /\ w \o <<Update(d, p)>> \in Seq(UpdateSet)
<1>1. Update(d, p) \in UpdateSet
  BY DEF Update, UpdateSet
<1> QED
  BY <1>1

LEMMA ReportType ==
  ASSUME TypeInv, NEW d \in EngineStatus, Report(d)
  PROVE  writes' \in Seq(UpdateSet)
  BY WritesType DEF Report, TypeInv, TypeOK, UpdateSet

LEMMA InitializeType ==
  ASSUME TypeInv, NEW p \in Procs, NEW w \in Seq(UpdateSet),
         NEW s \in [Engines -> EngineStatus], InitializeEngine(p, w, s)
  PROVE  /\ registered' \in Engines
         /\ pc' \in [Procs -> Awaits \cup {"idle"}]
         /\ eng' \in [Procs -> Engines \cup {None}]
         /\ HoldsEngine'
         /\ writes' \in Seq(UpdateSet)
         /\ status' \in [Engines -> EngineStatus]
<1>1. PICK e \in Engines : registered' = e /\ Goto(p, "init.status", e)
                           /\ writes' = w \o <<Update("initializing", p)>>
                           /\ status' = [s EXCEPT ![e] = "disconnected"]
  BY DEF InitializeEngine
<1>2. "init.status" \in Awaits \cup {"idle"} /\ "initializing" \in EngineStatus
  BY DEF Awaits, EngineStatus, Active
<1>3. writes' \in Seq(UpdateSet)
  BY <1>1, <1>2, WritesType
<1>4. status' \in [Engines -> EngineStatus]
  BY <1>1 DEF EngineStatus
<1> QED
  BY <1>1, <1>2, <1>3, <1>4, GotoType

LEMMA CloseType ==
  ASSUME TypeInv, NEW e \in Engines, Close(e)
  PROVE  client' \in [Engines -> BOOLEAN] /\ status' \in [Engines -> EngineStatus]
  BY DEF Close, TypeInv, TypeOK, EngineStatus

LEMMA BudgetsType ==
  ASSUME SessionAssumption, TypeInv, ScheduleReconnect \/ CancelReconnect \/ UNCHANGED budgets
  PROVE  /\ budget' \in Budgets \cup {None}
         /\ attempts' \in [Budgets -> 0..MaxAttempts]
         /\ timer' \in [Budgets -> BOOLEAN]
  BY DEF ScheduleReconnect, CancelReconnect, budgets, TypeInv, TypeOK

-----------------------------------------------------------------------------
(* One lemma per group of actions.                                         *)

LEMMA CallType == ASSUME SessionAssumption, TypeInv, NEW p \in ApiCalls, Call(p) PROVE TypeInv'
<1> USE DEF TypeInv
<1>0. /\ p \in Procs /\ "disconnected" \in EngineStatus
      /\ {"start.hook", "stop.close", "stop.save", "delete.close", "delete.hook"} \subseteq Awaits
  BY DEF Procs, EngineStatus, Awaits
<1>1. CASE Start(p)
  BY <1>0, <1>1, GotoType DEF Start, budgets, adapters, codes, TypeOK
<1>2. CASE Stop(p)
  <2>1. CASE registered # None /\ client[registered]
    BY <1>0, <1>2, <2>1, GotoType, BudgetsType DEF Stop, adapters, codes, TypeOK
  <2>2. CASE ~(registered # None /\ client[registered])
    <3>1. writes' = Append(writes, Update("disconnected", p)) /\ writes \in Seq(UpdateSet)
      BY <1>2, <2>2 DEF Stop, TypeOK, UpdateSet
    <3>2. writes' \in Seq(UpdateSet)
      BY <1>0, <3>1, WritesType
    <3> QED
      BY <1>0, <1>2, <2>2, <3>2, GotoType, BudgetsType DEF Stop, adapters, codes, TypeOK, UpdateSet
  <2> QED
    BY <2>1, <2>2
<1>3. CASE Delete(p)
  BY <1>0, <1>3, GotoType, BudgetsType DEF Delete, adapters, codes, TypeOK
<1> QED
  BY <1>1, <1>2, <1>3 DEF Call

LEMMA InitStepType == ASSUME SessionAssumption, TypeInv, NEW p \in Procs, InitStep(p) PROVE TypeInv'
<1> USE DEF TypeInv
<1>0. /\ writes \in Seq(UpdateSet)
      /\ {"initializing", "failed"} \subseteq EngineStatus
      /\ {"init.client", "reconnect.undo"} \subseteq Awaits
  BY DEF TypeOK, UpdateSet, EngineStatus, Active, Awaits
<1>1. CASE StartHookDone(p)
  <2>1. /\ registered' \in Engines
        /\ pc' \in [Procs -> Awaits \cup {"idle"}]
        /\ eng' \in [Procs -> Engines \cup {None}]
        /\ HoldsEngine'
        /\ writes' \in Seq(UpdateSet)
        /\ status' \in [Engines -> EngineStatus]
    BY <1>0, <1>1, InitializeType DEF StartHookDone, TypeOK
  <2>2. /\ budget' \in Budgets \cup {None}
        /\ attempts' \in [Budgets -> 0..MaxAttempts]
    BY <1>1 DEF StartHookDone, TypeOK, SessionAssumption
  <2> QED
    BY <1>1, <2>1, <2>2 DEF StartHookDone, adapters, codes, TypeOK, UpdateSet
<1>2. CASE OpenClient(p)
  <2>1. eng[p] \in Engines
    BY <1>2 DEF OpenClient, HoldsEngine
  <2>2. writes' \in Seq(UpdateSet)
    BY <1>0, <1>2, ReportType DEF OpenClient
  <2>3. HoldsEngine' /\ pc' \in [Procs -> Awaits \cup {"idle"}]
        /\ eng' \in [Procs -> Engines \cup {None}]
    BY <1>0, <1>2, <2>1, GotoType DEF OpenClient
  <2> QED
    BY <1>0, <1>2, <2>1, <2>2, <2>3 DEF OpenClient, service, budgets, codes, TypeOK, UpdateSet
<1>3. CASE ClientOpened(p)
  <2>1. registered # None => registered \in Engines
    BY DEF TypeOK
  <2>2. /\ HoldsEngine' /\ pc' \in [Procs -> Awaits \cup {"idle"}]
        /\ eng' \in [Procs -> Engines \cup {None}]
        /\ registered' \in {registered, None}
    BY <1>0, <1>3, <2>1, GotoType, ReturnType DEF ClientOpened
  <2> QED
    BY <1>3, <2>2 DEF ClientOpened, budgets, adapters, codes, TypeOK
<1>4. CASE ClientFails(p)
  <2>1. writes' \in Seq(UpdateSet)
    BY <1>0, <1>4, ReportType DEF ClientFails
  <2> QED
    BY <1>0, <1>4, <2>1, BudgetsType, ReturnType DEF ClientFails, service, codes, TypeOK, UpdateSet
<1> QED
  BY <1>1, <1>2, <1>3, <1>4 DEF InitStep

LEMMA StopStepType ==
  ASSUME SessionAssumption, TypeInv, NEW p \in ApiCalls, StopStep(p) \/ DeleteStep(p)
  PROVE  TypeInv'
<1> USE DEF TypeInv
<1>0. /\ p \in Procs /\ writes \in Seq(UpdateSet) /\ "disconnected" \in EngineStatus
      /\ {"stop.save", "delete.hook"} \subseteq Awaits
  BY DEF Procs, TypeOK, UpdateSet, EngineStatus, Awaits
<1>1. CASE StopClosed(p)
  <2>1. eng[p] \in Engines
    BY <1>0, <1>1 DEF StopClosed, HoldsEngine
  <2>2. writes' \in Seq(UpdateSet)
    BY <1>0, <1>1, WritesType DEF StopClosed
  <2> QED
    BY <1>0, <1>1, <2>1, <2>2, CloseType, GotoType DEF StopClosed, budgets, codes, TypeOK, UpdateSet
<1>2. CASE StopSaved(p)
  BY <1>0, <1>2, ReturnType DEF StopSaved, service, budgets, adapters, codes, TypeOK
<1>3. CASE DeleteClosed(p)
  <2>1. eng[p] \in Engines
    BY <1>0, <1>3 DEF DeleteClosed, HoldsEngine
  <2>2. writes' \in Seq(UpdateSet)
    BY <1>0, <1>3, ReportType DEF DeleteClosed
  <2> QED
    BY <1>0, <1>3, <2>1, <2>2, CloseType, GotoType DEF DeleteClosed, budgets, codes, TypeOK, UpdateSet
<1>4. CASE DeleteFails(p)
  BY <1>0, <1>4, ReturnType DEF DeleteFails, service, budgets, adapters, codes, TypeOK
<1>5. CASE DeleteHookDone(p)
  BY <1>0, <1>5, ReturnType DEF DeleteHookDone, service, budgets, adapters, codes, TypeOK
<1> QED
  BY <1>1, <1>2, <1>3, <1>4, <1>5 DEF StopStep, DeleteStep

LEMMA ReconnectType ==
  ASSUME SessionAssumption, TypeInv, NEW p \in Attempts, TimerFires(p) \/ ReconnectStep(p)
  PROVE  TypeInv'
<1> USE DEF TypeInv
<1>0. /\ p \in Procs /\ writes \in Seq(UpdateSet) /\ "disconnected" \in EngineStatus
      /\ "reconnect.close" \in Awaits
  BY DEF Procs, TypeOK, UpdateSet, EngineStatus, Awaits
<1>1. CASE TimerFires(p)
  <2>1. PICK b \in Budgets :
          /\ timer' = [timer EXCEPT ![b] = FALSE]
          /\ IF stopping \/ attempts[b] >= MaxAttempts
               THEN UNCHANGED <<attempts, registered, status, procs, writes>>
               ELSE /\ attempts' = [attempts EXCEPT ![b] = @ + 1]
                    /\ IF registered # None /\ client[registered]
                         THEN /\ Goto(p, "reconnect.close", registered)
                              /\ UNCHANGED <<registered, status, writes>>
                         ELSE InitializeEngine(p, writes, status)
          /\ UNCHANGED <<row, stopping, budget, client, codes>>
    BY <1>1 DEF TimerFires
  <2>2. timer' \in [Budgets -> BOOLEAN]
    BY <2>1 DEF TypeOK
  <2>3. CASE stopping \/ attempts[b] >= MaxAttempts
    BY <2>1, <2>2, <2>3 DEF TypeOK, HoldsEngine, procs, adapters, codes
  <2>4. CASE ~(stopping \/ attempts[b] >= MaxAttempts)
    <3>1. attempts' \in [Budgets -> 0..MaxAttempts]
      BY <2>1, <2>4 DEF TypeOK, SessionAssumption
    <3>2. CASE registered # None /\ client[registered]
      BY <1>0, <2>1, <2>2, <2>4, <3>1, <3>2, GotoType DEF TypeOK, adapters, codes
    <3>3. CASE ~(registered # None /\ client[registered])
      BY <1>0, <2>1, <2>2, <2>4, <3>1, <3>3, InitializeType DEF TypeOK, adapters, codes, UpdateSet
    <3> QED
      BY <3>2, <3>3
  <2> QED
    BY <2>3, <2>4
<1>2. CASE OldEngineClosed(p)
  <2>1. eng[p] \in Engines
    BY <1>0, <1>2 DEF OldEngineClosed, HoldsEngine
  <2>2. Append(writes, Update("disconnected", None)) \in Seq(UpdateSet)
    BY <1>0, WritesType
  <2>3. /\ registered' \in Engines
        /\ pc' \in [Procs -> Awaits \cup {"idle"}]
        /\ eng' \in [Procs -> Engines \cup {None}]
        /\ HoldsEngine'
        /\ writes' \in Seq(UpdateSet)
        /\ status' \in [Engines -> EngineStatus]
    <3>1. [status EXCEPT ![eng[p]] = "disconnected"] \in [Engines -> EngineStatus]
      BY <1>0 DEF TypeOK
    <3> QED
      BY <1>0, <1>2, <2>2, <3>1, InitializeType DEF OldEngineClosed
  <2>4. client' \in [Engines -> BOOLEAN]
    BY <1>2, <2>1 DEF OldEngineClosed, TypeOK
  <2> QED
    BY <1>2, <2>3, <2>4 DEF OldEngineClosed, budgets, codes, TypeOK, UpdateSet
<1>3. CASE UndoClosed(p)
  <2>1. eng[p] \in Engines
    BY <1>0, <1>3 DEF UndoClosed, HoldsEngine
  <2>2. writes' \in Seq(UpdateSet)
    BY <1>0, <1>3, ReportType DEF UndoClosed
  <2> QED
    BY <1>0, <1>3, <2>1, <2>2, CloseType, ReturnType DEF UndoClosed, budgets, codes, TypeOK, UpdateSet
<1>4. CASE ReconnectFails(p)
  BY <1>0, <1>4, BudgetsType, ReturnType DEF ReconnectFails, service, adapters, codes, TypeOK
<1> QED
  BY <1>1, <1>2, <1>3, <1>4 DEF ReconnectStep

LEMMA EventType == ASSUME SessionAssumption, TypeInv, NEW e \in Engines, Event(e) PROVE TypeInv'
<1> USE DEF TypeInv
<1>0. {"qr_ready", "ready", "disconnected", "failed"} \subseteq EngineStatus
  BY DEF EngineStatus, Active
<1>1. CASE Qr(e) \/ QrFails(e)
  <2>1. drawing' \subseteq Engines
    BY <1>1 DEF Qr, QrFails, TypeOK
  <2> QED
    BY <1>1, <2>1 DEF Qr, QrFails, service, budgets, adapters, procs, TypeOK, HoldsEngine
<1>4. CASE QrDrawn(e) \/ Authenticated(e)
  <2>1. writes' \in Seq(UpdateSet)
    BY <1>0, <1>4, ReportType DEF QrDrawn, Authenticated
  <2>2. drawing' \subseteq Engines /\ belated' \in BOOLEAN
    BY <1>4 DEF QrDrawn, Authenticated, TypeOK
  <2>3. status' \in [Engines -> EngineStatus]
    BY <1>0, <1>4 DEF QrDrawn, Authenticated, TypeOK
  <2> QED
    BY <1>4, <2>1, <2>2, <2>3
       DEF QrDrawn, Authenticated, service, budgets, procs, TypeOK, HoldsEngine, UpdateSet
<1>5. CASE Ready(e)
  <2>1. writes' \in Seq(UpdateSet)
    BY <1>0, <1>5, ReportType DEF Ready
  <2>2. attempts' \in [Budgets -> 0..MaxAttempts]
    BY <1>5 DEF Ready, TypeOK, SessionAssumption
  <2> QED
    BY <1>0, <1>5, <2>1, <2>2 DEF Ready, service, codes, procs, TypeOK, HoldsEngine, UpdateSet
<1>2. CASE Disconnected(e)
  <2>1. writes' \in Seq(UpdateSet)
    BY <1>0, <1>2, ReportType DEF Disconnected
  <2>2. attempts' \in [Budgets -> 0..MaxAttempts] /\ timer' \in [Budgets -> BOOLEAN]
    <3>1. CASE budget # None
      <4>1. budget \in Budgets /\ 0 \in 0..MaxAttempts
        BY <3>1 DEF TypeOK, SessionAssumption
      <4>2. /\ attempts' = [attempts EXCEPT ![budget] = 0]
            /\ timer' = [timer EXCEPT ![budget] = TRUE]
        BY <1>2, <3>1 DEF Disconnected
      <4>3. attempts \in [Budgets -> 0..MaxAttempts] /\ timer \in [Budgets -> BOOLEAN]
        BY DEF TypeOK
      <4>4. attempts' \in [Budgets -> 0..MaxAttempts]
        BY <4>1, <4>2, <4>3
      <4> QED
        BY <4>1, <4>2, <4>3, <4>4
    <3>2. CASE budget = None
      BY <1>2, <3>2 DEF Disconnected, TypeOK
    <3> QED
      BY <3>1, <3>2
  <2> QED
    BY <1>0, <1>2, <2>1, <2>2 DEF Disconnected, service, codes, procs, TypeOK, HoldsEngine, UpdateSet
<1>3. CASE AuthFailure(e)
  <2>1. writes' \in Seq(UpdateSet)
    BY <1>0, <1>3, ReportType DEF AuthFailure
  <2> QED
    BY <1>0, <1>3, <2>1 DEF AuthFailure, service, budgets, codes, procs, TypeOK, HoldsEngine, UpdateSet
<1> QED
  BY <1>1, <1>2, <1>3, <1>4, <1>5 DEF Event, QrSettles

LEMMA DatabaseType ==
  ASSUME SessionAssumption, TypeInv, ApplyWrite \/ Restart \/ UNCHANGED vars
  PROVE  TypeInv'
<1> USE DEF TypeInv
<1>1. CASE ApplyWrite
  <2>1. writes # <<>> /\ writes \in Seq(UpdateSet)
    BY <1>1 DEF ApplyWrite, TypeOK, UpdateSet
  <2>2. Head(writes) \in UpdateSet /\ Tail(writes) \in Seq(UpdateSet)
    BY <2>1
  <2>3. Head(writes).to \in SessionStatus
    BY <2>2 DEF UpdateSet, SessionStatus
  <2>4. row' \in SessionStatus \cup {"absent"} /\ writes' \in Seq(UpdateSet)
    BY <1>1, <2>2, <2>3 DEF ApplyWrite
  <2>5. UNCHANGED <<service, budgets, adapters, codes, procs>>
    BY <1>1 DEF ApplyWrite
  <2>6. TypeOK'
    BY <2>4, <2>5 DEF service, budgets, adapters, codes, procs, TypeOK, UpdateSet
  <2> QED
    BY <2>5, <2>6 DEF procs, HoldsEngine
<1>2. CASE Restart
  <2>1. row' \in SessionStatus \cup {"absent"}
    BY <1>2 DEF Restart, TypeOK, SessionStatus, EngineStatus
  <2>2. status' \in [Engines -> EngineStatus] /\ client' \in [Engines -> BOOLEAN]
    BY <1>2 DEF Restart, Fresh, EngineStatus
  <2>3. attempts' \in [Budgets -> 0..MaxAttempts] /\ timer' \in [Budgets -> BOOLEAN]
    BY <1>2 DEF Restart, Fresh, SessionAssumption
  <2>4. writes' \in Seq([to : EngineStatus, by : Procs \cup {None}])
    BY <1>2 DEF Restart, Fresh
  <2>5. TypeOK'
    BY <1>2, <2>1, <2>2, <2>3, <2>4 DEF Restart, Fresh, TypeOK
  <2> QED
    BY <1>2, <2>5 DEF Restart, Fresh, HoldsEngine
<1>3. CASE UNCHANGED vars
  BY <1>3 DEF vars, service, budgets, adapters, codes, procs, TypeOK, HoldsEngine
<1> QED
  BY <1>1, <1>2, <1>3

LEMMA TypeStep == ASSUME SessionAssumption, TypeInv, [Next]_vars PROVE TypeInv'
  BY CallType, InitStepType, StopStepType, ReconnectType, EventType, DatabaseType DEF Next

LEMMA TypeInit == ASSUME SessionAssumption, Init PROVE TypeInv
<1>1. row \in SessionStatus \cup {"absent"}
  BY DEF Init, SessionStatus
<1>2. writes \in Seq([to : EngineStatus, by : Procs \cup {None}])
  BY DEF Init
<1>3. status \in [Engines -> EngineStatus] /\ client \in [Engines -> BOOLEAN]
  BY DEF Init, EngineStatus
<1>4. attempts \in [Budgets -> 0..MaxAttempts] /\ timer \in [Budgets -> BOOLEAN]
  BY DEF Init, SessionAssumption
<1>5. TypeOK
  BY <1>1, <1>2, <1>3, <1>4 DEF Init, TypeOK
<1> QED
  BY <1>5 DEF Init, TypeInv, HoldsEngine

LEMMA TypeInvariant == Spec => []TypeInv
<1>1. Init => TypeInv
  BY TypeInit, SessionAssumption
<1>2. TypeInv /\ [Next]_vars => TypeInv'
  BY TypeStep, SessionAssumption
<1> QED
  BY <1>1, <1>2, PTL DEF Spec

\* The state of a session and of the code that works on it keeps its types.
THEOREM Typed == Spec => []TypeOK
  BY TypeInvariant, PTL DEF TypeInv

-----------------------------------------------------------------------------
(* What a row shows once its pending updates are applied.                  *)

Shown == IF row = "absent" \/ writes = <<>> THEN row ELSE writes[Len(writes)].to

\* A session is shown as active only while a browser is open, or one is about to be
\* opened, or because of a belated code: whoever closes a browser issues
\* "disconnected" after it.
GhostInv ==
  Shown \in Active =>
    \/ Open # {}
    \/ \E p \in Procs : pc[p] = "init.status"
    \/ Shown = "qr_ready" /\ belated

LEMMA GotoMoves ==
  ASSUME TypeInv, NEW p \in Procs, NEW l, NEW e, Goto(p, l, e)
  PROVE  pc'[p] = l /\ \A q \in Procs : q # p => pc'[q] = pc[q]
BY DEF Goto, TypeInv, TypeOK

LEMMA ReportShown ==
  ASSUME TypeInv, NEW d \in EngineStatus, NEW p \in Procs \cup {None}, row' = row,
         writes' = Append(writes, Update(d, p))
  PROVE  Shown' \in {d, "absent"}
<1>1. writes \in Seq(UpdateSet) /\ Update(d, p) \in UpdateSet
  BY DEF TypeInv, TypeOK, UpdateSet, Update
<1>2. Len(writes') = Len(writes) + 1 /\ writes'[Len(writes) + 1] = Update(d, p) /\ Len(writes) \in Nat
  BY <1>1
<1>3. writes' # <<>>
  BY <1>1
<1> QED
  BY <1>2, <1>3 DEF Shown, Update

\* No update, no browser closed, no code reported, and nobody leaves the save of INITIALIZING.
LEMMA SteadyShown ==
  ASSUME GhostInv, UNCHANGED <<row, writes, client, belated>>,
         \A q \in Procs : pc[q] = "init.status" => pc'[q] = "init.status"
  PROVE  GhostInv'
BY DEF GhostInv, Shown, Open

LEMMA ClosedShown ==
  ASSUME TypeInv, NEW d \in {"disconnected", "failed"}, NEW p \in Procs \cup {None}, row' = row,
         writes' = Append(writes, Update(d, p))
  PROVE  GhostInv'
<1>1. d \in EngineStatus
  BY DEF EngineStatus
<1> QED
  BY <1>1, ReportShown DEF GhostInv, Active

LEMMA InitializingShown ==
  ASSUME TypeInv, NEW p \in Procs, NEW w, NEW s, InitializeEngine(p, w, s)
  PROVE  GhostInv'
BY GotoMoves DEF InitializeEngine, GhostInv

LEMMA CallShown ==
  ASSUME SessionAssumption, TypeInv, GhostInv, NEW p \in ApiCalls, Call(p) PROVE GhostInv'
<1>0. p \in Procs /\ pc[p] = "idle"
  BY DEF Procs, Call, Start, Stop, Delete, Idle
<1>1. CASE Start(p)
  BY <1>0, <1>1, GotoMoves, SteadyShown DEF Start, adapters, codes
<1>2. CASE Stop(p)
  <2>1. CASE registered # None /\ client[registered]
    BY <1>0, <1>2, <2>1, GotoMoves, SteadyShown DEF Stop, adapters, codes
  <2>2. CASE ~(registered # None /\ client[registered])
    BY <1>0, <1>2, <2>2, ClosedShown DEF Stop
  <2> QED
    BY <2>1, <2>2
<1>3. CASE Delete(p)
  <2>1. UNCHANGED <<row, writes, client, belated>>
    BY <1>3 DEF Delete, adapters, codes
  <2>2. (\E l, e : Goto(p, l, e))
    BY <1>3 DEF Delete
  <2> QED
    BY <1>0, <2>1, <2>2, GotoMoves, SteadyShown
<1> QED
  BY <1>1, <1>2, <1>3 DEF Call

LEMMA InitStepShown ==
  ASSUME SessionAssumption, TypeInv, GhostInv, NEW p \in Procs, InitStep(p) PROVE GhostInv'
<1>1. CASE StartHookDone(p)
  BY <1>1, InitializingShown DEF StartHookDone
<1>2. CASE OpenClient(p)
  <2>1. eng[p] \in Engines
    BY <1>2 DEF OpenClient, TypeInv, HoldsEngine
  <2>2. client'[eng[p]]
    BY <1>2, <2>1 DEF OpenClient, TypeInv, TypeOK
  <2> QED
    BY <2>1, <2>2 DEF GhostInv, Open
<1>3. CASE ClientOpened(p)
  <2>1. UNCHANGED <<row, writes, client, belated>> /\ pc[p] = "init.client"
    BY <1>3 DEF ClientOpened, adapters, codes
  <2>2. (\E l, e : Goto(p, l, e))
    BY <1>3 DEF ClientOpened, Return
  <2> QED
    BY <2>1, <2>2, GotoMoves, SteadyShown
<1>4. CASE ClientFails(p)
  BY <1>4, ClosedShown DEF ClientFails, Report
<1> QED
  BY <1>1, <1>2, <1>3, <1>4 DEF InitStep

LEMMA StopStepShown ==
  ASSUME SessionAssumption, TypeInv, GhostInv, NEW p \in ApiCalls, StopStep(p) \/ DeleteStep(p)
  PROVE  GhostInv'
<1>0. p \in Procs
  BY DEF Procs
<1>1. CASE StopClosed(p)
  BY <1>0, <1>1, ClosedShown DEF StopClosed
<1>2. CASE StopSaved(p) \/ DeleteFails(p)
  BY <1>0, <1>2, GotoMoves, SteadyShown DEF StopSaved, DeleteFails, Return, adapters, codes
<1>3. CASE DeleteClosed(p)
  BY <1>3, ClosedShown DEF DeleteClosed, Report
<1>4. CASE DeleteHookDone(p)
  BY <1>4 DEF DeleteHookDone, GhostInv, Shown, Active
<1> QED
  BY <1>1, <1>2, <1>3, <1>4 DEF StopStep, DeleteStep

LEMMA ReconnectShown ==
  ASSUME SessionAssumption, TypeInv, GhostInv, NEW p \in Attempts, TimerFires(p) \/ ReconnectStep(p)
  PROVE  GhostInv'
<1>0. p \in Procs
  BY DEF Procs
<1>1. CASE TimerFires(p)
  <2>1. UNCHANGED <<row, client, belated>> /\ pc[p] = "idle"
    BY <1>1 DEF TimerFires, codes, Idle
  <2>2. \/ UNCHANGED <<procs, writes>>
        \/ Goto(p, "reconnect.close", registered) /\ writes' = writes
        \/ InitializeEngine(p, writes, status)
    BY <1>1 DEF TimerFires
  <2>3. CASE UNCHANGED <<procs, writes>>
    BY <2>1, <2>3, SteadyShown DEF procs
  <2>4. CASE Goto(p, "reconnect.close", registered) /\ writes' = writes
    BY <1>0, <2>1, <2>4, GotoMoves, SteadyShown
  <2> QED
    BY <1>0, <2>2, <2>3, <2>4, InitializingShown
<1>2. CASE OldEngineClosed(p)
  BY <1>0, <1>2, InitializingShown DEF OldEngineClosed
<1>3. CASE UndoClosed(p)
  BY <1>3, ClosedShown DEF UndoClosed, Report
<1>4. CASE ReconnectFails(p)
  BY <1>0, <1>4, GotoMoves, SteadyShown DEF ReconnectFails, Return, adapters, codes
<1> QED
  BY <1>1, <1>2, <1>3, <1>4 DEF ReconnectStep

\* Applying an update does not change what the row will show in the end.
LEMMA ApplyShown ==
  ASSUME TypeInv, ApplyWrite
  PROVE  Shown' \in {Shown, "absent"}
<1>1. writes \in Seq(UpdateSet) /\ writes # <<>>
  BY DEF ApplyWrite, TypeInv, TypeOK, UpdateSet
<1>2. Len(writes) \in Nat \ {0} /\ writes' = Tail(writes)
      /\ row' = IF row = "absent" THEN row ELSE writes[1].to
  BY <1>1 DEF ApplyWrite
<1>3. CASE row = "absent"
  BY <1>2, <1>3 DEF Shown
<1>4. CASE row # "absent" /\ Len(writes) = 1
  <2>1. writes' = <<>>
    BY <1>1, <1>2, <1>4
  <2> QED
    BY <1>1, <1>2, <1>4, <2>1 DEF Shown
<1>5. CASE row # "absent" /\ Len(writes) > 1
  <2>1. Len(writes') = Len(writes) - 1 /\ writes'[Len(writes) - 1] = writes[Len(writes)]
    BY <1>1, <1>2, <1>5
  <2>2. writes' # <<>>
    BY <1>5, <2>1
  <2> QED
    BY <1>1, <1>5, <2>1, <2>2 DEF Shown
<1>6. Len(writes) \in Nat \ {0}
  BY <1>2
<1>7. Len(writes) = 1 \/ Len(writes) > 1
  <2>1. \A n \in Nat \ {0} : n = 1 \/ n > 1
    OBVIOUS
  <2> QED
    BY <1>6, <2>1, Zenon
<1> QED
  BY <1>3, <1>4, <1>5, <1>7

LEMMA GhostStep == ASSUME SessionAssumption, TypeInv, GhostInv, [Next]_vars PROVE GhostInv'
<1>1. ASSUME NEW e \in Engines, Event(e) PROVE GhostInv'
  <2>1. CASE Qr(e) \/ QrFails(e)
    BY <2>1, SteadyShown DEF Qr, QrFails, adapters, procs
  <2>2. CASE QrDrawn(e)
    <3>1. Shown' \in {"qr_ready", "absent"} /\ client' = client /\ belated' = ~client[e]
      BY <2>2, ReportShown DEF QrDrawn, Report, EngineStatus, Active
    <3> QED
      BY <3>1 DEF GhostInv, Open, Active
  <2>3. CASE Authenticated(e) \/ Ready(e) \/ Disconnected(e) \/ AuthFailure(e)
    <3>1. client[e] /\ client' = client
      BY <2>3 DEF Authenticated, Ready, Disconnected, AuthFailure, Emits
    <3> QED
      BY <3>1 DEF GhostInv, Open
  <2> QED
    BY <1>1, <2>1, <2>2, <2>3 DEF Event, QrSettles
<1>2. CASE ApplyWrite
  <2>1. UNCHANGED <<client, belated, pc>>
    BY <1>2 DEF ApplyWrite, adapters, codes, procs
  <2> QED
    BY <1>2, <2>1, ApplyShown DEF GhostInv, Open, Active
<1>3. CASE Restart
  BY <1>3 DEF Restart, Fresh, GhostInv, Shown, Active
<1>4. CASE UNCHANGED vars
  BY <1>4, SteadyShown DEF vars, adapters, codes, procs
<1> QED
  BY <1>1, <1>2, <1>3, <1>4, CallShown, InitStepShown, StopStepShown, ReconnectShown DEF Next

\* Whoever calls what when: a row at rest shows an active session only when a browser
\* is open for it, or when the last code reported came after its client was closed.
THEOREM RowHasBrowser == Spec => []NoGhost
<1>1. Init => GhostInv
  BY DEF Init, GhostInv, Shown, Active
<1>2. TypeInv /\ GhostInv /\ [Next]_vars => GhostInv'
  BY GhostStep, SessionAssumption
<1>3. TypeInv /\ GhostInv => NoGhost
  BY DEF GhostInv, NoGhost, Shown, Quiet, Idle
<1> QED
  BY <1>1, <1>2, <1>3, TypeInvariant, PTL DEF Spec
=============================================================================
