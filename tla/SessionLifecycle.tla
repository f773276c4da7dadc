--------------------------- MODULE SessionLifecycle ---------------------------
(***************************************************************************)
(* The life of one session in SessionService: the row in the database, the *)
(* engine registered for it in the `engines` map, the reconnect budget and *)
(* timer in `reconnectStates`, the mark in `stoppingSessions`, and the     *)
(* WhatsAppWebJsAdapter instances those own.  Sessions share no state but  *)
(* the maps they are keyed in, so one session is enough.                   *)
(*                                                                         *)
(* A call runs without interruption up to its next await, so a step is the *)
(* code between two awaits.  Requests (start, stop, delete) are the        *)
(* processes of ApiCalls, runs of executeReconnect those of Attempts.      *)
(* The events of an engine are steps of their own, and two where the       *)
(* handler awaits: a QR code is first drawn, then reported.  A status      *)
(* update waits in `writes` until the database applies it, in the order    *)
(* issued, as the one connection of SQLite (the default) does.             *)
(***************************************************************************)
EXTENDS Naturals, Sequences

CONSTANTS
  Engines,      \* adapter objects alive at one time (ids are reused)
  Budgets,      \* ReconnectState objects alive at one time
  ApiCalls,     \* start, stop and delete requests in flight at one time
  Attempts,     \* runs of executeReconnect in flight at one time
  None,         \* undefined: no engine, no budget, nobody awaits the write
  MaxAttempts,  \* config.maxReconnectAttempts
  MaxWrites,    \* bound: no engine event while this many writes are pending
  QuietCalls    \* TRUE: stop and delete arrive only between reconnect attempts

ASSUME SessionAssumption ==
  /\ None \notin Engines \cup Budgets \cup ApiCalls \cup Attempts
  /\ ApiCalls \cap Attempts = {}
  /\ MaxAttempts \in Nat \ {0}
  /\ MaxWrites \in Nat \ {0}
  /\ QuietCalls \in BOOLEAN

VARIABLES
  row,         \* sessions.status, or "absent" once the row is removed
  registered,  \* engines.get(id)
  stopping,    \* stoppingSessions.has(id)
  budget,      \* reconnectStates.get(id)
  attempts,    \* ReconnectState.attempts
  timer,       \* ReconnectState.timer is set
  client,      \* adapter.client is an open WhatsApp client (its browser runs)
  status,      \* adapter.status
  drawing,     \* adapters whose qr handler awaits qrcode.toDataURL (one code
               \* at a time: the client emits the next one some 20 s later)
  belated,     \* history: the last code reported was one of a closed client
  pc,          \* where a request or attempt awaits
  eng,         \* the engine it awaits
  writes       \* updateStatus calls the database has not applied

service == <<registered, stopping>>
budgets == <<budget, attempts, timer>>
adapters == <<client, status>>
codes == <<drawing, belated>>
procs == <<pc, eng>>
vars == <<row, service, budgets, adapters, codes, procs, writes>>

Procs == ApiCalls \cup Attempts

\* onModuleInit resets these; "qr_ready" stands for "authenticating" too: both
\* are one onStateChanged write of an engine that is not yet ready.
Active == {"initializing", "qr_ready", "ready"}
EngineStatus == Active \cup {"disconnected", "failed"}
SessionStatus == EngineStatus \cup {"created"}

\* Every await of a request or attempt, in the order the code meets them.
Awaits == {"start.hook", "init.status", "init.client",
           "stop.close", "stop.save", "delete.close", "delete.hook",
           "reconnect.close", "reconnect.undo"}

Idle(p) == pc[p] = "idle"
Quiet == \A p \in Procs : Idle(p)

\* Objects nothing refers to any more stand for the ones still to be created.
FreshEngine(e) ==
  ~client[e] /\ e \notin drawing /\ registered # e /\ \A p \in Procs : eng[p] # e
FreshBudget(b) == budget # b /\ ~timer[b]

-----------------------------------------------------------------------------
TypeOK ==
  /\ row \in SessionStatus \cup {"absent"}
  /\ registered \in Engines \cup {None}
  /\ stopping \in BOOLEAN
  /\ budget \in Budgets \cup {None}
  /\ attempts \in [Budgets -> 0..MaxAttempts]
  /\ timer \in [Budgets -> BOOLEAN]
  /\ client \in [Engines -> BOOLEAN]
  /\ status \in [Engines -> EngineStatus]
  /\ drawing \subseteq Engines
  /\ belated \in BOOLEAN
  /\ pc \in [Procs -> Awaits \cup {"idle"}]
  /\ eng \in [Procs -> Engines \cup {None}]
  /\ writes \in Seq([to : EngineStatus, by : Procs \cup {None}])

Init ==
  /\ row = "created"
  /\ registered = None
  /\ stopping = FALSE
  /\ budget = None
  /\ attempts = [b \in Budgets |-> 0]
  /\ timer = [b \in Budgets |-> FALSE]
  /\ client = [e \in Engines |-> FALSE]
  /\ status = [e \in Engines |-> "disconnected"]
  /\ drawing = {}
  /\ belated = FALSE
  /\ pc = [p \in Procs |-> "idle"]
  /\ eng = [p \in Procs |-> None]
  /\ writes = <<>>

-----------------------------------------------------------------------------
(* Parts of several handlers.                                              *)

Goto(p, label, e) ==
  /\ pc' = [pc EXCEPT ![p] = label]
  /\ eng' = [eng EXCEPT ![p] = e]

Return(p) == Goto(p, "idle", None)

Update(s, p) == [to |-> s, by |-> p]

\* updateStatus is not awaited by anyone.
Report(s) == writes' = Append(writes, Update(s, None))

Awaited(p) == \E i \in DOMAIN writes : writes[i].by = p

\* disconnect() and destroy() clear the client, then setStatus(DISCONNECTED).
Close(e) ==
  /\ client' = [client EXCEPT ![e] = FALSE]
  /\ status' = [status EXCEPT ![e] = "disconnected"]

\* scheduleReconnect: only for a session that has a budget left, and one timer
\* at a time.
ScheduleReconnect ==
  /\ timer' = IF budget # None /\ attempts[budget] < MaxAttempts
                THEN [timer EXCEPT ![budget] = TRUE]
                ELSE timer
  /\ UNCHANGED <<budget, attempts>>

\* Mutant: the ReconnectState is dropped with its timer still armed.
CancelWithoutClear ==
  budget' = None /\ UNCHANGED <<attempts, timer>>

CancelReconnect ==
  /\ timer' = IF budget # None THEN [timer EXCEPT ![budget] = FALSE] ELSE timer
  /\ budget' = None
  /\ UNCHANGED attempts

\* initializeEngine up to its first await, after the updates in `before`; a
\* new adapter is DISCONNECTED, the others have the given statuses.
InitializeEngine(p, before, statuses) ==
  \E e \in Engines :
    /\ FreshEngine(e)
    /\ registered' = e
    /\ status' = [statuses EXCEPT ![e] = "disconnected"]
    /\ Goto(p, "init.status", e)
    /\ writes' = before \o <<Update("initializing", p)>>

-----------------------------------------------------------------------------
(* start                                                                   *)

\* findOne, the already-started check, the mark cleared, the hook called.
Start(p) ==
  /\ Idle(p)
  /\ row # "absent"
  /\ registered = None
  /\ stopping' = FALSE
  /\ Goto(p, "start.hook", None)
  /\ UNCHANGED <<row, registered, budgets, adapters, codes, writes>>

StartHookDone(p) ==
  /\ pc[p] = "start.hook"
  /\ \E b \in Budgets :
       /\ FreshBudget(b)
       /\ budget' = b
       /\ attempts' = [attempts EXCEPT ![b] = 0]
  /\ InitializeEngine(p, writes, status)
  /\ UNCHANGED <<row, stopping, timer, client, codes>>

\* INITIALIZING is saved: engine.initialize opens the client.
OpenClient(p) ==
  /\ pc[p] = "init.status"
  /\ ~Awaited(p)
  /\ client' = [client EXCEPT ![eng[p]] = TRUE]
  /\ status' = [status EXCEPT ![eng[p]] = "initializing"]
  /\ Goto(p, "init.client", eng[p])
  /\ Report("initializing")
  /\ UNCHANGED <<row, service, budgets, codes>>

\* Mutant: INITIALIZING is written after engine.initialize() has settled.
ClientOpenedThenInitializing(p) ==
  /\ pc[p] = "init.client"
  /\ client[eng[p]]
  /\ Report("initializing")
  /\ Return(p)
  /\ UNCHANGED <<row, service, budgets, adapters, codes>>

\* client.initialize resolves.  A reconnect attempt then looks for a stop or
\* delete that came in between and destroys the engine it finds registered.
ClientOpened(p) ==
  /\ pc[p] = "init.client"
  /\ client[eng[p]]
  /\ IF p \in Attempts /\ stopping /\ registered # None
       THEN IF client[registered]
              THEN Goto(p, "reconnect.undo", registered) /\ UNCHANGED registered
              ELSE Return(p) /\ registered' = None
       ELSE Return(p) /\ UNCHANGED registered
  /\ UNCHANGED <<row, stopping, budgets, adapters, codes, writes>>

\* client.initialize rejects (it does when the client is destroyed meanwhile):
\* the adapter reports FAILED and keeps its client; an attempt's catch block
\* schedules another one.
ClientFails(p) ==
  /\ pc[p] = "init.client"
  /\ status' = [status EXCEPT ![eng[p]] = "failed"]
  /\ Report("failed")
  /\ IF p \in Attempts THEN ScheduleReconnect ELSE UNCHANGED budgets
  /\ Return(p)
  /\ UNCHANGED <<row, service, client, codes>>

-----------------------------------------------------------------------------
(* stop                                                                    *)

Stop(p) ==
  /\ Idle(p)
  /\ row # "absent"
  /\ QuietCalls => \A a \in Attempts : Idle(a)
  /\ stopping' = TRUE
  /\ CancelReconnect
  /\ IF registered # None /\ client[registered]
       THEN Goto(p, "stop.close", registered) /\ UNCHANGED <<registered, writes>>
       ELSE /\ registered' = None
            /\ Goto(p, "stop.save", None)
            /\ writes' = Append(writes, Update("disconnected", p))
  /\ UNCHANGED <<row, adapters, codes>>

\* Mutant: stop() drops the engine without disconnecting it.
StopClosedWithoutDisconnect(p) ==
  /\ pc[p] = "stop.close"
  /\ registered' = None
  /\ Goto(p, "stop.save", None)
  /\ writes' = Append(writes, Update("disconnected", p))
  /\ UNCHANGED <<row, stopping, budgets, adapters, codes>>

\* disconnect() swallows the errors of client.destroy().  The adapter and
\* stop() report the same status; the two updates are one here.
StopClosed(p) ==
  /\ pc[p] = "stop.close"
  /\ Close(eng[p])
  /\ registered' = None
  /\ Goto(p, "stop.save", None)
  /\ writes' = Append(writes, Update("disconnected", p))
  /\ UNCHANGED <<row, stopping, budgets, codes>>

StopSaved(p) ==
  /\ pc[p] = "stop.save"
  /\ ~Awaited(p)
  /\ Return(p)
  /\ UNCHANGED <<row, service, budgets, adapters, codes, writes>>

-----------------------------------------------------------------------------
(* delete                                                                  *)

Delete(p) ==
  /\ Idle(p)
  /\ row # "absent"
  /\ QuietCalls => \A a \in Attempts : Idle(a)
  /\ stopping' = TRUE
  /\ CancelReconnect
  /\ IF registered # None /\ client[registered]
       THEN Goto(p, "delete.close", registered) /\ UNCHANGED registered
       ELSE Goto(p, "delete.hook", None) /\ registered' = None
  /\ UNCHANGED <<row, adapters, codes, writes>>

DeleteClosed(p) ==
  /\ pc[p] = "delete.close"
  /\ Close(eng[p])
  /\ registered' = None
  /\ Goto(p, "delete.hook", None)
  /\ Report("disconnected")
  /\ UNCHANGED <<row, stopping, budgets, codes>>

\* destroy() throws: the request fails, the mark and the engine stay.
DeleteFails(p) ==
  /\ pc[p] = "delete.close"
  /\ Return(p)
  /\ UNCHANGED <<row, service, budgets, adapters, codes, writes>>

\* Mutant: delete marks the row with a status the entity does not have.
DeleteHookDoneSoft(p) ==
  /\ pc[p] = "delete.hook"
  /\ row' = "deleted"
  /\ Return(p)
  /\ UNCHANGED <<service, budgets, adapters, codes, writes>>

DeleteHookDone(p) ==
  /\ pc[p] = "delete.hook"
  /\ row' = "absent"
  /\ Return(p)
  /\ UNCHANGED <<service, budgets, adapters, codes, writes>>

-----------------------------------------------------------------------------
(* executeReconnect                                                        *)

\* The timer of a ReconnectState fires.
TimerFires(p) ==
  \E b \in Budgets :
    /\ Idle(p)
    /\ timer[b]
    /\ timer' = [timer EXCEPT ![b] = FALSE]
    /\ IF stopping \/ attempts[b] >= MaxAttempts
         THEN UNCHANGED <<attempts, registered, status, procs, writes>>
         ELSE /\ attempts' = [attempts EXCEPT ![b] = @ + 1]
              /\ IF registered # None /\ client[registered]
                   THEN /\ Goto(p, "reconnect.close", registered)
                        /\ UNCHANGED <<registered, status, writes>>
                   ELSE InitializeEngine(p, writes, status)
    /\ UNCHANGED <<row, stopping, budget, client, codes>>

\* Mutant: the old engine is replaced without being destroyed.
OldEngineKept(p) ==
  /\ pc[p] = "reconnect.close"
  /\ InitializeEngine(p, writes, status)
  /\ UNCHANGED <<row, stopping, budgets, client, codes>>

\* The old engine is destroyed and unregistered, a new one initialized.
OldEngineClosed(p) ==
  /\ pc[p] = "reconnect.close"
  /\ client' = [client EXCEPT ![eng[p]] = FALSE]
  /\ InitializeEngine(p, Append(writes, Update("disconnected", None)),
                      [status EXCEPT ![eng[p]] = "disconnected"])
  /\ UNCHANGED <<row, stopping, budgets, codes>>

\* destroy() of the engine left by a stop or delete has finished.
UndoClosed(p) ==
  /\ pc[p] = "reconnect.undo"
  /\ Close(eng[p])
  /\ registered' = None
  /\ Report("disconnected")
  /\ Return(p)
  /\ UNCHANGED <<row, stopping, budgets, codes>>

\* Mutant: the catch block only logs.
ReconnectGivesUp(p) ==
  /\ pc[p] \in {"reconnect.close", "reconnect.undo"}
  /\ Return(p)
  /\ UNCHANGED <<row, service, budgets, adapters, codes, writes>>

\* destroy() of either engine throws into the catch block.
ReconnectFails(p) ==
  /\ pc[p] \in {"reconnect.close", "reconnect.undo"}
  /\ ScheduleReconnect
  /\ Return(p)
  /\ UNCHANGED <<row, service, adapters, codes, writes>>

-----------------------------------------------------------------------------
(* Events of an open client, whether its engine is registered or not.  The *)
(* handlers ask for no status, and after its await the one of `qr` does    *)
(* not even ask whether the client is still there.                         *)

Emits(e) == client[e] /\ Len(writes) < MaxWrites

Qr(e) ==
  /\ Emits(e)
  /\ e \notin drawing
  /\ drawing' = drawing \cup {e}
  /\ UNCHANGED <<row, service, budgets, adapters, belated, procs, writes>>

\* The image is there: setStatus and onQRCode report the same status, the two
\* updates are one here.
QrDrawn(e) ==
  /\ e \in drawing
  /\ drawing' = drawing \ {e}
  /\ belated' = ~client[e]
  /\ status' = [status EXCEPT ![e] = "qr_ready"]
  /\ Report("qr_ready")
  /\ UNCHANGED <<row, service, budgets, client, procs>>

\* toDataURL rejects: the handler only logs.
QrFails(e) ==
  /\ e \in drawing
  /\ drawing' = drawing \ {e}
  /\ UNCHANGED <<row, service, budgets, adapters, belated, procs, writes>>

Authenticated(e) ==
  /\ Emits(e)
  /\ belated' = FALSE
  /\ status' = [status EXCEPT ![e] = "qr_ready"]
  /\ Report("qr_ready")
  /\ UNCHANGED <<row, service, budgets, client, drawing, procs>>

\* onReady restores the whole budget.
Ready(e) ==
  /\ Emits(e)
  /\ status' = [status EXCEPT ![e] = "ready"]
  /\ Report("ready")
  /\ attempts' = IF budget # None THEN [attempts EXCEPT ![budget] = 0] ELSE attempts
  /\ UNCHANGED <<row, service, budget, timer, client, codes, procs>>

\* onDisconnected: a fresh outage has the whole budget and a fresh timer.
Disconnected(e) ==
  /\ Emits(e)
  /\ status' = [status EXCEPT ![e] = "disconnected"]
  /\ Report("disconnected")
  /\ IF budget # None
       THEN /\ attempts' = [attempts EXCEPT ![budget] = 0]
            /\ timer' = [timer EXCEPT ![budget] = TRUE]
       ELSE UNCHANGED <<attempts, timer>>
  /\ UNCHANGED <<row, service, budget, client, codes, procs>>

AuthFailure(e) ==
  /\ Emits(e)
  /\ status' = [status EXCEPT ![e] = "failed"]
  /\ Report("failed")
  /\ UNCHANGED <<row, service, budgets, client, codes, procs>>

-----------------------------------------------------------------------------
(* The database and the process itself.                                    *)

\* UPDATE sessions SET status WHERE id: no effect once the row is gone.
ApplyWrite ==
  /\ writes # <<>>
  /\ row' = IF row = "absent" THEN row ELSE Head(writes).to
  /\ writes' = Tail(writes)
  /\ UNCHANGED <<service, budgets, adapters, codes, procs>>

\* What a process keeps in memory, as it starts.
Fresh ==
  /\ registered' = None
  /\ stopping' = FALSE
  /\ budget' = None
  /\ attempts' = [b \in Budgets |-> 0]
  /\ timer' = [b \in Budgets |-> FALSE]
  /\ client' = [e \in Engines |-> FALSE]
  /\ status' = [e \in Engines |-> "disconnected"]
  /\ drawing' = {}
  /\ belated' = FALSE
  /\ pc' = [p \in Procs |-> "idle"]
  /\ eng' = [p \in Procs |-> None]
  /\ writes' = <<>>

\* Mutant: onModuleInit forgets a session that was waiting for its QR code.
RestartKeepsQr ==
  /\ row' = IF row \in {"initializing", "ready"} THEN "disconnected" ELSE row
  /\ Fresh

\* The gateway dies, with its browsers, and comes back: onModuleInit.
Restart ==
  /\ row' = IF row \in Active THEN "disconnected" ELSE row
  /\ Fresh

Call(p) == Start(p) \/ Stop(p) \/ Delete(p)

InitStep(p) ==
  StartHookDone(p) \/ OpenClient(p) \/ ClientOpened(p) \/ ClientFails(p)

StopStep(p) == StopClosed(p) \/ StopSaved(p)

DeleteStep(p) == DeleteClosed(p) \/ DeleteFails(p) \/ DeleteHookDone(p)

ReconnectStep(p) == OldEngineClosed(p) \/ UndoClosed(p) \/ ReconnectFails(p)

QrSettles(e) == QrDrawn(e) \/ QrFails(e)

Event(e) ==
  Qr(e) \/ QrSettles(e) \/ Authenticated(e) \/ Ready(e) \/ Disconnected(e) \/ AuthFailure(e)

Next ==
  \/ \E p \in ApiCalls : Call(p)
  \/ \E p \in Procs : InitStep(p)
  \/ \E p \in ApiCalls : StopStep(p) \/ DeleteStep(p)
  \/ \E p \in Attempts : TimerFires(p) \/ ReconnectStep(p)
  \/ \E e \in Engines : Event(e)
  \/ ApplyWrite
  \/ Restart

\* What the program waits for happens: promises settle, timers elapse, the
\* database answers.  Nothing makes a user call or a client emit an event.
Fairness ==
  /\ \A p \in Procs : WF_vars(InitStep(p))
  /\ \A p \in ApiCalls : WF_vars(StopStep(p)) /\ WF_vars(DeleteStep(p))
  /\ \A p \in Attempts : WF_vars(TimerFires(p)) /\ WF_vars(ReconnectStep(p))
  /\ \A e \in Engines : WF_vars(QrSettles(e))
  /\ WF_vars(ApplyWrite)

Spec == Init /\ [][Next]_vars
FairSpec == Spec /\ Fairness

-----------------------------------------------------------------------------
(* What the service promises.                                              *)

Open == {e \in Engines : client[e]}

\* Two browsers never run on the same LocalAuth profile (clientId is the
\* session's name), whatever reconnects, failures and restarts came before.
OneBrowser == \A e, f \in Open : e = f

\* An open browser can still be reached through the service: it is the
\* registered engine, or a call in flight is still working on it.
NoOrphan == \A e \in Open : registered = e \/ \E p \in Procs : eng[p] = e

\* The comment on stoppingSessions: a stop or delete that meets a reconnect
\* attempt wins; once both are done no browser runs behind the service's back.
StopWins == stopping /\ Quiet => Open \subseteq {registered}

\* scheduleReconnect's debounce and cancelReconnect: one reconnect timer per session,
\* and none that could bring a stopped or deleted session back.
OneTimer ==
  /\ \A a, b \in Budgets : timer[a] /\ timer[b] => a = b
  /\ stopping => \A b \in Budgets : ~timer[b]

\* attachLastError's comment: a recovered session never shows a stale failure.
NoStaleFailure ==
  Quiet /\ writes = <<>> /\ registered # None /\ status[registered] = "ready"
    => row # "failed"

\* Whoever calls what when: a row at rest never shows an active session with no
\* browser open for it, but for one case: a qr handler that was still drawing
\* when its client was closed leaves qr_ready behind.
NoGhost ==
  Quiet /\ writes = <<>> /\ row \in Active
    => Open # {} \/ (row = "qr_ready" /\ belated)

\* initializeEngine's comment on the order of its updates: the INITIALIZING of a
\* start or reconnect never clobbers the progress of the engine it started, not
\* even when a code of the engine before is reported in between.
NoClobber ==
  writes = <<>> /\ registered # None /\ status[registered] \in {"qr_ready", "ready"}
    => row # "initializing"

\* Once the client stops repeating `disconnected` (every repeat restores the
\* budget), an outage ends: the session is initialized again, or its attempts
\* are used up, or it was stopped, deleted or restarted.
Down ==
  budget # None /\ registered # None /\ client[registered]
  /\ status[registered] = "disconnected"
Settled ==
  \/ budget = None \/ stopping
  \/ registered # None /\ status[registered] \in Active
  \/ budget # None /\ attempts[budget] = MaxAttempts
Recovers ==
  <>[][\A e \in Engines : ~Disconnected(e)]_vars => (Down ~> Settled)
=============================================================================
