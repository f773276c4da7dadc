---------------------------- MODULE WebhookDelivery ----------------------------
(***************************************************************************)
(* Events on their way to the webhooks of a session: dispatch of           *)
(* WebhookService, its direct delivery with retries when no queue is       *)
(* configured, and WebhookProcessor on the BullMQ queue otherwise.         *)
(*                                                                         *)
(* dispatch takes the matching webhooks one after another and delivers     *)
(* with the entities it has read.  A delivery is one event to one webhook. *)
(* Every delivery of an event carries the same idempotency key, so a       *)
(* receiver may get it more than once, but must learn of it.               *)
(***************************************************************************)
EXTENDS Integers

CONSTANTS
  Events,      \* events dispatched
  Webhooks,    \* webhooks of the session that match the events
  Edited,      \* the webhooks that requests update or delete meanwhile
  Edits,       \* what update() makes of the row of such a webhook
  Retries,     \* values of retryCount (the DTO allows 0 to 5)
  NoHook       \* the webhook has no row, or nothing was read

ASSUME WebhookAssumption ==
  /\ Retries \subseteq Nat
  /\ Edited \subseteq Webhooks
  /\ Edits \subseteq [active : BOOLEAN, retryCount : Retries]

VARIABLES
  queueEnabled,  \* queue.enabled, and the queue was injected
  hook,          \* rows of the webhooks table
  edit,          \* update(): the entity about to be saved
  dispatch,      \* the dispatch of each event
  todo,          \* the webhooks it has still to take
  at,            \* the stage of each delivery
  limit,         \* retryCount as dispatch read it
  failures,      \* attempts that failed (job.attemptsMade)
  posts,         \* attempts begun
  accepted,      \* the receiver has processed the event
  delivered,     \* webhook:delivered hooks run
  errors,        \* webhook:error hooks run
  stalls         \* crashes of a worker on the job

store == <<hook, edit>>
counts == <<failures, posts, accepted, delivered, errors, stalls>>
vars == <<queueEnabled, store, dispatch, todo, at, limit, counts>>

Row == [active : BOOLEAN, retryCount : Retries]
Deliveries == Events \X Webhooks

\* What dispatch itself waits for, and what a worker or direct delivery does.
Attempting == {"posting", "recording"}
Stages == {"none", "before", "queueing", "queued", "backoff", "returned"} \cup Attempting
Ends == {"cancelled", "unqueued", "done", "failed", "lost", "stalled"}

-----------------------------------------------------------------------------
TypeOK ==
  /\ queueEnabled \in BOOLEAN
  /\ hook \in [Webhooks -> Row \cup {NoHook}]
  /\ edit \in [Webhooks -> Row \cup {NoHook}]
  /\ dispatch \in [Events -> {"idle", "running", "over", "lost"}]
  /\ todo \in [Events -> SUBSET Webhooks]
  /\ at \in [Deliveries -> Stages \cup Ends]
  /\ limit \in [Deliveries -> Nat]
  /\ \A f \in {failures, posts, delivered, errors, stalls} : f \in [Deliveries -> Nat]
  /\ accepted \in [Deliveries -> BOOLEAN]

Init ==
  /\ queueEnabled \in BOOLEAN
  /\ hook \in [Webhooks -> [active : {TRUE}, retryCount : Retries]]
  /\ edit = [w \in Webhooks |-> NoHook]
  /\ dispatch = [e \in Events |-> "idle"]
  /\ todo = [e \in Events |-> {}]
  /\ at = [x \in Deliveries |-> "none"]
  /\ accepted = [x \in Deliveries |-> FALSE]
  /\ limit = [x \in Deliveries |-> 0]
  /\ \E zero \in {[x \in Deliveries |-> 0]} :
       /\ failures = zero /\ posts = zero
       /\ delivered = zero /\ errors = zero /\ stalls = zero

-----------------------------------------------------------------------------
(* Configuration of webhooks.                                              *)

\* update: findOne, the new values; then save() of the entity, which inserts the
\* row again when it is gone.
Update(w, r) ==
  /\ hook[w] # NoHook /\ edit[w] = NoHook
  /\ edit' = [edit EXCEPT ![w] = r]
  /\ UNCHANGED <<queueEnabled, hook, dispatch, todo, at, limit, counts>>

UpdateSaved(w) ==
  /\ edit[w] # NoHook
  /\ hook' = [hook EXCEPT ![w] = edit[w]]
  /\ edit' = [edit EXCEPT ![w] = NoHook]
  /\ UNCHANGED <<queueEnabled, dispatch, todo, at, limit, counts>>

\* Mutant: a deleted webhook is kept, without its configuration.
DeleteSoft(w) ==
  /\ hook[w] # NoHook
  /\ hook' = [hook EXCEPT ![w] = [active |-> FALSE]]
  /\ UNCHANGED <<queueEnabled, edit, dispatch, todo, at, limit, counts>>

Delete(w) ==
  /\ hook[w] # NoHook
  /\ hook' = [hook EXCEPT ![w] = NoHook]
  /\ UNCHANGED <<queueEnabled, edit, dispatch, todo, at, limit, counts>>

-----------------------------------------------------------------------------
(* dispatch                                                                *)

Goto(x, stage) == at' = [at EXCEPT ![x] = stage]
Count(f, x) == [f EXCEPT ![x] = @ + 1]

\* The active webhooks are read.
Dispatch(e) ==
  /\ dispatch[e] = "idle"
  /\ dispatch' = [dispatch EXCEPT ![e] = "running"]
  /\ todo' = [todo EXCEPT ![e] = {w \in Webhooks : hook[w] # NoHook /\ hook[w].active}]
  /\ limit' = [x \in Deliveries |->
       IF x[1] = e /\ hook[x[2]] # NoHook THEN hook[x[2]].retryCount ELSE limit[x]]
  /\ UNCHANGED <<queueEnabled, store, at, counts>>

\* dispatch awaits the delivery itself when there is no queue.
Awaited ==
  {"before", "queueing"} \cup (IF queueEnabled THEN {} ELSE Attempting \cup {"backoff"})
Busy(e) == \E w \in Webhooks : at[e, w] \in Awaited

\* The next webhook: the webhook:before hook is called.
Take(e, w) ==
  /\ dispatch[e] = "running" /\ ~Busy(e)
  /\ w \in todo[e]
  /\ todo' = [todo EXCEPT ![e] = @ \ {w}]
  /\ Goto(<<e, w>>, "before")
  /\ UNCHANGED <<queueEnabled, store, dispatch, limit, counts>>

\* A plugin may cancel the delivery.
BeforeHook(x, continue) ==
  /\ at[x] = "before"
  /\ Goto(x, IF ~continue THEN "cancelled" ELSE IF queueEnabled THEN "queueing" ELSE "posting")
  /\ posts' = IF continue /\ ~queueEnabled THEN Count(posts, x) ELSE posts
  /\ UNCHANGED <<queueEnabled, store, dispatch, todo, limit, failures, accepted,
                 delivered, errors, stalls>>

QueueAdd(x, ok) ==
  /\ at[x] = "queueing"
  /\ Goto(x, IF ok THEN "queued" ELSE "unqueued")
  /\ errors' = IF ok THEN errors ELSE Count(errors, x)
  /\ UNCHANGED <<queueEnabled, store, dispatch, todo, limit, failures, posts, accepted,
                 delivered, stalls>>

Over(e) ==
  /\ dispatch[e] = "running" /\ ~Busy(e)
  /\ todo[e] = {}
  /\ dispatch' = [dispatch EXCEPT ![e] = "over"]
  /\ UNCHANGED <<queueEnabled, store, todo, at, limit, counts>>

-----------------------------------------------------------------------------
(* deliverWebhook and WebhookProcessor.process                             *)

\* The worker takes one job at a time.
Work(x) ==
  /\ at[x] = "queued"
  /\ \A y \in Deliveries : at[y] \notin Attempting \cup {"returned"}
  /\ Goto(x, "posting")
  /\ posts' = Count(posts, x)
  /\ UNCHANGED <<queueEnabled, store, dispatch, todo, limit, failures, accepted,
                 delivered, errors, stalls>>

\* The receiver answers 2xx.
Answered(x) ==
  /\ at[x] = "posting"
  /\ accepted' = [accepted EXCEPT ![x] = TRUE]
  /\ Goto(x, "recording")
  /\ UNCHANGED <<queueEnabled, store, dispatch, todo, limit, failures, posts,
                 delivered, errors, stalls>>

\* Mutant: one attempt too many.
FailedOneMore(x, processed) ==
  /\ at[x] \in Attempting
  /\ accepted' = [accepted EXCEPT ![x] = @ \/ processed]
  /\ failures' = Count(failures, x)
  /\ IF failures[x] + 1 <= limit[x]
       THEN Goto(x, "backoff") /\ UNCHANGED errors
       ELSE Goto(x, "failed") /\ errors' = Count(errors, x)
  /\ UNCHANGED <<queueEnabled, store, dispatch, todo, limit, posts, delivered, stalls>>

\* Mutant: webhook:error is run for every attempt.
FailedReported(x, processed) ==
  /\ at[x] \in Attempting
  /\ accepted' = [accepted EXCEPT ![x] = @ \/ processed]
  /\ failures' = Count(failures, x)
  /\ errors' = Count(errors, x)
  /\ Goto(x, IF failures[x] + 1 < limit[x] THEN "backoff" ELSE "failed")
  /\ UNCHANGED <<queueEnabled, store, dispatch, todo, limit, posts, delivered, stalls>>

\* Mutant: the last failure is only logged.
FailedSilently(x, processed) ==
  /\ at[x] \in Attempting
  /\ accepted' = [accepted EXCEPT ![x] = @ \/ processed]
  /\ failures' = Count(failures, x)
  /\ Goto(x, IF failures[x] + 1 < limit[x] THEN "backoff" ELSE "failed")
  /\ UNCHANGED <<queueEnabled, store, dispatch, todo, limit, posts, delivered, errors, stalls>>

\* The URL is not safe, the request fails or times out, the answer is not 2xx, or
\* lastTriggeredAt cannot be saved: another attempt, or webhook:error.
Failed(x, processed) ==
  /\ at[x] \in Attempting
  /\ accepted' = [accepted EXCEPT ![x] = @ \/ processed]
  /\ failures' = Count(failures, x)
  /\ IF failures[x] + 1 < limit[x]
       THEN Goto(x, "backoff") /\ UNCHANGED errors
       ELSE Goto(x, "failed") /\ errors' = Count(errors, x)
  /\ UNCHANGED <<queueEnabled, store, dispatch, todo, limit, posts, delivered, stalls>>

\* Mutant: a direct delivery gives up after a first failure.
BackoffQueueOnly(x) ==
  /\ at[x] = "backoff" /\ queueEnabled
  /\ Goto(x, "queued")
  /\ UNCHANGED <<queueEnabled, store, dispatch, todo, limit, failures, posts, accepted,
                 delivered, errors, stalls>>

\* The delay is over.
Backoff(x) ==
  /\ at[x] = "backoff"
  /\ Goto(x, IF queueEnabled THEN "queued" ELSE "posting")
  /\ posts' = IF queueEnabled THEN posts ELSE Count(posts, x)
  /\ UNCHANGED <<queueEnabled, store, dispatch, todo, limit, failures, accepted,
                 delivered, errors, stalls>>

\* lastTriggeredAt is saved; webhook:delivered.
Recorded(x) ==
  /\ at[x] = "recording"
  /\ delivered' = Count(delivered, x)
  /\ Goto(x, IF queueEnabled THEN "returned" ELSE "done")
  /\ UNCHANGED <<queueEnabled, store, dispatch, todo, limit, failures, posts, accepted,
                 errors, stalls>>

\* BullMQ completes the job.
Completed(x) ==
  /\ at[x] = "returned"
  /\ Goto(x, "done")
  /\ UNCHANGED <<queueEnabled, store, dispatch, todo, limit, counts>>

-----------------------------------------------------------------------------
\* What BullMQ makes of a job whose worker died: it runs again, but not twice.
Stalled(x) == IF stalls[x] = 0 THEN "queued" ELSE "stalled"

\* Mutant: jobs are kept in the memory of the gateway.
RestartForgets ==
  /\ dispatch' = [e \in Events |-> IF dispatch[e] = "running" THEN "lost" ELSE dispatch[e]]
  /\ todo' = [e \in Events |-> {}]
  /\ edit' = [w \in Webhooks |-> NoHook]
  /\ at' = [x \in Deliveries |-> IF at[x] \in {"none"} \cup Ends THEN at[x] ELSE "lost"]
  /\ UNCHANGED <<queueEnabled, hook, limit, counts>>

\* The gateway dies and restarts: dispatches and direct deliveries are lost, jobs
\* of the queue are kept.
Restart ==
  /\ dispatch' = [e \in Events |-> IF dispatch[e] = "running" THEN "lost" ELSE dispatch[e]]
  /\ todo' = [e \in Events |-> {}]
  /\ edit' = [w \in Webhooks |-> NoHook]
  /\ at' = [x \in Deliveries |->
       IF at[x] \in Awaited THEN "lost"
       ELSE IF at[x] \in Attempting \cup {"returned"} THEN Stalled(x)
       ELSE at[x]]
  /\ stalls' = [x \in Deliveries |->
       IF queueEnabled /\ at[x] \in Attempting \cup {"returned"} THEN stalls[x] + 1 ELSE stalls[x]]
  /\ UNCHANGED <<queueEnabled, hook, limit, failures, posts, accepted, delivered, errors>>

DispatchStep(e) ==
  \/ Over(e)
  \/ \E w \in Webhooks : Take(e, w)
  \/ \E w \in Webhooks, b \in BOOLEAN : BeforeHook(<<e, w>>, b) \/ QueueAdd(<<e, w>>, b)

DeliveryStep(x) ==
  \/ Work(x)
  \/ Answered(x)
  \/ \E processed \in BOOLEAN : Failed(x, processed)
  \/ Backoff(x)
  \/ Recorded(x)
  \/ Completed(x)

Next ==
  \/ \E w \in Edited : (\E r \in Edits : Update(w, r)) \/ UpdateSaved(w) \/ Delete(w)
  \/ \E e \in Events : Dispatch(e) \/ DispatchStep(e)
  \/ \E x \in Deliveries : DeliveryStep(x)
  \/ Restart

\* Hooks, requests (they time out), the database, delays and the queue's worker go
\* on.  Work is enabled only between two jobs, hence strongly fair.
Fairness ==
  /\ \A e \in Events : WF_vars(DispatchStep(e))
  /\ \A x \in Deliveries : SF_vars(Work(x)) /\ WF_vars(DeliveryStep(x))

Spec == Init /\ [][Next]_vars
FairSpec == Spec /\ Fairness

-----------------------------------------------------------------------------
(* What dispatch promises.                                                 *)

Allowed(x) == IF limit[x] = 0 THEN 1 ELSE limit[x]

\* retryCount bounds the attempts, the ones of a queue that crashed excepted.
AttemptsBounded == \A x \in Deliveries : posts[x] <= Allowed(x) + stalls[x]

\* Plugins learn of an outcome once, unless a crash of the worker comes between it
\* and its job's completion.
OneOutcome ==
  \A x \in Deliveries : delivered[x] + errors[x] <= 1 + stalls[x]

\* Nothing that was attempted ends without an outcome, but for a crash.
NoSilentEnd ==
  \A x \in Deliveries :
    /\ at[x] = "done" => delivered[x] > 0 /\ accepted[x]
    /\ at[x] \in {"failed", "unqueued"} => errors[x] > 0

\* In direct mode a receiver that was not reached is the only one to miss the event:
\* the webhooks after it are served as well, as long as the gateway runs.
EveryHookServed ==
  \A e \in Events, w \in Webhooks :
    w \in todo[e] ~> at[e, w] \in Ends \cup {"queued", "lost"} \/ dispatch[e] = "lost"

\* A queued job outlives restarts, however many: it is delivered or reported, or has
\* crashed its worker twice.
QueueSurvives ==
  \A x \in Deliveries : at[x] = "queued" ~> at[x] \in {"done", "failed", "stalled"}
=============================================================================
