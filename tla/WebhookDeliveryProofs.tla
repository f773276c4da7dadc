------------------------- MODULE WebhookDeliveryProofs -------------------------
(***************************************************************************)
(* Proofs about WebhookDelivery for any sets of events and webhooks, with  *)
(* and without a queue, whatever is edited and however often the gateway   *)
(* restarts.                                                               *)
(*                                                                         *)
(* What a delivery has done so far is tied to its stage: an attempt that   *)
(* has begun and neither failed nor crashed its worker is one beyond the   *)
(* failures, and the same holds of an outcome.  That makes the bound on    *)
(* attempts and the single outcome inductive.                              *)
(***************************************************************************)
EXTENDS WebhookDelivery, TLAPS

\* Stages at which one attempt has neither failed nor crashed, and at which an
\* outcome has been reported.
Begun == Attempting \cup {"returned", "done", "lost"}
Reported == {"returned", "done", "failed", "unqueued"}

AttemptsInv(x) ==
  /\ at[x] = "none" => failures[x] = 0
  /\ at[x] # "failed" => failures[x] < Allowed(x)
  /\ failures[x] <= Allowed(x)
  /\ at[x] \in Begun => posts[x] <= failures[x] + stalls[x] + 1
  /\ at[x] \notin Begun => posts[x] <= failures[x] + stalls[x]

OutcomeInv(x) ==
  /\ at[x] \in Reported => delivered[x] + errors[x] <= stalls[x] + 1
  /\ at[x] \notin Reported => delivered[x] + errors[x] <= stalls[x]
  /\ at[x] \in {"recording", "returned", "done"} => accepted[x]
  /\ at[x] \in {"returned", "done"} => delivered[x] > 0
  /\ at[x] \in {"failed", "unqueued"} => errors[x] > 0
  /\ at[x] = "returned" => queueEnabled

\* A delivery that dispatch has still to take has not begun.
DispatchInv ==
  \A e \in Events, w \in Webhooks :
    dispatch[e] = "idle" \/ w \in todo[e] => at[<<e, w>>] = "none"

Inv == TypeOK /\ DispatchInv /\ \A x \in Deliveries : AttemptsInv(x) /\ OutcomeInv(x)

-----------------------------------------------------------------------------
(* Types *)

\* What TypeOK says of the counters, one by one.
LEMMA Counters ==
  TypeOK <=>
    /\ queueEnabled \in BOOLEAN
    /\ hook \in [Webhooks -> Row \cup {NoHook}]
    /\ edit \in [Webhooks -> Row \cup {NoHook}]
    /\ dispatch \in [Events -> {"idle", "running", "over", "lost"}]
    /\ todo \in [Events -> SUBSET Webhooks]
    /\ at \in [Deliveries -> Stages \cup Ends]
    /\ limit \in [Deliveries -> Nat]
    /\ failures \in [Deliveries -> Nat]
    /\ posts \in [Deliveries -> Nat]
    /\ delivered \in [Deliveries -> Nat]
    /\ errors \in [Deliveries -> Nat]
    /\ stalls \in [Deliveries -> Nat]
    /\ accepted \in [Deliveries -> BOOLEAN]
BY DEF TypeOK

\* A step of one delivery: to a stage, with counters that count at most one more.
Steps(x, stage) ==
  /\ stage \in Stages \cup Ends
  /\ at' = [at EXCEPT ![x] = stage]
  /\ failures' \in {failures, Count(failures, x)}
  /\ posts' \in {posts, Count(posts, x)}
  /\ delivered' \in {delivered, Count(delivered, x)}
  /\ errors' \in {errors, Count(errors, x)}
  /\ accepted' = accepted \/ \E b \in BOOLEAN : accepted' = [accepted EXCEPT ![x] = b]
  /\ UNCHANGED <<queueEnabled, store, dispatch, limit, stalls>>

LEMMA CountType ==
  ASSUME NEW f \in [Deliveries -> Nat], NEW x \in Deliveries, NEW g \in {f, Count(f, x)}
  PROVE  /\ g \in [Deliveries -> Nat]
         /\ \A y \in Deliveries \ {x} : g[y] = f[y]
BY DEF Count

LEMMA Counted ==
  ASSUME NEW f \in [Deliveries -> Nat], NEW x \in Deliveries
  PROVE  Count(f, x)[x] = f[x] + 1
BY DEF Count

\* Such a step keeps the types, and is seen at its delivery only.
LEMMA StepsType ==
  ASSUME TypeOK, NEW x \in Deliveries, NEW stage, Steps(x, stage),
         todo' \in [Events -> SUBSET Webhooks]
  PROVE  /\ TypeOK'
         /\ at'[x] = stage
         /\ \A y \in Deliveries \ {x} :
              /\ at'[y] = at[y] /\ failures'[y] = failures[y] /\ posts'[y] = posts[y]
              /\ delivered'[y] = delivered[y] /\ errors'[y] = errors[y]
              /\ accepted'[y] = accepted[y]
<1>1. /\ failures \in [Deliveries -> Nat] /\ posts \in [Deliveries -> Nat]
      /\ delivered \in [Deliveries -> Nat] /\ errors \in [Deliveries -> Nat]
      /\ at \in [Deliveries -> Stages \cup Ends] /\ accepted \in [Deliveries -> BOOLEAN]
  BY Counters
<1>2. /\ failures' \in [Deliveries -> Nat]
      /\ \A y \in Deliveries \ {x} : failures'[y] = failures[y]
  <2>1. failures' \in {failures, Count(failures, x)}
    BY DEF Steps
  <2> QED
    BY <1>1, <2>1, CountType
<1>7. /\ posts' \in [Deliveries -> Nat]
      /\ \A y \in Deliveries \ {x} : posts'[y] = posts[y]
  <2>1. posts' \in {posts, Count(posts, x)}
    BY DEF Steps
  <2> QED
    BY <1>1, <2>1, CountType
<1>9. /\ delivered' \in [Deliveries -> Nat]
      /\ \A y \in Deliveries \ {x} : delivered'[y] = delivered[y]
  <2>1. delivered' \in {delivered, Count(delivered, x)}
    BY DEF Steps
  <2> QED
    BY <1>1, <2>1, CountType
<1>10. /\ errors' \in [Deliveries -> Nat]
       /\ \A y \in Deliveries \ {x} : errors'[y] = errors[y]
  <2>1. errors' \in {errors, Count(errors, x)}
    BY DEF Steps
  <2> QED
    BY <1>1, <2>1, CountType
<1>3. at' \in [Deliveries -> Stages \cup Ends]
  BY <1>1 DEF Steps
<1>8. accepted' \in [Deliveries -> BOOLEAN] /\ \A y \in Deliveries \ {x} : accepted'[y] = accepted[y]
  <2>1. CASE accepted' = accepted
    BY <1>1, <2>1
  <2>2. CASE \E b \in BOOLEAN : accepted' = [accepted EXCEPT ![x] = b]
    BY <1>1, <2>2
  <2> QED
    BY <2>1, <2>2 DEF Steps
<1>4. /\ queueEnabled' = queueEnabled /\ hook' = hook /\ edit' = edit
      /\ dispatch' = dispatch /\ limit' = limit /\ stalls' = stalls
  BY DEF Steps, store
<1>5. TypeOK'
  <2>1. /\ queueEnabled \in BOOLEAN /\ hook \in [Webhooks -> Row \cup {NoHook}]
        /\ edit \in [Webhooks -> Row \cup {NoHook}]
        /\ dispatch \in [Events -> {"idle", "running", "over", "lost"}]
        /\ limit \in [Deliveries -> Nat] /\ stalls \in [Deliveries -> Nat]
    BY Counters
  <2> QED
    BY <1>2, <1>3, <1>4, <1>7, <1>8, <1>9, <1>10, <2>1 DEF TypeOK
<1>6. at'[x] = stage /\ \A y \in Deliveries \ {x} : at'[y] = at[y]
  BY <1>1 DEF Steps
<1> QED
  BY <1>2, <1>5, <1>6, <1>7, <1>8, <1>9, <1>10

\* The counters of a delivery, before and after, are numbers.
LEMMA Numbers ==
  ASSUME TypeOK, NEW x \in Deliveries
  PROVE  /\ limit[x] \in Nat /\ failures[x] \in Nat /\ posts[x] \in Nat
         /\ delivered[x] \in Nat /\ errors[x] \in Nat /\ stalls[x] \in Nat
         /\ at[x] \in Stages \cup Ends /\ Allowed(x) \in Nat /\ Allowed(x) >= 1
         /\ Allowed(x) >= limit[x]
<1>1. /\ limit[x] \in Nat /\ failures[x] \in Nat /\ posts[x] \in Nat
      /\ delivered[x] \in Nat /\ errors[x] \in Nat /\ stalls[x] \in Nat
      /\ at[x] \in Stages \cup Ends
  BY Counters
<1> QED
  BY <1>1 DEF Allowed

-----------------------------------------------------------------------------
(* Steps of one delivery *)

\* It is enough to look at the delivery itself, if it was under way before.
LEMMA StepsKeep ==
  ASSUME Inv, NEW x \in Deliveries, NEW stage, Steps(x, stage), todo' = todo,
         at[x] # "none", AttemptsInv(x)', OutcomeInv(x)'
  PROVE  Inv'
<1>1. TypeOK /\ todo \in [Events -> SUBSET Webhooks]
  BY Counters DEF Inv
<1>2. /\ TypeOK'
      /\ \A y \in Deliveries \ {x} :
           /\ at'[y] = at[y] /\ failures'[y] = failures[y] /\ posts'[y] = posts[y]
           /\ delivered'[y] = delivered[y] /\ errors'[y] = errors[y]
           /\ accepted'[y] = accepted[y]
  BY <1>1, StepsType
<1>3. queueEnabled' = queueEnabled /\ dispatch' = dispatch /\ limit' = limit /\ stalls' = stalls
  BY DEF Steps
<1>4. \A y \in Deliveries : AttemptsInv(y)' /\ OutcomeInv(y)'
  <2> SUFFICES ASSUME NEW y \in Deliveries \ {x}
               PROVE  AttemptsInv(y)' /\ OutcomeInv(y)'
    OBVIOUS
  <2>1. AttemptsInv(y) /\ OutcomeInv(y)
    BY DEF Inv
  <2>2. Allowed(y)' = Allowed(y)
    BY <1>3 DEF Allowed
  <2> QED
    BY <1>2, <1>3, <2>1, <2>2 DEF AttemptsInv, OutcomeInv
<1>5. DispatchInv'
  <2> SUFFICES ASSUME NEW e \in Events, NEW w \in Webhooks,
                      dispatch'[e] = "idle" \/ w \in todo'[e]
               PROVE  at'[<<e, w>>] = "none"
    BY DEF DispatchInv
  <2>1. at[<<e, w>>] = "none" /\ <<e, w>> \in Deliveries
    BY <1>3 DEF Inv, DispatchInv, Deliveries
  <2> QED
    BY <1>2, <2>1
<1> QED
  BY <1>2, <1>4, <1>5 DEF Inv

\* What a step does to the one delivery it moves, entry by entry.
Moves(x, stage, f, p, d, e) ==
  /\ at'[x] = stage
  /\ failures'[x] = failures[x] + f
  /\ posts'[x] = posts[x] + p
  /\ delivered'[x] = delivered[x] + d
  /\ errors'[x] = errors[x] + e

LEMMA Moved ==
  ASSUME TypeOK, NEW x \in Deliveries, NEW stage, Steps(x, stage),
         todo' \in [Events -> SUBSET Webhooks],
         NEW f \in {0, 1}, NEW p \in {0, 1}, NEW d \in {0, 1}, NEW e \in {0, 1},
         failures' = (IF f = 1 THEN Count(failures, x) ELSE failures),
         posts' = (IF p = 1 THEN Count(posts, x) ELSE posts),
         delivered' = (IF d = 1 THEN Count(delivered, x) ELSE delivered),
         errors' = (IF e = 1 THEN Count(errors, x) ELSE errors)
  PROVE  Moves(x, stage, f, p, d, e)
<1>1. /\ failures \in [Deliveries -> Nat] /\ posts \in [Deliveries -> Nat]
      /\ delivered \in [Deliveries -> Nat] /\ errors \in [Deliveries -> Nat]
  BY Counters
<1>2. at'[x] = stage
  BY StepsType
<1>3. failures'[x] = failures[x] + f
  BY <1>1, Counted
<1>4. posts'[x] = posts[x] + p
  BY <1>1, Counted
<1>5. delivered'[x] = delivered[x] + d
  BY <1>1, Counted
<1>6. errors'[x] = errors[x] + e
  BY <1>1, Counted
<1> QED
  BY <1>2, <1>3, <1>4, <1>5, <1>6 DEF Moves

LEMMA BeforeHookOK ==
  ASSUME Inv, NEW x \in Deliveries, NEW b \in BOOLEAN, BeforeHook(x, b)
  PROVE  Inv'
<1> DEFINE stage == IF ~b THEN "cancelled" ELSE IF queueEnabled THEN "queueing" ELSE "posting"
           p == IF stage = "posting" THEN 1 ELSE 0
<1>1. Steps(x, stage) /\ todo' = todo
  BY DEF BeforeHook, Goto, Steps, Stages, Ends, Attempting, store
<1>2. at[x] = "before" /\ stalls' = stalls /\ limit' = limit
  BY DEF BeforeHook
<1>3. TypeOK /\ AttemptsInv(x) /\ OutcomeInv(x) /\ todo \in [Events -> SUBSET Webhooks]
  BY Counters DEF Inv
<1>4. Moves(x, stage, 0, p, 0, 0)
  <2>1. /\ failures' = failures /\ delivered' = delivered /\ errors' = errors
        /\ posts' = IF p = 1 THEN Count(posts, x) ELSE posts
    BY DEF BeforeHook
  <2>2. p \in {0, 1}
    OBVIOUS
  <2> HIDE DEF stage, p
  <2> QED
    BY <1>1, <1>3, <2>1, <2>2, Moved
<1>5. stage \in {"cancelled", "queueing", "posting"}
  OBVIOUS
<1> HIDE DEF stage
<1>6. AttemptsInv(x)'
  BY <1>2, <1>3, <1>4, <1>5, Numbers
     DEF AttemptsInv, Allowed, Moves, Begun, Attempting
<1>7. OutcomeInv(x)'
  BY <1>2, <1>3, <1>4, <1>5, Numbers
     DEF OutcomeInv, Moves, Reported
<1> QED
  BY <1>1, <1>2, <1>6, <1>7, StepsKeep

LEMMA QueueAddOK ==
  ASSUME Inv, NEW x \in Deliveries, NEW b \in BOOLEAN, QueueAdd(x, b)
  PROVE  Inv'
<1> DEFINE stage == IF b THEN "queued" ELSE "unqueued"
           f == 0
           p == 0
           d == 0
           e == IF b THEN 0 ELSE 1
<1>1. Steps(x, stage) /\ todo' = todo
  BY DEF QueueAdd, Goto, Steps, Stages, Ends, Attempting, store
<1>2. at[x] = "queueing" /\ stalls' = stalls /\ limit' = limit /\ queueEnabled' = queueEnabled
  BY DEF QueueAdd, Attempting
<1>3. TypeOK /\ AttemptsInv(x) /\ OutcomeInv(x) /\ todo \in [Events -> SUBSET Webhooks]
  BY Counters DEF Inv
<1>4. Moves(x, stage, f, p, d, e)
  <2>1. /\ failures' = IF f = 1 THEN Count(failures, x) ELSE failures
        /\ posts' = IF p = 1 THEN Count(posts, x) ELSE posts
        /\ delivered' = IF d = 1 THEN Count(delivered, x) ELSE delivered
        /\ errors' = IF e = 1 THEN Count(errors, x) ELSE errors
    BY DEF QueueAdd, Goto
  <2>2. f \in {0, 1} /\ p \in {0, 1} /\ d \in {0, 1} /\ e \in {0, 1}
    OBVIOUS
  <2> HIDE DEF stage, f, p, d, e
  <2> QED
    BY <1>1, <1>3, <2>1, <2>2, Moved
<1>5. stage \in {"queued", "unqueued"} /\ e = (IF stage = "queued" THEN 0 ELSE 1)
  OBVIOUS
<1>8. accepted' = accepted
  BY DEF QueueAdd
<1> HIDE DEF stage
<1>6. AttemptsInv(x)'
  BY <1>2, <1>3, <1>4, <1>5, Numbers
     DEF AttemptsInv, Allowed, Moves, Begun, Attempting
<1>7. OutcomeInv(x)'
  BY <1>2, <1>3, <1>4, <1>5, <1>8, Numbers
     DEF OutcomeInv, Moves, Reported
<1> QED
  BY <1>1, <1>2, <1>6, <1>7, StepsKeep

LEMMA WorkOK ==
  ASSUME Inv, NEW x \in Deliveries, Work(x)
  PROVE  Inv'
<1> DEFINE stage == "posting"
           f == 0
           p == 1
           d == 0
           e == 0
<1>1. Steps(x, stage) /\ todo' = todo
  BY DEF Work, Goto, Steps, Stages, Ends, Attempting, store
<1>2. at[x] = "queued" /\ stalls' = stalls /\ limit' = limit /\ queueEnabled' = queueEnabled
  BY DEF Work, Attempting
<1>3. TypeOK /\ AttemptsInv(x) /\ OutcomeInv(x) /\ todo \in [Events -> SUBSET Webhooks]
  BY Counters DEF Inv
<1>4. Moves(x, stage, f, p, d, e)
  <2>1. /\ failures' = IF f = 1 THEN Count(failures, x) ELSE failures
        /\ posts' = IF p = 1 THEN Count(posts, x) ELSE posts
        /\ delivered' = IF d = 1 THEN Count(delivered, x) ELSE delivered
        /\ errors' = IF e = 1 THEN Count(errors, x) ELSE errors
    BY DEF Work, Goto
  <2>2. f \in {0, 1} /\ p \in {0, 1} /\ d \in {0, 1} /\ e \in {0, 1}
    OBVIOUS
  <2> HIDE DEF stage, f, p, d, e
  <2> QED
    BY <1>1, <1>3, <2>1, <2>2, Moved
<1>5. stage = "posting"
  OBVIOUS
<1>8. accepted' = accepted
  BY DEF Work
<1> HIDE DEF stage
<1>6. AttemptsInv(x)'
  BY <1>2, <1>3, <1>4, <1>5, Numbers
     DEF AttemptsInv, Allowed, Moves, Begun, Attempting
<1>7. OutcomeInv(x)'
  BY <1>2, <1>3, <1>4, <1>5, <1>8, Numbers
     DEF OutcomeInv, Moves, Reported
<1> QED
  BY <1>1, <1>2, <1>6, <1>7, StepsKeep

LEMMA BackoffOK ==
  ASSUME Inv, NEW x \in Deliveries, Backoff(x)
  PROVE  Inv'
<1> DEFINE stage == IF queueEnabled THEN "queued" ELSE "posting"
           f == 0
           p == IF queueEnabled THEN 0 ELSE 1
           d == 0
           e == 0
<1>1. Steps(x, stage) /\ todo' = todo
  BY DEF Backoff, Goto, Steps, Stages, Ends, Attempting, store
<1>2. at[x] = "backoff" /\ stalls' = stalls /\ limit' = limit /\ queueEnabled' = queueEnabled
  BY DEF Backoff, Attempting
<1>3. TypeOK /\ AttemptsInv(x) /\ OutcomeInv(x) /\ todo \in [Events -> SUBSET Webhooks]
  BY Counters DEF Inv
<1>4. Moves(x, stage, f, p, d, e)
  <2>1. /\ failures' = IF f = 1 THEN Count(failures, x) ELSE failures
        /\ posts' = IF p = 1 THEN Count(posts, x) ELSE posts
        /\ delivered' = IF d = 1 THEN Count(delivered, x) ELSE delivered
        /\ errors' = IF e = 1 THEN Count(errors, x) ELSE errors
    BY DEF Backoff, Goto
  <2>2. f \in {0, 1} /\ p \in {0, 1} /\ d \in {0, 1} /\ e \in {0, 1}
    OBVIOUS
  <2> HIDE DEF stage, f, p, d, e
  <2> QED
    BY <1>1, <1>3, <2>1, <2>2, Moved
<1>5. stage \in {"queued", "posting"} /\ p = (IF stage = "queued" THEN 0 ELSE 1)
  OBVIOUS
<1>8. accepted' = accepted
  BY DEF Backoff
<1> HIDE DEF stage
<1>6. AttemptsInv(x)'
  BY <1>2, <1>3, <1>4, <1>5, Numbers
     DEF AttemptsInv, Allowed, Moves, Begun, Attempting
<1>7. OutcomeInv(x)'
  BY <1>2, <1>3, <1>4, <1>5, <1>8, Numbers
     DEF OutcomeInv, Moves, Reported
<1> QED
  BY <1>1, <1>2, <1>6, <1>7, StepsKeep

LEMMA RecordedOK ==
  ASSUME Inv, NEW x \in Deliveries, Recorded(x)
  PROVE  Inv'
<1> DEFINE stage == IF queueEnabled THEN "returned" ELSE "done"
           f == 0
           p == 0
           d == 1
           e == 0
<1>1. Steps(x, stage) /\ todo' = todo
  BY DEF Recorded, Goto, Steps, Stages, Ends, Attempting, store
<1>2. at[x] = "recording" /\ stalls' = stalls /\ limit' = limit /\ queueEnabled' = queueEnabled
  BY DEF Recorded, Attempting
<1>3. TypeOK /\ AttemptsInv(x) /\ OutcomeInv(x) /\ todo \in [Events -> SUBSET Webhooks]
  BY Counters DEF Inv
<1>4. Moves(x, stage, f, p, d, e)
  <2>1. /\ failures' = IF f = 1 THEN Count(failures, x) ELSE failures
        /\ posts' = IF p = 1 THEN Count(posts, x) ELSE posts
        /\ delivered' = IF d = 1 THEN Count(delivered, x) ELSE delivered
        /\ errors' = IF e = 1 THEN Count(errors, x) ELSE errors
    BY DEF Recorded, Goto
  <2>2. f \in {0, 1} /\ p \in {0, 1} /\ d \in {0, 1} /\ e \in {0, 1}
    OBVIOUS
  <2> HIDE DEF stage, f, p, d, e
  <2> QED
    BY <1>1, <1>3, <2>1, <2>2, Moved
<1>5. stage \in {"returned", "done"} /\ (stage = "returned" => queueEnabled)
  OBVIOUS
<1>8. accepted' = accepted
  BY DEF Recorded
<1> HIDE DEF stage
<1>6. AttemptsInv(x)'
  BY <1>2, <1>3, <1>4, <1>5, Numbers
     DEF AttemptsInv, Allowed, Moves, Begun, Attempting
<1>7. OutcomeInv(x)'
  BY <1>2, <1>3, <1>4, <1>5, <1>8, Numbers
     DEF OutcomeInv, Moves, Reported
<1> QED
  BY <1>1, <1>2, <1>6, <1>7, StepsKeep

LEMMA CompletedOK ==
  ASSUME Inv, NEW x \in Deliveries, Completed(x)
  PROVE  Inv'
<1> DEFINE stage == "done"
           f == 0
           p == 0
           d == 0
           e == 0
<1>1. Steps(x, stage) /\ todo' = todo
  BY DEF Completed, counts, Goto, Steps, Stages, Ends, Attempting, store
<1>2. at[x] = "returned" /\ stalls' = stalls /\ limit' = limit /\ queueEnabled' = queueEnabled
  BY DEF Completed, counts
<1>3. TypeOK /\ AttemptsInv(x) /\ OutcomeInv(x) /\ todo \in [Events -> SUBSET Webhooks]
  BY Counters DEF Inv
<1>4. Moves(x, stage, f, p, d, e)
  <2>1. /\ failures' = IF f = 1 THEN Count(failures, x) ELSE failures
        /\ posts' = IF p = 1 THEN Count(posts, x) ELSE posts
        /\ delivered' = IF d = 1 THEN Count(delivered, x) ELSE delivered
        /\ errors' = IF e = 1 THEN Count(errors, x) ELSE errors
    BY DEF Completed, Goto, counts
  <2>2. f \in {0, 1} /\ p \in {0, 1} /\ d \in {0, 1} /\ e \in {0, 1}
    OBVIOUS
  <2> HIDE DEF stage, f, p, d, e
  <2> QED
    BY <1>1, <1>3, <2>1, <2>2, Moved
<1>5. stage = "done"
  OBVIOUS
<1>8. accepted' = accepted
  BY DEF Completed, counts
<1> HIDE DEF stage
<1>6. AttemptsInv(x)'
  BY <1>2, <1>3, <1>4, <1>5, Numbers
     DEF AttemptsInv, Allowed, Moves, Begun, Attempting
<1>7. OutcomeInv(x)'
  BY <1>2, <1>3, <1>4, <1>5, <1>8, Numbers
     DEF OutcomeInv, Moves, Reported
<1> QED
  BY <1>1, <1>2, <1>6, <1>7, StepsKeep

LEMMA AnsweredOK ==
  ASSUME Inv, NEW x \in Deliveries, Answered(x)
  PROVE  Inv'
<1>1. Steps(x, "recording") /\ todo' = todo
  BY DEF Answered, Goto, Steps, Stages, Ends, Attempting, store
<1>2. at[x] = "posting" /\ stalls' = stalls /\ limit' = limit /\ queueEnabled' = queueEnabled
  BY DEF Answered
<1>3. TypeOK /\ AttemptsInv(x) /\ OutcomeInv(x) /\ todo \in [Events -> SUBSET Webhooks]
      /\ accepted \in [Deliveries -> BOOLEAN]
  BY Counters DEF Inv
<1>4. Moves(x, "recording", 0, 0, 0, 0)
  <2>1. /\ failures' = failures /\ posts' = posts
        /\ delivered' = delivered /\ errors' = errors
    BY DEF Answered
  <2> QED
    BY <1>1, <1>3, <2>1, Moved
<1>5. accepted'[x]
  BY <1>3 DEF Answered
<1>6. AttemptsInv(x)'
  BY <1>2, <1>3, <1>4, Numbers DEF AttemptsInv, Allowed, Moves, Begun, Attempting
<1>7. OutcomeInv(x)'
  BY <1>2, <1>3, <1>4, <1>5, Numbers DEF OutcomeInv, Moves, Reported
<1> QED
  BY <1>1, <1>2, <1>6, <1>7, StepsKeep

LEMMA FailedOK ==
  ASSUME Inv, NEW x \in Deliveries, NEW processed \in BOOLEAN, Failed(x, processed)
  PROVE  Inv'
<1> DEFINE again == failures[x] + 1 < limit[x]
           stage == IF again THEN "backoff" ELSE "failed"
           e == IF again THEN 0 ELSE 1
<1>3. TypeOK /\ AttemptsInv(x) /\ OutcomeInv(x) /\ todo \in [Events -> SUBSET Webhooks]
      /\ accepted \in [Deliveries -> BOOLEAN]
  BY Counters DEF Inv
<1>9. \E b \in BOOLEAN : accepted' = [accepted EXCEPT ![x] = b]
  <2> DEFINE b == accepted[x] \/ processed
  <2>1. b \in BOOLEAN
    OBVIOUS
  <2>2. accepted' = [accepted EXCEPT ![x] = b]
    BY DEF Failed
  <2> HIDE DEF b
  <2> QED
    BY <2>1, <2>2
<1>1. Steps(x, stage) /\ todo' = todo
  <2>1. at' = [at EXCEPT ![x] = stage] /\ errors' \in {errors, Count(errors, x)}
    BY DEF Failed, Goto
  <2>2. /\ failures' \in {failures, Count(failures, x)}
        /\ posts' = posts /\ delivered' = delivered /\ todo' = todo
        /\ UNCHANGED <<queueEnabled, store, dispatch, limit, stalls>>
    BY DEF Failed, store
  <2>3. stage \in Stages \cup Ends
    BY DEF Stages, Ends
  <2> HIDE DEF stage
  <2> QED
    BY <1>9, <2>1, <2>2, <2>3 DEF Steps
<1>2. at[x] \in Attempting /\ stalls' = stalls /\ limit' = limit /\ queueEnabled' = queueEnabled
  BY DEF Failed
<1>4. Moves(x, stage, 1, 0, 0, e)
  <2>1. /\ failures' = Count(failures, x) /\ posts' = posts
        /\ delivered' = delivered /\ errors' = IF e = 1 THEN Count(errors, x) ELSE errors
    BY DEF Failed, Goto
  <2>2. e \in {0, 1}
    OBVIOUS
  <2> HIDE DEF stage, e
  <2> QED
    BY <1>1, <1>3, <2>1, <2>2, Moved
<1>5. /\ stage \in {"backoff", "failed"}
      /\ stage = "backoff" => failures[x] + 1 < limit[x]
      /\ e = (IF stage = "backoff" THEN 0 ELSE 1)
  OBVIOUS
<1> HIDE DEF stage, e
<1>6. AttemptsInv(x)'
  BY <1>2, <1>3, <1>4, <1>5, Numbers
     DEF AttemptsInv, Allowed, Moves, Begun, Attempting
<1>7. OutcomeInv(x)'
  BY <1>2, <1>3, <1>4, <1>5, Numbers
     DEF OutcomeInv, Moves, Reported, Attempting
<1>8. at[x] # "none"
  BY <1>2 DEF Attempting
<1> QED
  BY <1>1, <1>6, <1>7, <1>8, StepsKeep

\* The delivery dispatch takes next has not begun, and it is taken once.
LEMMA TakeOK ==
  ASSUME Inv, NEW e \in Events, NEW w \in Webhooks, Take(e, w)
  PROVE  Inv'
<1> DEFINE x == <<e, w>>
<1>1. x \in Deliveries
  BY DEF Deliveries
<1>2. Steps(x, "before")
  BY DEF Take, Goto, Steps, Stages, counts
<1>3. TypeOK /\ AttemptsInv(x) /\ OutcomeInv(x) /\ todo \in [Events -> SUBSET Webhooks]
  BY <1>1, Counters DEF Inv
<1>4. todo' = [todo EXCEPT ![e] = @ \ {w}] /\ dispatch[e] = "running" /\ w \in todo[e]
      /\ dispatch' = dispatch
  BY DEF Take
<1>5. todo' \in [Events -> SUBSET Webhooks]
  BY <1>3, <1>4
<1>6. at[x] = "none"
  BY <1>4 DEF Inv, DispatchInv
<1>7. UNCHANGED <<failures, posts, delivered, errors, stalls, accepted, limit, queueEnabled>>
  BY DEF Take, counts
<1>8. TypeOK' /\ at'[x] = "before" /\ \A y \in Deliveries \ {x} : at'[y] = at[y]
  BY <1>1, <1>2, <1>3, <1>5, StepsType
<1> HIDE DEF x
<1>9. \A y \in Deliveries : AttemptsInv(y)' /\ OutcomeInv(y)'
  <2> SUFFICES ASSUME NEW y \in Deliveries
               PROVE  AttemptsInv(y)' /\ OutcomeInv(y)'
    OBVIOUS
  <2>1. AttemptsInv(y) /\ OutcomeInv(y)
    BY DEF Inv
  <2>2. CASE y = x
    <3>1. AttemptsInv(y)'
      BY <1>6, <1>7, <1>8, <2>1, <2>2 DEF AttemptsInv, Allowed, Begun, Attempting
    <3>2. OutcomeInv(y)'
      BY <1>6, <1>7, <1>8, <2>1, <2>2 DEF OutcomeInv, Reported
    <3> QED
      BY <3>1, <3>2
  <2>3. CASE y # x
    BY <1>7, <1>8, <2>1, <2>3 DEF AttemptsInv, OutcomeInv, Allowed
  <2> QED
    BY <2>2, <2>3
<1>10. DispatchInv'
  <2> SUFFICES ASSUME NEW f \in Events, NEW v \in Webhooks,
                      dispatch'[f] = "idle" \/ v \in todo'[f]
               PROVE  at'[<<f, v>>] = "none"
    BY DEF DispatchInv
  <2>1. <<f, v>> # x
    BY <1>3, <1>4 DEF x
  <2>2. dispatch[f] = "idle" \/ v \in todo[f]
    BY <1>3, <1>4
  <2> QED
    BY <1>8, <2>1, <2>2 DEF Inv, DispatchInv, Deliveries
<1> QED
  BY <1>8, <1>9, <1>10 DEF Inv

-----------------------------------------------------------------------------
(* Steps of dispatch, of the configuration, and restarts *)

\* A step that leaves every delivery alone.
LEMMA Elsewhere ==
  ASSUME Inv, UNCHANGED <<queueEnabled, limit, at, counts>>,
         hook' \in [Webhooks -> Row \cup {NoHook}],
         edit' \in [Webhooks -> Row \cup {NoHook}],
         dispatch' \in [Events -> {"idle", "running", "over", "lost"}],
         todo' = todo,
         \A e \in Events : dispatch'[e] = "idle" => dispatch[e] = "idle"
  PROVE  Inv'
<1>1. TypeOK'
  <2>1. /\ queueEnabled \in BOOLEAN /\ todo \in [Events -> SUBSET Webhooks]
        /\ at \in [Deliveries -> Stages \cup Ends] /\ limit \in [Deliveries -> Nat]
        /\ failures \in [Deliveries -> Nat] /\ posts \in [Deliveries -> Nat]
        /\ delivered \in [Deliveries -> Nat] /\ errors \in [Deliveries -> Nat]
        /\ stalls \in [Deliveries -> Nat] /\ accepted \in [Deliveries -> BOOLEAN]
    BY Counters DEF Inv
  <2> QED
    BY <2>1 DEF TypeOK, counts
<1>2. \A x \in Deliveries : AttemptsInv(x)' /\ OutcomeInv(x)'
  BY DEF Inv, AttemptsInv, OutcomeInv, Allowed, counts
<1>3. DispatchInv'
  BY DEF Inv, DispatchInv
<1> QED
  BY <1>1, <1>2, <1>3 DEF Inv

LEMMA OverOK ==
  ASSUME Inv, NEW e \in Events, Over(e)
  PROVE  Inv'
<1>1. /\ hook \in [Webhooks -> Row \cup {NoHook}] /\ edit \in [Webhooks -> Row \cup {NoHook}]
      /\ dispatch \in [Events -> {"idle", "running", "over", "lost"}]
  BY Counters DEF Inv
<1>2. dispatch' = [dispatch EXCEPT ![e] = "over"]
      /\ UNCHANGED <<queueEnabled, limit, at, counts, hook, edit, todo>>
  BY DEF Over, store
<1> QED
  BY <1>1, <1>2, Elsewhere

LEMMA ConfigurationOK ==
  ASSUME Inv, NEW w \in Edited,
         (\E r \in Edits : Update(w, r)) \/ UpdateSaved(w) \/ Delete(w)
  PROVE  Inv'
<1>1. /\ hook \in [Webhooks -> Row \cup {NoHook}] /\ edit \in [Webhooks -> Row \cup {NoHook}]
      /\ dispatch \in [Events -> {"idle", "running", "over", "lost"}]
  BY Counters DEF Inv
<1>2. w \in Webhooks /\ Edits \subseteq Row
  BY WebhookAssumption DEF Row
<1>3. UNCHANGED <<queueEnabled, limit, at, counts, dispatch, todo>>
  BY DEF Update, UpdateSaved, Delete
<1>4. /\ hook' \in [Webhooks -> Row \cup {NoHook}]
      /\ edit' \in [Webhooks -> Row \cup {NoHook}]
  BY <1>1, <1>2 DEF Update, UpdateSaved, Delete
<1> QED
  BY <1>1, <1>3, <1>4, Elsewhere

\* The limits are read before any delivery of the event begins.
LEMMA DispatchOK ==
  ASSUME Inv, NEW e \in Events, Dispatch(e)
  PROVE  Inv'
<1>1. /\ queueEnabled \in BOOLEAN /\ todo \in [Events -> SUBSET Webhooks]
      /\ hook \in [Webhooks -> Row \cup {NoHook}] /\ edit \in [Webhooks -> Row \cup {NoHook}]
      /\ dispatch \in [Events -> {"idle", "running", "over", "lost"}]
      /\ at \in [Deliveries -> Stages \cup Ends] /\ limit \in [Deliveries -> Nat]
      /\ failures \in [Deliveries -> Nat] /\ posts \in [Deliveries -> Nat]
      /\ delivered \in [Deliveries -> Nat] /\ errors \in [Deliveries -> Nat]
      /\ stalls \in [Deliveries -> Nat] /\ accepted \in [Deliveries -> BOOLEAN]
  BY Counters DEF Inv
<1>2. UNCHANGED <<queueEnabled, hook, edit, at, failures, posts, delivered, errors, stalls, accepted>>
  BY DEF Dispatch, store, counts
<1>3. /\ dispatch[e] = "idle"
      /\ dispatch' = [dispatch EXCEPT ![e] = "running"]
      /\ todo' \in [Events -> SUBSET Webhooks]
      /\ \A f \in Events \ {e} : todo'[f] = todo[f]
  BY <1>1 DEF Dispatch
<1>4. limit' \in [Deliveries -> Nat]
  <2> SUFFICES ASSUME NEW x \in Deliveries
               PROVE  (IF x[1] = e /\ hook[x[2]] # NoHook THEN hook[x[2]].retryCount ELSE limit[x])
                        \in Nat
    BY DEF Dispatch
  <2>1. x[2] \in Webhooks
    BY DEF Deliveries
  <2>2. hook[x[2]] # NoHook => hook[x[2]] \in Row
    BY <1>1, <2>1
  <2>3. \A r \in Row : r.retryCount \in Nat
    BY WebhookAssumption DEF Row
  <2> QED
    BY <1>1, <2>2, <2>3
<1>5. TypeOK'
  BY <1>1, <1>2, <1>3, <1>4 DEF TypeOK
<1>6. \A x \in Deliveries : AttemptsInv(x)' /\ OutcomeInv(x)'
  <2> SUFFICES ASSUME NEW x \in Deliveries
               PROVE  AttemptsInv(x)' /\ OutcomeInv(x)'
    OBVIOUS
  <2>1. AttemptsInv(x) /\ OutcomeInv(x)
    BY DEF Inv
  <2>2. OutcomeInv(x)'
    BY <1>2, <2>1 DEF OutcomeInv
  <2>3. CASE x[1] = e
    <3>1. x = <<e, x[2]>> /\ x[2] \in Webhooks
      BY <2>3 DEF Deliveries
    <3>2. at[x] = "none"
      BY <1>3, <3>1 DEF Inv, DispatchInv
    <3>3. Allowed(x)' >= 1 /\ Allowed(x)' \in Nat
      BY <1>4 DEF Allowed
    <3> QED
      BY <1>1, <1>2, <2>1, <2>2, <3>2, <3>3 DEF AttemptsInv, Begun, Attempting
  <2>4. CASE x[1] # e
    <3>1. limit'[x] = limit[x]
      BY <2>4 DEF Dispatch
    <3> QED
      BY <1>2, <2>1, <2>2, <3>1 DEF AttemptsInv, Allowed
  <2> QED
    BY <2>3, <2>4
<1>7. DispatchInv'
  <2> SUFFICES ASSUME NEW f \in Events, NEW v \in Webhooks,
                      dispatch'[f] = "idle" \/ v \in todo'[f]
               PROVE  at'[<<f, v>>] = "none"
    BY DEF DispatchInv
  <2>1. dispatch[f] = "idle" \/ v \in todo[f]
    BY <1>1, <1>3
  <2> QED
    BY <1>2, <2>1 DEF Inv, DispatchInv
<1> QED
  BY <1>5, <1>6, <1>7 DEF Inv

\* A crash during an attempt on a queue is counted; whatever dispatch awaits is lost.
LEMMA RestartOK ==
  ASSUME Inv, Restart
  PROVE  Inv'
<1>1. /\ queueEnabled \in BOOLEAN /\ todo \in [Events -> SUBSET Webhooks]
      /\ hook \in [Webhooks -> Row \cup {NoHook}] /\ edit \in [Webhooks -> Row \cup {NoHook}]
      /\ dispatch \in [Events -> {"idle", "running", "over", "lost"}]
      /\ at \in [Deliveries -> Stages \cup Ends] /\ limit \in [Deliveries -> Nat]
      /\ failures \in [Deliveries -> Nat] /\ posts \in [Deliveries -> Nat]
      /\ delivered \in [Deliveries -> Nat] /\ errors \in [Deliveries -> Nat]
      /\ stalls \in [Deliveries -> Nat] /\ accepted \in [Deliveries -> BOOLEAN]
  BY Counters DEF Inv
<1>2. UNCHANGED <<queueEnabled, hook, limit, failures, posts, accepted, delivered, errors>>
  BY DEF Restart
<1>3. dispatch' \in [Events -> {"idle", "running", "over", "lost"}]
      /\ \A e \in Events : dispatch'[e] = "idle" => dispatch[e] = "idle"
  BY <1>1 DEF Restart
<1>4. todo' \in [Events -> SUBSET Webhooks] /\ \A e \in Events : todo'[e] = {}
  BY DEF Restart
<1>5. edit' \in [Webhooks -> Row \cup {NoHook}]
  BY DEF Restart
<1> DEFINE working(x) == at[x] \in Attempting \cup {"returned"}
<1>6. /\ at' \in [Deliveries -> Stages \cup Ends]
      /\ \A x \in Deliveries :
           at'[x] = IF at[x] \in Awaited THEN "lost"
                    ELSE IF working(x) THEN Stalled(x) ELSE at[x]
  BY <1>1 DEF Restart, Stalled, Stages, Ends
<1>7. /\ stalls' \in [Deliveries -> Nat]
      /\ \A x \in Deliveries :
           stalls'[x] = IF queueEnabled /\ working(x) THEN stalls[x] + 1 ELSE stalls[x]
  BY <1>1 DEF Restart
<1>8. TypeOK'
  BY <1>1, <1>2, <1>3, <1>4, <1>5, <1>6, <1>7 DEF TypeOK
<1>9. \A x \in Deliveries : AttemptsInv(x)' /\ OutcomeInv(x)'
  <2> SUFFICES ASSUME NEW x \in Deliveries
               PROVE  AttemptsInv(x)' /\ OutcomeInv(x)'
    OBVIOUS
  <2>1. AttemptsInv(x) /\ OutcomeInv(x) /\ TypeOK
    BY DEF Inv
  <2>2. CASE at[x] \in Awaited
    <3>1. at'[x] = "lost" /\ at[x] \in {"before", "queueing", "backoff"} \cup Attempting
          /\ (stalls'[x] = stalls[x] \/ stalls'[x] = stalls[x] + 1)
      BY <1>6, <1>7, <2>2 DEF Awaited
    <3>2. AttemptsInv(x)'
      BY <1>2, <2>1, <3>1, Numbers DEF AttemptsInv, Allowed, Begun, Attempting
    <3>3. OutcomeInv(x)'
      BY <1>2, <2>1, <3>1, Numbers DEF OutcomeInv, Reported, Attempting
    <3> QED
      BY <3>2, <3>3
  <2>3. CASE at[x] \notin Awaited /\ working(x)
    <3>1. queueEnabled
      BY <2>1, <2>3 DEF Awaited, Attempting, OutcomeInv
    <3>2. at'[x] \in {"queued", "stalled"} /\ stalls'[x] = stalls[x] + 1
      BY <1>6, <1>7, <2>3, <3>1 DEF Stalled
    <3>3. AttemptsInv(x)'
      BY <1>2, <2>1, <2>3, <3>2, Numbers DEF AttemptsInv, Allowed, Begun, Attempting
    <3>4. OutcomeInv(x)'
      BY <1>2, <2>1, <2>3, <3>2, Numbers DEF OutcomeInv, Reported, Attempting
    <3> QED
      BY <3>3, <3>4
  <2>4. CASE at[x] \notin Awaited /\ ~working(x)
    <3>1. at'[x] = at[x] /\ stalls'[x] = stalls[x]
      BY <1>6, <1>7, <2>4
    <3> QED
      BY <1>2, <2>1, <3>1 DEF AttemptsInv, OutcomeInv, Allowed
  <2> QED
    BY <2>2, <2>3, <2>4
<1>10. DispatchInv'
  <2> SUFFICES ASSUME NEW e \in Events, NEW w \in Webhooks,
                      dispatch'[e] = "idle" \/ w \in todo'[e]
               PROVE  at'[<<e, w>>] = "none"
    BY DEF DispatchInv
  <2>1. at[<<e, w>>] = "none" /\ <<e, w>> \in Deliveries
    BY <1>3, <1>4 DEF Inv, DispatchInv, Deliveries
  <2> QED
    BY <1>6, <2>1 DEF Awaited, Attempting
<1> QED
  BY <1>8, <1>9, <1>10 DEF Inv

-----------------------------------------------------------------------------
(* Theorems *)

LEMMA InitInv == Init => Inv
<1> SUFFICES ASSUME Init
             PROVE  Inv
  OBVIOUS
<1>1. /\ queueEnabled \in BOOLEAN
      /\ hook \in [Webhooks -> Row \cup {NoHook}]
      /\ edit \in [Webhooks -> Row \cup {NoHook}]
      /\ dispatch \in [Events -> {"idle", "running", "over", "lost"}]
      /\ todo \in [Events -> SUBSET Webhooks]
      /\ at \in [Deliveries -> Stages \cup Ends]
      /\ accepted \in [Deliveries -> BOOLEAN]
  BY DEF Init, Row, Stages
<1>2. /\ limit = [x \in Deliveries |-> 0]
      /\ failures = [x \in Deliveries |-> 0] /\ posts = [x \in Deliveries |-> 0]
      /\ delivered = [x \in Deliveries |-> 0] /\ errors = [x \in Deliveries |-> 0]
      /\ stalls = [x \in Deliveries |-> 0] /\ at = [x \in Deliveries |-> "none"]
  BY DEF Init
<1>3. TypeOK
  BY <1>1, <1>2 DEF TypeOK
<1>4. \A x \in Deliveries : AttemptsInv(x)
  BY <1>2 DEF AttemptsInv, Allowed, Begun, Attempting
<1>5. \A x \in Deliveries : OutcomeInv(x)
  BY <1>2 DEF OutcomeInv, Reported
<1>6. DispatchInv
  BY <1>2 DEF DispatchInv, Deliveries
<1> QED
  BY <1>3, <1>4, <1>5, <1>6 DEF Inv

LEMMA NextInv == Inv /\ [Next]_vars => Inv'
<1> SUFFICES ASSUME Inv, [Next]_vars
             PROVE  Inv'
  OBVIOUS
<1>1. CASE \E w \in Edited : (\E r \in Edits : Update(w, r)) \/ UpdateSaved(w) \/ Delete(w)
  BY <1>1, ConfigurationOK
<1>2. CASE \E e \in Events : Dispatch(e)
  BY <1>2, DispatchOK
<1>3. CASE \E e \in Events : DispatchStep(e)
  <2> PICK e \in Events : DispatchStep(e)
    BY <1>3
  <2>1. CASE Over(e)
    BY <2>1, OverOK
  <2>2. CASE \E w \in Webhooks : Take(e, w)
    BY <2>2, TakeOK
  <2>3. CASE \E w \in Webhooks, b \in BOOLEAN : BeforeHook(<<e, w>>, b) \/ QueueAdd(<<e, w>>, b)
    <3>1. \A w \in Webhooks : <<e, w>> \in Deliveries
      BY DEF Deliveries
    <3> QED
      BY <2>3, <3>1, BeforeHookOK, QueueAddOK
  <2> QED
    BY <2>1, <2>2, <2>3 DEF DispatchStep
<1>4. CASE \E x \in Deliveries : DeliveryStep(x)
  BY <1>4, WorkOK, AnsweredOK, FailedOK, BackoffOK, RecordedOK, CompletedOK DEF DeliveryStep
<1>5. CASE Restart
  BY <1>5, RestartOK
<1>6. CASE UNCHANGED vars
  <2>1. /\ hook \in [Webhooks -> Row \cup {NoHook}] /\ edit \in [Webhooks -> Row \cup {NoHook}]
        /\ dispatch \in [Events -> {"idle", "running", "over", "lost"}]
    BY Counters DEF Inv
  <2> QED
    BY <1>6, <2>1, Elsewhere DEF vars, store
<1> QED
  BY <1>1, <1>2, <1>3, <1>4, <1>5, <1>6 DEF Next

LEMMA Invariance == Spec => []Inv
BY InitInv, NextInv, PTL DEF Spec

\* Rows, stages and counters have their types.
THEOREM Typed == Spec => []TypeOK
<1>1. Inv => TypeOK
  BY DEF Inv
<1> QED
  BY Invariance, <1>1, PTL

\* retryCount bounds the attempts of a delivery, crashes of its worker excepted,
\* for every retryCount and every order of requests, answers and restarts.
THEOREM BoundedAttempts == Spec => []AttemptsBounded
<1>1. Inv => AttemptsBounded
  <2> SUFFICES ASSUME Inv, NEW x \in Deliveries
               PROVE  posts[x] <= Allowed(x) + stalls[x]
    BY DEF AttemptsBounded
  <2>1. AttemptsInv(x) /\ TypeOK
    BY DEF Inv
  <2> QED
    BY <2>1, Numbers DEF AttemptsInv, Begun, Attempting
<1> QED
  BY Invariance, <1>1, PTL

\* Plugins learn of the outcome of a delivery once, unless its worker crashed
\* between the hook and the end of the job.
THEOREM OutcomeOnce == Spec => []OneOutcome
<1>1. Inv => OneOutcome
  <2> SUFFICES ASSUME Inv, NEW x \in Deliveries
               PROVE  delivered[x] + errors[x] <= 1 + stalls[x]
    BY DEF OneOutcome
  <2>1. OutcomeInv(x) /\ TypeOK
    BY DEF Inv
  <2> QED
    BY <2>1, Numbers DEF OutcomeInv
<1> QED
  BY Invariance, <1>1, PTL

\* A delivery that ends as done was accepted and reported, one that fails reported.
THEOREM OutcomeReported == Spec => []NoSilentEnd
<1>1. Inv => NoSilentEnd
  <2> SUFFICES ASSUME Inv, NEW x \in Deliveries
               PROVE  /\ at[x] = "done" => delivered[x] > 0 /\ accepted[x]
                      /\ at[x] \in {"failed", "unqueued"} => errors[x] > 0
    BY DEF NoSilentEnd
  <2> QED
    BY DEF Inv, OutcomeInv
<1> QED
  BY Invariance, <1>1, PTL

-----------------------------------------------------------------------------
(* What an ended delivery and a queued job become.                         *)

Job == {"queued", "backoff", "returned"} \cup Attempting

Onward(x) ==
  /\ at[x] \in Ends => at'[x] = at[x]
  /\ queueEnabled /\ at[x] \in Job => at'[x] \in Job \cup {"done", "failed", "stalled"}

LEMMA GotoOnward ==
  ASSUME Inv, NEW x \in Deliveries, NEW stage, Goto(x, stage), at[x] \notin Ends,
         queueEnabled /\ at[x] \in Job => stage \in Job \cup {"done", "failed", "stalled"}
  PROVE  \A y \in Deliveries : Onward(y)
<1>1. at \in [Deliveries -> Stages \cup Ends]
  BY Counters DEF Inv
<1>2. at'[x] = stage /\ \A y \in Deliveries \ {x} : at'[y] = at[y]
  BY <1>1 DEF Goto
<1> QED
  BY <1>2 DEF Onward

LEMMA StepOnward == ASSUME Inv, [Next]_vars PROVE \A y \in Deliveries : Onward(y)
<1>1. ASSUME at' = at PROVE \A y \in Deliveries : Onward(y)
  BY <1>1 DEF Onward
<1>2. ASSUME NEW e \in Events, NEW w \in Webhooks, Take(e, w) PROVE \A y \in Deliveries : Onward(y)
  <2>1. <<e, w>> \in Deliveries /\ at[<<e, w>>] = "none" /\ Goto(<<e, w>>, "before")
    BY <1>2 DEF Take, Inv, DispatchInv, Deliveries
  <2> QED
    BY <2>1, GotoOnward DEF Job, Attempting, Ends
<1>3. ASSUME NEW x \in Deliveries, NEW b \in BOOLEAN, BeforeHook(x, b) \/ QueueAdd(x, b)
      PROVE  \A y \in Deliveries : Onward(y)
  <2>1. at[x] \in {"before", "queueing"} /\ \E stage : Goto(x, stage)
    BY <1>3 DEF BeforeHook, QueueAdd
  <2> QED
    BY <2>1, GotoOnward DEF Job, Attempting, Ends
<1>4. ASSUME NEW x \in Deliveries, DeliveryStep(x) PROVE \A y \in Deliveries : Onward(y)
  <2>1. at[x] \in Job
    BY <1>4 DEF DeliveryStep, Work, Answered, Failed, Backoff, Recorded, Completed, Job, Attempting
  <2>2. \E stage \in {"posting", "recording", "backoff", "failed", "queued", "returned", "done"} :
          Goto(x, stage)
    BY <1>4 DEF DeliveryStep, Work, Answered, Failed, Backoff, Recorded, Completed
  <2>3. at[x] \notin Ends
    BY <2>1 DEF Job, Attempting, Ends
  <2>4. {"posting", "recording", "backoff", "failed", "queued", "returned", "done"}
          \subseteq Job \cup {"done", "failed", "stalled"}
    BY DEF Job, Attempting
  <2> QED
    BY <2>2, <2>3, <2>4, GotoOnward
<1>5. CASE Restart
  <2> SUFFICES ASSUME NEW x \in Deliveries PROVE Onward(x)
    OBVIOUS
  <2>1. at'[x] = IF at[x] \in Awaited THEN "lost"
                 ELSE IF at[x] \in Attempting \cup {"returned"} THEN Stalled(x)
                 ELSE at[x]
    BY <1>5 DEF Restart
  <2>2. Awaited \cap Ends = {} /\ (queueEnabled => Awaited \cap Job = {})
    BY DEF Awaited, Attempting, Ends, Job
  <2>3. Stalled(x) \in {"queued", "stalled"} /\ (Attempting \cup {"returned"}) \cap Ends = {}
    BY DEF Stalled, Attempting, Ends
  <2>4. "queued" \in Job
    BY DEF Job
  <2> QED
    BY <2>1, <2>2, <2>3, <2>4 DEF Onward
<1>6. ASSUME NEW e \in Events, DispatchStep(e) PROVE \A y \in Deliveries : Onward(y)
  <2>1. \A w \in Webhooks : <<e, w>> \in Deliveries
    BY DEF Deliveries
  <2> QED
    BY <1>1, <1>2, <1>3, <1>6, <2>1 DEF DispatchStep, Over
<1> QED
  BY <1>1, <1>4, <1>5, <1>6 DEF Next, Update, UpdateSaved, Delete, Dispatch, vars

\* BullMQ and the processor: a job stays in the queue until it is delivered, reported or
\* has crashed its worker twice, however often the gateway restarts; and no delivery that
\* has ended, by a plugin, an outcome or a crash, is ever taken up again.
THEOREM JobsAreKept == Spec => [][\A x \in Deliveries : Onward(x)]_vars
<1>1. Inv /\ [Next]_vars => [\A x \in Deliveries : Onward(x)]_vars
  BY StepOnward
<1> QED
  BY <1>1, Invariance, PTL DEF Spec
=============================================================================
