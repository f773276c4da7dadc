---------------------------- MODULE BroadcastQueue ----------------------------
(***************************************************************************)
(* Direct messages to the validated numbers, sent by the dashboard's page  *)
(* PhoneNumberGenerator from a queue that it keeps in localStorage.        *)
(*                                                                         *)
(* A run of the queue is a loop of awaits in the browser.  It is not       *)
(* stopped when the page is left: it goes on with the abort flag of the    *)
(* page that started it, saves to the same localStorage, and only the      *)
(* state of the old page is out of its reach.  A reload kills every run.   *)
(* The order of the contacts is left out: any pending one may be next.  So *)
(* is the vault that the page has fetched, which other pages change: a     *)
(* handler finds any set of numbers in it, and none before the first fetch *)
(* has come back.                                                          *)
(***************************************************************************)
EXTENDS Integers, FiniteSets

CONSTANTS
  Numbers,      \* validated numbers with a WhatsApp id
  Runs,         \* runs that may be under way at a time (a bound)
  MaxAttempts,  \* maxAttempts of sendWithRetry
  NoContact     \* a run that is at no contact

ASSUME QueueAssumption == MaxAttempts \in Nat \ {0} /\ NoContact \notin Numbers

VARIABLES
  stored,   \* openwa_broadcast_queue in localStorage
  shown,    \* savedBroadcastQueue of the page
  busy,     \* isBroadcasting of the page
  abort,    \* broadcastAbortRef of the page
  run,      \* what each run does
  got,      \* the messages each number has got, excused ones not beyond the first
  excused   \* numbers that may get a second one: see SentOnce

page == <<stored, shown, busy, abort>>
vars == <<page, run, got, excused>>

\* A queue says of every number whether it is a contact, and its status.
ContactStatus == {"none", "pending", "sent", "failed"}
Queue == [Numbers -> ContactStatus]
Empty == [n \in Numbers |-> "none"]
Pending(queue) == {n \in Numbers : queue[n] = "pending"}

\* A run prepares (the first steps of the automation), has a request in flight, waits
\* for the session before it retries, or pauses between two contacts.  It is "here"
\* while its page is; "cut" is the abort flag of the page it has outlived.
RunState == [at : {"off", "prepare", "send", "retry", "pause"},
             here : BOOLEAN, cut : BOOLEAN, auto : BOOLEAN, queue : Queue,
             contact : Numbers \cup {NoContact}, attempt : 0..MaxAttempts]

Off == [at |-> "off", here |-> TRUE, cut |-> FALSE, auto |-> FALSE,
        queue |-> Empty, contact |-> NoContact, attempt |-> 0]

(* Types, and what ties the parts together: a run without a contact holds none, and *)
(* the buttons are blocked only while a run of this page is under way.              *)
TypeOK ==
  /\ stored \in Queue /\ shown \in Queue
  /\ busy \in BOOLEAN /\ abort \in BOOLEAN
  /\ run \in [Runs -> RunState]
  /\ got \in [Numbers -> 0..2] /\ excused \in SUBSET Numbers
  /\ \A r \in Runs :
       /\ run[r].at = "off" => run[r] = Off
       /\ run[r].at \in {"send", "retry"} <=> run[r].contact # NoContact
       /\ run[r].contact # NoContact => run[r].contact \in Pending(run[r].queue)
       /\ run[r].at = "retry" => run[r].attempt < MaxAttempts
  /\ busy => \E r \in Runs : run[r].here /\ run[r].at \in {"send", "retry", "pause"}

Init ==
  /\ stored = Empty /\ shown = Empty
  /\ busy = FALSE /\ abort = FALSE
  /\ run = [r \in Runs |-> Off]
  /\ got = [n \in Numbers |-> 0] /\ excused = {}

\* Where a run goes next; its page and its kind stay.
To(r, at, queue, contact, attempt) ==
  run' = [run EXCEPT ![r] =
    [at |-> at, here |-> run[r].here, cut |-> run[r].cut, auto |-> run[r].auto,
     queue |-> queue, contact |-> contact, attempt |-> attempt]]

\* shouldAbort of a run: the flag of the page that started it.
Aborted(r) == IF run[r].here THEN abort ELSE run[r].cut

\* The contacts of the runs under way.
Held == {n \in Numbers : \E r \in Runs : run[r].queue[n] # "none"}

-----------------------------------------------------------------------------
(* Starting a run. *)

\* runDirectBroadcast up to its first request, or to its end when nothing is pending.
Launch(r, queue, here, auto) ==
  /\ IF Pending(queue) = {}
       THEN /\ run' = [run EXCEPT ![r] = Off]
            /\ stored' = Empty
            /\ shown' = IF here THEN Empty ELSE shown
            /\ busy' = IF here THEN FALSE ELSE busy
       ELSE /\ \E n \in Pending(queue) :
                 run' = [run EXCEPT ![r] =
                   [at |-> "send", here |-> here, cut |-> FALSE, auto |-> auto,
                    queue |-> queue, contact |-> n, attempt |-> 1]]
            /\ stored' = queue
            /\ shown' = IF here THEN queue ELSE shown
            /\ busy' = IF here THEN TRUE ELSE busy
  /\ abort' = IF here THEN FALSE ELSE abort
  /\ UNCHANGED got

\* What createQueueFromVault makes of a vault.
NewQueue(vault) == [n \in Numbers |-> IF n \in vault THEN "pending" ELSE "none"]

\* A new queue asks for another message to whoever has one, or is about to get it
\* from another run, or is on the queue of a page that does not see this run.
AskAgain(vault, here) ==
  excused' = excused \cup {n \in vault : \/ got[n] > 0
                                         \/ n \in Held
                                         \/ ~here /\ shown[n] # "none"}

Start(r) ==
  /\ run[r].at = "off" /\ ~busy
  /\ \E vault \in SUBSET Numbers \ {{}} :
       Launch(r, NewQueue(vault), TRUE, FALSE) /\ AskAgain(vault, TRUE)

Merged(queue, vault) ==
  [n \in Numbers |-> IF n \notin vault THEN "none"
                     ELSE IF queue[n] \in {"sent", "failed"} THEN queue[n] ELSE "pending"]

Resume(r) ==
  /\ run[r].at = "off" /\ ~busy /\ Pending(shown) # {}
  /\ \E vault \in SUBSET Numbers :
       LET queue == Merged(shown, vault) IN
       /\ Launch(r, queue, TRUE, FALSE)
       /\ excused' = excused \cup
            {n \in Pending(queue) : shown[n] # "pending" \/ n \in Held}

\* The automation is not held up by a broadcast, only by another automation.
Automate(r) ==
  /\ run[r].at = "off"
  /\ \A s \in Runs : run[s].here => ~run[s].auto
  /\ run' = [run EXCEPT ![r] = [Off EXCEPT !.at = "prepare", !.auto = TRUE]]
  /\ abort' = FALSE
  /\ UNCHANGED <<stored, shown, busy, got, excused>>

\* The automation has refreshed the vault and broadcasts to all of it.
Prepared(r) ==
  /\ run[r].at = "prepare"
  /\ \E vault \in SUBSET Numbers \ {{}} :
       /\ Launch(r, NewQueue(vault), run[r].here, TRUE)
       /\ AskAgain(vault, run[r].here)

\* Cancelled, or nothing in the vault.
Abandon(r) ==
  /\ run[r].at = "prepare"
  /\ run' = [run EXCEPT ![r] = Off]
  /\ UNCHANGED <<stored, shown, busy, abort, got, excused>>

-----------------------------------------------------------------------------
(* The loop of runBroadcastQueue. *)

\* Mutant: the outcome is saved only when the run is over.
SettleUnsaved(r, status) ==
  LET queue == [run[r].queue EXCEPT ![run[r].contact] = status]
      more == Pending(queue) # {} /\ ~Aborted(r)
      cleared == Pending(queue) = {} /\ ~Aborted(r)
  IN /\ IF more THEN To(r, "pause", queue, NoContact, 0)
                ELSE run' = [run EXCEPT ![r] = Off]
     /\ stored' = IF more THEN stored ELSE IF cleared THEN Empty ELSE queue
     /\ shown' = IF ~run[r].here THEN shown ELSE IF cleared THEN Empty ELSE queue
     /\ busy' = IF more \/ ~run[r].here THEN busy ELSE FALSE
     /\ UNCHANGED abort

\* The outcome of a contact is saved; the run pauses, or it is over.  A run that
\* leaves nothing pending removes the stored queue unless it is cancelled.
Settle(r, status) ==
  LET queue == [run[r].queue EXCEPT ![run[r].contact] = status]
      more == Pending(queue) # {} /\ ~Aborted(r)
      cleared == Pending(queue) = {} /\ ~Aborted(r)
  IN /\ IF more THEN To(r, "pause", queue, NoContact, 0)
                ELSE run' = [run EXCEPT ![r] = Off]
     /\ stored' = IF cleared THEN Empty ELSE queue
     /\ shown' = IF ~run[r].here THEN shown ELSE IF cleared THEN Empty ELSE queue
     /\ busy' = IF more \/ ~run[r].here THEN busy ELSE FALSE
     /\ UNCHANGED abort

After(n) == IF got[n] = 0 \/ n \in excused THEN 1 ELSE 2
Deliver(n) == got' = [got EXCEPT ![n] = After(n)]

Sent(r) ==
  /\ run[r].at = "send"
  /\ Deliver(run[r].contact)
  /\ Settle(r, "sent")
  /\ UNCHANGED excused

\* Mutant: the retries run out and nothing is thrown.
ErrorSwallowed(r) ==
  \/ Settle(r, "sent")
  \/ /\ run[r].attempt < MaxAttempts
     /\ To(r, "retry", run[r].queue, run[r].contact, run[r].attempt)
     /\ UNCHANGED page

\* A retryable error waits for the session, but after the last attempt.
Error(r) ==
  \/ Settle(r, "failed")
  \/ /\ run[r].attempt < MaxAttempts
     /\ To(r, "retry", run[r].queue, run[r].contact, run[r].attempt)
     /\ UNCHANGED page

Refused(r) ==
  /\ run[r].at = "send"
  /\ Error(r)
  /\ UNCHANGED <<got, excused>>

\* The answer is lost: the gateway may have sent the message.
Lost(r) ==
  /\ run[r].at = "send"
  /\ Error(r)
  /\ Deliver(run[r].contact) \/ UNCHANGED got
  /\ excused' = excused \cup {run[r].contact}

Again(r) ==
  /\ run[r].at = "retry" /\ ~Aborted(r)
  /\ To(r, "send", run[r].queue, run[r].contact, run[r].attempt + 1)
  /\ UNCHANGED <<page, got, excused>>

\* Mutant: the wait for the session does not see that the run is cancelled.
GiveUpDeaf(r) ==
  /\ run[r].at = "retry" /\ ~Aborted(r)
  /\ Settle(r, "failed")
  /\ UNCHANGED <<got, excused>>

\* The session does not come back, or the run is cancelled: the contact has failed.
GiveUp(r) ==
  /\ run[r].at = "retry"
  /\ Settle(r, "failed")
  /\ UNCHANGED <<got, excused>>

Resumed(r) ==
  /\ run[r].at = "pause" /\ ~Aborted(r)
  /\ \E n \in Pending(run[r].queue) : To(r, "send", run[r].queue, n, 1)
  /\ shown' = IF run[r].here THEN run[r].queue ELSE shown
  /\ UNCHANGED <<stored, busy, abort, got, excused>>

\* Mutant: a cancelled run leaves the page blocked.
BreakBusy(r) ==
  /\ run[r].at = "pause" /\ Aborted(r)
  /\ stored' = run[r].queue
  /\ shown' = IF run[r].here THEN run[r].queue ELSE shown
  /\ run' = [run EXCEPT ![r] = Off]
  /\ UNCHANGED <<busy, abort, got, excused>>

\* The pause is over and the run has been cancelled.
Break(r) ==
  /\ run[r].at = "pause" /\ Aborted(r)
  /\ stored' = run[r].queue
  /\ shown' = IF run[r].here THEN run[r].queue ELSE shown
  /\ busy' = IF run[r].here THEN FALSE ELSE busy
  /\ run' = [run EXCEPT ![r] = Off]
  /\ UNCHANGED <<abort, got, excused>>

-----------------------------------------------------------------------------
(* The user. *)

Cancel ==
  /\ busy
  /\ abort' = TRUE
  /\ UNCHANGED <<stored, shown, busy, run, got, excused>>

\* A preparation that is cancelled finds it out before it does anything more here.
CancelAutomation ==
  /\ \E r \in Runs : run[r].here /\ run[r].auto
  /\ abort' = TRUE
  /\ run' = [r \in Runs |-> IF run[r].here /\ run[r].at = "prepare"
                            THEN Off ELSE run[r]]
  /\ UNCHANGED <<stored, shown, busy, got, excused>>

Clear ==
  /\ ~busy /\ Pending(shown) # {}
  /\ stored' = Empty /\ shown' = Empty
  /\ UNCHANGED <<busy, abort, run, got, excused>>

\* A page that is opened reads the stored queue.
Mount ==
  /\ shown' = stored
  /\ busy' = FALSE /\ abort' = FALSE
  /\ UNCHANGED stored

\* The runs go on without their page, and the one that is opened offers to resume what
\* they still send.  Bound: a run is left for that page.
Navigate ==
  /\ \E r \in Runs : run[r].at = "off"
  /\ Mount
  /\ run' = [r \in Runs |->
       IF run[r].at = "off" THEN Off
       ELSE [at |-> run[r].at, here |-> FALSE, cut |-> Aborted(r), auto |-> run[r].auto,
             queue |-> run[r].queue, contact |-> run[r].contact,
             attempt |-> run[r].attempt]]
  /\ excused' = excused \cup Held
  /\ UNCHANGED got

\* The runs end, and the gateway may still take the requests in flight.
Reload ==
  LET inFlight == {run[r].contact : r \in {s \in Runs : run[s].at = "send"}} IN
  /\ Mount
  /\ run' = [r \in Runs |-> Off]
  /\ excused' = excused \cup inFlight
  /\ \E late \in SUBSET inFlight :
       got' = [n \in Numbers |-> IF n \in late THEN After(n) ELSE got[n]]

-----------------------------------------------------------------------------

Loop(r) == Prepared(r) \/ Abandon(r) \/ Sent(r) \/ Refused(r) \/ Lost(r)
             \/ Again(r) \/ GiveUp(r) \/ Resumed(r) \/ Break(r)

User(r) == Start(r) \/ Resume(r) \/ Automate(r)

Next ==
  \/ \E r \in Runs : User(r) \/ Loop(r)
  \/ Cancel \/ CancelAutomation \/ Clear \/ Navigate \/ Reload

\* Every request is answered or fails, every wait is bounded, every pause ends.
Spec == Init /\ [][Next]_vars /\ \A r \in Runs : WF_vars(Loop(r))

(***************************************************************************)
(* A number gets one message, through every cancel, resume, retry and      *)
(* reload, unless it is excused: a new start or a changed vault asks for   *)
(* it again, an answer or a request in flight was lost, or a run that the  *)
(* page has forgotten still holds it (PhoneNumberGenerator.tsx:635-711).   *)
(***************************************************************************)
SentOnce == \A n \in Numbers : got[n] <= 1

(***************************************************************************)
(* What the queue says of a contact is true wherever it is kept: one that  *)
(* is marked sent has got its message, and one that is pending or failed   *)
(* has not, but for the excuses (sendBroadcastThrottled.ts:117-134).       *)
(***************************************************************************)
HonestMarks ==
  \A queue \in {stored, shown} \cup {run[r].queue : r \in Runs}, n \in Numbers :
    /\ queue[n] = "sent" => got[n] >= 1
    /\ queue[n] \in {"pending", "failed"} => got[n] = 0 \/ n \in excused

(***************************************************************************)
(* A run comes to its end, whatever is cancelled, left or never answers    *)
(* well (the bounds of sendWithRetry and waitForSessionReady).             *)
(***************************************************************************)
Ends == \A r \in Runs : run[r].at # "off" ~> run[r].at = "off"

=============================================================================
