----------------------------- MODULE MessageRecord -----------------------------
(***************************************************************************)
(* The stored copies of one WhatsApp message.  One account sends it through*)
(* MessageService; the other accounts of the gateway that are in the chat  *)
(* receive it, so every session's row carries the same waMessageId.        *)
(* Receipts, revocations and reactions reach the rows through callbacks of *)
(* SessionService that nobody awaits: an UPDATE, or a findOne followed by  *)
(* a save of the whole entity.                                             *)
(*                                                                         *)
(* repository.save writes every column of the entity that differs from the *)
(* row, and inserts the row again when it is gone.                         *)
(***************************************************************************)
EXTENDS Naturals, FiniteSets

CONSTANTS
  Sessions,   \* accounts with a copy of the message
  Sender,     \* the one that sends it
  Reactors,   \* reaction callbacks in flight at one time
  People,     \* who reacts
  NoRow,      \* the row does not exist
  MaxUpdates  \* bound: UPDATE statements pending at one time

VARIABLES
  row,      \* messages, one row per session
  send,     \* the send of MessageService
  receipt,  \* the furthest delivery status the session's client reported
  updates,  \* UPDATE statements the database has not run yet
  handler,  \* reaction callbacks: the event and the entity they have read
  reacted   \* who has a reaction on the copy, after every event handled

vars == <<row, send, receipt, updates, handler, reacted>>

MessageStatus == {"pending", "sent", "delivered", "read", "failed"}
DeliveryStatus == {"sent", "delivered", "read", "failed"}
Row == [status : MessageStatus, known : BOOLEAN, type : {"text", "revoked"},
        reactions : SUBSET People]

ASSUME MessageAssumption ==
  /\ Sender \in Sessions
  /\ NoRow \notin Row /\ NoRow \notin People
  /\ MaxUpdates \in Nat

\* ackStatusTransitionFrom
AckStatusTransitionFrom(target) ==
  CASE target = "delivered" -> {"pending", "sent"}
    [] target = "read"      -> {"pending", "sent", "delivered"}
    [] target = "failed"    -> {"pending", "sent"}

\* Nothing is read, or no handler runs.
NoEvent == [session |-> Sender, by |-> NoRow, entity |-> NoRow]
Handling(x) == handler[x] # NoEvent

-----------------------------------------------------------------------------
TypeOK ==
  /\ row \in [Sessions -> Row \cup {NoRow}]
  /\ send \in {"idle", "sending", "accepted", "failing", "failing.known", "over", "unsaved", "lost"}
  /\ receipt \in [Sessions -> DeliveryStatus \cup {"none"}]
  /\ updates \subseteq
       [session : Sessions, to : {"delivered", "read", "failed", "revoked"}]
  /\ handler \in [Reactors ->
       {NoEvent} \cup [session : Sessions, by : People, entity : Row]]
  /\ reacted \in [Sessions -> SUBSET People]

Init ==
  /\ row = [s \in Sessions |-> NoRow]
  /\ send = "idle"
  /\ receipt = [s \in Sessions |-> "none"]
  /\ updates = {}
  /\ handler = [x \in Reactors |-> NoEvent]
  /\ reacted = [s \in Sessions |-> {}]

-----------------------------------------------------------------------------
(* MessageService.sendText and its siblings.                               *)

\* saveOutgoingMessage: the row is pending before the engine is asked.
Send ==
  /\ send = "idle"
  /\ send' = "sending"
  /\ row' = [row EXCEPT ![Sender] =
       [status |-> "pending", known |-> FALSE, type |-> "text", reactions |-> {}]]
  /\ UNCHANGED <<receipt, updates, handler, reacted>>

\* WhatsApp takes the message; from here its receipts may arrive.
Accept ==
  /\ send = "sending"
  /\ send' = "accepted"
  /\ receipt' = [receipt EXCEPT ![Sender] = "sent"]
  /\ UNCHANGED <<row, updates, handler, reacted>>

Reject ==
  /\ send = "sending"
  /\ send' = "failing"
  /\ UNCHANGED <<row, receipt, updates, handler, reacted>>

\* save(message) of the send: its entity has no reactions column set.
SaveSend(status, known) ==
  row' = [row EXCEPT ![Sender] =
    [status |-> status, known |-> known \/ (@ # NoRow /\ @.known),
     type |-> "text", reactions |-> IF @ = NoRow THEN {} ELSE @.reactions]]

SaveSent ==
  /\ send = "accepted"
  /\ send' = "over"
  /\ SaveSend("sent", TRUE)
  /\ UNCHANGED <<receipt, updates, handler, reacted>>

\* That save throws: the catch block takes it for a failed send.
SaveSentFails ==
  /\ send = "accepted"
  /\ send' = "failing.known"
  /\ UNCHANGED <<row, receipt, updates, handler, reacted>>

\* Mutant: the catch block rethrows without saving.
FailedNotSaved ==
  /\ send \in {"failing", "failing.known"}
  /\ send' = "over"
  /\ UNCHANGED <<row, receipt, updates, handler, reacted>>

SaveFailed ==
  /\ send \in {"failing", "failing.known"}
  /\ send' = "over"
  /\ SaveSend("failed", send = "failing.known")
  /\ UNCHANGED <<receipt, updates, handler, reacted>>

\* The save in the catch block throws as well: the row stays as it is.
SaveFailedFails ==
  /\ send \in {"failing", "failing.known"}
  /\ send' = "unsaved"
  /\ UNCHANGED <<row, receipt, updates, handler, reacted>>

\* onMessage: another account stores the message it received.
Receive(s) ==
  /\ s # Sender
  /\ receipt[Sender] # "none" /\ receipt[s] = "none"
  /\ receipt' = [receipt EXCEPT ![s] = "sent"]
  /\ row' = [row EXCEPT ![s] =
       [status |-> "sent", known |-> TRUE, type |-> "text", reactions |-> {}]]
  /\ UNCHANGED <<send, updates, handler, reacted>>

-----------------------------------------------------------------------------
(* Callbacks of SessionService.                                            *)

\* A statement nobody awaits.
Issue(s, to) ==
  /\ Cardinality(updates) < MaxUpdates
  /\ updates' = updates \cup {[session |-> s, to |-> to]}

\* onMessageAck: receipts advance, and any earlier one may come again.  Only a
\* status beyond sent is written.
Ack(s, d) ==
  /\ receipt[s] # "none"
  /\ \/ d = receipt[s]
     \/ receipt[s] = "sent"
     \/ receipt[s] \in {"delivered", "read"} /\ d \in {"delivered", "read"}
  /\ receipt' = [receipt EXCEPT ![s] = IF @ = "read" THEN @ ELSE d]
  /\ Issue(s, d)
  /\ UNCHANGED <<row, send, handler, reacted>>

\* onMessageRevoked, deleteMessage
Revoke(s) ==
  /\ receipt[s] # "none"
  /\ Issue(s, "revoked")
  /\ UNCHANGED <<row, send, receipt, handler, reacted>>

\* Mutant: matched by waMessageId alone, over all sessions.
MatchingAnySession(u) == {s \in Sessions : row[s] # NoRow /\ row[s].known}

\* The rows an UPDATE of one session matches by waMessageId.
Matching(u) == {s \in {u.session} : row[s] # NoRow /\ row[s].known}

\* Mutant: the UPDATE of a receipt is not guarded by the statuses it may advance.
Unguarded(r, u) ==
  IF u.to = "revoked" THEN [r EXCEPT !.type = "revoked"] ELSE [r EXCEPT !.status = u.to]

\* Mutant: a revocation is stored as a status.
RevokedAsStatus(r, u) == [r EXCEPT !.status = u.to]

Updated(r, u) ==
  IF u.to = "revoked" THEN [r EXCEPT !.type = "revoked"]
  ELSE IF r.status \in AckStatusTransitionFrom(u.to) THEN [r EXCEPT !.status = u.to]
  ELSE r

\* The database runs the statements in any order.
RunUpdate(u) ==
  /\ u \in updates
  /\ updates' = updates \ {u}
  /\ row' = [s \in Sessions |-> IF s \in Matching(u) THEN Updated(row[s], u) ELSE row[s]]
  /\ UNCHANGED <<send, receipt, handler, reacted>>

\* onMessageReaction: findOne.  Nothing happens when there is no row.
ReactionRead(x, s, p) ==
  /\ ~Handling(x)
  /\ row[s] # NoRow /\ row[s].known
  /\ handler' = [handler EXCEPT ![x] = [session |-> s, by |-> p, entity |-> row[s]]]
  /\ UNCHANGED <<row, send, receipt, updates, reacted>>

\* Mutant: a reaction replaces the map of reactions.
ReactionsOnly(entity, p, sticks) == IF sticks THEN {p} ELSE {}

\* The reaction is set, or removed when it is empty.
Reactions(entity, p, sticks) ==
  IF sticks THEN entity.reactions \cup {p} ELSE entity.reactions \ {p}

\* Then the entity that was read is saved, and the reactions are emitted.
ReactionSave(x, sticks) ==
  /\ Handling(x)
  /\ LET h == handler[x]
         saved == [h.entity EXCEPT !.reactions = Reactions(h.entity, h.by, sticks)]
     IN  /\ row' = [row EXCEPT ![h.session] = saved]
         /\ reacted' = [reacted EXCEPT ![h.session] =
              IF sticks THEN @ \cup {h.by} ELSE @ \ {h.by}]
  /\ handler' = [handler EXCEPT ![x] = NoEvent]
  /\ UNCHANGED <<send, receipt, updates>>

-----------------------------------------------------------------------------
\* clearSessionMessages
Clear(s) ==
  /\ row[s] # NoRow
  /\ row' = [row EXCEPT ![s] = NoRow]
  /\ UNCHANGED <<send, receipt, updates, handler, reacted>>

\* The gateway restarts: what was in flight is gone.
Restart ==
  /\ send' = IF send \in {"idle", "over", "unsaved"} THEN send ELSE "lost"
  /\ updates' = {}
  /\ handler' = [x \in Reactors |-> NoEvent]
  /\ UNCHANGED <<row, receipt, reacted>>

SendStep ==
  Accept \/ Reject \/ SaveSent \/ SaveSentFails \/ SaveFailed \/ SaveFailedFails

Callback(s) ==
  \/ Receive(s)
  \/ \E d \in {"delivered", "read", "failed"} : Ack(s, d)
  \/ Revoke(s)
  \/ Clear(s)

React(x) ==
  \/ \E s \in Sessions, p \in People : ReactionRead(x, s, p)
  \/ \E sticks \in BOOLEAN : ReactionSave(x, sticks)

Next ==
  \/ Send
  \/ SendStep
  \/ \E s \in Sessions : Callback(s)
  \/ \E u \in updates : RunUpdate(u)
  \/ \E x \in Reactors : React(x)
  \/ Restart

Spec == Init /\ [][Next]_vars

-----------------------------------------------------------------------------
(* What the stored copies promise.                                         *)

\* The order of delivery states: failed ends a message that was not delivered.
Ahead(a, b) ==
  \/ a = b
  \/ a = "pending"
  \/ a = "sent" /\ b # "pending"
  \/ a = "delivered" /\ b = "read"

MovesForward(s) ==
  row[s] # NoRow /\ row'[s] # NoRow =>
    /\ Ahead(row[s].status, row'[s].status)
    /\ row[s].type = "revoked" => row'[s].type = "revoked"

\* message-status.util's comment: delivery state only moves forward, however the
\* fire-and-forget writes are reordered; a message once revoked stays revoked.
Forward == [][\A s \in Sessions : MovesForward(s)]_vars

\* The guarded UPDATEs and the saves of the send keep to that order; only the
\* save of a reaction can go back.
OnlyReactionsGoBack ==
  [][(\A s \in Sessions : MovesForward(s))
     \/ \E x \in Reactors : Handling(x) /\ handler'[x] = NoEvent]_vars

\* The comment in onMessageAck: a row never claims a delivery that its own
\* account has not had a receipt for, though other rows share the message id.
NeverAhead ==
  \A s \in Sessions : row[s] # NoRow =>
    /\ row[s].status = "sent" => receipt[s] # "none"
    /\ row[s].status = "delivered" => receipt[s] \in {"delivered", "read"}
    /\ row[s].status = "read" => receipt[s] = "read"

\* A row is pending only while its send is under way, or after a send that was cut
\* short: by a restart, or by a second save that failed.
UnderWay == send \in {"sending", "accepted", "failing", "failing.known"}
CutShort == send \in {"lost", "unsaved"}
NoLimbo ==
  row[Sender] # NoRow /\ row[Sender].status = "pending" => UnderWay \/ CutShort

\* With one reaction handled at a time, no earlier reaction is lost.
ReactionsKept ==
  (\A x \in Reactors : ~Handling(x)) =>
    \A s \in Sessions : row[s] # NoRow => row[s].reactions = reacted[s]
=============================================================================
