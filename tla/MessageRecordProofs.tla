-------------------------- MODULE MessageRecordProofs --------------------------
(***************************************************************************)
(* Proofs about MessageRecord for any number of accounts, reactions in     *)
(* flight and people.                                                      *)
(***************************************************************************)
EXTENDS MessageRecord, TLAPS

\* A status is backed by the receipts of the session's own client.
Backed(s, d) ==
  /\ d = "sent" => receipt[s] # "none"
  /\ d = "delivered" => receipt[s] \in {"delivered", "read"}
  /\ d = "read" => receipt[s] = "read"

\* While the message is being sent nothing but the send touches its row, for
\* callbacks find a row by the id the send has not stored yet.
SendOwnsRow ==
  /\ send = "idle" => row[Sender] = NoRow
  /\ (UnderWay \/ send = "unsaved") /\ row[Sender] # NoRow =>
       /\ row[Sender].status = "pending"
       /\ row[Sender].type = "text"
       /\ ~row[Sender].known
  /\ send \notin {"over", "lost"} =>
       \A x \in Reactors : Handling(x) => handler[x].session # Sender
  /\ send \in {"idle", "sending"} => receipt[Sender] = "none"
  /\ send = "accepted" => receipt[Sender] # "none"
  /\ send = "over" /\ row[Sender] # NoRow => row[Sender].status # "pending"

\* What callbacks have read or issued is backed as well as the rows are.
Rows ==
  \A s \in Sessions : row[s] # NoRow =>
    /\ Backed(s, row[s].status)
    /\ row[s].known => row[s].status # "pending"
    /\ s # Sender => receipt[s] # "none"

Entities ==
  \A x \in Reactors : Handling(x) =>
    /\ Backed(handler[x].session, handler[x].entity.status)
    /\ handler[x].entity.known /\ handler[x].entity.status # "pending"
    /\ handler[x].session # Sender => receipt[handler[x].session] # "none"

Updates == \A u \in updates : Backed(u.session, u.to)

Inv == TypeOK /\ SendOwnsRow /\ Rows /\ Entities /\ Updates

\* A step moves the rows forward or is the save of a reaction.
ForwardOrReaction ==
  \/ \A s \in Sessions : MovesForward(s)
  \/ \E x \in Reactors : Handling(x) /\ handler'[x] = NoEvent

-----------------------------------------------------------------------------
\* What an UPDATE makes of a row.
LEMMA UpdatedRow ==
  ASSUME NEW r \in Row,
         NEW u \in [session : Sessions, to : {"delivered", "read", "failed", "revoked"}]
  PROVE  /\ Updated(r, u) \in Row
         /\ Updated(r, u).known = r.known
         /\ Updated(r, u).status \in {r.status, u.to} \ {"revoked"}
         /\ Updated(r, u).status = "pending" => r.status = "pending"
         /\ Ahead(r.status, Updated(r, u).status)
         /\ r.type = "revoked" => Updated(r, u).type = "revoked"
<1>1. CASE u.to = "revoked"
  BY <1>1 DEF Updated, Row, Ahead, MessageStatus
<1>2. CASE u.to # "revoked" /\ r.status \notin AckStatusTransitionFrom(u.to)
  BY <1>2 DEF Updated, Row, Ahead, MessageStatus
<1>3. CASE u.to # "revoked" /\ r.status \in AckStatusTransitionFrom(u.to)
  <2>1. u.to \in {"delivered", "read", "failed"}
    BY <1>3
  <2>2. Updated(r, u) = [r EXCEPT !.status = u.to]
    BY <1>3 DEF Updated
  <2>3. Ahead(r.status, u.to)
    BY <1>3, <2>1 DEF AckStatusTransitionFrom, Ahead
  <2> QED
    BY <2>1, <2>2, <2>3 DEF Row, MessageStatus
<1> QED
  BY <1>1, <1>2, <1>3

LEMMA TypeInit == ASSUME MessageAssumption, Init PROVE Inv
  BY DEF Init, Inv, TypeOK, SendOwnsRow, UnderWay, Rows, Entities, Updates, Handling,
         MessageAssumption, DeliveryStatus

-----------------------------------------------------------------------------
(* One lemma per group of actions: the invariant is kept and rows move on. *)

LEMMA SendForward ==
  ASSUME MessageAssumption, Inv, Send
  PROVE  Inv' /\ \A s \in Sessions : MovesForward(s)
<1> USE DEF Inv, MessageAssumption
<1> DEFINE r == [status |-> "pending", known |-> FALSE, type |-> "text", reactions |-> {}]
<1>0. row \in [Sessions -> Row \cup {NoRow}]
  BY DEF TypeOK
<1>1. r \in Row /\ r # NoRow
  <2>1. r \in Row
    BY DEF Row, MessageStatus
  <2> QED
    BY <2>1
<1>2. /\ row' = [row EXCEPT ![Sender] = r] /\ send' = "sending" /\ send = "idle"
      /\ UNCHANGED <<receipt, updates, handler, reacted>>
  BY DEF Send
<1> HIDE DEF r
<1>3. TypeOK'
  BY <1>0, <1>1, <1>2 DEF TypeOK
<1>4. row[Sender] = NoRow
  BY <1>2 DEF SendOwnsRow
<1>5. SendOwnsRow'
  <2>1. row'[Sender].status = "pending" /\ row'[Sender].type = "text" /\ ~row'[Sender].known
    BY <1>0, <1>2 DEF r
  <2> QED
    BY <1>2, <2>1 DEF SendOwnsRow, UnderWay, Handling
<1>6. Rows'
  BY <1>0, <1>1, <1>2 DEF Rows, Backed, r
<1>7. Entities' /\ Updates'
  BY <1>2 DEF Entities, Updates, Backed, Handling
<1>8. \A s \in Sessions : MovesForward(s)
  BY <1>0, <1>2, <1>4 DEF MovesForward, Ahead
<1> QED
  BY <1>3, <1>5, <1>6, <1>7, <1>8

\* Accept, Reject and the saves that fail: the rows stay, and what was backed still is.
LEMMA AnswerForward ==
  ASSUME MessageAssumption, Inv, Accept \/ Reject \/ SaveSentFails \/ SaveFailedFails
  PROVE  Inv' /\ \A s \in Sessions : MovesForward(s)
<1> USE DEF Inv, MessageAssumption
<1>1. UNCHANGED <<row, updates, handler, reacted>>
  BY DEF Accept, Reject, SaveSentFails, SaveFailedFails
<1>2. /\ UnderWay
      /\ send' \in {"accepted", "failing", "failing.known", "unsaved"}
  BY DEF Accept, Reject, SaveSentFails, SaveFailedFails, UnderWay
<1>3. /\ receipt' \in [Sessions -> DeliveryStatus \cup {"none"}]
      /\ send' = "accepted" => receipt'[Sender] # "none"
      /\ \A s \in Sessions : receipt[s] # "none" => receipt'[s] = receipt[s]
  BY DEF Accept, Reject, SaveSentFails, SaveFailedFails, TypeOK, DeliveryStatus, SendOwnsRow
<1>4. TypeOK'
  BY <1>1, <1>2, <1>3 DEF TypeOK
<1>5. SendOwnsRow'
  BY <1>1, <1>2, <1>3 DEF SendOwnsRow, UnderWay, Handling
<1>6. \A s \in Sessions : \A d : Backed(s, d) => Backed(s, d)'
  BY <1>3 DEF Backed
<1>7. Rows'
  BY <1>1, <1>3, <1>6 DEF Rows
<1>8. Updates'
  BY <1>1, <1>6 DEF Updates, TypeOK
<1>9. Entities'
  <2> SUFFICES ASSUME NEW x \in Reactors, Handling(x)
               PROVE  /\ Backed(handler[x].session, handler[x].entity.status)'
                      /\ handler[x].session # Sender => receipt'[handler[x].session] # "none"
    BY <1>1 DEF Entities, Handling
  <2>1. handler[x].session \in Sessions
    BY DEF TypeOK, Handling
  <2> QED
    BY <1>1, <1>3, <1>6, <2>1 DEF Entities
<1>10. \A s \in Sessions : MovesForward(s)
  BY <1>1 DEF MovesForward, Ahead
<1> QED
  BY <1>4, <1>5, <1>7, <1>8, <1>9, <1>10

\* SaveSent and SaveFailed save the row of the send as nobody else has touched it.
LEMMA SaveForward ==
  ASSUME MessageAssumption, Inv, SaveSent \/ SaveFailed
  PROVE  Inv' /\ \A s \in Sessions : MovesForward(s)
<1> USE DEF Inv, MessageAssumption
<1>1. /\ UNCHANGED <<receipt, updates, handler, reacted>>
      /\ send \in {"accepted", "failing", "failing.known"} /\ send' = "over"
  BY DEF SaveSent, SaveFailed
<1>2. PICK d \in {"sent", "failed"}, k \in BOOLEAN :
        SaveSend(d, k) /\ (d = "sent" => receipt[Sender] # "none")
  BY DEF SaveSent, SaveFailed, SendOwnsRow
<1> DEFINE old == row[Sender]
           new == [status |-> d, known |-> k \/ (old # NoRow /\ old.known),
                   type |-> "text", reactions |-> IF old = NoRow THEN {} ELSE old.reactions]
<1>3. row' = [row EXCEPT ![Sender] = new]
  BY <1>2 DEF SaveSend
<1>4. row \in [Sessions -> Row \cup {NoRow}] /\ (old # NoRow => old \in Row)
  BY DEF TypeOK
<1>5. new \in Row /\ new # NoRow /\ new.status = d /\ new.type = "text"
  <2>1. new \in Row
    BY <1>4 DEF Row, MessageStatus
  <2> QED
    BY <2>1
<1>6. old # NoRow => old.status = "pending" /\ old.type = "text"
  BY <1>1 DEF SendOwnsRow, UnderWay
<1> HIDE DEF new
<1>7. TypeOK'
  BY <1>1, <1>3, <1>4, <1>5 DEF TypeOK
<1>8. SendOwnsRow'
  BY <1>1, <1>3, <1>4, <1>5 DEF SendOwnsRow, UnderWay, Handling
<1>9. Rows'
  BY <1>1, <1>2, <1>3, <1>4, <1>5 DEF Rows, Backed
<1>10. Entities' /\ Updates'
  BY <1>1 DEF Entities, Updates, Backed, Handling
<1>11. \A s \in Sessions : MovesForward(s)
  BY <1>2, <1>3, <1>4, <1>5, <1>6 DEF MovesForward, Ahead
<1> QED
  BY <1>7, <1>8, <1>9, <1>10, <1>11

\* onMessage of another account.
LEMMA ReceiveForward ==
  ASSUME MessageAssumption, Inv, NEW s \in Sessions, Receive(s)
  PROVE  Inv' /\ \A t \in Sessions : MovesForward(t)
<1> USE DEF Inv, MessageAssumption
<1> DEFINE r == [status |-> "sent", known |-> TRUE, type |-> "text", reactions |-> {}]
<1>1. /\ s # Sender /\ receipt[s] = "none" /\ receipt' = [receipt EXCEPT ![s] = "sent"]
      /\ row' = [row EXCEPT ![s] = r] /\ UNCHANGED <<send, updates, handler, reacted>>
  BY DEF Receive
<1>2. r \in Row /\ r # NoRow /\ r.status = "sent"
  <2>1. r \in Row
    BY DEF Row, MessageStatus
  <2> QED
    BY <2>1
<1> HIDE DEF r
<1>3. row \in [Sessions -> Row \cup {NoRow}] /\ receipt \in [Sessions -> DeliveryStatus \cup {"none"}]
  BY DEF TypeOK
<1>4. TypeOK'
  BY <1>1, <1>2, <1>3 DEF TypeOK, DeliveryStatus
<1>5. SendOwnsRow'
  BY <1>1, <1>3 DEF SendOwnsRow, UnderWay, Handling
<1>6. \A t \in Sessions : \A d : Backed(t, d) => Backed(t, d)'
  BY <1>1, <1>3 DEF Backed
<1>7. row[s] = NoRow
  BY <1>1 DEF Rows
<1>8. Rows'
  <2> SUFFICES ASSUME NEW t \in Sessions, row'[t] # NoRow
               PROVE  /\ Backed(t, row[t].status)'
                      /\ row'[t].known => row'[t].status # "pending"
                      /\ t # Sender => receipt'[t] # "none"
    BY DEF Rows
  <2>1. CASE t = s
    BY <1>1, <1>2, <1>3, <2>1 DEF Backed
  <2>2. CASE t # s
    BY <1>1, <1>3, <1>6, <2>2 DEF Rows
  <2> QED
    BY <2>1, <2>2
<1>9. Updates'
  BY <1>1, <1>6 DEF Updates, TypeOK
<1>10. Entities'
  <2> SUFFICES ASSUME NEW x \in Reactors, Handling(x)
               PROVE  /\ Backed(handler[x].session, handler[x].entity.status)'
                      /\ handler[x].session # Sender => receipt'[handler[x].session] # "none"
    BY <1>1 DEF Entities, Handling
  <2>1. handler[x].session \in Sessions
    BY DEF TypeOK, Handling
  <2> QED
    BY <1>1, <1>3, <1>6, <2>1 DEF Entities
<1>11. \A t \in Sessions : MovesForward(t)
  BY <1>1, <1>3, <1>7 DEF MovesForward, Ahead
<1> QED
  BY <1>4, <1>5, <1>8, <1>9, <1>10, <1>11

\* onMessageAck, onMessageRevoked: an UPDATE is issued, the rows stay.
LEMMA IssueForward ==
  ASSUME MessageAssumption, Inv, NEW s \in Sessions,
         (\E d \in {"delivered", "read", "failed"} : Ack(s, d)) \/ Revoke(s)
  PROVE  Inv' /\ \A t \in Sessions : MovesForward(t)
<1> USE DEF Inv, MessageAssumption
<1>1. UNCHANGED <<row, send, handler, reacted>>
  BY DEF Ack, Revoke
<1>2. /\ receipt' \in [Sessions -> DeliveryStatus \cup {"none"}]
      /\ \A t \in Sessions : receipt[t] # "none" <=> receipt'[t] # "none"
      /\ \A t \in Sessions : \A d : Backed(t, d) => Backed(t, d)'
      /\ \E d \in {"delivered", "read", "failed", "revoked"} :
           updates' = updates \cup {[session |-> s, to |-> d]} /\ Backed(s, d)'
  <2>1. CASE Revoke(s)
    BY <2>1 DEF Revoke, Issue, TypeOK, Backed
  <2>2. ASSUME NEW d \in {"delivered", "read", "failed"}, Ack(s, d)
        PROVE  <1>2
    <3>1. receipt' = [receipt EXCEPT ![s] = IF @ = "read" THEN @ ELSE d] /\ receipt[s] # "none"
      BY <2>2 DEF Ack
    <3>2. receipt \in [Sessions -> DeliveryStatus \cup {"none"}]
      BY DEF TypeOK
    <3>3. \/ d = receipt[s]
          \/ receipt[s] = "sent"
          \/ receipt[s] \in {"delivered", "read"} /\ d \in {"delivered", "read"}
      BY <2>2 DEF Ack
    <3>4. \A t \in Sessions : \A e : Backed(t, e) => Backed(t, e)'
      BY <3>1, <3>2, <3>3 DEF Backed
    <3>5. Backed(s, d)'
      BY <3>1, <3>2, <3>3 DEF Backed
    <3>6. updates' = updates \cup {[session |-> s, to |-> d]}
      BY <2>2 DEF Ack, Issue
    <3>7. /\ receipt' \in [Sessions -> DeliveryStatus \cup {"none"}]
          /\ \A t \in Sessions : receipt[t] # "none" <=> receipt'[t] # "none"
      BY <3>1, <3>2 DEF DeliveryStatus
    <3> QED
      BY <3>4, <3>5, <3>6, <3>7
  <2> QED
    BY <2>1, <2>2
<1>3. TypeOK'
  BY <1>1, <1>2 DEF TypeOK
<1>4. SendOwnsRow'
  BY <1>1, <1>2 DEF SendOwnsRow, UnderWay, Handling
<1>5. Rows'
  BY <1>1, <1>2 DEF Rows
<1>6. Updates'
  BY <1>2 DEF Updates, TypeOK
<1>7. Entities'
  <2> SUFFICES ASSUME NEW x \in Reactors, Handling(x)
               PROVE  /\ Backed(handler[x].session, handler[x].entity.status)'
                      /\ handler[x].session # Sender => receipt'[handler[x].session] # "none"
    BY <1>1 DEF Entities, Handling
  <2>1. handler[x].session \in Sessions
    BY DEF TypeOK, Handling
  <2> QED
    BY <1>1, <1>2, <2>1 DEF Entities
<1>8. \A t \in Sessions : MovesForward(t)
  BY <1>1 DEF MovesForward, Ahead
<1> QED
  BY <1>3, <1>4, <1>5, <1>6, <1>7, <1>8

\* The guarded UPDATE: a row whose id is stored, so it is nobody's send in flight.
LEMMA RunUpdateForward ==
  ASSUME MessageAssumption, Inv, NEW u \in updates, RunUpdate(u)
  PROVE  Inv' /\ \A t \in Sessions : MovesForward(t)
<1> USE DEF Inv, MessageAssumption
<1>1. /\ updates' = updates \ {u} /\ UNCHANGED <<send, receipt, handler, reacted>>
      /\ row' = [s \in Sessions |-> IF s \in Matching(u) THEN Updated(row[s], u) ELSE row[s]]
  BY DEF RunUpdate
<1>2. u \in [session : Sessions, to : {"delivered", "read", "failed", "revoked"}]
  BY DEF TypeOK
<1>3. row \in [Sessions -> Row \cup {NoRow}]
  BY DEF TypeOK
<1>4. \A s \in Sessions : s \in Matching(u) =>
        s = u.session /\ row[s] \in Row /\ row[s].known
  BY <1>3 DEF Matching
<1>5. ASSUME NEW s \in Sessions, s \in Matching(u)
      PROVE  /\ row'[s] \in Row /\ row'[s].known
             /\ row'[s].status \in {row[s].status, u.to} \ {"revoked"}
             /\ row'[s].status # "pending"
             /\ MovesForward(s)
  <2>1. row'[s] = Updated(row[s], u) /\ row[s] \in Row /\ row[s].known
    BY <1>1, <1>4, <1>5
  <2>2. row[s].status # "pending"
    BY <1>4, <1>5 DEF Rows
  <2>3. /\ Updated(row[s], u) \in Row /\ Updated(row[s], u).known = row[s].known
        /\ Updated(row[s], u).status \in {row[s].status, u.to} \ {"revoked"}
        /\ Updated(row[s], u).status = "pending" => row[s].status = "pending"
        /\ Ahead(row[s].status, Updated(row[s], u).status)
        /\ row[s].type = "revoked" => Updated(row[s], u).type = "revoked"
    BY <1>2, <2>1, UpdatedRow
  <2>4. MovesForward(s)
    BY <2>1, <2>3 DEF MovesForward
  <2> QED
    BY <2>1, <2>2, <2>3, <2>4
<1>6. \A s \in Sessions : s \notin Matching(u) => row'[s] = row[s]
  BY <1>1
<1>7. TypeOK'
  BY <1>1, <1>3, <1>5, <1>6 DEF TypeOK
<1>8. SendOwnsRow'
  BY <1>1, <1>4, <1>5, <1>6 DEF SendOwnsRow, UnderWay, Handling
<1>9. Rows'
  <2> SUFFICES ASSUME NEW s \in Sessions, row'[s] # NoRow
               PROVE  /\ Backed(s, row[s].status)'
                      /\ row'[s].known => row'[s].status # "pending"
                      /\ s # Sender => receipt'[s] # "none"
    BY DEF Rows
  <2>1. CASE s \in Matching(u)
    <3>1. Backed(s, row[s].status) /\ Backed(s, u.to) /\ row[s] # NoRow
      BY <1>4, <2>1 DEF Rows, Updates
    <3> QED
      BY <1>1, <1>5, <2>1, <3>1 DEF Rows, Backed
  <2>2. CASE s \notin Matching(u)
    BY <1>1, <1>6, <2>2 DEF Rows, Backed
  <2> QED
    BY <2>1, <2>2
<1>10. Entities' /\ Updates'
  BY <1>1 DEF Entities, Updates, Backed, Handling
<1>11. \A t \in Sessions : MovesForward(t)
  BY <1>5, <1>6 DEF MovesForward, Ahead
<1> QED
  BY <1>7, <1>8, <1>9, <1>10, <1>11

\* onMessageReaction reads a row whose id is stored.
LEMMA ReactionReadForward ==
  ASSUME MessageAssumption, Inv, NEW x \in Reactors, NEW s \in Sessions, NEW p \in People,
         ReactionRead(x, s, p)
  PROVE  Inv' /\ \A t \in Sessions : MovesForward(t)
<1> USE DEF Inv, MessageAssumption
<1> DEFINE h == [session |-> s, by |-> p, entity |-> row[s]]
<1>1. /\ row[s] # NoRow /\ row[s].known /\ handler' = [handler EXCEPT ![x] = h]
      /\ UNCHANGED <<row, send, receipt, updates, reacted>>
  BY DEF ReactionRead
<1>2. row[s] \in Row
  BY <1>1 DEF TypeOK
<1>3. h \in [session : Sessions, by : People, entity : Row]
  BY <1>2
<1>4. s = Sender => send \in {"over", "lost"}
  BY <1>1 DEF SendOwnsRow, UnderWay, TypeOK
<1>5. TypeOK'
  BY <1>1, <1>3 DEF TypeOK
<1>6. \A y \in Reactors : handler'[y] = IF y = x THEN h ELSE handler[y]
  BY <1>1 DEF TypeOK
<1>7. SendOwnsRow'
  BY <1>1, <1>4, <1>6 DEF SendOwnsRow, UnderWay, Handling
<1>8. Rows' /\ Updates'
  BY <1>1 DEF Rows, Updates, Backed
<1>9. Entities'
  BY <1>1, <1>6 DEF Entities, Rows, Backed, Handling
<1>10. \A t \in Sessions : MovesForward(t)
  BY <1>1 DEF MovesForward, Ahead
<1> QED
  BY <1>5, <1>7, <1>8, <1>9, <1>10

\* The save of the entity that was read keeps the invariant, for its status was
\* backed when it was read.
LEMMA ReactionSaveStep ==
  ASSUME MessageAssumption, Inv, NEW x \in Reactors, NEW sticks \in BOOLEAN,
         ReactionSave(x, sticks)
  PROVE  Inv' /\ Handling(x) /\ handler'[x] = NoEvent
<1> USE DEF Inv, MessageAssumption
<1> DEFINE h == handler[x]
           saved == [h.entity EXCEPT !.reactions = Reactions(h.entity, h.by, sticks)]
<1>1. h \in [session : Sessions, by : People, entity : Row] /\ Handling(x)
  BY DEF ReactionSave, Handling, TypeOK
<1>2. /\ row' = [row EXCEPT ![h.session] = saved]
      /\ reacted' = [reacted EXCEPT ![h.session] = IF sticks THEN @ \cup {h.by} ELSE @ \ {h.by}]
      /\ handler' = [handler EXCEPT ![x] = NoEvent] /\ UNCHANGED <<send, receipt, updates>>
  BY DEF ReactionSave
<1>3. /\ saved \in Row /\ saved.status = h.entity.status /\ saved.known = h.entity.known
      /\ saved.type = h.entity.type
  BY <1>1 DEF Row, Reactions
<1>4. saved # NoRow
  BY <1>3
<1>5. /\ h.session \in Sessions /\ h.by \in People
      /\ Backed(h.session, saved.status) /\ saved.status # "pending"
      /\ h.session # Sender => receipt[h.session] # "none"
      /\ h.session = Sender => send \in {"over", "lost"}
  BY <1>1, <1>3 DEF Entities, SendOwnsRow, TypeOK
<1> HIDE DEF saved, h
<1>6. TypeOK'
  BY <1>2, <1>3, <1>5 DEF TypeOK
<1>7. \A y \in Reactors : handler'[y] = IF y = x THEN NoEvent ELSE handler[y]
  BY <1>2 DEF TypeOK
<1>8. \A s \in Sessions : row'[s] = IF s = h.session THEN saved ELSE row[s]
  BY <1>2 DEF TypeOK
<1>9. SendOwnsRow'
  BY <1>2, <1>5, <1>7, <1>8 DEF SendOwnsRow, UnderWay, Handling
<1>10. Rows'
  BY <1>2, <1>5, <1>8 DEF Rows, Backed
<1>11. Entities' /\ Updates'
  BY <1>2, <1>7 DEF Entities, Updates, Backed, Handling
<1> QED
  BY <1>1, <1>6, <1>7, <1>9, <1>10, <1>11

\* clearSessionMessages and a restart only forget.
LEMMA ForgetForward ==
  ASSUME MessageAssumption, Inv, (\E s \in Sessions : Clear(s)) \/ Restart \/ UNCHANGED vars
  PROVE  Inv' /\ \A t \in Sessions : MovesForward(t)
<1> USE DEF Inv, MessageAssumption
<1>1. /\ row \in [Sessions -> Row \cup {NoRow}]
      /\ \A s \in Sessions : row'[s] \in {row[s], NoRow}
      /\ row' \in [Sessions -> Row \cup {NoRow}]
      /\ UNCHANGED <<receipt, reacted>> /\ updates' \subseteq updates
      /\ send' = send \/ (send' = "lost" /\ send \notin {"idle", "over"})
      /\ handler' \in [Reactors ->
           {NoEvent} \cup [session : Sessions, by : People, entity : Row]]
      /\ \A x \in Reactors : handler'[x] \in {handler[x], NoEvent}
  BY DEF Clear, Restart, vars, TypeOK
<1>2. TypeOK'
  BY <1>1 DEF TypeOK
<1>3. SendOwnsRow'
  BY <1>1 DEF SendOwnsRow, UnderWay, Handling
<1>4. Rows' /\ Updates'
  BY <1>1 DEF Rows, Updates, Backed
<1>5. Entities'
  BY <1>1 DEF Entities, Backed, Handling
<1>6. \A t \in Sessions : MovesForward(t)
  BY <1>1 DEF MovesForward, Ahead
<1> QED
  BY <1>2, <1>3, <1>4, <1>5, <1>6

-----------------------------------------------------------------------------
LEMMA Step ==
  ASSUME MessageAssumption, Inv, [Next]_vars
  PROVE  Inv' /\ ForwardOrReaction
<1>1. CASE Send
  BY <1>1, SendForward DEF ForwardOrReaction
<1>2. CASE SendStep
  BY <1>2, AnswerForward, SaveForward DEF SendStep, ForwardOrReaction
<1>3. ASSUME NEW s \in Sessions, Callback(s) PROVE Inv' /\ ForwardOrReaction
  BY <1>3, ReceiveForward, IssueForward, ForgetForward DEF Callback, ForwardOrReaction
<1>4. ASSUME NEW u \in updates, RunUpdate(u) PROVE Inv' /\ ForwardOrReaction
  BY <1>4, RunUpdateForward DEF ForwardOrReaction
<1>5. ASSUME NEW x \in Reactors, React(x) PROVE Inv' /\ ForwardOrReaction
  BY <1>5, ReactionReadForward, ReactionSaveStep DEF React, ForwardOrReaction
<1>6. CASE Restart \/ UNCHANGED vars
  BY <1>6, ForgetForward DEF ForwardOrReaction
<1> QED
  BY <1>1, <1>2, <1>3, <1>4, <1>5, <1>6 DEF Next

LEMMA Invariant == Spec => []Inv
<1>1. Init => Inv
  BY TypeInit, MessageAssumption
<1>2. Inv /\ [Next]_vars => Inv'
  BY Step, MessageAssumption
<1> QED
  BY <1>1, <1>2, PTL DEF Spec

\* The rows, the callbacks and the send keep their types.
THEOREM Typed == Spec => []TypeOK
  BY Invariant, PTL DEF Inv

\* onMessageAck's comment: a row never claims a delivery its own account has had no
\* receipt for, although every account's row carries the same waMessageId.
THEOREM ReceiptsFirst == Spec => []NeverAhead
<1>1. Inv => NeverAhead
  BY DEF Inv, Rows, Backed, NeverAhead
<1> QED
  BY <1>1, Invariant, PTL

\* saveOutgoingMessage: a row is left pending only by a send that a restart, or the
\* failure of its second save, has cut short.
THEOREM SendSettles == Spec => []NoLimbo
<1>1. Inv => NoLimbo
  BY DEF Inv, TypeOK, SendOwnsRow, UnderWay, CutShort, NoLimbo
<1> QED
  BY <1>1, Invariant, PTL

\* message-status.util: only the save of a reaction can take a delivery state back.
THEOREM ForwardButReactions == Spec => OnlyReactionsGoBack
<1>1. Inv /\ [Next]_vars => [ForwardOrReaction]_vars
  BY Step, MessageAssumption
<1> QED
  BY <1>1, Invariant, PTL DEF Spec, OnlyReactionsGoBack, ForwardOrReaction
-----------------------------------------------------------------------------
(* The reactions of a row, when no two callbacks of one session overlap.   *)

OneAtATime ==
  \A x, y \in Reactors :
    Handling(x) /\ Handling(y) /\ handler[x].session = handler[y].session => x = y

\* Rows and entities carry every reaction handled; a row that is written without
\* them is one that nobody could react to yet.
Kept ==
  /\ \A s \in Sessions : row[s] # NoRow => row[s].reactions = reacted[s]
  /\ \A x \in Reactors : Handling(x) =>
       handler[x].entity.reactions = reacted[handler[x].session]
  /\ send \notin {"over", "lost"} => reacted[Sender] = {}
  /\ \A s \in Sessions \ {Sender} : receipt[s] = "none" => reacted[s] = {}

LEMMA SendKeeps ==
  ASSUME MessageAssumption, Inv, Kept, Send \/ SaveSent \/ SaveFailed PROVE Kept'
<1>1. UNCHANGED <<receipt, handler, reacted>> /\ send \notin {"over", "lost"}
  BY DEF Send, SaveSent, SaveFailed
<1>2. row \in [Sessions -> Row \cup {NoRow}] /\ Sender \in Sessions
  BY DEF Inv, TypeOK, MessageAssumption
<1>3. row'[Sender].reactions = reacted[Sender] /\ \A s \in Sessions \ {Sender} : row'[s] = row[s]
  <2>1. reacted[Sender] = {}
    BY <1>1 DEF Kept
  <2>2. CASE Send
    BY <1>2, <2>1, <2>2 DEF Send
  <2>3. ASSUME NEW d, NEW k, SaveSend(d, k)
        PROVE  row'[Sender].reactions = {} /\ \A s \in Sessions \ {Sender} : row'[s] = row[s]
    BY <1>2, <2>1, <2>3 DEF SaveSend, Kept
  <2> QED
    BY <2>1, <2>2, <2>3 DEF SaveSent, SaveFailed
<1> QED
  BY <1>1, <1>3 DEF Kept, Handling

LEMMA ReceiveKeeps ==
  ASSUME MessageAssumption, Inv, Kept, NEW s \in Sessions, Receive(s) PROVE Kept'
<1>1. /\ s # Sender /\ receipt[s] = "none" /\ UNCHANGED <<send, handler, reacted>>
      /\ row' = [row EXCEPT ![s] =
           [status |-> "sent", known |-> TRUE, type |-> "text", reactions |-> {}]]
      /\ receipt' = [receipt EXCEPT ![s] = "sent"]
  BY DEF Receive
<1>2. reacted[s] = {} /\ row'[s].reactions = {}
  BY <1>1 DEF Kept, Inv, TypeOK
<1>3. \A t \in Sessions : row'[t] # NoRow => row'[t].reactions = reacted'[t]
  BY <1>1, <1>2 DEF Kept, Inv, TypeOK
<1>4. \A t \in Sessions \ {Sender} : receipt'[t] = "none" => receipt[t] = "none"
  BY <1>1 DEF Inv, TypeOK
<1> QED
  BY <1>1, <1>3, <1>4 DEF Kept, Handling

LEMMA RunUpdateKeeps ==
  ASSUME Inv, Kept, NEW u \in updates, RunUpdate(u) PROVE Kept'
<1>1. UNCHANGED <<send, receipt, handler, reacted>>
  BY DEF RunUpdate
<1>2. ASSUME NEW s \in Sessions, row'[s] # NoRow
      PROVE  row[s] # NoRow /\ row'[s].reactions = row[s].reactions
  <2>1. row'[s] = IF s \in Matching(u) THEN Updated(row[s], u) ELSE row[s]
    BY DEF RunUpdate
  <2>2. CASE s \in Matching(u)
    <3>1. row[s] \in Row /\ row[s] # NoRow
      BY <2>2 DEF Matching, Inv, TypeOK
    <3>2. Updated(row[s], u).reactions = row[s].reactions
      BY <3>1 DEF Updated, Row
    <3> QED
      BY <2>1, <2>2, <3>1, <3>2
  <2> QED
    BY <1>2, <2>1, <2>2
<1> QED
  BY <1>1, <1>2 DEF Kept, Handling

LEMMA ReactionReadKeeps ==
  ASSUME Inv, Kept, NEW x \in Reactors, NEW s \in Sessions, NEW p \in People, ReactionRead(x, s, p)
  PROVE  Kept'
<1>1. /\ UNCHANGED <<row, send, receipt, reacted>> /\ row[s] # NoRow
      /\ handler' = [handler EXCEPT ![x] = [session |-> s, by |-> p, entity |-> row[s]]]
  BY DEF ReactionRead
<1>2. handler'[x].session = s /\ handler'[x].entity = row[s]
      /\ \A y \in Reactors \ {x} : handler'[y] = handler[y]
  BY <1>1 DEF Inv, TypeOK
<1> QED
  BY <1>1, <1>2 DEF Kept, Handling

LEMMA ReactionSaveKeeps ==
  ASSUME MessageAssumption, Inv, Kept, OneAtATime,
         NEW x \in Reactors, NEW sticks \in BOOLEAN, ReactionSave(x, sticks)
  PROVE  Kept'
<1> DEFINE h == handler[x]
           now == IF sticks THEN reacted[h.session] \cup {h.by} ELSE reacted[h.session] \ {h.by}
<1>1. /\ UNCHANGED <<send, receipt>> /\ Handling(x)
      /\ row' = [row EXCEPT ![h.session] =
                   [h.entity EXCEPT !.reactions = Reactions(h.entity, h.by, sticks)]]
      /\ reacted' = [reacted EXCEPT ![h.session] = now]
      /\ handler' = [handler EXCEPT ![x] = NoEvent]
  BY DEF ReactionSave
<1>2. h.session \in Sessions /\ h.entity \in Row /\ h.entity.reactions = reacted[h.session]
      /\ row \in [Sessions -> Row \cup {NoRow}] /\ reacted \in [Sessions -> SUBSET People]
  BY <1>1 DEF Kept, Handling, Inv, TypeOK
<1>3. row'[h.session].reactions = now /\ reacted'[h.session] = now
  BY <1>1, <1>2 DEF Reactions, Row
<1>4. \A s \in Sessions \ {h.session} : row'[s] = row[s] /\ reacted'[s] = reacted[s]
  BY <1>1, <1>2
<1>5. \A s \in Sessions : row'[s] # NoRow => row'[s].reactions = reacted'[s]
  BY <1>3, <1>4 DEF Kept
<1>6. ASSUME NEW y \in Reactors, Handling(y)'
      PROVE  handler'[y].entity.reactions = reacted'[handler'[y].session]
  <2>1. y # x /\ handler'[y] = handler[y] /\ Handling(y)
    BY <1>1, <1>6 DEF Handling, NoEvent, Inv, TypeOK
  <2>2. handler[y].session \in Sessions \ {h.session}
    BY <1>1, <2>1 DEF OneAtATime, Handling, Inv, TypeOK
  <2> QED
    BY <1>4, <2>1, <2>2 DEF Kept
<1>7. (send \notin {"over", "lost"} => h.session # Sender)
      /\ (h.session # Sender => receipt[h.session] # "none")
  BY <1>1 DEF Inv, SendOwnsRow, Entities
<1> QED
  BY <1>1, <1>4, <1>5, <1>6, <1>7 DEF Kept, MessageAssumption

LEMMA OtherKeeps ==
  ASSUME Inv, Kept,
         Accept \/ Reject \/ SaveSentFails \/ SaveFailedFails \/ Restart \/ UNCHANGED vars
         \/ \E s \in Sessions : Revoke(s) \/ Clear(s)
                                \/ \E d \in {"delivered", "read", "failed"} : Ack(s, d)
  PROVE  Kept'
<1>1. /\ reacted' = reacted
      /\ \A s \in Sessions : row'[s] # NoRow => row'[s] = row[s]
      /\ send' \notin {"over", "lost"} => send \notin {"over", "lost"}
      /\ \A s \in Sessions : receipt'[s] = "none" => receipt[s] = "none"
  BY DEF Accept, Reject, SaveSentFails, SaveFailedFails, Restart, Revoke, Clear, Ack, vars, Inv, TypeOK
<1>2. \A x \in Reactors : Handling(x)' => Handling(x) /\ handler'[x] = handler[x]
  BY DEF Accept, Reject, SaveSentFails, SaveFailedFails, Restart, Revoke, Clear, Ack, vars, Handling, NoEvent
<1> QED
  BY <1>1, <1>2 DEF Kept

LEMMA KeptStep == ASSUME Inv, Kept, OneAtATime, [Next]_vars PROVE Kept'
<1>1. CASE Send \/ SendStep
  BY <1>1, SendKeeps, OtherKeeps, MessageAssumption DEF SendStep
<1>2. ASSUME NEW s \in Sessions, Callback(s) PROVE Kept'
  BY <1>2, ReceiveKeeps, OtherKeeps, MessageAssumption DEF Callback
<1>3. ASSUME NEW x \in Reactors, React(x) PROVE Kept'
  BY <1>3, ReactionReadKeeps, ReactionSaveKeeps, MessageAssumption DEF React
<1> QED
  BY <1>1, <1>2, <1>3, RunUpdateKeeps, OtherKeeps DEF Next

\* onMessageReaction finds and then saves: as long as no two reactions of one account's
\* client overlap, none is lost, whatever receipts, clears and restarts come between.
THEOREM LoneReactionsKept == Spec /\ []OneAtATime => []ReactionsKept
<1>1. Init => Kept
  BY MessageAssumption DEF Init, Kept, Handling
<1>2. Inv /\ Kept /\ OneAtATime /\ [Next]_vars => Kept'
  BY KeptStep
<1>3. Kept => ReactionsKept
  BY DEF Kept, ReactionsKept
<1> QED
  BY <1>1, <1>2, <1>3, Invariant, PTL DEF Spec
=============================================================================
