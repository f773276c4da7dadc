--------------------------- MODULE EventGatewayProofs ---------------------------
(***************************************************************************)
(* Proofs about API keys and the event gateway, for any number of keys,    *)
(* sessions, clients, sockets and changes.                                 *)
(*                                                                         *)
(* Each safety property speaks of rows only; what makes it inductive is    *)
(* the same statement about every copy of a row that is still to be saved  *)
(* or acted upon.  Most steps are quiet: they change no row and no figure, *)
(* and put nobody into a stage the invariants speak of.                    *)
(***************************************************************************)
EXTENDS EventGateway, TLAPS

People == Callers \cup Admins

\* What a step of c may have made of the calls: c is over, or at a stage with a copy.
Moved(c, stage, copy) ==
  /\ call' \in [People -> Call]
  /\ \A d \in People : call'[d].key = call[d].key
  /\ \A d \in People \ {c} : call'[d] = call[d]
  /\ \/ call'[c].at = "idle" /\ call'[c].copy = NoRow
     \/ call'[c].at = stage /\ call'[c].copy = copy

-----------------------------------------------------------------------------
(* What the helpers do to the calls                                        *)

LEMMA IdleType ==
  ASSUME NEW k \in Keys
  PROVE  Idle(k) \in Call /\ Idle(k).key = k /\ Idle(k).at = "idle" /\ Idle(k).copy = NoRow
BY DEF Idle, Call, Stages

LEMMA HoldMoves ==
  ASSUME KeysTypeOK, NEW c \in People, NEW stage \in Stages, NEW copy \in Row \cup {NoRow},
         Hold(c, stage, copy)
  PROVE  Moved(c, stage, copy) /\ call'[c].at = stage /\ call'[c].copy = copy
<1> DEFINE old == call[c]
           mid == [old EXCEPT !.at = stage]
           new == [mid EXCEPT !.copy = copy]
<1>1. old \in Call
  BY DEF KeysTypeOK, People
<1>2. mid \in Call /\ mid.at = stage /\ mid.key = old.key
  BY <1>1 DEF Call
<1> HIDE DEF mid
<1>3. new \in Call /\ new.at = stage /\ new.copy = copy /\ new.key = old.key
  BY <1>2 DEF Call
<1>4. call' = [call EXCEPT ![c] = new]
  BY DEF Hold, mid
<1> HIDE DEF new
<1> QED
  BY <1>3, <1>4 DEF KeysTypeOK, Moved, People

LEMMA GotoMoves ==
  ASSUME KeysTypeOK, NEW c \in People, NEW stage \in Stages, Goto(c, stage)
  PROVE  Moved(c, stage, call[c].copy) /\ call'[c].at = stage
<1> DEFINE old == call[c]
           new == [old EXCEPT !.at = stage]
<1>1. old \in Call
  BY DEF KeysTypeOK, People
<1>2. new \in Call /\ new.at = stage /\ new.key = old.key /\ new.copy = old.copy
  BY <1>1 DEF Call
<1>3. call' = [call EXCEPT ![c] = new]
  BY DEF Goto
<1> HIDE DEF new
<1> QED
  BY <1>2, <1>3 DEF KeysTypeOK, Moved, People

LEMMA EndMoves ==
  ASSUME KeysTypeOK, NEW c \in People, End(c)
  PROVE  \A stage, copy : Moved(c, stage, copy) /\ call'[c].at = "idle"
<1>1. call[c].key \in Keys
  BY DEF KeysTypeOK, Call, People
<1> QED
  BY <1>1, IdleType DEF End, Moved, KeysTypeOK, People

LEMMA AnswerMoves ==
  ASSUME KeysTypeOK, NEW c \in People, NEW stage \in Stages, NEW copy \in Row \cup {NoRow},
         Answer(c, stage, copy)
  PROVE  Moved(c, stage, copy)
BY HoldMoves, EndMoves DEF Answer

LEMMA ValidateMoves ==
  ASSUME KeysTypeOK, NEW c \in People, NEW scope \in Sessions \cup {NoSession},
         Validate(c, scope)
  PROVE  Moved(c, "find", call[c].copy) /\ call'[c].at = "find"
<1> DEFINE old == call[c]
           mid == [old EXCEPT !.at = "find"]
           new == [mid EXCEPT !.scope = scope]
<1>1. old \in Call
  BY DEF KeysTypeOK, People
<1>2. mid \in Call /\ mid.at = "find" /\ mid.key = old.key /\ mid.copy = old.copy
  BY <1>1 DEF Call, Stages
<1> HIDE DEF mid
<1>3. new \in Call /\ new.at = "find" /\ new.copy = old.copy /\ new.key = old.key
  BY <1>2 DEF Call
<1>4. call' = [call EXCEPT ![c] = new]
  BY DEF Validate, mid
<1> HIDE DEF new
<1> QED
  BY <1>3, <1>4 DEF KeysTypeOK, Moved, People

-----------------------------------------------------------------------------
(* Types                                                                   *)

LEMMA NewRowType == ASSUME NEW x \in SUBSET Sessions PROVE NewRow(x) \in Row
BY DEF NewRow, Row

\* What the code changes in an entity keeps it one.
LEMMA EntityType ==
  ASSUME NEW r \in Row, NEW x \in SUBSET Sessions, NEW n \in Nat
  PROVE  /\ [r EXCEPT !.isActive = FALSE] \in Row /\ ~[r EXCEPT !.isActive = FALSE].isActive
         /\ [r EXCEPT !.isActive = FALSE].usageCount = r.usageCount
         /\ [r EXCEPT !.allowedSessions = x] \in Row
         /\ [r EXCEPT !.allowedSessions = x].isActive = r.isActive
         /\ [r EXCEPT !.allowedSessions = x].usageCount = r.usageCount
<1>1. [r EXCEPT !.isActive = FALSE] \in Row /\ ~[r EXCEPT !.isActive = FALSE].isActive
      /\ [r EXCEPT !.isActive = FALSE].usageCount = r.usageCount
  BY DEF Row
<1>2. [r EXCEPT !.allowedSessions = x] \in Row
      /\ [r EXCEPT !.allowedSessions = x].isActive = r.isActive
      /\ [r EXCEPT !.allowedSessions = x].usageCount = r.usageCount
  BY DEF Row
<1> QED
  BY <1>1, <1>2

\* A counted entity differs from the one read only in its statistics.
LEMMA CountedType ==
  ASSUME NEW r \in Row, NEW n \in Nat,
         NEW copy, copy = [[r EXCEPT !.used = TRUE] EXCEPT !.usageCount = @ + n]
  PROVE  /\ copy \in Row /\ copy.usageCount = r.usageCount + n
         /\ copy.isActive = r.isActive /\ copy.allowedSessions = r.allowedSessions
<1> DEFINE mid == [r EXCEPT !.used = TRUE]
<1>1. /\ mid \in Row /\ mid.usageCount = r.usageCount
      /\ mid.isActive = r.isActive /\ mid.allowedSessions = r.allowedSessions
  BY DEF Row
<1>2. copy = [mid EXCEPT !.usageCount = @ + n]
  OBVIOUS
<1> HIDE DEF mid
<1>3. mid.usageCount + n \in Nat
  BY <1>1 DEF Row
<1> QED
  BY <1>1, <1>2, <1>3 DEF Row

\* An admitted caller has read an active row; it is counted, and its copy is that row
\* with the count of all that was pending.
LEMMA AdmitFacts ==
  ASSUME KeysTypeOK, NEW c \in Callers, Admit(c)
  PROVE  \E n \in Nat, copy \in Row, stage \in {"save", "accepted"} :
    LET k == call[c].key IN
      /\ k \in Keys /\ call[c].at = "read"
      /\ call[c].copy \in Row /\ n = pendingUsage[k] + 1
      /\ copy.usageCount = call[c].copy.usageCount + n
      /\ copy.isActive = call[c].copy.isActive
      /\ copy.allowedSessions = call[c].copy.allowedSessions
      /\ pendingUsage' = [pendingUsage EXCEPT ![k] = IF stage = "save" THEN 0 ELSE n]
      /\ counted' = [counted EXCEPT ![k] = @ + 1]
      /\ Moved(c, stage, copy)
<1> DEFINE k == call[c].key
           r == call[c].copy
           n == pendingUsage[k] + 1
           copy == [[r EXCEPT !.used = TRUE] EXCEPT !.usageCount = @ + n]
<1>1. c \in People /\ k \in Keys /\ r \in Row /\ n \in Nat /\ call[c].at = "read"
  BY DEF KeysTypeOK, Call, People, Admit, Admits
<1> HIDE DEF n, copy
<1>2. /\ copy \in Row /\ copy.usageCount = r.usageCount + n
      /\ copy.isActive = r.isActive /\ copy.allowedSessions = r.allowedSessions
  BY <1>1, CountedType DEF copy
<1>3. PICK due \in BOOLEAN : Count(c, due)
  BY DEF Admit
<1>4. /\ pendingUsage' = [pendingUsage EXCEPT ![k] = IF due THEN 0 ELSE n]
      /\ IF due THEN Hold(c, "save", copy) ELSE Answer(c, "accepted", copy)
      /\ counted' = [counted EXCEPT ![k] = @ + 1]
  BY <1>3 DEF Count, n, copy
<1>5. CASE due
  <2>1. Moved(c, "save", copy)
    BY <1>1, <1>2, <1>4, <1>5, HoldMoves DEF Stages
  <2> QED
    BY <1>1, <1>2, <1>4, <1>5, <2>1 DEF n
<1>6. CASE ~due
  <2>1. Moved(c, "accepted", copy)
    BY <1>1, <1>2, <1>4, <1>6, AnswerMoves DEF Stages
  <2> QED
    BY <1>1, <1>2, <1>4, <1>6, <2>1 DEF n
<1> QED
  BY <1>5, <1>6

\* Nobody changes keys in a step.
KeysKept == \A d \in People : call'[d].key = call[d].key

\* The type of what the keys are about is kept by every step of AuthService.
LEMMA KeyStepType ==
  ASSUME KeysTypeOK, KeyStep
  PROVE  KeysTypeOK' /\ KeysKept
<1> USE DEF People, KeysKept
<1>1. ASSUME NEW c \in Callers, Find(c) PROVE KeysTypeOK' /\ KeysKept
  <2>1. c \in People /\ row[call[c].key] \in Row \cup {NoRow}
    BY DEF KeysTypeOK, Call
  <2>2. Moved(c, "read", row[call[c].key])
    BY <1>1, <2>1, HoldMoves DEF Find, Stages
  <2> QED
    BY <1>1, <2>2 DEF Find, KeysTypeOK, Moved, stats, past
<1>2. ASSUME NEW c \in Callers, Refuse(c) PROVE KeysTypeOK' /\ KeysKept
  <2>1. Moved(c, "refused", NoRow)
    BY <1>2, AnswerMoves DEF Refuse, Stages
  <2> QED
    BY <1>2, <2>1 DEF Refuse, KeysTypeOK, Moved, stats, past
<1>3. ASSUME NEW c \in Callers, Admit(c) PROVE KeysTypeOK' /\ KeysKept
  <2>1. PICK n \in Nat, copy \in Row, stage \in {"save", "accepted"} :
          /\ pendingUsage' = [pendingUsage EXCEPT ![call[c].key] = IF stage = "save" THEN 0 ELSE n]
          /\ counted' = [counted EXCEPT ![call[c].key] = @ + 1]
          /\ Moved(c, stage, copy)
    BY <1>3, AdmitFacts
  <2>2. pendingUsage' \in [Keys -> Nat]
    BY <2>1 DEF KeysTypeOK
  <2>3. counted' \in [Keys -> Nat]
    <3>1. call[c].key \in Keys
      BY DEF KeysTypeOK, Call
    <3>2. counted[call[c].key] + 1 \in Nat
      BY <3>1 DEF KeysTypeOK
    <3> QED
      BY <2>1, <3>2 DEF KeysTypeOK
  <2> QED
    BY <1>3, <2>1, <2>2, <2>3 DEF Admit, KeysTypeOK, Moved, past
<1>4. ASSUME NEW c \in People, Saved(c) PROVE KeysTypeOK' /\ KeysKept
  <2>1. call[c].copy \in Row \cup {NoRow}
    BY DEF KeysTypeOK, Call
  <2>2. Moved(c, "accepted", call[c].copy)
    BY <1>4, <2>1, AnswerMoves DEF Saved, Stages
  <2> QED
    BY <1>4, <2>1, <2>2 DEF Saved, KeysTypeOK, Moved, stats, past
<1>5. ASSUME NEW c \in People, SaveFails(c) PROVE KeysTypeOK' /\ KeysKept
  <2>1. Moved(c, "refused", NoRow)
    BY <1>5, AnswerMoves DEF SaveFails, Stages
  <2> QED
    BY <1>5, <2>1 DEF SaveFails, KeysTypeOK, Moved, stats, past
<1>6. ASSUME NEW a \in Admins, NEW op \in {"update", "revoke", "delete"}, Ask(a, op) PROVE KeysTypeOK' /\ KeysKept
  <2>1. Moved(a, op, call[a].copy)
    BY <1>6, GotoMoves DEF Ask, Stages
  <2> QED
    BY <1>6, <2>1 DEF Ask, KeysTypeOK, Moved, stats, past
<1>7. ASSUME NEW a \in Admins, NotFound(a) PROVE KeysTypeOK' /\ KeysKept
  BY <1>7, EndMoves DEF NotFound, KeysTypeOK, Moved, stats, past
<1>8. ASSUME NEW a \in Admins, Update(a) PROVE KeysTypeOK' /\ KeysKept
  <2>1. row[call[a].key] \in Row
    BY <1>8 DEF Update, KeysTypeOK, Call
  <2>2. PICK x \in SUBSET Sessions : Hold(a, "save", [row[call[a].key] EXCEPT !.allowedSessions = x])
    BY <1>8 DEF Update
  <2>3. [row[call[a].key] EXCEPT !.allowedSessions = x] \in Row
    BY <2>1, EntityType
  <2>4. Moved(a, "save", [row[call[a].key] EXCEPT !.allowedSessions = x])
    BY <2>2, <2>3, HoldMoves DEF Stages
  <2> QED
    BY <1>8, <2>4 DEF Update, KeysTypeOK, Moved, stats, past
<1>9. ASSUME NEW a \in Admins, NEW stage \in {"revoking", "remove"}, row[call[a].key] # NoRow,
             Drop(a, stage)
      PROVE  KeysTypeOK' /\ KeysKept
  <2>1. row[call[a].key] \in Row
    BY <1>9 DEF KeysTypeOK, Call
  <2>2. [row[call[a].key] EXCEPT !.isActive = FALSE] \in Row
    BY <2>1, EntityType
  <2>3. Moved(a, stage, [row[call[a].key] EXCEPT !.isActive = FALSE])
    BY <1>9, <2>2, HoldMoves DEF Stages, Drop
  <2> QED
    BY <1>9, <2>3 DEF Drop, KeysTypeOK, Moved, past
<1>10. ASSUME NEW a \in Admins, NEW r \in Row \cup {NoRow}, Retire(a, r) PROVE KeysTypeOK' /\ KeysKept
  BY <1>10, EndMoves DEF Retire, KeysTypeOK, Moved, stats, Call
<1>11. ASSUME NEW a \in Admins PROVE call[a].copy \in Row \cup {NoRow}
  BY DEF KeysTypeOK, Call
<1> QED
  BY <1>1, <1>2, <1>3, <1>4, <1>5, <1>6, <1>7, <1>8, <1>9, <1>10, <1>11
  DEF KeyStep, Revoke, Delete, Revoked, Deleted

\* The type of what the gateway keeps in memory.
SocketsTypeOK ==
  /\ conn \in [Sockets -> {"none", "open", "ready", "closed"}]
  /\ asked \in [Sockets -> Scopes \cup {NoSession}]
  /\ rooms \in [Sockets -> SUBSET Scopes]

\* A step that changes no row and no figure, and puts nobody where a copy matters.
Quiet ==
  /\ UNCHANGED <<row, stats, past>>
  /\ call' \in [People -> Call]
  /\ \A d \in People : call'[d].key = call[d].key
  /\ \A d \in People : \/ call'[d] = call[d]
                       \/ call'[d].at \notin {"read", "save", "revoking", "accepted"}

\* What a socket does is quiet, and it joins only what its key, as it was read for the
\* subscription, allows.
LEMMA SocketSteps ==
  ASSUME KeysTypeOK, SocketsTypeOK, NEW s \in Sockets, Socket(s)
  PROVE  /\ SocketsTypeOK' /\ Quiet
         /\ \A t \in Sockets : asked'[t] = asked[t] \/ asked'[t] = NoSession \/ call'[t].at = "find"
         /\ \A t \in Sockets : rooms'[t] \subseteq rooms[t]
              \/ (/\ asked[t] # NoSession /\ call[t].at = "accepted"
                  /\ rooms'[t] \ rooms[t] \subseteq Subscribable(call[t].copy))
<1> DEFINE Goal ==
      /\ SocketsTypeOK' /\ Quiet
      /\ \A t \in Sockets : asked'[t] = asked[t] \/ asked'[t] = NoSession \/ call'[t].at = "find"
      /\ \A t \in Sockets : rooms'[t] \subseteq rooms[t]
           \/ (/\ asked[t] # NoSession /\ call[t].at = "accepted"
                  /\ rooms'[t] \ rooms[t] \subseteq Subscribable(call[t].copy))
<1> SUFFICES Goal
  OBVIOUS
<1>p. s \in People
  BY DEF People, Callers
<1>1. ASSUME NEW scope \in Sessions \cup {NoSession}, Validate(s, scope)
      PROVE  Quiet /\ call'[s].at = "find"
  BY <1>1, <1>p, ValidateMoves DEF Quiet, Moved, Validate
<1>2. ASSUME End(s), UNCHANGED <<row, stats, past>> PROVE Quiet
  BY <1>2, <1>p, EndMoves DEF Quiet, Moved
<1>3. ASSUME UNCHANGED keyVars PROVE Quiet
  BY <1>3 DEF keyVars, Quiet, KeysTypeOK, People
<1>4. CASE Connect(s)
  BY <1>1, <1>4 DEF Connect, SocketsTypeOK
<1>5. CASE Connected(s)
  BY <1>2, <1>5 DEF Connected, SocketsTypeOK
<1>6. ASSUME Close(s), UNCHANGED keyVars PROVE Goal
  BY <1>3, <1>6 DEF Close, SocketsTypeOK
<1>7. CASE Join(s)
  <2>1. Quiet
    BY <1>2, <1>7 DEF Join
  <2>2. Subscribable(call[s].copy) \subseteq Scopes
    BY <1>p DEF Subscribable, Scopes, KeysTypeOK, Call, Row, People
  <2>3. SocketsTypeOK'
    BY <1>7, <2>2 DEF Join, SocketsTypeOK
  <2>4. asked[s] = NoSession => {asked[s]} \cap Subscribable(call[s].copy) = {}
    BY <2>2, KeyAssumption, AllAssumption DEF Scopes
  <2>5. rooms'[s] = rooms[s] \cup ({asked[s]} \cap Subscribable(call[s].copy))
    BY <1>7 DEF Join, SocketsTypeOK
  <2>6. \A t \in Sockets \ {s} : rooms'[t] = rooms[t]
    BY <1>7 DEF Join, SocketsTypeOK
  <2>7. call[s].at = "accepted"
    BY <1>7 DEF Join
  <2>8. rooms'[s] \subseteq rooms[s] \/ (asked[s] # NoSession /\ rooms'[s] \ rooms[s] \subseteq Subscribable(call[s].copy))
    BY <2>4, <2>5
  <2>9. \A t \in Sockets : asked'[t] = asked[t] \/ asked'[t] = NoSession
    BY <1>7 DEF Join, SocketsTypeOK
  <2> QED
    BY <2>1, <2>3, <2>6, <2>7, <2>8, <2>9
<1>8. ASSUME NEW scope \in Scopes, Subscribe(s, scope) PROVE Goal
  BY <1>1, <1>8 DEF Subscribe, SocketsTypeOK
<1>9. ASSUME NEW scope \in Scopes, Unsubscribe(s, scope) PROVE Goal
  <2>1. Quiet
    BY <1>3, <1>9 DEF Unsubscribe, keyVars
  <2>2. rooms'[s] \subseteq rooms[s] /\ \A t \in Sockets \ {s} : rooms'[t] = rooms[t]
    BY <1>9 DEF Unsubscribe, SocketsTypeOK
  <2>3. SocketsTypeOK'
    BY <1>9, <2>2 DEF Unsubscribe, SocketsTypeOK
  <2> QED
    BY <1>9, <2>1, <2>2, <2>3 DEF Unsubscribe
<1> QED
  BY <1>4, <1>5, <1>6, <1>7, <1>8, <1>9 DEF Socket, Kick, SubscribeTooEarly, Disconnect

\* A request only starts a validation.
LEMMA RequestStep ==
  ASSUME KeysTypeOK, NEW c \in Clients, Request(c)
  PROVE  Quiet /\ UNCHANGED sockVars
BY ValidateMoves DEF Request, Quiet, Moved, Validate, People, Callers

\* What a restart leaves.
LEMMA RestartStep ==
  ASSUME KeysTypeOK, SocketsTypeOK, Restart
  PROVE  /\ KeysTypeOK' /\ SocketsTypeOK'
         /\ \A k \in Keys : /\ pendingUsage'[k] = 0
                            /\ row'[k] = row[k] \/ (k \notin retired' /\ row'[k] = NewRow({}))
         /\ \A d \in People : call'[d].at = "idle"
         /\ \A t \in Sockets : asked'[t] = NoSession /\ rooms'[t] = {}
         /\ retired' \subseteq retired /\ UNCHANGED <<counted, contested>>
<1>1. \A d \in People : call[d].key \in Keys
  BY DEF KeysTypeOK, Call, People
<1>2. call' \in [People -> Call] /\ \A d \in People : call'[d].at = "idle"
  BY <1>1, IdleType DEF Restart, People
<1>3. pendingUsage' \in [Keys -> Nat] /\ \A k \in Keys : pendingUsage'[k] = 0
  BY DEF Restart
<1>4. SocketsTypeOK' /\ \A t \in Sockets : asked'[t] = NoSession /\ rooms'[t] = {}
  BY DEF Restart, SocketsTypeOK
<1>5. /\ row' \in [Keys -> Row \cup {NoRow}] /\ retired' \subseteq retired
      /\ \A k \in Keys : row'[k] = row[k] \/ (k \notin retired' /\ row'[k] = NewRow({}))
  BY NewRowType, KeyAssumption DEF Restart, KeysTypeOK
<1>6. counted' = counted /\ contested' = contested
  BY DEF Restart
<1> QED
  BY <1>2, <1>3, <1>4, <1>5, <1>6 DEF KeysTypeOK, People

-----------------------------------------------------------------------------
(* Type correctness                                                        *)

LEMMA TypeSplit == TypeOK <=> KeysTypeOK /\ SocketsTypeOK /\ granted \in [Sockets -> SUBSET Scopes]
BY DEF TypeOK, SocketsTypeOK

\* What is noted for the subscriptions under way.
LEMMA Observed ==
  ASSUME TypeOK, KeysTypeOK', SocketsTypeOK', \A d \in People : call'[d].key = call[d].key, Observe
  PROVE  /\ granted' \in [Sockets -> SUBSET Scopes]
         /\ \A s \in Sockets : asked'[s] # NoSession =>
              granted[s] \subseteq granted'[s] /\ Subscribable(row'[call[s].key]) \subseteq granted'[s]
<1>1. ASSUME NEW s \in Sockets
      PROVE  row'[call[s].key] \in Row \cup {NoRow}
  BY DEF TypeOK, KeysTypeOK, Call, Callers
<1>2. ASSUME NEW r \in Row \cup {NoRow}
      PROVE  Subscribable(r) \subseteq Scopes
  BY DEF Subscribable, Scopes, Row
<1>3. \A s \in Sockets : granted[s] \subseteq Scopes
  BY DEF TypeOK
<1> QED
  BY <1>1, <1>2, <1>3 DEF Observe

\* The four kinds of step.
LEMMA Steps ==
  ASSUME TypeOK, [Next]_vars
  PROVE  \/ KeyStep /\ UNCHANGED sockVars /\ Observe
         \/ /\ Quiet /\ SocketsTypeOK' /\ Observe
            /\ \A t \in Sockets : asked'[t] = asked[t] \/ asked'[t] = NoSession \/ call'[t].at = "find"
            /\ \A t \in Sockets : rooms'[t] \subseteq rooms[t]
                 \/ (/\ asked[t] # NoSession /\ call[t].at = "accepted"
                     /\ rooms'[t] \ rooms[t] \subseteq Subscribable(call[t].copy))
         \/ Restart /\ Observe
         \/ UNCHANGED vars
<1>1. CASE UNCHANGED vars
  BY <1>1
<1>2. ASSUME NEW c \in Clients, Request(c) PROVE Quiet /\ UNCHANGED sockVars
  BY <1>2, TypeSplit, RequestStep
<1>3. CASE Next
  BY <1>2, <1>3, TypeSplit, SocketSteps DEF Next, sockVars, SocketsTypeOK
<1> QED
  BY <1>1, <1>3

LEMMA TypeStep ==
  ASSUME TypeOK, [Next]_vars
  PROVE  TypeOK' /\ KeysKept
<1>1. CASE KeyStep /\ UNCHANGED sockVars /\ Observe
  <2>1. KeysTypeOK' /\ KeysKept
    BY <1>1, TypeSplit, KeyStepType
  <2>2. SocketsTypeOK'
    BY <1>1, TypeSplit DEF SocketsTypeOK, sockVars
  <2> QED
    BY <1>1, <2>1, <2>2, Observed DEF TypeOK, SocketsTypeOK, KeysKept
<1>2. CASE Quiet /\ SocketsTypeOK' /\ Observe
  <2>1. KeysTypeOK' /\ KeysKept
    BY <1>2, TypeSplit DEF Quiet, KeysTypeOK, KeysKept, stats, past, People
  <2> QED
    BY <1>2, <2>1, Observed DEF TypeOK, SocketsTypeOK, KeysKept
<1>3. CASE Restart /\ Observe
  <2>1. KeysTypeOK' /\ SocketsTypeOK'
    BY <1>3, TypeSplit, RestartStep
  <2>2. KeysKept
    BY <1>3, TypeSplit, IdleType DEF Restart, KeysKept, KeysTypeOK, Call, People
  <2> QED
    BY <1>3, <2>1, <2>2, Observed DEF TypeOK, SocketsTypeOK, KeysKept
<1>4. CASE UNCHANGED vars
  BY <1>4 DEF vars, keyVars, sockVars, stats, past, TypeOK, KeysTypeOK, KeysKept
<1> QED
  BY <1>1, <1>2, <1>3, <1>4, Steps

\* Type correctness: rows, copies and counts are what the entity says, whoever saves
\* what in which order.
THEOREM AccessTypes == Spec => []TypeOK
<1>1. Init => TypeOK
  <2> SUFFICES ASSUME Init PROVE TypeOK
    OBVIOUS
  <2>1. KeysTypeOK
    BY NewRowType, IdleType DEF Init, KeysInit, KeysTypeOK
  <2> QED
    BY <2>1 DEF Init, TypeOK
<1>2. TypeOK /\ [Next]_vars => TypeOK'
  BY TypeStep
<1> QED
  BY <1>1, <1>2, PTL DEF Spec

-----------------------------------------------------------------------------
(* The statistics                                                          *)

\* A row, or a copy of it, claims with what is pending no more than was accepted.
Within(r, k) == r # NoRow => r.usageCount + pendingUsage[k] <= counted[k]

UsageInv ==
  /\ \A k \in Keys : Within(row[k], k)
  /\ \A d \in People : call[d].at \in {"read", "save", "revoking"} => Within(call[d].copy, call[d].key)

\* A step that counts nobody keeps the bounds when what it saves, and what it leaves c
\* with, are within them.
LEMMA UsageMoves ==
  ASSUME TypeOK, TypeOK', UsageInv, NEW c \in People, NEW stage, NEW copy, Moved(c, stage, copy),
         counted' = counted, \A k \in Keys : pendingUsage'[k] <= pendingUsage[k],
         \A k \in Keys : row'[k] = row[k] \/ Within(row'[k], k),
         stage \notin {"read", "save", "revoking"} \/ Within(copy, call[c].key)
  PROVE  UsageInv'
<1>1. ASSUME NEW k \in Keys, NEW r \in Row \cup {NoRow}, Within(r, k)
      PROVE  r # NoRow => r.usageCount + pendingUsage'[k] <= counted'[k]
  BY <1>1 DEF Within, Row, TypeOK, KeysTypeOK
<1>2. ASSUME NEW k \in Keys PROVE Within(row[k], k)'
  <2>1. Within(row'[k], k) /\ row'[k] \in Row \cup {NoRow}
    BY DEF UsageInv, TypeOK, KeysTypeOK
  <2> QED
    BY <1>1, <2>1 DEF Within
<1>3. ASSUME NEW d \in People, call'[d].at \in {"read", "save", "revoking"}
      PROVE  Within(call[d].copy, call[d].key)'
  <2>1. /\ call[d].key \in Keys /\ call'[d].key = call[d].key
        /\ call'[d].copy \in Row \cup {NoRow}
    BY DEF TypeOK, KeysTypeOK, Call, People, Moved
  <2>2. Within(call'[d].copy, call[d].key)
    <3>1. CASE d = c
      BY <1>3, <3>1 DEF Moved, Within
    <3>2. CASE d # c
      BY <1>3, <3>2 DEF Moved, UsageInv
    <3> QED
      BY <3>1, <3>2
  <2> QED
    BY <1>1, <2>1, <2>2 DEF Within
<1> QED
  BY <1>2, <1>3 DEF UsageInv

\* One more is accepted: what c holds now counts it and all that was pending.
LEMMA UsageAdmit ==
  ASSUME TypeOK, TypeOK', UsageInv, NEW c \in Callers, Admit(c)
  PROVE  UsageInv'
<1> DEFINE k == call[c].key
<1>1. PICK n \in Nat, copy \in Row, stage \in {"save", "accepted"} :
        /\ k \in Keys /\ call[c].at = "read"
        /\ call[c].copy \in Row /\ n = pendingUsage[k] + 1
        /\ copy.usageCount = call[c].copy.usageCount + n
        /\ pendingUsage' = [pendingUsage EXCEPT ![k] = IF stage = "save" THEN 0 ELSE n]
        /\ counted' = [counted EXCEPT ![k] = @ + 1]
        /\ Moved(c, stage, copy)
  BY AdmitFacts DEF TypeOK
<1>2. row' = row /\ c \in People
  BY DEF Admit, People
<1>3. ASSUME NEW j \in Keys PROVE pendingUsage'[j] - pendingUsage[j] <= counted'[j] - counted[j]
  BY <1>1 DEF TypeOK, KeysTypeOK
<1>4. ASSUME NEW j \in Keys, NEW r \in Row \cup {NoRow}, Within(r, j)
      PROVE  r # NoRow => r.usageCount + pendingUsage'[j] <= counted'[j]
  BY <1>3, <1>4 DEF Within, Row, TypeOK, KeysTypeOK
<1>5. ASSUME NEW j \in Keys PROVE Within(row[j], j)'
  BY <1>2, <1>4 DEF Within, UsageInv, TypeOK, KeysTypeOK
<1>6. ASSUME NEW d \in People, call'[d].at \in {"read", "save", "revoking"}
      PROVE  Within(call[d].copy, call[d].key)'
  <2>1. CASE d = c
    <3>1. stage = "save" /\ call'[c].copy = copy /\ call'[c].key = k
      BY <1>1, <1>2, <1>6, <2>1 DEF Moved
    <3>2. pendingUsage'[k] = 0 /\ counted'[k] = counted[k] + 1
      BY <1>1, <3>1 DEF TypeOK, KeysTypeOK
    <3>3. Within(call[c].copy, k)
      BY <1>1, <1>2 DEF UsageInv
    <3>4. call[c].copy # NoRow \/ call[c].copy = NoRow
      OBVIOUS
    <3>5. call[c].copy.usageCount + pendingUsage[k] <= counted[k] \/ call[c].copy = NoRow
      BY <3>3 DEF Within
    <3>6. call[c].copy # NoRow
      BY DEF Admit, Admits
    <3>7. copy.usageCount <= counted[k] + 1
      BY <1>1, <3>5, <3>6 DEF TypeOK, KeysTypeOK, Row
    <3> QED
      BY <1>1, <2>1, <3>1, <3>2, <3>7 DEF Within, Row
  <2>2. CASE d # c
    <3>1. call'[d] = call[d] /\ call[d].key \in Keys /\ call[d].copy \in Row \cup {NoRow}
      BY <1>1, <2>2 DEF Moved, TypeOK, KeysTypeOK, Call, People
    <3>2. Within(call[d].copy, call[d].key)
      BY <1>6, <3>1 DEF UsageInv
    <3> QED
      BY <1>4, <3>1, <3>2 DEF Within
  <2> QED
    BY <2>1, <2>2
<1> QED
  BY <1>5, <1>6 DEF UsageInv

LEMMA UsageKeyStep ==
  ASSUME TypeOK, TypeOK', UsageInv, KeyStep
  PROVE  UsageInv'
<1>t. KeysTypeOK
  BY TypeSplit
<1>k. \A d \in People : call[d].key \in Keys /\ call[d].copy \in Row \cup {NoRow}
  BY <1>t DEF KeysTypeOK, Call, People
<1>p. Callers \subseteq People /\ Admins \subseteq People
  BY DEF People
<1>s. UNCHANGED stats => counted' = counted /\ \A k \in Keys : pendingUsage'[k] <= pendingUsage[k]
  BY <1>t DEF stats, KeysTypeOK
<1>1. ASSUME NEW c \in Callers, Find(c) PROVE UsageInv'
  <2>1. Moved(c, "read", row[call[c].key])
    BY <1>1, <1>t, <1>k, <1>p, HoldMoves DEF Find, Stages, KeysTypeOK
  <2>2. Within(row[call[c].key], call[c].key)
    BY <1>k, <1>p DEF UsageInv
  <2> QED
    BY <1>1, <1>p, <1>s, <2>1, <2>2, UsageMoves DEF Find
<1>2. ASSUME NEW c \in Callers, Refuse(c) PROVE UsageInv'
  <2>1. Moved(c, "refused", NoRow)
    BY <1>2, <1>t, <1>p, AnswerMoves DEF Refuse, Stages
  <2> QED
    BY <1>2, <1>p, <1>s, <2>1, UsageMoves DEF Refuse
<1>3. ASSUME NEW c \in People, Saved(c) PROVE UsageInv'
  <2>1. Moved(c, "accepted", call[c].copy)
    BY <1>3, <1>t, <1>k, AnswerMoves DEF Saved, Stages
  <2>2. Within(call[c].copy, call[c].key)
    BY <1>3 DEF Saved, UsageInv
  <2>3. \A k \in Keys : row'[k] = row[k] \/ Within(row'[k], k)
    BY <1>3, <1>t, <2>2 DEF Saved, KeysTypeOK
  <2> QED
    BY <1>3, <1>s, <2>1, <2>3, UsageMoves DEF Saved
<1>4. ASSUME NEW c \in People, SaveFails(c) PROVE UsageInv'
  <2>1. Moved(c, "refused", NoRow)
    BY <1>4, <1>t, AnswerMoves DEF SaveFails, Stages
  <2> QED
    BY <1>4, <1>s, <2>1, UsageMoves DEF SaveFails
<1>5. ASSUME NEW a \in Admins, NEW op \in {"update", "revoke", "delete"}, Ask(a, op) PROVE UsageInv'
  <2>1. Moved(a, op, call[a].copy)
    BY <1>5, <1>t, <1>p, GotoMoves DEF Ask, Stages
  <2> QED
    BY <1>5, <1>p, <1>s, <2>1, UsageMoves DEF Ask
<1>6. ASSUME NEW a \in Admins, NotFound(a) PROVE UsageInv'
  <2>1. Moved(a, "idle", NoRow)
    BY <1>6, <1>t, <1>p, EndMoves DEF NotFound
  <2> QED
    BY <1>6, <1>p, <1>s, <2>1, UsageMoves DEF NotFound
<1>7. ASSUME NEW a \in Admins, Update(a) PROVE UsageInv'
  <2> DEFINE r == row[call[a].key]
  <2>1. r \in Row
    BY <1>7, <1>t, <1>k, <1>p DEF Update, KeysTypeOK
  <2>2. PICK x \in SUBSET Sessions : Hold(a, "save", [r EXCEPT !.allowedSessions = x])
    BY <1>7 DEF Update
  <2>3. [r EXCEPT !.allowedSessions = x] \in Row /\ [r EXCEPT !.allowedSessions = x].usageCount = r.usageCount
    BY <2>1, EntityType
  <2>4. Moved(a, "save", [r EXCEPT !.allowedSessions = x])
    BY <2>2, <2>3, <1>t, <1>p, HoldMoves DEF Stages
  <2>5. Within(r, call[a].key)
    BY <1>k, <1>p DEF UsageInv
  <2>6. Within([r EXCEPT !.allowedSessions = x], call[a].key)
    BY <1>7, <2>3, <2>5 DEF Within, Update
  <2> QED
    BY <1>7, <1>p, <1>s, <2>4, <2>6, UsageMoves DEF Update
<1>8. ASSUME NEW a \in Admins, NEW stage \in {"revoking", "remove"}, row[call[a].key] # NoRow,
             Drop(a, stage)
      PROVE  UsageInv'
  <2> DEFINE r == row[call[a].key]
             dead == [r EXCEPT !.isActive = FALSE]
  <2>1. r \in Row
    BY <1>8, <1>t, <1>k, <1>p DEF KeysTypeOK
  <2>2. dead \in Row /\ dead.usageCount = r.usageCount
    BY <2>1, EntityType
  <2>3. Hold(a, stage, dead)
    BY <1>8 DEF Drop
  <2>4. Within(r, call[a].key)
    BY <1>k, <1>p DEF UsageInv
  <2> HIDE DEF dead
  <2>5. Moved(a, stage, dead)
    BY <2>2, <2>3, <1>t, <1>p, HoldMoves DEF Stages
  <2>6. Within(dead, call[a].key)
    BY <1>8, <2>2, <2>4 DEF Within
  <2>7. counted' = counted /\ row' = row /\ \A k \in Keys : pendingUsage'[k] <= pendingUsage[k]
    BY <1>8, <1>t DEF Drop, KeysTypeOK
  <2> QED
    BY <1>p, <2>5, <2>6, <2>7, UsageMoves
<1>9. ASSUME NEW a \in Admins, NEW r \in Row \cup {NoRow}, Within(r, call[a].key), Retire(a, r)
      PROVE  UsageInv'
  <2>1. Moved(a, "idle", NoRow)
    BY <1>9, <1>t, <1>p, EndMoves DEF Retire
  <2>2. \A k \in Keys : row'[k] = row[k] \/ Within(row'[k], k)
    BY <1>9, <1>t DEF Retire, KeysTypeOK
  <2> QED
    BY <1>9, <1>p, <1>s, <2>1, <2>2, UsageMoves DEF Retire
<1>10. ASSUME NEW a \in Admins, Revoked(a) PROVE UsageInv'
  <2>1. Within(call[a].copy, call[a].key)
    BY <1>10, <1>p DEF Revoked, UsageInv
  <2> QED
    BY <1>9, <1>10, <1>k, <1>p, <2>1 DEF Revoked
<1>11. ASSUME NEW a \in Admins, Deleted(a) PROVE UsageInv'
  <2>1. Within(NoRow, call[a].key)
    BY DEF Within
  <2> QED
    BY <1>9, <1>11, <2>1 DEF Deleted
<1> QED
  BY <1>1, <1>2, <1>3, <1>4, <1>5, <1>6, <1>7, <1>8, <1>10, <1>11, UsageAdmit
  DEF KeyStep, Revoke, Delete, People

\* The usage statistics never claim more uses than there were, in any interleaving of
\* validations, changes and crashes: saves may lose increments, and never add any.
THEOREM UsageNeverOvercounts == Spec => []NeverOvercounts
<1>1. Init => UsageInv
  BY DEF Init, KeysInit, UsageInv, Within, NewRow, Idle, People
<1>2. ASSUME TypeOK, TypeOK', UsageInv, [Next]_vars PROVE UsageInv'
  <2>1. CASE Quiet
    BY <1>2, <2>1 DEF Quiet, UsageInv, Within, stats
  <2>2. CASE Restart
    <3>1. /\ \A k \in Keys : /\ pendingUsage'[k] = 0
                             /\ row'[k] = row[k] \/ row'[k] = NewRow({})
          /\ \A d \in People : call'[d].at = "idle"
          /\ counted' = counted
      BY <1>2, <2>2, TypeSplit, RestartStep
    <3>2. \A k \in Keys : Within(row[k], k)'
      BY <1>2, <3>1 DEF UsageInv, Within, NewRow, TypeOK, KeysTypeOK, Row
    <3> QED
      BY <3>1, <3>2 DEF UsageInv
  <2>3. CASE UNCHANGED vars
    BY <1>2, <2>3 DEF vars, keyVars, stats, UsageInv, Within
  <2> QED
    BY <1>2, <2>1, <2>2, <2>3, Steps, UsageKeyStep
<1>3. TypeOK /\ UsageInv => NeverOvercounts
  BY DEF UsageInv, Within, NeverOvercounts
<1> QED
  BY <1>1, <1>2, <1>3, AccessTypes, PTL DEF Spec

-----------------------------------------------------------------------------
(* Revoked keys                                                            *)

Dead(r) == r # NoRow => ~r.isActive

Gone == retired \ contested

RetiredInv ==
  /\ \A k \in Gone : Dead(row[k])
  /\ \A d \in People : call[d].at \in {"read", "save"} /\ call[d].key \in Gone => Dead(call[d].copy)
  /\ \A d \in People : call[d].at = "revoking" => Dead(call[d].copy)

\* A step that retires nothing keeps retired keys dead when it makes no copy of such a
\* key, and no row, that is not.
LEMMA RetiredMoves ==
  ASSUME TypeOK, RetiredInv, NEW c \in People, NEW stage, NEW copy, Moved(c, stage, copy),
         UNCHANGED past, \A k \in Gone : row'[k] = row[k] \/ Dead(row'[k]),
         stage \in {"read", "save"} => (call[c].key \in Gone => Dead(copy)),
         stage = "revoking" => Dead(copy)
  PROVE  RetiredInv'
<1>1. Gone' = Gone
  BY DEF Gone, past
<1>2. \A k \in Gone' : Dead(row[k])'
  BY <1>1 DEF RetiredInv, Dead
<1>3. ASSUME NEW d \in People
      PROVE  /\ call'[d].at \in {"read", "save"} /\ call'[d].key \in Gone => Dead(call[d].copy)'
             /\ call'[d].at = "revoking" => Dead(call[d].copy)'
  <2>1. CASE d = c
    BY <2>1 DEF Moved, Dead
  <2>2. CASE d # c
    BY <2>2 DEF Moved, Dead, RetiredInv
  <2> QED
    BY <2>1, <2>2
<1> QED
  BY <1>1, <1>2, <1>3 DEF RetiredInv

\* The row of a is gone or inactive now; unless somebody else has an active copy, the
\* key is retired for good.
LEMMA RetiredRetire ==
  ASSUME TypeOK, RetiredInv, NEW a \in Admins, NEW r \in Row \cup {NoRow}, Dead(r), Retire(a, r)
  PROVE  RetiredInv'
<1> DEFINE k == call[a].key
<1>1. a \in People /\ KeysTypeOK
  BY TypeSplit DEF People
<1>2. Moved(a, "idle", NoRow)
  BY <1>1, EndMoves DEF Retire
<1>3. Gone' \subseteq Gone \cup {k} /\ (k \in Gone' => k \in Gone \/ ~InUse(k, a))
  <2>1. retired' = retired \cup {k}
    BY DEF Retire
  <2>2. CASE InUse(k, a)
    <3>1. contested' = contested \cup {k}
      BY <2>2 DEF Retire
    <3> QED
      BY <2>1, <3>1 DEF Gone
  <2>3. CASE ~InUse(k, a)
    <3>1. contested' = contested
      BY <2>3 DEF Retire
    <3> QED
      BY <2>1, <2>3, <3>1 DEF Gone
  <2> QED
    BY <2>2, <2>3
<1>4. ASSUME NEW j \in Gone' PROVE Dead(row'[j])
  <2>1. row' = [row EXCEPT ![k] = r] /\ Gone' \subseteq Keys
    BY <1>1, <1>3 DEF Retire, Gone, KeysTypeOK, Call, People
  <2>2. CASE j = k
    BY <1>1, <1>4, <2>1, <2>2 DEF KeysTypeOK
  <2>3. CASE j # k
    BY <1>1, <1>3, <1>4, <2>1, <2>3 DEF KeysTypeOK, RetiredInv
  <2> QED
    BY <2>2, <2>3
<1>5. ASSUME NEW d \in People, call'[d].at \in {"read", "save"}, call'[d].key \in Gone'
      PROVE  Dead(call'[d].copy)
  <2>1. d # a /\ call'[d] = call[d]
    BY <1>2, <1>5 DEF Moved
  <2>2. CASE call[d].key \in Gone
    BY <1>5, <2>1, <2>2 DEF RetiredInv
  <2>3. CASE call[d].key \notin Gone
    <3>1. call[d].key = k /\ ~InUse(k, a)
      BY <1>3, <1>5, <2>1, <2>3
    <3> QED
      BY <1>5, <2>1, <3>1 DEF InUse, Dead, People
  <2> QED
    BY <2>2, <2>3
<1>6. ASSUME NEW d \in People, call'[d].at = "revoking"
      PROVE  Dead(call'[d].copy)
  BY <1>2, <1>6 DEF Moved, RetiredInv
<1>7. \A j \in Gone' : Dead(row[j])'
  BY <1>4 DEF Dead
<1> QED
  BY <1>5, <1>6, <1>7 DEF RetiredInv, Dead

LEMMA RetiredKeyStep ==
  ASSUME TypeOK, RetiredInv, KeyStep
  PROVE  RetiredInv'
<1>t. KeysTypeOK
  BY TypeSplit
<1>k. \A d \in People : call[d].key \in Keys /\ call[d].copy \in Row \cup {NoRow}
  BY <1>t DEF KeysTypeOK, Call, People
<1>p. Callers \subseteq People /\ Admins \subseteq People
  BY DEF People
<1>1. ASSUME NEW c \in Callers, Find(c) PROVE RetiredInv'
  <2>1. Moved(c, "read", row[call[c].key])
    BY <1>1, <1>t, <1>k, <1>p, HoldMoves DEF Find, Stages, KeysTypeOK
  <2>2. call[c].key \in Gone => Dead(row[call[c].key])
    BY <1>k, <1>p DEF RetiredInv
  <2> QED
    BY <1>1, <1>p, <2>1, <2>2, RetiredMoves DEF Find
<1>2. ASSUME NEW c \in Callers, Refuse(c) PROVE RetiredInv'
  <2>1. Moved(c, "refused", NoRow)
    BY <1>2, <1>t, <1>p, AnswerMoves DEF Refuse, Stages
  <2> QED
    BY <1>2, <1>p, <2>1, RetiredMoves DEF Refuse
<1>3. ASSUME NEW c \in Callers, Admit(c) PROVE RetiredInv'
  <2>1. PICK n \in Nat, copy \in Row, stage \in {"save", "accepted"} :
          /\ call[c].at = "read" /\ call[c].copy \in Row
          /\ copy.isActive = call[c].copy.isActive
          /\ Moved(c, stage, copy)
    BY <1>3, <1>t, AdmitFacts
  <2>2. call[c].copy # NoRow
    BY <1>3 DEF Admit, Admits
  <2>3. call[c].key \in Gone => Dead(copy)
    BY <1>p, <2>1, <2>2 DEF RetiredInv, Dead
  <2>4. row' = row /\ UNCHANGED past
    BY <1>3 DEF Admit
  <2> QED
    BY <1>p, <2>1, <2>3, <2>4, RetiredMoves
<1>4. ASSUME NEW c \in People, Saved(c) PROVE RetiredInv'
  <2>1. Moved(c, "accepted", call[c].copy)
    BY <1>4, <1>t, <1>k, AnswerMoves DEF Saved, Stages
  <2>2. \A k \in Gone : row'[k] = row[k] \/ Dead(row'[k])
    BY <1>4, <1>t DEF Saved, KeysTypeOK, RetiredInv, Gone
  <2> QED
    BY <1>4, <2>1, <2>2, RetiredMoves DEF Saved
<1>5. ASSUME NEW c \in People, SaveFails(c) PROVE RetiredInv'
  <2>1. Moved(c, "refused", NoRow)
    BY <1>5, <1>t, AnswerMoves DEF SaveFails, Stages
  <2> QED
    BY <1>5, <2>1, RetiredMoves DEF SaveFails
<1>6. ASSUME NEW a \in Admins, NEW op \in {"update", "revoke", "delete"}, Ask(a, op) PROVE RetiredInv'
  <2>1. Moved(a, op, call[a].copy)
    BY <1>6, <1>t, <1>p, GotoMoves DEF Ask, Stages
  <2> QED
    BY <1>6, <1>p, <2>1, RetiredMoves DEF Ask
<1>7. ASSUME NEW a \in Admins, NotFound(a) PROVE RetiredInv'
  <2>1. Moved(a, "idle", NoRow)
    BY <1>7, <1>t, <1>p, EndMoves DEF NotFound
  <2> QED
    BY <1>7, <1>p, <2>1, RetiredMoves DEF NotFound
<1>8. ASSUME NEW a \in Admins, Update(a) PROVE RetiredInv'
  <2> DEFINE r == row[call[a].key]
  <2>1. r \in Row /\ r # NoRow
    BY <1>8, <1>t, <1>k, <1>p DEF Update, KeysTypeOK
  <2>2. PICK x \in SUBSET Sessions : Hold(a, "save", [r EXCEPT !.allowedSessions = x])
    BY <1>8 DEF Update
  <2>3. [r EXCEPT !.allowedSessions = x] \in Row /\ [r EXCEPT !.allowedSessions = x].isActive = r.isActive
    BY <2>1, EntityType
  <2>4. Moved(a, "save", [r EXCEPT !.allowedSessions = x])
    BY <2>2, <2>3, <1>t, <1>p, HoldMoves DEF Stages
  <2>5. call[a].key \in Gone => Dead([r EXCEPT !.allowedSessions = x])
    BY <1>k, <1>p, <2>1, <2>3 DEF RetiredInv, Dead
  <2>6. row' = row /\ UNCHANGED past
    BY <1>8 DEF Update
  <2> QED
    BY <1>p, <2>4, <2>5, <2>6, RetiredMoves
<1>9. ASSUME NEW a \in Admins, NEW stage \in {"revoking", "remove"}, row[call[a].key] # NoRow,
             Drop(a, stage)
      PROVE  RetiredInv'
  <2> DEFINE r == row[call[a].key]
             dead == [r EXCEPT !.isActive = FALSE]
  <2>1. r \in Row
    BY <1>9, <1>t, <1>k, <1>p DEF KeysTypeOK
  <2>2. dead \in Row /\ ~dead.isActive
    BY <2>1, EntityType
  <2>3. Hold(a, stage, dead)
    BY <1>9 DEF Drop
  <2> HIDE DEF dead
  <2>5. Moved(a, stage, dead)
    BY <2>2, <2>3, <1>t, <1>p, HoldMoves DEF Stages
  <2>6. row' = row /\ UNCHANGED past /\ Dead(dead)
    BY <1>9, <2>2 DEF Drop, Dead
  <2> QED
    BY <1>p, <2>5, <2>6, RetiredMoves
<1>10. ASSUME NEW a \in Admins, Revoked(a) PROVE RetiredInv'
  <2>1. Dead(call[a].copy)
    BY <1>10, <1>p DEF Revoked, RetiredInv
  <2> QED
    BY <1>10, <1>k, <1>p, <2>1, RetiredRetire DEF Revoked
<1>11. ASSUME NEW a \in Admins, Deleted(a) PROVE RetiredInv'
  <2>1. Dead(NoRow)
    BY DEF Dead
  <2> QED
    BY <1>11, <2>1, RetiredRetire DEF Deleted
<1> QED
  BY <1>1, <1>2, <1>3, <1>4, <1>5, <1>6, <1>7, <1>8, <1>9, <1>10, <1>11
  DEF KeyStep, Revoke, Delete, People

\* A key that was revoked or deleted while nobody worked on an active copy of its row is
\* never active again, whatever is saved later.
THEOREM RetiredStayRetired == Spec => []RetiredForGood
<1>1. Init => RetiredInv
  BY DEF Init, KeysInit, RetiredInv, Gone, Idle, People
<1>2. ASSUME TypeOK, RetiredInv, [Next]_vars PROVE RetiredInv'
  <2>1. CASE Quiet
    <3>1. row' = row /\ Gone' = Gone
      BY <2>1 DEF Quiet, Gone, past
    <3>2. \A d \in People : call'[d] = call[d] \/ call'[d].at \notin {"read", "save", "revoking"}
      BY <2>1 DEF Quiet
    <3> QED
      BY <1>2, <3>1, <3>2 DEF RetiredInv, Dead
  <2>2. CASE Restart
    <3>1. /\ \A k \in Keys : row'[k] = row[k] \/ k \notin retired'
          /\ \A d \in People : call'[d].at = "idle"
          /\ retired' \subseteq retired /\ contested' = contested
      BY <1>2, <2>2, TypeSplit, RestartStep
    <3>2. Gone' \subseteq Gone /\ Gone \subseteq Keys
      BY <1>2, <3>1 DEF Gone, TypeOK, KeysTypeOK
    <3>3. \A k \in Gone' : row'[k] = row[k]
      BY <3>1, <3>2 DEF Gone
    <3>4. \A k \in Gone' : Dead(row[k])'
      BY <1>2, <3>2, <3>3 DEF RetiredInv, Dead
    <3> QED
      BY <3>1, <3>4 DEF RetiredInv
  <2>3. CASE UNCHANGED vars
    BY <1>2, <2>3 DEF vars, keyVars, past, RetiredInv, Dead, Gone
  <2> QED
    BY <1>2, <2>1, <2>2, <2>3, Steps, RetiredKeyStep
<1>3. RetiredInv => RetiredForGood
  BY DEF RetiredInv, Dead, Gone, RetiredForGood
<1> QED
  BY <1>1, <1>2, <1>3, AccessTypes, PTL DEF Spec

-----------------------------------------------------------------------------
(* Subscriptions                                                           *)

\* What a subscription under way has read is within what its key has allowed since.
GrantInv ==
  \A s \in Sockets :
    asked[s] # NoSession /\ call[s].at \in {"read", "save", "accepted"}
      => Subscribable(call[s].copy) \subseteq granted[s]

\* A step of AuthService hands a socket a copy it had, or the row as it is now, or one
\* that differs only in its statistics, or none.
LEMMA CopiesKeyStep ==
  ASSUME KeysTypeOK, KeyStep, NEW s \in Sockets, call'[s].at \in {"read", "save", "accepted"}
  PROVE  \/ Subscribable(call'[s].copy) = {}
         \/ Subscribable(call'[s].copy) = Subscribable(row'[call[s].key])
         \/ /\ call[s].at \in {"read", "save", "accepted"}
            /\ Subscribable(call'[s].copy) = Subscribable(call[s].copy)
<1> DEFINE Goal == \/ Subscribable(call'[s].copy) = {}
                   \/ Subscribable(call'[s].copy) = Subscribable(row'[call[s].key])
                   \/ /\ call[s].at \in {"read", "save", "accepted"}
                      /\ Subscribable(call'[s].copy) = Subscribable(call[s].copy)
<1>p. s \in People /\ s \in Callers /\ s \notin Admins
  BY KeyAssumption DEF People, Callers
<1>k. \A d \in People : call[d].key \in Keys /\ call[d].copy \in Row \cup {NoRow}
  BY DEF KeysTypeOK, Call, People
<1>o. ASSUME NEW c \in People, NEW stage, NEW copy, Moved(c, stage, copy), c # s PROVE Goal
  BY <1>o, <1>p DEF Moved
<1>n. Subscribable(NoRow) = {}
  BY DEF Subscribable
<1>1. ASSUME NEW c \in Callers, Find(c) PROVE Goal
  <2>1. Moved(c, "read", row[call[c].key]) /\ c \in People /\ row' = row
    BY <1>1, <1>k, HoldMoves DEF Find, Stages, KeysTypeOK, People
  <2> QED
    BY <1>o, <1>n, <2>1 DEF Moved
<1>2. ASSUME NEW c \in Callers, Refuse(c) PROVE Goal
  <2>1. Moved(c, "refused", NoRow) /\ c \in People
    BY <1>2, AnswerMoves DEF Refuse, Stages, People
  <2> QED
    BY <1>o, <1>n, <2>1 DEF Moved
<1>3. ASSUME NEW c \in Callers, Admit(c) PROVE Goal
  <2>1. PICK n \in Nat, copy \in Row, stage \in {"save", "accepted"} :
          /\ call[c].at = "read" /\ call[c].copy \in Row
          /\ copy.isActive = call[c].copy.isActive
          /\ copy.allowedSessions = call[c].copy.allowedSessions
          /\ Moved(c, stage, copy)
    BY <1>3, AdmitFacts
  <2>2. call[c].copy # NoRow /\ c \in People
    BY <1>3 DEF Admit, Admits, People
  <2>3. Subscribable(copy) = {} \/ Subscribable(copy) = Subscribable(call[c].copy)
    BY <2>1, <2>2 DEF Subscribable
  <2> QED
    BY <1>o, <1>n, <2>1, <2>2, <2>3 DEF Moved
<1>4. ASSUME NEW c \in People, Saved(c) PROVE Goal
  <2>1. Moved(c, "accepted", call[c].copy) /\ call[c].at = "save"
    BY <1>4, <1>k, AnswerMoves DEF Saved, Stages
  <2> QED
    BY <1>o, <1>n, <2>1 DEF Moved
<1>5. ASSUME NEW c \in People, SaveFails(c) PROVE Goal
  <2>1. Moved(c, "refused", NoRow)
    BY <1>5, AnswerMoves DEF SaveFails, Stages
  <2> QED
    BY <1>o, <1>n, <2>1 DEF Moved
<1>6. ASSUME NEW a \in Admins, UNCHANGED call \/ (\E r : call' = [call EXCEPT ![a] = r]) PROVE Goal
  BY <1>6, <1>p DEF KeysTypeOK, People
<1> QED
  BY <1>1, <1>2, <1>3, <1>4, <1>5, <1>6
  DEF KeyStep, Ask, NotFound, Update, Revoke, Delete, Drop, Revoked, Deleted, Retire, Hold, Goto, End, People

\* A socket joins only rooms that its key, as it was at some moment since the subscribe
\* message arrived, allows it.
THEOREM JoinsGranted == Spec => JoinsAreGranted
<1>1. Init => GrantInv
  BY DEF Init, GrantInv
<1>2. ASSUME TypeOK, TypeOK', KeysKept, GrantInv, [Next]_vars PROVE GrantInv'
  <2>o. ASSUME Observe, NEW s \in Sockets, asked'[s] # NoSession
        PROVE  granted[s] \subseteq granted'[s] /\ Subscribable(row'[call[s].key]) \subseteq granted'[s]
    BY <1>2, <2>o, Observed, TypeSplit DEF KeysKept, TypeOK, SocketsTypeOK
  <2>1. CASE KeyStep /\ UNCHANGED sockVars /\ Observe
    <3>1. ASSUME NEW s \in Sockets, asked'[s] # NoSession, call'[s].at \in {"read", "save", "accepted"}
          PROVE  Subscribable(call'[s].copy) \subseteq granted'[s]
      BY <1>2, <2>1, <2>o, <3>1, CopiesKeyStep, TypeSplit DEF GrantInv, sockVars
    <3> QED
      BY <3>1 DEF GrantInv, Subscribable, Scopes
  <2>2. CASE /\ Quiet /\ Observe
             /\ \A t \in Sockets : asked'[t] = asked[t] \/ asked'[t] = NoSession \/ call'[t].at = "find"
    <3>1. ASSUME NEW s \in Sockets, asked'[s] # NoSession, call'[s].at \in {"read", "save", "accepted"}
          PROVE  Subscribable(call'[s].copy) \subseteq granted'[s]
      <4>1. asked'[s] = asked[s]
        BY <2>2, <3>1
      <4>2. Subscribable(call'[s].copy) = {} \/ (call'[s].copy = call[s].copy /\ call'[s].at = call[s].at)
        BY <2>2, <3>1 DEF Quiet, People, Callers
      <4> QED
        BY <1>2, <2>2, <2>o, <3>1, <4>1, <4>2 DEF GrantInv
    <3> QED
      BY <3>1 DEF GrantInv, Subscribable, Scopes
  <2>3. CASE Restart
    BY <2>3 DEF Restart, GrantInv
  <2>4. CASE UNCHANGED vars
    BY <1>2, <2>4 DEF vars, keyVars, sockVars, GrantInv, Subscribable
  <2> QED
    BY <1>2, <2>1, <2>2, <2>3, <2>4, Steps
<1>3. ASSUME TypeOK, GrantInv, [Next]_vars
      PROVE  [\A s \in Sockets : rooms'[s] \ rooms[s] \subseteq granted[s]]_vars
  <2>1. CASE UNCHANGED sockVars
    BY <2>1 DEF sockVars
  <2>2. CASE \A t \in Sockets : rooms'[t] \subseteq rooms[t]
               \/ (/\ asked[t] # NoSession /\ call[t].at = "accepted"
                   /\ rooms'[t] \ rooms[t] \subseteq Subscribable(call[t].copy))
    BY <1>3, <2>2 DEF GrantInv
  <2>3. CASE Restart
    BY <2>3 DEF Restart
  <2> QED
    BY <1>3, <2>1, <2>2, <2>3, Steps DEF vars
<1>4. TypeOK /\ [Next]_vars => TypeOK' /\ KeysKept
  BY TypeStep
<1> QED
  BY <1>1, <1>2, <1>3, <1>4, AccessTypes, PTL DEF Spec, JoinsAreGranted
=============================================================================
