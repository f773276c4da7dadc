----------------------------- MODULE EventGateway -----------------------------
(***************************************************************************)
(* The WebSocket gateway on top of the API keys: sockets that connect with *)
(* a key, subscribe to the events of sessions and disconnect, while the    *)
(* keys are changed.                                                       *)
(*                                                                         *)
(* Messages are handled from the moment a socket is connected, so one may  *)
(* arrive while handleConnection still waits for the validation.  A        *)
(* subscription validates the key again and joins rooms by what it says.   *)
(***************************************************************************)
EXTENDS ApiKeys

CONSTANT All  \* "*": every session

ASSUME AllAssumption == All \notin Sessions \cup {NoSession}

VARIABLES
  conn,     \* the connection: "open" before the key is known, "ready" afterwards
  asked,    \* what the subscription under way asks for
  rooms,    \* the sessions, or all of them, whose events the socket receives
  granted   \* what its key has allowed at any moment since the subscription arrived

sockVars == <<conn, asked, rooms>>
vars == <<keyVars, sockVars, granted>>

Scopes == Sessions \cup {All}

TypeOK ==
  /\ KeysTypeOK
  /\ conn \in [Sockets -> {"none", "open", "ready", "closed"}]
  /\ asked \in [Sockets -> Scopes \cup {NoSession}]
  /\ rooms \in [Sockets -> SUBSET Scopes]
  /\ granted \in [Sockets -> SUBSET Scopes]

Init ==
  /\ KeysInit
  /\ conn = [s \in Sockets |-> "none"]
  /\ asked = [s \in Sockets |-> NoSession]
  /\ rooms = [s \in Sockets |-> {}]
  /\ granted = [s \in Sockets |-> {}]

\* isSessionSubscriptionAllowed, for every session at once.
Subscribable(copy) ==
  IF copy = NoRow THEN {}
  ELSE IF ~copy.isActive THEN {}
  ELSE IF copy.allowedSessions = {} THEN Scopes ELSE copy.allowedSessions

\* What the key allows after the step is noted for the subscription under way then.
Observe ==
  granted' = [s \in Sockets |->
    IF asked'[s] = NoSession THEN {} ELSE granted[s] \cup Subscribable(row'[call[s].key])]

\* A request is validated by ApiKeyGuard, with the session its route names.
Request(c) ==
  /\ \E scope \in Sessions \cup {NoSession} : Validate(c, scope)
  /\ UNCHANGED sockVars

\* handleConnection up to its await.
Connect(s) ==
  /\ conn[s] = "none"
  /\ conn' = [conn EXCEPT ![s] = "open"]
  /\ Validate(s, NoSession)
  /\ UNCHANGED <<asked, rooms>>

Connected(s) ==
  /\ conn[s] = "open" /\ call[s].at = "accepted"
  /\ conn' = [conn EXCEPT ![s] = "ready"]
  /\ End(s)
  /\ UNCHANGED <<row, stats, past, asked, rooms>>

\* The socket is closed, and socket.io takes it out of its rooms: it joins no other.
Close(s) ==
  /\ conn' = [conn EXCEPT ![s] = "closed"]
  /\ asked' = [asked EXCEPT ![s] = NoSession]
  /\ rooms' = [rooms EXCEPT ![s] = {}]

\* handleConnection and handleSubscribe disconnect a socket whose key is refused.
Kick(s) ==
  /\ conn[s] \in {"open", "ready"} /\ call[s].at = "refused"
  /\ Close(s)
  /\ UNCHANGED keyVars

\* A message that arrives while handleConnection has not stored the key: handleSubscribe
\* disconnects the socket.
SubscribeTooEarly(s) ==
  /\ conn[s] = "open"
  /\ Close(s)
  /\ UNCHANGED keyVars

\* handleSubscribe up to its await: the key is validated again, without the session.
Subscribe(s, scope) ==
  /\ conn[s] = "ready"
  /\ Validate(s, NoSession)
  /\ asked' = [asked EXCEPT ![s] = scope]
  /\ UNCHANGED <<conn, rooms>>

\* Mutant: a key that was accepted may join any room.
JoinAny(s) ==
  /\ conn[s] = "ready" /\ call[s].at = "accepted"
  /\ rooms' = [rooms EXCEPT ![s] = @ \cup {asked[s]}]
  /\ asked' = [asked EXCEPT ![s] = NoSession]
  /\ End(s)
  /\ UNCHANGED <<row, stats, past, conn>>

\* Mutant: the request is forgotten before its room is joined.
JoinForgotten(s) ==
  /\ conn[s] = "ready" /\ call[s].at = "accepted"
  /\ asked' = [asked EXCEPT ![s] = NoSession]
  /\ rooms' = [rooms EXCEPT ![s] = @ \cup {asked'[s]}]
  /\ End(s)
  /\ UNCHANGED <<row, stats, past, conn>>

\* The rest of handleSubscribe: a restricted key joins no other session and not all
\* of them, and its socket stays connected.
Join(s) ==
  /\ conn[s] = "ready" /\ call[s].at = "accepted"
  /\ rooms' = [rooms EXCEPT ![s] = @ \cup ({asked[s]} \cap Subscribable(call[s].copy))]
  /\ asked' = [asked EXCEPT ![s] = NoSession]
  /\ End(s)
  /\ UNCHANGED <<row, stats, past, conn>>

\* handleUnsubscribe, for one session or all.
Unsubscribe(s, scope) ==
  /\ conn[s] = "ready"
  /\ rooms' = [rooms EXCEPT ![s] = IF scope = All THEN {} ELSE @ \ {scope}]
  /\ UNCHANGED <<keyVars, conn, asked>>

\* The client goes away.
Disconnect(s) ==
  /\ conn[s] \in {"open", "ready"}
  /\ Close(s)
  /\ UNCHANGED keyVars

\* A crash of the gateway: what is in memory is lost.  onModuleInit seeds a key when
\* there is none: the one of API_MASTER_KEY, or else one that nobody here uses.
Restart ==
  /\ pendingUsage' = [k \in Keys |-> 0]
  /\ call' = [c \in Callers \cup Admins |-> Idle(call[c].key)]
  /\ conn' = [s \in Sockets |-> "closed"]
  /\ asked' = [s \in Sockets |-> NoSession]
  /\ rooms' = [s \in Sockets |-> {}]
  /\ UNCHANGED <<counted, contested>>
  /\ \/ UNCHANGED <<row, retired>>
     \/ /\ \A k \in Keys : row[k] = NoRow
        /\ row' = [row EXCEPT ![Master] = NewRow({})]
        /\ retired' = retired \ {Master}

Socket(s) ==
  \/ Connect(s) \/ Connected(s) \/ Kick(s) \/ SubscribeTooEarly(s) \/ Join(s) \/ Disconnect(s)
  \/ \E scope \in Scopes : Subscribe(s, scope) \/ Unsubscribe(s, scope)

Next ==
  /\ \/ KeyStep /\ UNCHANGED sockVars
     \/ \E c \in Clients : Request(c)
     \/ \E s \in Sockets : Socket(s)
     \/ Restart
  /\ Observe

Spec == Init /\ [][Next]_vars

-----------------------------------------------------------------------------
(* Properties                                                              *)

\* A socket joins a room only if its key, as it was at some moment since the
\* subscription arrived, allowed that: not by what it was when the socket connected.
JoinsAreGranted ==
  [][\A s \in Sockets : rooms'[s] \ rooms[s] \subseteq granted[s]]_vars
=============================================================================
