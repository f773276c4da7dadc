-------------------------------- MODULE ApiKeys --------------------------------
(***************************************************************************)
(* API keys: the rows of api_keys, the validation that every request and   *)
(* every socket goes through, and the requests that change a key           *)
(* (AuthService).                                                          *)
(*                                                                         *)
(* A validation reads the row, decides on what it has read, and counts.    *)
(* The count is written at most once per window of 60 seconds; in between  *)
(* it stays in the map pendingUsage.  That write, like those of update and *)
(* revoke, saves the whole entity read before, and inserts it when its row *)
(* is gone.                                                                *)
(***************************************************************************)
EXTENDS Integers

CONSTANTS
  Keys,      \* API keys
  Sessions,  \* WhatsApp sessions a key may be restricted to
  Clients,   \* HTTP clients, with one request at a time,
  Sockets,   \* and WebSocket clients, whose keys are validated
  Admins,    \* requests that update, revoke or delete a key
  Master,    \* the key that API_MASTER_KEY names, seeded when there is none
  NoRow,     \* no such row
  NoSession, \* a request, or a socket, that names no session
  MaxUses    \* bound: validations of a key that are accepted

ASSUME KeyAssumption ==
  /\ Master \in Keys
  /\ NoSession \notin Sessions
  /\ Admins \cap (Clients \cup Sockets) = {}
  /\ MaxUses \in Nat

Callers == Clients \cup Sockets

VARIABLES
  row,           \* rows of api_keys
  pendingUsage,  \* increments observed but not yet persisted
  call,          \* what each caller or administrator is at
  counted,       \* validations accepted
  retired,       \* keys that were revoked or deleted,
  contested      \* and those of them with a copy of the row in use at that moment

stats == <<pendingUsage, counted>>
past == <<retired, contested>>
keyVars == <<row, stats, call, past>>

\* An empty allowedSessions restricts nothing.  Of lastUsedAt it matters only whether
\* it is set: the window it falls into may or may not be over when it is read.
Row == [isActive : BOOLEAN, allowedSessions : SUBSET Sessions, used : BOOLEAN, usageCount : Nat]

\* "find" and "save" are the awaits of the repository, "read" is what follows the
\* first one; "update", "revoke" and "delete" await findOne, "remove" the removal.
Stages == {"idle", "find", "read", "save", "accepted", "refused", "update", "revoke",
           "revoking", "delete", "remove"}
Call == [at : Stages, key : Keys, copy : Row \cup {NoRow}, scope : Sessions \cup {NoSession}]

KeysTypeOK ==
  /\ row \in [Keys -> Row \cup {NoRow}]
  /\ pendingUsage \in [Keys -> Nat]
  /\ call \in [Callers \cup Admins -> Call]
  /\ counted \in [Keys -> Nat]
  /\ retired \in SUBSET Keys
  /\ contested \in SUBSET Keys

NewRow(sessions) == [isActive |-> TRUE, allowedSessions |-> sessions, used |-> FALSE, usageCount |-> 0]

Idle(k) == [at |-> "idle", key |-> k, copy |-> NoRow, scope |-> NoSession]

\* Keys that createApiKey or onModuleInit has made.
KeysInit ==
  /\ row \in [Keys -> {NewRow(sessions) : sessions \in SUBSET Sessions}]
  /\ pendingUsage = [k \in Keys |-> 0]
  /\ call \in [Callers \cup Admins -> {Idle(k) : k \in Keys}]
  /\ counted = [k \in Keys |-> 0]
  /\ retired = {} /\ contested = {}

-----------------------------------------------------------------------------
(* validateApiKey                                                          *)

Goto(c, stage) == call' = [call EXCEPT ![c].at = stage]
Hold(c, stage, copy) == call' = [call EXCEPT ![c] = [[@ EXCEPT !.at = stage] EXCEPT !.copy = copy]]
End(c) == call' = [call EXCEPT ![c] = Idle(call[c].key)]

\* A socket goes on with the answer; a request, or a change, is over.
Answer(c, stage, copy) == IF c \in Sockets THEN Hold(c, stage, copy) ELSE End(c)

\* A caller presents its key.
Validate(c, scope) ==
  /\ call[c].at = "idle"
  /\ call' = [call EXCEPT ![c] = [[@ EXCEPT !.at = "find"] EXCEPT !.scope = scope]]
  /\ UNCHANGED <<row, stats, past>>

\* The query runs.
Find(c) ==
  /\ call[c].at = "find"
  /\ Hold(c, "read", row[call[c].key])
  /\ UNCHANGED <<row, stats, past>>

Admits(copy, scope) ==
  /\ copy # NoRow
  /\ copy.isActive
  /\ copy.allowedSessions # {} /\ scope \in Sessions => scope \in copy.allowedSessions

\* The row read does not admit the caller; or the key has expired, or is not meant
\* for its address.
Refuse(c) ==
  /\ call[c].at = "read"
  /\ Answer(c, "refused", NoRow)
  /\ UNCHANGED <<row, stats, past>>

\* Mutant: the increments stay in the map when they are flushed.
CountTwice(c, due) ==
  LET k == call[c].key
      pending == pendingUsage[k] + 1
      copy == [[call[c].copy EXCEPT !.used = TRUE] EXCEPT !.usageCount = @ + pending]
  IN  /\ pendingUsage' = [pendingUsage EXCEPT ![k] = pending]
      /\ IF due THEN Hold(c, "save", copy) ELSE Answer(c, "accepted", copy)
      /\ counted' = [counted EXCEPT ![k] = @ + 1]

\* The usage statistics: flushed with this entity when that is due.
Count(c, due) ==
  LET k == call[c].key
      pending == pendingUsage[k] + 1
      copy == [[call[c].copy EXCEPT !.used = TRUE] EXCEPT !.usageCount = @ + pending]
  IN  /\ pendingUsage' = [pendingUsage EXCEPT ![k] = IF due THEN 0 ELSE pending]
      /\ IF due THEN Hold(c, "save", copy) ELSE Answer(c, "accepted", copy)
      /\ counted' = [counted EXCEPT ![k] = @ + 1]

Admit(c) ==
  /\ call[c].at = "read"
  /\ counted[call[c].key] < MaxUses
  /\ Admits(call[c].copy, call[c].scope)
  /\ \E due \in BOOLEAN : (call[c].copy.used \/ due) /\ Count(c, due)
  /\ UNCHANGED <<row, past>>

\* save() of the entity: every column of it, whatever the row holds by now.
Saved(c) ==
  /\ call[c].at = "save"
  /\ row' = [row EXCEPT ![call[c].key] = call[c].copy]
  /\ Answer(c, "accepted", call[c].copy)
  /\ UNCHANGED <<stats, past>>

\* The statement fails, and the increments of the entity are gone.
SaveFails(c) ==
  /\ call[c].at = "save"
  /\ Answer(c, "refused", NoRow)
  /\ UNCHANGED <<row, stats, past>>

-----------------------------------------------------------------------------
(* Requests that change keys                                               *)

Ask(a, stage) ==
  /\ call[a].at = "idle"
  /\ Goto(a, stage)
  /\ UNCHANGED <<row, stats, past>>

\* findOne finds nothing, and the request ends.
NotFound(a) ==
  /\ call[a].at \in {"update", "revoke", "delete"}
  /\ row[call[a].key] = NoRow
  /\ End(a)
  /\ UNCHANGED <<row, stats, past>>

\* Mutant: an update makes the key active.
UpdateActivates(a) ==
  /\ call[a].at = "update" /\ row[call[a].key] # NoRow
  /\ \E sessions \in SUBSET Sessions :
       Hold(a, "save", [[row[call[a].key] EXCEPT !.allowedSessions = sessions] EXCEPT !.isActive = TRUE])
  /\ UNCHANGED <<row, stats, past>>

\* update: the entity found, with other sessions allowed, is about to be saved.
Update(a) ==
  /\ call[a].at = "update" /\ row[call[a].key] # NoRow
  /\ \E sessions \in SUBSET Sessions :
       Hold(a, "save", [row[call[a].key] EXCEPT !.allowedSessions = sessions])
  /\ UNCHANGED <<row, stats, past>>

\* revoke and delete drop the accumulator when they have found the key.
Drop(a, stage) ==
  /\ Hold(a, stage, [row[call[a].key] EXCEPT !.isActive = FALSE])
  /\ pendingUsage' = [pendingUsage EXCEPT ![call[a].key] = 0]
  /\ UNCHANGED <<row, counted, past>>

Revoke(a) == call[a].at = "revoke" /\ row[call[a].key] # NoRow /\ Drop(a, "revoking")
Delete(a) == call[a].at = "delete" /\ row[call[a].key] # NoRow /\ Drop(a, "remove")

\* Somebody else works on a copy of the row in which the key is active.
InUse(k, a) ==
  \E c \in (Callers \cup Admins) \ {a} :
    call[c].key = k /\ call[c].at \in {"read", "save"} /\ call[c].copy # NoRow /\ call[c].copy.isActive

Retire(a, r) ==
  LET k == call[a].key IN
    /\ row' = [row EXCEPT ![k] = r]
    /\ retired' = retired \cup {k}
    /\ contested' = IF InUse(k, a) THEN contested \cup {k} ELSE contested
    /\ End(a)
    /\ UNCHANGED stats

Revoked(a) == call[a].at = "revoking" /\ Retire(a, call[a].copy)
Deleted(a) == call[a].at = "remove" /\ Retire(a, NoRow)

KeyStep ==
  \/ \E c \in Callers : Find(c) \/ Refuse(c) \/ Admit(c)
  \/ \E c \in Callers \cup Admins : Saved(c) \/ SaveFails(c)
  \/ \E a \in Admins : \E op \in {"update", "revoke", "delete"} : Ask(a, op)
  \/ \E a \in Admins : NotFound(a) \/ Update(a) \/ Revoke(a) \/ Delete(a) \/ Revoked(a) \/ Deleted(a)

-----------------------------------------------------------------------------
(* Properties                                                              *)

\* The statistics never claim more than was let in: what a row counts, with what is
\* still in the map, is at most the number of validations accepted, whatever saves of
\* older entities are still to come.
NeverOvercounts ==
  \A k \in Keys : row[k] # NoRow => row[k].usageCount + pendingUsage[k] <= counted[k]

\* A revoked or deleted key stays so, unless a validation or an update was working on
\* a copy of its row at that moment.
RetiredForGood ==
  \A k \in retired \ contested : row[k] # NoRow => ~row[k].isActive
=============================================================================
