----------------------------- MODULE Reporting -----------------------------
(***************************************************************************)
(* The audit log and what is read from it: administrators create and       *)
(* revoke API keys, every such operation (and every other audited one) is  *)
(* logged, and the log is listed by GET /api/v1/audit for the bearer of a  *)
(* key and by the admin page and its CSV export.                           *)
(*                                                                         *)
(* src/internal/redisstore/store.go keeps one hash per event with a TTL of *)
(* 90 days and a sorted set of the newest Cap ids.  An event gets its time *)
(* and its id (the same clock, in nanoseconds) before Redis executes the   *)
(* transaction that adds it, so events may be added out of order; they are *)
(* ordered by id here, as the sorted set orders them by time and id.       *)
(***************************************************************************)
EXTENDS Integers, Sequences, FiniteSets

CONSTANTS
  Workspaces,
  ApiKeys,     \* API keys
  Operations,  \* requests of administrators, and others that are audited
  Readers,     \* requests that list the log
  Cap,         \* events the index keeps (500)
  Limits,      \* values of the query parameter limit
  MaxEvents,   \* bound: events ever logged
  MaxUnread,   \* bound: events one listing cannot read
  None         \* no workspace, or no key

ASSUME ReportingAssumption ==
  /\ Cap \in Nat \ {0} /\ Limits \subseteq 1..Cap
  /\ MaxEvents \in Nat /\ MaxUnread \in Nat /\ None \notin Workspaces \cup ApiKeys

VARIABLES
  keys,     \* el:api_key:<id>
  known,    \* keys whose raw value was shown to the administrator
  logged,   \* the events Redis added to the log, in the order it did
  dead,     \* how many of the oldest hashes of logged have expired
  index,    \* ids of el:audit:index
  stamp,    \* the last id given to an event
  op,       \* requests of administrators, and others that are audited
  reader,   \* requests that list the log
  untold    \* history: revoked keys whose revocation could not be logged

reportingVars == <<keys, known, logged, dead, index, stamp, op, reader, untold>>

-----------------------------------------------------------------------------
(* Records                                                                 *)

(* The fields AuthenticateAPIKey looks at: serves stands for the scope     *)
(* reports:read together with an expires_at that is 0 or to come.          *)
APIKey == [ws : Workspaces \cup {None}, serves : BOOLEAN, revoked : BOOLEAN]
NoApiKey  == [ws |-> None, serves |-> FALSE, revoked |-> FALSE]

Event == [id : 1..MaxEvents, ws : Workspaces, revokes : ApiKeys \cup {None}]

Created(w, scope) == [ws |-> w, serves |-> scope, revoked |-> FALSE]

Valid(k) == keys[k].serves /\ ~keys[k].revoked

-----------------------------------------------------------------------------
(* The log                                                                 *)

(* ZADD and ZREMRANGEBYRANK 0 .. -(Cap + 1).                               *)
Trimmed(ids) == {i \in ids : Cardinality({j \in ids : j > i}) < Cap}

(* Mutant: ZRANGE, which lists the oldest first.                           *)
FirstIds(limit) == {i \in index : Cardinality({j \in index : j < i}) < limit}

(* ZREVRANGE 0 .. limit - 1.  The ids tell the order of what is listed.    *)
LatestIds(limit) == {i \in index : Cardinality({j \in index : j > i}) < limit}

(* The events whose hash is still there.                                   *)
Alive == {logged[n] : n \in dead + 1 .. Len(logged)}

Logged == {logged[n] : n \in DOMAIN logged}

EventOf(id) == CHOOSE e \in Logged : e.id = id

(* The loop of ListAuditEventsInWorkspace: an event whose hash is gone or  *)
(* cannot be read is passed over, and so is one of another workspace.      *)
ListedEvents(ids, w, unread) ==
  {i \in ids \ unread : EventOf(i) \in Alive /\ EventOf(i).ws = w}

-----------------------------------------------------------------------------
IdleAdmin  == [pc |-> "idle", ws |-> None, key |-> None, id |-> 0]
IdleReader == [pc |-> "idle", key |-> None, ws |-> None, late |-> FALSE,
               limit |-> 0, since |-> 0, ids |-> {}, unread |-> {}, out |-> {}]

ReportingInit ==
  /\ keys = [k \in ApiKeys |-> NoApiKey] /\ known = {}
  /\ logged = <<>> /\ dead = 0 /\ index = {} /\ stamp = 0
  /\ op = [a \in Operations |-> IdleAdmin]
  /\ reader = [q \in Readers |-> IdleReader]
  /\ untold = {}

store == <<logged, dead, index>>

-----------------------------------------------------------------------------
(* Administrators                                                          *)

(* adminCreateAPIKey stores the key of a new id.  When the answer of Redis *)
(* is lost the raw value is not shown and nothing is logged.               *)
CreateKey(a, w, k) ==
  /\ op[a] = IdleAdmin /\ keys[k] = NoApiKey
  /\ \E scope \in BOOLEAN : keys' = [keys EXCEPT ![k] = Created(w, scope)]
  /\ \/ /\ known' = known \cup {k}
        /\ op' = [op EXCEPT ![a] = [IdleAdmin EXCEPT !.pc = "audit", !.ws = w]]
     \/ UNCHANGED <<known, op>>
  /\ UNCHANGED <<store, stamp, reader, untold>>

(* RevokeAPIKeyInWorkspace reads the record and refuses a key of another   *)
(* workspace.                                                              *)
RevokeLook(a, w, k) ==
  /\ op[a] = IdleAdmin /\ keys[k].ws = w
  /\ op' = [op EXCEPT ![a] = [IdleAdmin EXCEPT !.pc = "revoke", !.ws = w, !.key = k]]
  /\ UNCHANGED <<keys, known, store, stamp, reader, untold>>

(* Mutant: the operation is logged before Redis has answered.              *)
RevokeAnyhow(a) ==
  /\ op[a].pc = "revoke"
  /\ \E executed \in BOOLEAN :
       keys' = [keys EXCEPT ![op[a].key].revoked = @ \/ executed]
  /\ op' = [op EXCEPT ![a].pc = "audit"]
  /\ UNCHANGED <<known, store, stamp, reader, untold>>

(* revoked_at is set; when the answer is lost the administrator is told of *)
(* an error and nothing is logged.                                         *)
Revoke(a) ==
  /\ op[a].pc = "revoke"
  /\ keys' = [keys EXCEPT ![op[a].key].revoked = TRUE]
  /\ \/ op' = [op EXCEPT ![a].pc = "audit"] /\ UNCHANGED untold
     \/ op' = [op EXCEPT ![a] = IdleAdmin] /\ untold' = untold \cup {op[a].key}
  /\ UNCHANGED <<known, store, stamp, reader>>

RevokeFails(a) ==
  /\ op[a].pc = "revoke"
  /\ op' = [op EXCEPT ![a] = IdleAdmin]
  /\ UNCHANGED <<keys, known, store, stamp, reader, untold>>

(* Any other audited operation, of a user in workspace w or of an          *)
(* anonymous one in the default workspace.                                 *)
Operate(a, w) ==
  /\ op[a] = IdleAdmin
  /\ op' = [op EXCEPT ![a] = [IdleAdmin EXCEPT !.pc = "audit", !.ws = w]]
  /\ UNCHANGED <<keys, known, store, stamp, reader, untold>>

(* AddAuditEvent reads the clock for the time and the id of the event.     *)
StampEvent(a) ==
  /\ op[a].pc = "audit" /\ stamp < MaxEvents
  /\ stamp' = stamp + 1
  /\ op' = [op EXCEPT ![a].pc = "add", ![a].id = stamp + 1]
  /\ UNCHANGED <<keys, known, store, reader, untold>>

(* The transaction: the hash with its TTL, the index, and its trimming.    *)
AddEvent(a) ==
  LET e == [id |-> op[a].id, ws |-> op[a].ws, revokes |-> op[a].key] IN
  /\ op[a].pc = "add"
  /\ logged' = Append(logged, e)
  /\ index' = Trimmed(index \cup {e.id})
  /\ op' = [op EXCEPT ![a] = IdleAdmin]
  /\ UNCHANGED <<keys, known, dead, stamp, reader, untold>>

(* Redis does not execute it, or the server stops: a warning is written    *)
(* to the server's own log, and the operation stands.                      *)
AddFails(a) ==
  /\ op[a].pc \in {"audit", "add"}
  /\ op' = [op EXCEPT ![a] = IdleAdmin]
  /\ untold' = untold \cup ({op[a].key} \cap ApiKeys)
  /\ UNCHANGED <<keys, known, store, stamp, reader>>

-----------------------------------------------------------------------------
(* Readers                                                                 *)

(* A request with the key arrives; late notes that the key no longer works *)
(* by then.                                                                *)
ArriveWithKey(q, k) ==
  /\ reader[q] = IdleReader /\ k \in known
  /\ reader' = [reader EXCEPT ![q] = [IdleReader EXCEPT !.pc = "key", !.key = k,
                                     !.late = ~Valid(k)]]
  /\ UNCHANGED <<keys, known, store, stamp, op, untold>>

(* Mutant: a key that was found once is not looked up again.               *)
AuthenticateFromCache(q) ==
  /\ reader[q].pc = "key"
  /\ reader' = [reader EXCEPT ![q].pc = "index", ![q].ws = keys[reader[q].key].ws]
  /\ UNCHANGED <<keys, known, store, stamp, op, untold>>

(* AuthenticateAPIKey finds the record by the hash of the value and goes   *)
(* on with its workspace, or apiAudit answers 401: the key is revoked or   *)
(* has expired, lacks the scope, or cannot be read.                        *)
Authenticate(q) ==
  LET k == reader[q].key IN
  /\ reader[q].pc = "key"
  /\ reader' = [reader EXCEPT ![q] =
       IF Valid(k) THEN [@ EXCEPT !.pc = "index", !.ws = keys[k].ws]
                                    ELSE IdleReader]
  /\ UNCHANGED <<keys, known, store, stamp, op, untold>>

(* An administrator opens the admin page or the CSV export, which take the *)
(* newest Cap events.                                                      *)
OpenAdminPage(q, w) ==
  /\ reader[q] = IdleReader
  /\ reader' = [reader EXCEPT ![q] = [IdleReader EXCEPT !.pc = "index", !.ws = w]]
  /\ UNCHANGED <<keys, known, store, stamp, op, untold>>

ReadIndex(q) ==
  /\ reader[q].pc = "index"
  /\ \E limit \in IF reader[q].key = None THEN {Cap} ELSE Limits :
       reader' = [reader EXCEPT ![q].pc = "events", ![q].limit = limit,
                    ![q].since = Len(logged), ![q].ids = LatestIds(limit)]
  /\ UNCHANGED <<keys, known, store, stamp, op, untold>>

(* Hashes never change, and the oldest expire first, so the reads of the   *)
(* loop are one step.                                                      *)
ReadEvents(q) ==
  /\ reader[q].pc = "events"
  /\ \E unread \in SUBSET reader[q].ids :
       /\ Cardinality(unread) <= MaxUnread
       /\ reader' = [reader EXCEPT ![q].pc = "answer", ![q].unread = unread,
                       ![q].out = ListedEvents(reader[q].ids, reader[q].ws, unread)]
  /\ UNCHANGED <<keys, known, store, stamp, op, untold>>

(* The answer is sent, or the request ends with an error before.           *)
EndReport(q) ==
  /\ reader[q].pc # "idle"
  /\ reader' = [reader EXCEPT ![q] = IdleReader]
  /\ UNCHANGED <<keys, known, store, stamp, op, untold>>

-----------------------------------------------------------------------------
(* Time                                                                    *)

(* The hashes end in the order they were added.                            *)
EventExpires ==
  /\ dead < Len(logged)
  /\ dead' = dead + 1
  /\ UNCHANGED <<keys, known, logged, index, stamp, op, reader, untold>>

KeyExpires(k) ==
  /\ keys[k].serves
  /\ keys' = [keys EXCEPT ![k].serves = FALSE]
  /\ UNCHANGED <<known, store, stamp, op, reader, untold>>

Administer(a) ==
  \/ \E w \in Workspaces : (\E k \in ApiKeys : CreateKey(a, w, k) \/ RevokeLook(a, w, k))
                           \/ Operate(a, w)
  \/ Revoke(a) \/ RevokeFails(a) \/ StampEvent(a) \/ AddEvent(a) \/ AddFails(a)

Read(q) ==
  \/ \E k \in ApiKeys : ArriveWithKey(q, k)
  \/ \E w \in Workspaces : OpenAdminPage(q, w)
  \/ Authenticate(q) \/ ReadIndex(q) \/ ReadEvents(q) \/ EndReport(q)

ReportingNext ==
  \/ \E a \in Operations : Administer(a)
  \/ \E q \in Readers : Read(q)
  \/ EventExpires
  \/ \E k \in ApiKeys : KeyExpires(k)

ReportingSpec == ReportingInit /\ [][ReportingNext]_reportingVars

-----------------------------------------------------------------------------
(* Properties                                                              *)

ReportingTypeOK ==
  /\ keys \in [ApiKeys -> APIKey] /\ known \subseteq ApiKeys
  /\ logged \in Seq(Event) /\ dead \in 0..Len(logged)
  /\ index \subseteq {e.id : e \in Logged} /\ stamp \in 0..MaxEvents
  /\ op \in [Operations -> [pc : {"idle", "revoke", "audit", "add"},
                         ws : Workspaces \cup {None}, key : ApiKeys \cup {None},
                         id : 0..MaxEvents]]
  /\ reader \in [Readers -> [pc : {"idle", "key", "index", "events", "answer"},
                          key : ApiKeys \cup {None}, ws : Workspaces \cup {None},
                          late : BOOLEAN, limit : Nat, since : Nat,
                          ids : SUBSET (1..MaxEvents),
                          unread : SUBSET (1..MaxEvents), out : SUBSET (1..MaxEvents)]]
  /\ untold \subseteq ApiKeys

(* A report lists events of its workspace only and has no gap: of the      *)
(* events that were logged when it read the index, one of its workspace    *)
(* that still exists and could be read is missing only if at least limit   *)
(* of them, of whatever workspaces, were newer ("the app keeps the latest  *)
(* 500 entries", in whatever order concurrent transactions are executed).  *)
ReportHasNoGap ==
  \A q \in Readers :
    LET old == {logged[n].id : n \in 1..reader[q].since} IN
    reader[q].pc = "answer" =>
      /\ \A i \in reader[q].out : EventOf(i).ws = reader[q].ws
      /\ \A i \in old \ (reader[q].out \cup reader[q].unread) :
           EventOf(i) \in Alive /\ EventOf(i).ws = reader[q].ws =>
             Cardinality({j \in old : j > i}) >= reader[q].limit

(* "revokes a key immediately": a request that arrives after its key was   *)
(* revoked or has expired reports nothing, and no report leaves the        *)
(* workspace of the key.                                                   *)
EndedKeysReportNothing ==
  \A q \in Readers :
    reader[q].pc \in {"index", "events", "answer"} /\ reader[q].key # None =>
      ~reader[q].late /\ reader[q].ws = keys[reader[q].key].ws

(* The log and the keys tell the same story: a revocation that is logged   *)
(* has happened, in the workspace of the key, and one that has happened is *)
(* logged, about to be, or one whose answer or whose event was lost.       *)
RevocationsAccounted ==
  /\ \A e \in Logged : e.revokes # None =>
       keys[e.revokes].revoked /\ keys[e.revokes].ws = e.ws
  /\ \A k \in ApiKeys : keys[k].revoked =>
       \/ \E e \in Logged : e.revokes = k
       \/ \E a \in Operations : op[a].key = k /\ op[a].pc \in {"audit", "add"}
       \/ k \in untold
=============================================================================
