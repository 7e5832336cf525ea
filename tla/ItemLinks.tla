----------------------------- MODULE ItemLinks -----------------------------
(***************************************************************************)
(* The life of single-use links: text secrets and files created by signed  *)
(* in users (createText, createFile), opened by anonymous recipients       *)
(* (revealText, downloadFile, serveClaimedFile), burned by administrators  *)
(* (adminBurnLink), expired by Redis, and reconciled with the storage      *)
(* directory by the cleanup goroutine.  Every handler runs as a sequence   *)
(* of steps, one per call to Redis or to the disk, so that handlers, the   *)
(* cleanup, expiry and a crash of the server interleave between any two.   *)
(*                                                                         *)
(* One unit of time is the hour of Claim, BurnItem and Start when Hour = 1.*)
(* An item ID is a fresh random token, so each member of Links is created  *)
(* by at most one request, which is named after it.                        *)
(***************************************************************************)
EXTENDS Integers, FiniteSets

CONSTANTS
  TextLinks, FileLinks,   \* item IDs, by the Type of the item
  Recipients,             \* requests to open a link that may run at once
  Admins,                 \* burn requests that may run at once
  NoLink,                 \* the link of an idle request
  MaxTTL,                 \* MAX_TTL_SECONDS, in units of time
  Hour,                   \* the hour of Claim, BurnItem and Start
  Horizon,                \* bound: the clock stops here
  MaxUnread,              \* bound: keys one lookup of the cleanup fails to read
  MaxCrashes              \* bound: crashes of the server

Links == TextLinks \cup FileLinks

ASSUME LinksAssumption == TextLinks \cap FileLinks = {} /\ NoLink \notin Links
ASSUME TimeAssumption ==
  /\ MaxTTL \in Nat \ {0} /\ Hour \in Nat \ {0}
  /\ Horizon \in Nat /\ MaxUnread \in Nat /\ MaxCrashes \in Nat

VARIABLES
  now,         \* the clock
  db,          \* the hash el:item:<id> of every link
  expires,     \* ExpiresAt, fixed by newBaseItem
  make,        \* how far the request that creates the link got
  disk,        \* what the storage directory holds for a file link
  req,         \* the requests to open a link
  adm,         \* the requests to burn a link
  cleaner,     \* where the cleanup goroutine is in its cycle
  active,      \* its copy of ActiveStorageObjectPaths
  pending,     \* the .bin files its directory walk has still to visit
  deliveries,  \* history: how often the content of a link left the server
  burned,      \* history: links an administrator burned
  raced,       \* history: needed files the cleanup set out to remove
  confirmed,   \* history: links whose creator confirmed "Burn this link"
  crashes      \* crashes so far

vars == <<now, db, expires, make, disk, req, adm, cleaner, active, pending,
          deliveries, burned, raced, confirmed, crashes>>

sweep   == <<cleaner, active, pending>>
history == <<deliveries, burned, raced, confirmed>>

-----------------------------------------------------------------------------
(* Redis records                                                           *)

(* The fields of Item the handlers branch on: secret stands for the        *)
(* wrapped key and payload fields, path for storage_object_path, deadline  *)
(* for the TTL of the key.                                                 *)
Record == [status : {"none", "available", "consumed"},
           secret : BOOLEAN, path : BOOLEAN, deadline : Nat]

NoRecord == [status |-> "none", secret |-> FALSE, path |-> FALSE, deadline |-> 0]

Exists(l) == db[l].status # "none"
Live(l)   == db[l].status = "available"

(* Mutant: the TTL starts when the item is stored, not when its ExpiresAt  *)
(* was fixed.                                                              *)
CreatedWithFullTTL(l, expiry) ==
  [status |-> "available", secret |-> TRUE, path |-> l \in FileLinks,
   deadline |-> now + MaxTTL]

(* Create: HSET and EXPIRE in one transaction.  The TTL is what is left    *)
(* until ExpiresAt; one that is not positive makes EXPIRE delete the key.  *)
Created(l, expiry) ==
  IF expiry > now
  THEN [status |-> "available", secret |-> TRUE, path |-> l \in FileLinks,
        deadline |-> expiry]
  ELSE NoRecord

(* Mutant: a status no reader of the record knows.                         *)
ClaimedWithNewStatus(l) ==
  [status |-> "claimed", secret |-> FALSE, path |-> FALSE, deadline |-> now + Hour]

(* The record the claim script leaves: status consumed, the secret fields  *)
(* deleted, and an hour to live.                                           *)
ClaimedRecord(l) ==
  [status |-> "consumed", secret |-> FALSE, path |-> FALSE, deadline |-> now + Hour]

(* The script answers only for a record that exists and is available.      *)
Claimable(l) == Live(l)

(* Mutant: the script reads the hash after it deleted the fields.          *)
ReplyAfterDelete(l) == [secret |-> ClaimedRecord(l).secret, path |-> ClaimedRecord(l).path]

(* What the script returns was read before it deleted the fields.          *)
ClaimReply(l) == [secret |-> db[l].secret, path |-> db[l].path]

(* Mutant: a burn clears the secret fields and forgets the status.         *)
BurntWithoutStatus(l) ==
  [db[l] EXCEPT !.secret = FALSE, !.path = FALSE, !.deadline = now + Hour]

(* BurnItem overwrites the same fields without looking at the record: it   *)
(* creates one if the key has expired in the meantime.                     *)
BurntRecord(l) ==
  [status |-> "consumed", secret |-> FALSE, path |-> FALSE, deadline |-> now + Hour]

(* Redis drops the keys whose TTL has run out.                             *)
Evicted(l, t) == IF Exists(l) /\ db[l].deadline <= t THEN NoRecord ELSE db[l]

-----------------------------------------------------------------------------
(* Files: <id>.bin.tmp while it is being written, <id>.bin from then on.   *)

File   == [name : {"none", "tmp", "bin"}, mtime : Nat]
NoFile == [name |-> "none", mtime |-> 0]
OnDisk(l) == disk[l].name = "bin"

-----------------------------------------------------------------------------
(* Requests                                                                *)

Drafts     == {"none", "writing", "written"}
MakePhases == Drafts \cup {"stored", "done", "rejected", "failed", "crashed"}

IdleRequest == [pc |-> "idle", link |-> NoLink, secret |-> FALSE, path |-> FALSE]
IdleBurn    == [pc |-> "idle", link |-> NoLink, path |-> FALSE]

(* What a request, or a burn, keeps from one call to the next.             *)
Opening == [pc : {"gate", "claimed", "streaming"}, link : Links,
            secret : BOOLEAN, path : BOOLEAN]
Burning == [pc : {"burn", "delete"}, link : Links, path : BOOLEAN]

(* Recipients that won the claim of l and have not been answered yet.      *)
Holds(r, l)   == req[r].pc = "claimed" /\ req[r].link = l
Awaited(l)    == \E r \in Recipients : Holds(r, l)

(* Somebody was told the address of the link.                              *)
Known(l) == make[l] = "done"

Init ==
  /\ now = 0
  /\ db = [l \in Links |-> NoRecord]
  /\ expires = [l \in Links |-> 0]
  /\ make = [l \in Links |-> "none"]
  /\ disk = [l \in FileLinks |-> NoFile]
  /\ req = [r \in Recipients |-> IdleRequest]
  /\ adm = [a \in Admins |-> IdleBurn]
  /\ cleaner = "idle" /\ active = {} /\ pending = {}
  /\ deliveries = [l \in Links |-> 0]
  /\ burned = {} /\ raced = {} /\ confirmed = {}
  /\ crashes = 0

-----------------------------------------------------------------------------
(* Creating a link                                                         *)

(* newBaseItem fixes ExpiresAt.  ttl() is at most MaxTTL (RequestTtl), and *)
(* may be so short that ExpiresAt is the second it was made in.  A file is *)
(* streamed to <id>.bin.tmp first.                                         *)
BeginFile(l) ==
  /\ make[l] = "none"
  /\ \E ttl \in 0..MaxTTL : expires' = [expires EXCEPT ![l] = now + ttl]
  /\ make' = [make EXCEPT ![l] = "writing"]
  /\ disk' = [disk EXCEPT ![l] = [name |-> "tmp", mtime |-> now]]
  /\ UNCHANGED <<now, db, req, adm, sweep, history, crashes>>

(* The last write and the rename to <id>.bin, which fails when the         *)
(* temporary file is gone.                                                 *)
WriteFile(l) ==
  /\ make[l] = "writing"
  /\ IF disk[l].name = "tmp"
     THEN /\ make' = [make EXCEPT ![l] = "written"]
          /\ disk' = [disk EXCEPT ![l] = [name |-> "bin", mtime |-> now]]
     ELSE /\ make' = [make EXCEPT ![l] = "failed"]
          /\ UNCHANGED disk
  /\ UNCHANGED <<now, db, expires, req, adm, sweep, history, crashes>>

(* The upload breaks off or the disk is full: WriteStream removes the      *)
(* temporary file and the request answers with an error.                   *)
WriteFails(l) ==
  /\ make[l] = "writing"
  /\ make' = [make EXCEPT ![l] = "failed"]
  /\ disk' = [disk EXCEPT ![l] = NoFile]
  /\ UNCHANGED <<now, db, expires, req, adm, sweep, history, crashes>>

StoreFile(l) ==
  /\ make[l] = "written"
  /\ db' = [db EXCEPT ![l] = Created(l, expires[l])]
  /\ make' = [make EXCEPT ![l] = "stored"]
  /\ UNCHANGED <<now, expires, disk, req, adm, sweep, history, crashes>>

(* store.Create reports an error, whether or not Redis executed it; the    *)
(* handler deletes the file it has written.                                *)
StoreFileFails(l) ==
  /\ make[l] = "written"
  /\ \E executed \in BOOLEAN :
        db' = IF executed THEN [db EXCEPT ![l] = Created(l, expires[l])] ELSE db
  /\ make' = [make EXCEPT ![l] = "failed"]
  /\ disk' = [disk EXCEPT ![l] = NoFile]
  /\ UNCHANGED <<now, expires, req, adm, sweep, history, crashes>>

(* createText touches nothing shared before it stores the item.  When the  *)
(* answer of Redis is lost the request fails and the item stays stored.    *)
StoreText(l) ==
  /\ make[l] = "none"
  /\ \E ttl \in 0..MaxTTL :
        /\ expires' = [expires EXCEPT ![l] = now + ttl]
        /\ db' = [db EXCEPT ![l] = Created(l, now + ttl)]
  /\ \E outcome \in {"stored", "failed"} : make' = [make EXCEPT ![l] = outcome]
  /\ UNCHANGED <<now, disk, req, adm, sweep, history, crashes>>

(* sendCreatedLinkIfRequested and redirectCreated: the link is e-mailed or *)
(* shown to its creator; or the e-mail address does not parse and the      *)
(* answer is a form error.  The item stays stored although nobody learns   *)
(* its link.                                                               *)
AnswerCreator(l) ==
  /\ make[l] = "stored"
  /\ \E outcome \in {"done", "rejected"} : make' = [make EXCEPT ![l] = outcome]
  /\ UNCHANGED <<now, db, expires, disk, req, adm, sweep, history, crashes>>

(* The page that shows the link has a button "Burn this link".  Confirming *)
(* it drops the link from the history the browser keeps for the session    *)
(* and leaves the page; the server is not told.                            *)
ConfirmBurn(l) ==
  /\ make[l] = "done"
  /\ confirmed' = confirmed \cup {l}
  /\ UNCHANGED <<now, db, expires, make, disk, req, adm, sweep, deliveries,
                 burned, raced, crashes>>

-----------------------------------------------------------------------------
(* Opening a link                                                          *)

(* store.Get and the checks on what it returned.                           *)
Look(r, l) ==
  /\ req[r] = IdleRequest
  /\ Known(l) /\ Live(l)
  /\ req' = [req EXCEPT ![r] = [IdleRequest EXCEPT !.pc = "gate", !.link = l]]
  /\ UNCHANGED <<now, db, expires, make, disk, adm, sweep, history, crashes>>

(* The passphrase gate turns the request away: too many failures, or a     *)
(* wrong passphrase (FailureThrottle models the counter behind the gate);  *)
(* or the claim does not reach Redis.                                      *)
TurnAway(r) ==
  /\ req[r].pc = "gate"
  /\ req' = [req EXCEPT ![r] = IdleRequest]
  /\ UNCHANGED <<now, db, expires, make, disk, adm, sweep, history, crashes>>

(* Mutant: the handler consumes the item it read before the gate.          *)
ClaimOfSnapshot(r) ==
  LET l == req[r].link IN
  /\ req[r].pc = "gate"
  /\ db' = [db EXCEPT ![l] = ClaimedRecord(l)]
  /\ req' = [req EXCEPT ![r] = [pc |-> "claimed", link |-> l, secret |-> TRUE,
                               path |-> l \in FileLinks]]
  /\ UNCHANGED <<now, expires, make, disk, adm, sweep, history, crashes>>

(* store.Claim wins.  When its answer is lost, the item is consumed and    *)
(* the handler, told of an error, redirects to /expired.                   *)
Claim(r) ==
  LET l == req[r].link IN
  /\ req[r].pc = "gate" /\ Claimable(l)
  /\ db' = [db EXCEPT ![l] = ClaimedRecord(l)]
  /\ \E answered \in BOOLEAN :
        req' = [req EXCEPT ![r] =
                  IF answered
                  THEN [pc |-> "claimed", link |-> l, secret |-> ClaimReply(l).secret,
                        path |-> ClaimReply(l).path]
                  ELSE IdleRequest]
  /\ UNCHANGED <<now, expires, make, disk, adm, sweep, history, crashes>>

(* store.Claim returns ErrGone: the request ends at /expired.              *)
ClaimGone(r) ==
  /\ req[r].pc = "gate" /\ ~Claimable(req[r].link)
  /\ req' = [req EXCEPT ![r] = IdleRequest]
  /\ UNCHANGED <<now, db, expires, make, disk, adm, sweep, history, crashes>>

(* revealText unwraps the key, decrypts the payload and renders it; it     *)
(* answers with an error when it was given none.                           *)
RevealText(r) ==
  LET l == req[r].link IN
  /\ req[r].pc = "claimed" /\ l \in TextLinks
  /\ deliveries' = IF req[r].secret THEN [deliveries EXCEPT ![l] = @ + 1]
                                    ELSE deliveries
  /\ req' = [req EXCEPT ![r] = IdleRequest]
  /\ UNCHANGED <<now, db, expires, make, disk, adm, sweep, burned, raced, confirmed, crashes>>

(* serveClaimedFile opens the file and starts to stream it.                *)
OpenFile(r) ==
  LET l == req[r].link IN
  /\ req[r].pc = "claimed" /\ l \in FileLinks
  /\ req[r].path /\ OnDisk(l)
  /\ deliveries' = [deliveries EXCEPT ![l] = @ + 1]
  /\ req' = [req EXCEPT ![r].pc = "streaming"]
  /\ UNCHANGED <<now, db, expires, make, disk, adm, sweep, burned, raced, confirmed, crashes>>

(* The file is gone: the request ends at /expired, the item consumed.      *)
OpenMissing(r) ==
  /\ req[r].pc = "claimed" /\ req[r].link \in FileLinks
  /\ ~(req[r].path /\ OnDisk(req[r].link))
  /\ req' = [req EXCEPT ![r] = IdleRequest]
  /\ UNCHANGED <<now, db, expires, make, disk, adm, sweep, history, crashes>>

(* The stream ends or breaks off: either way the deferred Delete runs.     *)
EndDownload(r) ==
  /\ req[r].pc = "streaming"
  /\ disk' = [disk EXCEPT ![req[r].link] = NoFile]
  /\ req' = [req EXCEPT ![r] = IdleRequest]
  /\ UNCHANGED <<now, db, expires, make, adm, sweep, history, crashes>>

-----------------------------------------------------------------------------
(* Burning a link                                                          *)

(* store.Get; every record that exists may be burned, in any status.       *)
BurnLook(a, l) ==
  /\ adm[a] = IdleBurn
  /\ Exists(l)
  /\ adm' = [adm EXCEPT ![a] = [pc |-> "burn", link |-> l, path |-> db[l].path]]
  /\ UNCHANGED <<now, db, expires, make, disk, req, sweep, history, crashes>>

(* store.BurnItem; when its answer is lost the handler stops here.         *)
BurnItem(a) ==
  LET l == adm[a].link IN
  /\ adm[a].pc = "burn"
  /\ db' = [db EXCEPT ![l] = BurntRecord(l)]
  /\ burned' = burned \cup {l}
  /\ \E answered \in BOOLEAN :
        adm' = [adm EXCEPT ![a] = IF answered /\ @.path THEN [@ EXCEPT !.pc = "delete"]
                                                      ELSE IdleBurn]
  /\ UNCHANGED <<now, expires, make, disk, req, sweep, deliveries, raced, confirmed, crashes>>

(* BurnItem is not executed: the handler answers with an error.            *)
BurnFails(a) ==
  /\ adm[a].pc = "burn"
  /\ adm' = [adm EXCEPT ![a] = IdleBurn]
  /\ UNCHANGED <<now, db, expires, make, disk, req, sweep, history, crashes>>

(* The file named by the record the handler read first is deleted.         *)
BurnDelete(a) ==
  /\ adm[a].pc = "delete"
  /\ disk' = [disk EXCEPT ![adm[a].link] = NoFile]
  /\ adm' = [adm EXCEPT ![a] = IdleBurn]
  /\ UNCHANGED <<now, db, expires, make, req, sweep, history, crashes>>

-----------------------------------------------------------------------------
(* The cleanup goroutine                                                   *)

(* Mutant: the longest TTL, in seconds, is taken for nanoseconds.          *)
OlderThanAnHour(l) == disk[l] # NoFile /\ disk[l].mtime < now - Hour

(* The files a walk of the directory takes for old enough to remove.       *)
TooOld(l) == disk[l] # NoFile /\ disk[l].mtime < now - (MaxTTL + Hour)

(* The paths of ActiveStorageObjectPaths.                                  *)
ActivePaths == {l \in FileLinks : Live(l) /\ expires[l] > now /\ db[l].path}

(* CleanupOlderThan starts the cycle.                                      *)
CleanupOlderThan ==
  /\ cleaner = "idle"
  /\ cleaner' = "lookup"
  /\ disk' = [l \in FileLinks |-> IF TooOld(l) THEN NoFile ELSE disk[l]]
  /\ raced' = raced \cup {l \in FileLinks : TooOld(l) /\ Awaited(l)}
  /\ UNCHANGED <<now, db, expires, make, req, adm, active, pending,
                 deliveries, burned, confirmed, crashes>>

(* A key whose HGETALL fails is passed over.                               *)
LookupActive ==
  /\ cleaner = "lookup"
  /\ cleaner' = "list"
  /\ \E unread \in SUBSET ActivePaths :
        Cardinality(unread) <= MaxUnread /\ active' = ActivePaths \ unread
  /\ UNCHANGED <<now, db, expires, make, disk, req, adm, pending, history, crashes>>

(* Mutant: the goroutine returns where it should continue.                 *)
LookupStops ==
  /\ cleaner = "lookup"
  /\ cleaner' = "stopped"
  /\ UNCHANGED <<now, db, expires, make, disk, req, adm, active, pending, history, crashes>>

(* Redis cannot be read: the cycle ends.                                   *)
LookupFails ==
  /\ cleaner = "lookup"
  /\ cleaner' = "idle"
  /\ UNCHANGED <<now, db, expires, make, disk, req, adm, active, pending, history, crashes>>

(* CleanupOrphans: WalkDir reads the directory before it visits the .bin   *)
(* files in it.  The history notes the files it is about to remove although *)
(* a request is about to store them, or has, or is about to send them.      *)
ListFiles ==
  LET listed == {l \in FileLinks : OnDisk(l)} IN
  /\ cleaner = "list"
  /\ cleaner' = "walk"
  /\ pending' = listed
  /\ raced' = raced \cup
       {l \in listed \ active : make[l] = "written" \/ Live(l) \/ Awaited(l)}
  /\ UNCHANGED <<now, db, expires, make, disk, req, adm, active, deliveries, burned, confirmed, crashes>>

VisitFile(l) ==
  /\ cleaner = "walk" /\ l \in pending
  /\ pending' = pending \ {l}
  /\ disk' = [disk EXCEPT ![l] = IF l \in active THEN @ ELSE NoFile]
  /\ UNCHANGED <<now, db, expires, make, req, adm, cleaner, active, history, crashes>>

EndWalk ==
  /\ cleaner = "walk" /\ pending = {}
  /\ cleaner' = "idle" /\ active' = {}
  /\ UNCHANGED <<now, db, expires, make, disk, req, adm, pending, history, crashes>>

-----------------------------------------------------------------------------
(* Time and failure                                                        *)

Tick ==
  /\ now < Horizon
  /\ now' = now + 1
  /\ db' = [l \in Links |-> Evicted(l, now + 1)]
  /\ UNCHANGED <<expires, make, disk, req, adm, sweep, history, crashes>>

(* The server stops and starts again: requests and the cleanup cycle are   *)
(* lost, Redis and the directory stay as they are.                         *)
Crash ==
  /\ crashes < MaxCrashes
  /\ crashes' = crashes + 1
  /\ make' = [l \in Links |-> IF make[l] \in {"writing", "written", "stored"}
                              THEN "crashed" ELSE make[l]]
  /\ req' = [r \in Recipients |-> IdleRequest]
  /\ adm' = [a \in Admins |-> IdleBurn]
  /\ cleaner' = "idle" /\ active' = {} /\ pending' = {}
  /\ UNCHANGED <<now, db, expires, disk, history>>

-----------------------------------------------------------------------------
Create ==
  \/ \E l \in FileLinks : BeginFile(l) \/ WriteFile(l) \/ WriteFails(l)
                          \/ StoreFile(l) \/ StoreFileFails(l)
  \/ \E l \in TextLinks : StoreText(l)
  \/ \E l \in Links : AnswerCreator(l) \/ ConfirmBurn(l)

Open(r) ==
  \/ \E l \in Links : Look(r, l)
  \/ TurnAway(r) \/ Claim(r) \/ ClaimGone(r)
  \/ RevealText(r) \/ OpenFile(r) \/ OpenMissing(r) \/ EndDownload(r)

Burn(a) ==
  \/ \E l \in Links : BurnLook(a, l)
  \/ BurnItem(a) \/ BurnFails(a) \/ BurnDelete(a)

Cleanup ==
  \/ CleanupOlderThan \/ LookupActive \/ LookupFails
  \/ ListFiles \/ (\E l \in FileLinks : VisitFile(l)) \/ EndWalk

Next ==
  \/ Create
  \/ \E r \in Recipients : Open(r)
  \/ \E a \in Admins : Burn(a)
  \/ Cleanup
  \/ Tick
  \/ Crash

Spec == Init /\ [][Next]_vars

(* The cleanup goroutine is never stopped while the server runs, and Redis *)
(* does not refuse its lookup forever.                                     *)
Fairness ==
  /\ WF_vars(CleanupOlderThan) /\ SF_vars(LookupActive) /\ WF_vars(ListFiles)
  /\ \A l \in FileLinks : WF_vars(VisitFile(l))
  /\ WF_vars(EndWalk)

FairSpec == Spec /\ Fairness

-----------------------------------------------------------------------------
(* Properties                                                              *)

TypeOK ==
  /\ now \in Nat /\ crashes \in Nat
  /\ db \in [Links -> Record]
  /\ expires \in [Links -> Nat]
  /\ make \in [Links -> MakePhases]
  /\ disk \in [FileLinks -> File]
  /\ req \in [Recipients -> Opening \cup {IdleRequest}]
  /\ adm \in [Admins -> Burning \cup {IdleBurn}]
  /\ cleaner \in {"idle", "lookup", "list", "walk"}
  /\ active \subseteq FileLinks /\ pending \subseteq FileLinks
  /\ deliveries \in [Links -> Nat]
  /\ burned \subseteq Links /\ raced \subseteq FileLinks /\ confirmed \subseteq Links

(* Single use: however requests, burns, expiry, the cleanup and crashes    *)
(* interleave, what a link guards leaves the server at most once.          *)
SingleDelivery == \A l \in Links : deliveries[l] <= 1

(* The request that wins a claim is handed the wrapped key (and the path   *)
(* of the file) by the same step that deletes them from Redis, and from    *)
(* then on neither Redis nor another request holds them.                   *)
SecretHasOneHolder ==
  \A l \in Links : \A r \in Recipients :
    Holds(r, l) =>
      /\ req[r].secret /\ (l \in FileLinks => req[r].path)
      /\ ~db[l].secret /\ ~db[l].path
      /\ \A s \in Recipients \ {r} : ~(req[s].link = l /\ req[s].secret)

(* A record that is still to be claimed never outlives the ExpiresAt its   *)
(* creator was shown, although no handler that opens a link compares the   *)
(* two: they rely on the TTL of the key.                                   *)
NoLiveRecordOutlivesExpiry ==
  \A l \in Links : Live(l) => now < expires[l]

(* "Burn this link now? Recipients will no longer be able to open it.":    *)
(* once the creator has confirmed, no request wins a claim of the link.    *)
ConfirmedBurnEndsLink ==
  [][\A r \in Recipients, l \in confirmed : Holds(r, l)' => Holds(r, l)]_vars

(* A file that a live link or a request still needs is lost in two ways    *)
(* only: the cleanup took it for unreferenced, by a copy of the active     *)
(* paths made before the item was stored or claimed, or made without its   *)
(* key; or its request has kept a claim waiting for an hour and longer.    *)
(* A burn is the other thing that may take the file from a request.        *)
OnlyTheOrphanSweepLosesFiles ==
  \A l \in FileLinks :
    /\ Live(l) /\ make[l] # "failed" /\ l \notin raced => OnDisk(l)
    /\ Awaited(l) /\ l \notin raced \cup burned => OnDisk(l)

(* Burning is final: no request wins a claim of a link after an            *)
(* administrator burned it, whatever it had read before.                   *)
BurnIsFinal ==
  [][\A r \in Recipients, l \in burned : Holds(r, l)' => Holds(r, l)]_vars

(* The cleanup "removes expired objects and objects not referenced by      *)
(* active Redis metadata": no step takes the file from an item that is     *)
(* available before and after it.                                          *)
ReferencedFilesKept ==
  [][\A l \in FileLinks : Live(l) /\ OnDisk(l) => OnDisk(l)' \/ ~Live(l)']_vars

(* A file whose link can no longer be opened does not stay on the disk:    *)
(* the request that was answered, or else the cleanup, deletes it.         *)
Spent(l) ==
  OnDisk(l) /\ ~Live(l) /\ make[l] \in {"stored", "done", "rejected", "crashed"}
SpentFilesReclaimed == \A l \in FileLinks : Spent(l) ~> ~OnDisk(l)

-----------------------------------------------------------------------------
(* The links implement the abstract one-time link.                         *)

Phase(l) ==
  IF Live(l) THEN "open"
  ELSE IF Awaited(l) THEN "taken"
  ELSE IF make[l] \in Drafts THEN "draft"
  ELSE "gone"

Promise == INSTANCE OneTimeLink WITH
             phase <- [l \in Links |-> Phase(l)], opened <- deliveries

(* Every step of the handlers, the cleanup, the clock or a crash is a move *)
(* of the links' abstract life, or none.                                   *)
KeepsPromise == Promise!Spec
=============================================================================
