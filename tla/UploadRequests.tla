--------------------------- MODULE UploadRequests ---------------------------
(***************************************************************************)
(* Upload requests: a signed in user asks for a file (createUploadRequest),*)
(* anybody who has the link submits one (submitUploadRequest), the         *)
(* requester downloads it (downloadUploadRequestFile), an administrator    *)
(* may burn the request (adminBurnUploadRequest), Redis expires it.        *)
(* A submission is a sequence of calls to Redis and to the disk that claim *)
(* the request, create the item, and mark the request or release it; the   *)
(* other handlers, expiry and a crash may come between any two of them.    *)
(*                                                                         *)
(* HSET creates a key that does not exist: MarkUploadRequestUploaded,      *)
(* ReleaseUploadRequest and BurnUploadRequest, which call it alone, leave  *)
(* a partial hash without TTL when the request expired before.             *)
(***************************************************************************)
EXTENDS Naturals, FiniteSets

CONSTANTS
  Requests,    \* IDs of upload requests
  Uploads,     \* submissions; each names the item it may create
  Admins,      \* requests to burn that may run at once
  EmptyID,     \* the ID read from a hash that has no id field
  NoItem,      \* no uploaded_item_id
  MaxFaults    \* bound: crashes of the server, and submissions of which a
               \* failing call to the disk leaves something

ASSUME IDAssumption ==
  /\ EmptyID \notin Requests /\ NoItem \notin Uploads
  /\ MaxFaults \in Nat

Keys == Requests \cup {EmptyID}

VARIABLES
  rq,        \* the hash el:upload_request:<id> of every ID
  asked,     \* whether a request was created, and its link handed out
  up,        \* the submissions
  item,      \* the item of each submission, as ItemLinks leaves it
  file,      \* the submissions whose .bin file, or object, is stored
  temp,      \* the submissions whose .bin.tmp file is on the disk
  adm,       \* the request each burning administrator has looked at
  stuck,     \* history: requests whose submission could not release them
  burned,    \* history: requests an administrator burned
  atBurn,    \* history: the submissions that held a request at its last burn,
             \* until they release it
  reopened,  \* history: requests that one of these released after it
  unclean,   \* history: submissions left by a failing call to the disk with
             \* something on it
  unburned,  \* history: submissions whose BurnItem was not executed
  crashes    \* crashes so far

burns   == <<burned, atBurn, reopened>>
history == <<stuck, burns, unclean, unburned>>
disk    == <<file, temp>>

vars == <<rq, asked, up, item, disk, adm, history, crashes>>

-----------------------------------------------------------------------------
(* full: the hash has the fields CreateUploadRequest wrote, id,            *)
(* requested_by and expires_at among them.  ttl: the key has a TTL.        *)
Record == [status : {"none", "available", "uploading", "uploaded", "consumed"},
           item : Uploads \cup {NoItem}, full : BOOLEAN, ttl : BOOLEAN]

NoRecord == [status |-> "none", item |-> NoItem, full |-> FALSE, ttl |-> FALSE]

Exists(k) == rq[k].status # "none"

(* HSET of a key: the other fields, and the TTL, stay as they are.         *)
SetStatus(k, s) == [rq EXCEPT ![k].status = s]

(* availableUploadRequest, and the test of the administrator's list: a     *)
(* hash without expires_at counts as expired.                              *)
Viewable(q) == rq[q].status = "available" /\ rq[q].full
Listed(q)   == Viewable(q)

(* Mutant: the claim script leaves out its status test.                    *)
ClaimableInAnyStatus(q) == Exists(q)

(* The claim script tests the status alone.                                *)
Claimable(q) == rq[q].status = "available"

UploadPCs == {"none", "ready", "refused", "claimed", "written", "stored", "done",
              "release", "unmark", "unstore", "delete", "failed", "crashed"}
Running   == UploadPCs \ {"none", "refused", "done", "failed", "crashed"}

(* A submission that has claimed its request and not finished with it.     *)
Active(u) == up[u].pc \in {"claimed", "written", "stored", "release", "unmark"}

(* A submission that has the request for itself: it works on it, or its    *)
(* upload was accepted.                                                    *)
Holds(u) == Active(u) \/ up[u].pc = "done"

(* The item the requester is offered: uploadRequestStatus reports it, and  *)
(* downloadUploadRequestFile claims it.                                    *)
Offers(q, u) == rq[q].full /\ rq[q].item = u /\ item[u] = "live"

Init ==
  /\ rq = [k \in Keys |-> NoRecord]
  /\ asked = [q \in Requests |-> "no"]
  /\ up = [u \in Uploads |-> [pc |-> "none", link |-> EmptyID, id |-> EmptyID]]
  /\ item = [u \in Uploads |-> "none"]
  /\ file = {} /\ temp = {}
  /\ adm = [a \in Admins |-> EmptyID]
  /\ stuck = {} /\ burned = {} /\ atBurn = {} /\ reopened = {}
  /\ unclean = {} /\ unburned = {}
  /\ crashes = 0

Goto(u, pc) == up' = [up EXCEPT ![u].pc = pc]

-----------------------------------------------------------------------------
(* CreateUploadRequest, then the e-mail that carries the link; when it     *)
(* cannot be sent the handler answers with an error and keeps the record.  *)
CreateRequest(q) ==
  /\ asked[q] = "no"
  /\ rq' = [rq EXCEPT ![q] = [status |-> "available", item |-> NoItem,
                              full |-> TRUE, ttl |-> TRUE]]
  /\ \E outcome \in {"sent", "unsent"} : asked' = [asked EXCEPT ![q] = outcome]
  /\ UNCHANGED <<up, item, disk, adm, history, crashes>>

(* availableUploadRequest; the form is then read, which takes as long as   *)
(* the client takes to send the file.                                      *)
Look(u, q) ==
  /\ up[u].pc = "none"
  /\ asked[q] = "sent" /\ Viewable(q)
  /\ up' = [up EXCEPT ![u] = [pc |-> "ready", link |-> q, id |-> q]]
  /\ UNCHANGED <<rq, asked, item, disk, adm, history, crashes>>

(* No usable file in the form, not enough disk space, or a claim that does *)
(* not reach Redis.                                                        *)
Refuse(u) ==
  /\ up[u].pc = "ready"
  /\ Goto(u, "refused")
  /\ UNCHANGED <<rq, asked, item, disk, adm, history, crashes>>

(* ClaimUploadRequest wins.  From here on the handler uses the id it finds *)
(* in the hash.  When the answer is lost the handler redirects to /expired *)
(* and the request stays "uploading".                                      *)
Claim(u) ==
  LET q == up[u].link IN
  /\ up[u].pc = "ready" /\ Claimable(q)
  /\ rq' = SetStatus(q, "uploading")
  /\ \/ /\ up' = [up EXCEPT ![u].pc = "claimed", ![u].id = IF rq[q].full THEN q ELSE EmptyID]
        /\ UNCHANGED stuck
     \/ Goto(u, "refused") /\ stuck' = stuck \cup {q}
  /\ UNCHANGED <<asked, item, disk, adm, burns, unclean, unburned, crashes>>

ClaimGone(u) ==
  /\ up[u].pc = "ready" /\ ~Claimable(up[u].link)
  /\ Goto(u, "refused")
  /\ UNCHANGED <<rq, asked, item, disk, adm, history, crashes>>

-----------------------------------------------------------------------------
(* newUploadedFileItem.  Calls to the disk, or to S3, that fail may leave  *)
(* something: os.WriteFile its temporary file, which Local.Write does not  *)
(* remove, a put its object, and Delete, which tells nobody, the file.     *)

Leaves(u) ==
  /\ crashes + Cardinality(unclean \cup {u}) <= MaxFaults
  /\ unclean' = unclean \cup {u}

WriteFile(u) ==
  /\ up[u].pc = "claimed"
  /\ \/ Goto(u, "written") /\ file' = file \cup {u} /\ UNCHANGED <<temp, unclean>>
     \/ Goto(u, "release") /\ UNCHANGED <<disk, unclean>>
     \/ Goto(u, "release") /\ Leaves(u) /\ temp' = temp \cup {u} /\ UNCHANGED file
     \/ Goto(u, "release") /\ Leaves(u) /\ file' = file \cup {u} /\ UNCHANGED temp
  /\ UNCHANGED <<rq, asked, item, adm, stuck, burns, unburned, crashes>>

(* Local.Delete and S3.Delete.                                             *)
Delete(u) ==
  \/ file' = file \ {u} /\ UNCHANGED <<temp, unclean>>
  \/ Leaves(u) /\ UNCHANGED disk

StoreItem(u) ==
  /\ up[u].pc = "written"
  /\ Goto(u, "stored")
  /\ item' = [item EXCEPT ![u] = "live"]
  /\ UNCHANGED <<rq, asked, disk, adm, history, crashes>>

(* store.Create reports an error, executed or not; the file is deleted.    *)
StoreItemFails(u) ==
  /\ up[u].pc = "written"
  /\ Goto(u, "release")
  /\ \E executed \in BOOLEAN :
       item' = IF executed THEN [item EXCEPT ![u] = "live"] ELSE item
  /\ Delete(u)
  /\ UNCHANGED <<rq, asked, adm, stuck, burns, unburned, crashes>>

-----------------------------------------------------------------------------
(* Mutant: the IDs of the request and the item are swapped.                *)
MarkedSwapped(u) == [rq EXCEPT ![up[u].id].status = "uploaded", ![up[u].id].item = up[u].link]

(* Mutant: a deferred release runs after the mark, too.                    *)
MarkedThenReleased(u) == [rq EXCEPT ![up[u].id].status = "available", ![up[u].id].item = u]

(* The hash after MarkUploadRequestUploaded.                               *)
Marked(u) == [rq EXCEPT ![up[u].id].status = "uploaded", ![up[u].id].item = u]

Mark(u) ==
  /\ up[u].pc = "stored"
  /\ Goto(u, "done")
  /\ rq' = Marked(u)
  /\ UNCHANGED <<asked, item, disk, adm, history, crashes>>

(* MarkUploadRequestUploaded reports an error, executed or not; what was   *)
(* done so far is undone in three calls.                                   *)
MarkFails(u) ==
  /\ up[u].pc = "stored"
  /\ Goto(u, "unmark")
  /\ \E executed \in BOOLEAN : rq' = IF executed THEN Marked(u) ELSE rq
  /\ UNCHANGED <<asked, item, disk, adm, history, crashes>>

(* Mutant: a submission that fails is not released.                        *)
ReleaseForgotten(u) ==
  /\ up[u].pc \in {"release", "unmark"}
  /\ Goto(u, IF up[u].pc = "unmark" THEN "unstore" ELSE "failed")
  /\ UNCHANGED <<rq, asked, item, disk, adm, history, crashes>>

(* Mutant: the undoing releases the request and goes on to delete the      *)
(* file.                                                                   *)
ReleaseWithoutBurn(u) ==
  /\ up[u].pc \in {"release", "unmark"}
  /\ Goto(u, IF up[u].pc = "unmark" THEN "delete" ELSE "failed")
  /\ rq' = SetStatus(up[u].id, "available")
  /\ UNCHANGED <<asked, item, disk, adm, history, crashes>>

(* ReleaseUploadRequest, whose error is ignored, as part of the undoing or *)
(* alone.                                                                  *)
Release(u) ==
  /\ up[u].pc \in {"release", "unmark"}
  /\ Goto(u, IF up[u].pc = "unmark" THEN "unstore" ELSE "failed")
  /\ \/ /\ rq' = SetStatus(up[u].id, "available")
        /\ reopened' = IF u \in atBurn THEN reopened \cup {up[u].id} ELSE reopened
        /\ UNCHANGED stuck
     \/ /\ stuck' = stuck \cup {up[u].link}
        /\ UNCHANGED <<rq, reopened>>
  /\ atBurn' = atBurn \ {u}
  /\ UNCHANGED <<asked, item, disk, adm, burned, unclean, unburned, crashes>>

(* BurnItem, whose error is ignored too.                                   *)
BurnItem(u) ==
  /\ up[u].pc = "unstore"
  /\ Goto(u, "delete")
  /\ \/ item' = [item EXCEPT ![u] = "spent"] /\ UNCHANGED unburned
     \/ unburned' = unburned \cup {u} /\ UNCHANGED item
  /\ UNCHANGED <<rq, asked, disk, adm, stuck, burns, unclean, crashes>>

DeleteFile(u) ==
  /\ up[u].pc = "delete"
  /\ Goto(u, "failed")
  /\ Delete(u)
  /\ UNCHANGED <<rq, asked, item, adm, stuck, burns, unburned, crashes>>

-----------------------------------------------------------------------------
(* downloadUploadRequestFile, from the look at the request to the deferred *)
(* Delete: the item is claimed and its file sent and deleted.  ItemLinks   *)
(* has the interleavings of these steps, and the cleanup that takes what   *)
(* they leave.                                                             *)
Download(q, u) ==
  /\ Offers(q, u)
  /\ item' = [item EXCEPT ![u] = "spent"]
  /\ Delete(u)
  /\ UNCHANGED <<rq, asked, up, adm, stuck, burns, unburned, crashes>>

(* The item expires, is burned by its own link or opened through it: its   *)
(* file goes with it, at once or by the cleanup.                           *)
ItemEnds(u) ==
  /\ item[u] = "live"
  /\ item' = [item EXCEPT ![u] = "spent"]
  /\ Delete(u)
  /\ UNCHANGED <<rq, asked, up, adm, stuck, burns, unburned, crashes>>

(* adminBurnUploadRequest: GetUploadRequest, then BurnUploadRequest.       *)
BurnLook(a, q) ==
  /\ adm[a] = EmptyID
  /\ Exists(q)
  /\ adm' = [adm EXCEPT ![a] = q]
  /\ UNCHANGED <<rq, asked, up, item, disk, history, crashes>>

(* Mutant: the burn clears the item of the request as BurnItem clears the  *)
(* fields of an item.                                                      *)
BurnRequestAndItem(a) ==
  LET q == adm[a] IN
  /\ q # EmptyID
  /\ rq' = [rq EXCEPT ![q].status = "consumed", ![q].item = NoItem]
  /\ adm' = [adm EXCEPT ![a] = EmptyID]
  /\ burned' = burned \cup {q}
  /\ UNCHANGED <<asked, up, item, disk, stuck, atBurn, reopened, unclean, unburned, crashes>>

BurnRequest(a) ==
  LET q == adm[a] IN
  /\ q # EmptyID
  /\ rq' = SetStatus(q, "consumed")
  /\ adm' = [adm EXCEPT ![a] = EmptyID]
  /\ burned' = burned \cup {q}
  /\ atBurn' = {u \in Uploads : IF up[u].link = q THEN Holds(u) ELSE u \in atBurn}
  /\ reopened' = reopened \ {q}
  /\ UNCHANGED <<asked, up, item, disk, stuck, unclean, unburned, crashes>>

(* BurnUploadRequest is not executed: the handler answers with an error.   *)
BurnFails(a) ==
  /\ adm[a] # EmptyID
  /\ adm' = [adm EXCEPT ![a] = EmptyID]
  /\ UNCHANGED <<rq, asked, up, item, disk, history, crashes>>

-----------------------------------------------------------------------------
(* The TTL of a key runs out.                                              *)
Expire(k) ==
  /\ rq[k].ttl
  /\ rq' = [rq EXCEPT ![k] = NoRecord]
  /\ UNCHANGED <<asked, up, item, disk, adm, history, crashes>>

(* The server stops.  A file that was being written stays as its temporary *)
(* file.                                                                   *)
Crash ==
  /\ crashes + Cardinality(unclean) < MaxFaults
  /\ crashes' = crashes + 1
  /\ up' = [u \in Uploads |-> IF up[u].pc \in Running THEN [up[u] EXCEPT !.pc = "crashed"]
                                                     ELSE up[u]]
  /\ stuck' = stuck \cup {up[u].link : u \in {v \in Uploads : Active(v)}}
  /\ adm' = [a \in Admins |-> EmptyID]
  /\ \E T \in SUBSET {u \in Uploads : up[u].pc = "claimed"} : temp' = temp \cup T
  /\ UNCHANGED <<rq, asked, item, file, burns, unclean, unburned>>

Submit(u) ==
  \/ \E q \in Requests : Look(u, q)
  \/ Refuse(u) \/ Claim(u) \/ ClaimGone(u)
  \/ WriteFile(u) \/ StoreItem(u) \/ StoreItemFails(u)
  \/ Mark(u) \/ MarkFails(u) \/ Release(u) \/ BurnItem(u) \/ DeleteFile(u)

Next ==
  \/ \E q \in Requests : CreateRequest(q)
  \/ \E u \in Uploads : Submit(u)
  \/ \E q \in Requests, u \in Uploads : Download(q, u)
  \/ \E u \in Uploads : ItemEnds(u)
  \/ \E a \in Admins, q \in Requests : BurnLook(a, q)
  \/ \E a \in Admins : BurnRequest(a) \/ BurnFails(a)
  \/ \E k \in Keys : Expire(k)
  \/ Crash

Spec == Init /\ [][Next]_vars

-----------------------------------------------------------------------------
(* Properties                                                              *)

TypeOK ==
  /\ rq \in [Keys -> Record]
  /\ asked \in [Requests -> {"no", "sent", "unsent"}]
  /\ up \in [Uploads -> [pc : UploadPCs, link : Keys, id : Keys]]
  /\ item \in [Uploads -> {"none", "live", "spent"}]
  /\ file \subseteq Uploads /\ temp \subseteq Uploads
  /\ adm \in [Admins -> Keys]
  /\ stuck \subseteq Requests /\ burned \subseteq Requests /\ reopened \subseteq Keys
  /\ atBurn \subseteq Uploads /\ unclean \subseteq Uploads /\ unburned \subseteq Uploads
  /\ crashes \in Nat

(* One submission at a time: between its claim and its mark or release, a  *)
(* submission shares its request with no other, even when the request      *)
(* expires or is burned under it.                                          *)
ExclusiveUpload ==
  \A u, v \in Uploads :
    u # v /\ Active(u) /\ Active(v) => up[u].link # up[v].link

(* A request is "uploading" only while a submission works on it; only a    *)
(* crash or a failing call to Redis leaves it so.                          *)
UploadingHasUploader ==
  \A q \in Requests :
    rq[q].status = "uploading" /\ rq[q].full =>
      q \in stuck \/ \E u \in Uploads : Active(u) /\ up[u].link = q

(* "Use this secure link to upload one file": of all submissions to a      *)
(* request, at most one is told that its upload is complete.               *)
OneAcceptedUpload ==
  \A u, v \in Uploads :
    u # v /\ up[u].pc = "done" /\ up[v].pc = "done" => up[u].link # up[v].link

(* An accepted upload stays the one its requester is offered for as long   *)
(* as the request exists: nothing that happens to the request later, a     *)
(* burn included, detaches the file or opens the request again.            *)
AcceptedStaysAttached ==
  \A u \in Uploads : LET q == up[u].link IN
    up[u].pc = "done" /\ rq[q].full =>
      rq[q].item = u /\ rq[q].status \in {"uploaded", "consumed"}

(* A burn does not stop the submission that holds the request: its mark    *)
(* still takes it for the requester, and its release opens the request to  *)
(* others.  Nothing else opens a burned request, and no submission but     *)
(* that one holds it or is accepted after the burn.                        *)
BurnedStaysClosed ==
  \A q \in burned \ reopened :
    /\ ~Claimable(q)
    /\ \A u \in Uploads : Holds(u) /\ up[u].link = q => u \in atBurn

(* What a submission that was answered with an error has done is undone:   *)
(* its file is gone, unless a call to the disk failed it, and the          *)
(* requester, whose request may name the item although the mark reported   *)
(* an error, is not offered it, unless the item could not be burned.       *)
FailedUploadIsUndone ==
  \A u \in Uploads : up[u].pc = "failed" =>
    /\ u \in file \cup temp => u \in unclean
    /\ \A q \in Requests : Offers(q, u) => u \in unburned

(* The administrator's list shows links "that have not been burned or      *)
(* expired".                                                               *)
BurnedIsNotListed ==
  \A q \in Requests : Listed(q) => q \notin burned
=============================================================================
