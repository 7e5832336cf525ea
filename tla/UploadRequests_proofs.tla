----------------------- MODULE UploadRequests_proofs -----------------------
(***************************************************************************)
(* What UploadRequests guarantees for any number of requests, submissions, *)
(* administrators and crashes.                                             *)
(***************************************************************************)
EXTENDS UploadRequests, TLAPS

(* A submission knows a request by the link that was sent out for it, and  *)
(* writes to that request or, having claimed a partial hash, to no other.  *)
LinksWereSent ==
  \A u \in Uploads : up[u].pc # "none" =>
    /\ up[u].link \in Requests /\ asked[up[u].link] # "no"
    /\ up[u].id \in {up[u].link, EmptyID}

(* Nothing is known of a request before it is made.                        *)
UnaskedIsUnknown ==
  \A q \in Requests : asked[q] = "no" =>
    rq[q] = NoRecord /\ q \notin burned /\ \A a \in Admins : adm[a] # q

(* Neither ExclusiveUpload nor OneAcceptedUpload is inductive.  Together   *)
(* they are, with the fact that a request somebody holds cannot be         *)
(* claimed: what makes it available again is the release by its holder.    *)
HoldersApart ==
  \A u, v \in Uploads : u # v /\ Holds(u) /\ Holds(v) => up[u].link # up[v].link
HeldIsClosed ==
  \A u \in Uploads : Holds(u) => ~Claimable(up[u].link)

(* A hash without an ID stays one.                                         *)
PartialStaysPartial ==
  \A u \in Uploads : Holds(u) /\ up[u].id = EmptyID => ~rq[up[u].link].full

(* Files belong to submissions between the write and the answer, and       *)
(* temporary files to those a crash ended, or failing calls left them.     *)
FilesHaveItems ==
  /\ \A u \in file : u \in unclean \/
       up[u].pc \in {"written", "stored", "unmark", "unstore", "delete", "done", "crashed"}
  /\ \A u \in temp : u \in unclean \/ up[u].pc = "crashed"

(* A request names the item of a submission only once it was marked; from  *)
(* the burn of the undoing on, the item is spent or the burn failed.       *)
ItemsWereMarked ==
  \A k \in Keys, u \in Uploads : rq[k].item = u =>
    \/ up[u].pc \in {"done", "unmark", "unstore", "crashed"}
    \/ up[u].pc \in {"delete", "failed"} /\ (item[u] # "live" \/ u \in unburned)

Leftovers == FilesHaveItems /\ ItemsWereMarked

Inv ==
  /\ TypeOK /\ LinksWereSent /\ UnaskedIsUnknown /\ HoldersApart /\ HeldIsClosed
  /\ PartialStaysPartial /\ AcceptedStaysAttached /\ BurnedStaysClosed
  /\ Leftovers /\ UploadingHasUploader

-----------------------------------------------------------------------------
(* Type correctness                                                        *)

LEMMA TypeInit == Init => TypeOK
  BY IDAssumption DEF Init, TypeOK, Keys, Record, NoRecord, UploadPCs

(* HSET of a status, and of a status and an item, keeps the hash a hash.   *)
LEMMA StatusType ==
  ASSUME TypeOK, NEW k \in Keys,
         NEW s \in {"available", "uploading", "uploaded", "consumed"}
  PROVE  SetStatus(k, s) \in [Keys -> Record]
<1>1. rq \in [Keys -> Record]
  BY DEF TypeOK
<1>2. [rq[k] EXCEPT !.status = s] \in Record
  BY <1>1 DEF Record
<1> QED
  BY <1>1, <1>2 DEF SetStatus

LEMMA MarkedType ==
  ASSUME TypeOK, NEW u \in Uploads
  PROVE  Marked(u) \in [Keys -> Record]
<1>1. rq \in [Keys -> Record] /\ up[u].id \in Keys
  BY DEF TypeOK
<1>2. [rq[up[u].id] EXCEPT !.status = "uploaded", !.item = u] \in Record
  BY <1>1 DEF Record
<1> QED
  BY <1>1, <1>2 DEF Marked

LEMMA TypeSubmit ==
  ASSUME TypeOK, NEW u \in Uploads, Submit(u), LinksWereSent
  PROVE  TypeOK'
<1> USE DEF TypeOK, Goto, history, burns, disk, Leaves, Delete, LinksWereSent
<1>1. ASSUME NEW q \in Requests, Look(u, q) PROVE TypeOK'
  BY <1>1 DEF Look, Keys, UploadPCs
<1>2. CASE Refuse(u)
  BY <1>2 DEF Refuse, UploadPCs
<1>3. CASE Claim(u)
  <2>1. up' \in [Uploads -> [pc : UploadPCs, link : Keys, id : Keys]]
    BY <1>3 DEF Claim, Keys, UploadPCs
  <2>2. rq' \in [Keys -> Record]
    BY <1>3, StatusType DEF Claim
  <2>3. stuck' \subseteq Requests
    BY <1>3 DEF Claim
  <2> QED
    BY <1>3, <2>1, <2>2, <2>3 DEF Claim
<1>4. CASE ClaimGone(u)
  BY <1>4 DEF ClaimGone, UploadPCs
<1>5. CASE WriteFile(u)
  <2>1. PICK pc \in UploadPCs : up' = [up EXCEPT ![u].pc = pc]
    BY <1>5 DEF WriteFile, UploadPCs
  <2>2. file' \subseteq Uploads /\ temp' \subseteq Uploads /\ unclean' \subseteq Uploads
    BY <1>5 DEF WriteFile
  <2> QED
    BY <1>5, <2>1, <2>2 DEF WriteFile
<1>6. CASE StoreItem(u)
  BY <1>6 DEF StoreItem, UploadPCs
<1>7. CASE StoreItemFails(u)
  BY <1>7 DEF StoreItemFails, UploadPCs
<1>8. CASE Mark(u)
  BY <1>8, MarkedType DEF Mark, UploadPCs
<1>9. CASE MarkFails(u)
  BY <1>9, MarkedType DEF MarkFails, UploadPCs
<1>10. CASE Release(u)
  <2>1. rq' \in [Keys -> Record]
    BY <1>10, StatusType DEF Release
  <2>2. up' \in [Uploads -> [pc : UploadPCs, link : Keys, id : Keys]]
    BY <1>10 DEF Release, UploadPCs
  <2>3. stuck' \subseteq Requests /\ reopened' \subseteq Keys /\ atBurn' \subseteq Uploads
    BY <1>10 DEF Release
  <2> QED
    BY <1>10, <2>1, <2>2, <2>3 DEF Release
<1>11. CASE BurnItem(u)
  <2>1. up' = [up EXCEPT ![u].pc = "delete"] /\ "delete" \in UploadPCs
    BY <1>11 DEF BurnItem, UploadPCs
  <2>2. item' \in [Uploads -> {"none", "live", "spent"}] /\ unburned' \subseteq Uploads
    BY <1>11 DEF BurnItem
  <2>3. up' \in [Uploads -> [pc : UploadPCs, link : Keys, id : Keys]]
    BY <2>1
  <2> QED
    BY <1>11, <2>2, <2>3 DEF BurnItem
<1>12. CASE DeleteFile(u)
  BY <1>12 DEF DeleteFile, UploadPCs
<1> QED
  BY <1>1, <1>2, <1>3, <1>4, <1>5, <1>6, <1>7, <1>8, <1>9, <1>10, <1>11, <1>12 DEF Submit
LEMMA TypeOthers ==
  ASSUME TypeOK, LinksWereSent, [Next]_vars, ~\E u \in Uploads : Submit(u)
  PROVE  TypeOK'
<1> USE DEF TypeOK, history, burns, disk, Leaves, Delete
<1>1. ASSUME NEW q \in Requests, CreateRequest(q) PROVE TypeOK'
  <2>1. [status |-> "available", item |-> NoItem, full |-> TRUE, ttl |-> TRUE] \in Record
    BY DEF Record
  <2> QED
    BY <1>1, <2>1 DEF CreateRequest, Keys
<1>2. ASSUME NEW q \in Requests, NEW u \in Uploads, Download(q, u) PROVE TypeOK'
  BY <1>2 DEF Download
<1>3. ASSUME NEW u \in Uploads, ItemEnds(u) PROVE TypeOK'
  BY <1>3 DEF ItemEnds
<1>4. ASSUME NEW a \in Admins, NEW q \in Requests, BurnLook(a, q) PROVE TypeOK'
  BY <1>4 DEF BurnLook, Keys
<1>5. ASSUME NEW a \in Admins, BurnRequest(a) PROVE TypeOK'
  <2>1. adm[a] \in Requests
    BY <1>5 DEF BurnRequest, Keys
  <2>2. rq' \in [Keys -> Record]
    BY <1>5, StatusType DEF BurnRequest
  <2> QED
    BY <1>5, <2>1, <2>2 DEF BurnRequest, Keys
<1>6. ASSUME NEW a \in Admins, BurnFails(a) PROVE TypeOK'
  BY <1>6 DEF BurnFails, Keys
<1>7. ASSUME NEW k \in Keys, Expire(k) PROVE TypeOK'
  <2>1. NoRecord \in Record
    BY DEF Record, NoRecord
  <2> QED
    BY <1>7, <2>1 DEF Expire
<1>8. CASE Crash
  <2>1. up' \in [Uploads -> [pc : UploadPCs, link : Keys, id : Keys]]
    BY <1>8 DEF Crash, UploadPCs
  <2>2. stuck' \subseteq Requests
    BY <1>8 DEF Crash, LinksWereSent, Active
  <2> QED
    BY <1>8, <2>1, <2>2 DEF Crash, Keys
<1>9. CASE UNCHANGED vars
  BY <1>9 DEF vars
<1> QED
  BY <1>1, <1>2, <1>3, <1>4, <1>5, <1>6, <1>7, <1>8, <1>9 DEF Next
-----------------------------------------------------------------------------
(* The invariant is kept                                                   *)

LEMMA InvInit == Init => Inv
<1> SUFFICES ASSUME Init PROVE Inv
  OBVIOUS
<1>1. TypeOK
  BY TypeInit
<1>2. \A u \in Uploads : up[u].pc = "none"
  BY DEF Init
<1>3. \A k \in Keys : rq[k] = NoRecord
  BY DEF Init
<1>4. LinksWereSent /\ HoldersApart /\ HeldIsClosed /\ PartialStaysPartial
  BY <1>2 DEF LinksWereSent, HoldersApart, HeldIsClosed, PartialStaysPartial, Holds, Active
<1>5. UnaskedIsUnknown
  BY <1>3, IDAssumption DEF UnaskedIsUnknown, Init, Keys
<1>6. AcceptedStaysAttached /\ BurnedStaysClosed
  BY <1>2 DEF AcceptedStaysAttached, BurnedStaysClosed, Init
<1>8. Leftovers
  BY <1>3, IDAssumption DEF Leftovers, FilesHaveItems, ItemsWereMarked, Init, NoRecord
<1>7. UploadingHasUploader
  BY <1>3 DEF UploadingHasUploader, NoRecord, Keys
<1> QED
  BY <1>1, <1>4, <1>5, <1>6, <1>7, <1>8 DEF Inv

(* A step that writes to no request, in which nobody comes to hold one,    *)
(* and the requests of those who give up are marked as stuck.              *)
LEMMA QuietFrame ==
  ASSUME Inv, TypeOK', LinksWereSent', Leftovers',
         UNCHANGED <<rq, asked, burns>>, stuck \subseteq stuck',
         \A a \in Admins, q \in Requests : adm'[a] = q => asked[q] # "no",
         \A u \in Uploads :
           /\ Holds(u)' => up'[u].link = up[u].link /\ up'[u].id = up[u].id
           /\ Active(u)' => Active(u)
           /\ up'[u].pc = "done" => up[u].pc = "done"
           /\ Active(u) => \/ Active(u)' /\ up'[u].link = up[u].link
                           \/ up[u].link \in stuck'
  PROVE  Inv'
<1> USE DEF Inv, Holds
<1>1. UnaskedIsUnknown'
  BY DEF UnaskedIsUnknown, burns
<1>2. HoldersApart' /\ HeldIsClosed' /\ PartialStaysPartial'
  BY DEF HoldersApart, HeldIsClosed, PartialStaysPartial, Claimable
<1>3. AcceptedStaysAttached'
  BY DEF AcceptedStaysAttached
<1>4. BurnedStaysClosed'
  BY DEF BurnedStaysClosed, Claimable, burns
<1>5. UploadingHasUploader'
  BY DEF UploadingHasUploader
<1> QED
  BY <1>1, <1>2, <1>3, <1>4, <1>5

(* After a Delete the file is gone, or noted; the temporary files and the  *)
(* files of others are as before.                                          *)
LEMMA DeleteKeeps ==
  ASSUME TypeOK, NEW u \in Uploads, Delete(u)
  PROVE  /\ file' \subseteq file /\ temp' = temp
         /\ unclean \subseteq unclean'
         /\ u \in file' => u \in unclean'
  BY DEF Delete, Leaves, TypeOK, disk

(* The steps of a submission between the calls that write to its request.  *)
LEMMA InvUploading ==
  ASSUME Inv, TypeOK', NEW u \in Uploads,
         \/ \E q \in Requests : Look(u, q)
         \/ Refuse(u) \/ ClaimGone(u) \/ WriteFile(u) \/ StoreItem(u) \/ StoreItemFails(u)
         \/ BurnItem(u) \/ DeleteFile(u)
  PROVE  Inv'
<1> USE DEF Inv, Goto, history
<1>t. /\ up \in [Uploads -> [pc : UploadPCs, link : Keys, id : Keys]]
      /\ item \in [Uploads -> {"none", "live", "spent"}]
      /\ file \subseteq Uploads /\ temp \subseteq Uploads
  BY DEF TypeOK
<1>1. ASSUME NEW q \in Requests, Look(u, q) PROVE Inv'
  <2>1. LinksWereSent'
    BY <1>1, <1>t DEF Look, LinksWereSent
  <2>2. FilesHaveItems' /\ ItemsWereMarked'
    BY <1>1, <1>t DEF Look, Leftovers, FilesHaveItems, ItemsWereMarked, disk
  <2> QED
    BY <1>1, <1>t, <2>1, <2>2, QuietFrame DEF Look, Leftovers, Holds, Active, UnaskedIsUnknown
<1>2. ASSUME Refuse(u) \/ ClaimGone(u) PROVE Inv'
  <2>1. LinksWereSent'
    BY <1>2, <1>t DEF Refuse, ClaimGone, LinksWereSent
  <2>2. FilesHaveItems' /\ ItemsWereMarked'
    BY <1>2, <1>t DEF Refuse, ClaimGone, Leftovers, FilesHaveItems, ItemsWereMarked, disk
  <2> QED
    BY <1>2, <1>t, <2>1, <2>2, QuietFrame
    DEF Refuse, ClaimGone, Leftovers, Holds, Active, UnaskedIsUnknown
<1>3. ASSUME WriteFile(u) \/ StoreItem(u) \/ StoreItemFails(u) PROVE Inv'
  <2>1. LinksWereSent'
    BY <1>3, <1>t DEF WriteFile, StoreItem, StoreItemFails, LinksWereSent
  <2>2. FilesHaveItems'
    <3>1. CASE WriteFile(u)
      BY <1>t, <3>1 DEF WriteFile, Leaves, Leftovers, FilesHaveItems, disk
    <3>2. CASE StoreItem(u)
      BY <1>t, <3>2 DEF StoreItem, Leftovers, FilesHaveItems, disk
    <3>3. CASE StoreItemFails(u)
      BY <1>t, <3>3, DeleteKeeps DEF StoreItemFails, Leftovers, FilesHaveItems
    <3> QED
      BY <1>3, <3>1, <3>2, <3>3
  <2>3. ItemsWereMarked'
    BY <1>3, <1>t DEF WriteFile, StoreItem, StoreItemFails, Leftovers, ItemsWereMarked
  <2> QED
    BY <1>3, <1>t, <2>1, <2>2, <2>3, QuietFrame
    DEF WriteFile, StoreItem, StoreItemFails, Leftovers, Holds, Active, UnaskedIsUnknown
<1>4. ASSUME BurnItem(u) \/ DeleteFile(u) PROVE Inv'
  <2>1. LinksWereSent'
    BY <1>4, <1>t DEF BurnItem, DeleteFile, LinksWereSent
  <2>2. FilesHaveItems'
    <3>1. CASE BurnItem(u)
      BY <1>t, <3>1 DEF BurnItem, Leftovers, FilesHaveItems, disk
    <3>2. CASE DeleteFile(u)
      BY <1>t, <3>2, DeleteKeeps DEF DeleteFile, Leftovers, FilesHaveItems
    <3> QED
      BY <1>4, <3>1, <3>2
  <2>3. ItemsWereMarked'
    BY <1>4, <1>t DEF BurnItem, DeleteFile, Leftovers, ItemsWereMarked
  <2> QED
    BY <1>4, <1>t, <2>1, <2>2, <2>3, QuietFrame
    DEF BurnItem, DeleteFile, Leftovers, Holds, Active, UnaskedIsUnknown
<1> QED
  BY <1>1, <1>2, <1>3, <1>4

(* The steps of the others that write to no request.                       *)
LEMMA InvAround ==
  ASSUME Inv, TypeOK',
         \/ \E q \in Requests, u \in Uploads : Download(q, u)
         \/ \E u \in Uploads : ItemEnds(u)
         \/ \E a \in Admins, q \in Requests : BurnLook(a, q)
         \/ \E a \in Admins : BurnFails(a)
         \/ Crash
         \/ UNCHANGED vars
  PROVE  Inv'
<1> USE DEF Inv, history
<1>1. ASSUME NEW q \in Requests, NEW u \in Uploads, Download(q, u) PROVE Inv'
  <2>1. LinksWereSent'
    BY <1>1 DEF Download, LinksWereSent
  <2>2. FilesHaveItems'
    BY <1>1 DEF Download, Delete, Leaves, Leftovers, FilesHaveItems, disk
  <2>3. ItemsWereMarked'
    BY <1>1 DEF Download, Leftovers, ItemsWereMarked, TypeOK
  <2> QED
    BY <1>1, <2>1, <2>2, <2>3, QuietFrame DEF Download, Leftovers, Holds, Active, UnaskedIsUnknown
<1>2. ASSUME NEW u \in Uploads, ItemEnds(u) PROVE Inv'
  <2>1. LinksWereSent'
    BY <1>2 DEF ItemEnds, LinksWereSent
  <2>2. FilesHaveItems'
    BY <1>2 DEF ItemEnds, Delete, Leaves, Leftovers, FilesHaveItems, disk
  <2>3. ItemsWereMarked'
    BY <1>2 DEF ItemEnds, Leftovers, ItemsWereMarked, TypeOK
  <2> QED
    BY <1>2, <2>1, <2>2, <2>3, QuietFrame DEF ItemEnds, Leftovers, Holds, Active, UnaskedIsUnknown
<1>3. ASSUME NEW a \in Admins, NEW q \in Requests, BurnLook(a, q) PROVE Inv'
  <2>1. LinksWereSent'
    BY <1>3 DEF BurnLook, LinksWereSent
  <2>2. FilesHaveItems' /\ ItemsWereMarked'
    BY <1>3 DEF BurnLook, Leftovers, FilesHaveItems, ItemsWereMarked, disk
  <2>3. \A b \in Admins, r \in Requests : adm'[b] = r => asked[r] # "no"
    BY <1>3 DEF BurnLook, UnaskedIsUnknown, Exists, NoRecord, TypeOK
  <2> QED
    BY <1>3, <2>1, <2>2, <2>3, QuietFrame DEF BurnLook, Leftovers, Holds, Active
<1>4. ASSUME NEW a \in Admins, BurnFails(a) PROVE Inv'
  <2>1. LinksWereSent'
    BY <1>4 DEF BurnFails, LinksWereSent
  <2>2. FilesHaveItems' /\ ItemsWereMarked'
    BY <1>4 DEF BurnFails, Leftovers, FilesHaveItems, ItemsWereMarked, disk
  <2>3. \A b \in Admins, r \in Requests : adm'[b] = r => asked[r] # "no"
    BY <1>4, IDAssumption DEF BurnFails, UnaskedIsUnknown, TypeOK
  <2> QED
    BY <1>4, <2>1, <2>2, <2>3, QuietFrame DEF BurnFails, Leftovers, Holds, Active
<1>5. CASE Crash
  <2>t. up \in [Uploads -> [pc : UploadPCs, link : Keys, id : Keys]]
    BY DEF TypeOK
  <2>1. ASSUME NEW u \in Uploads
        PROVE  /\ up'[u].link = up[u].link /\ up'[u].id = up[u].id
               /\ up'[u].pc = up[u].pc \/ (up[u].pc \in Running /\ up'[u].pc = "crashed")
    BY <1>5, <2>t DEF Crash
  <2>2. LinksWereSent'
    BY <1>5, <2>1 DEF Crash, LinksWereSent, Running
  <2>f. FilesHaveItems'
    <3>1. \A u \in temp' : u \in temp \/ (u \in Uploads /\ up[u].pc = "claimed")
      BY <1>5 DEF Crash
    <3>2. \A u \in Uploads : up[u].pc = "claimed" => up'[u].pc = "crashed"
      BY <1>5, <2>t DEF Crash, Running, UploadPCs
    <3> QED
      BY <1>5, <2>1, <3>1, <3>2 DEF Crash, Leftovers, FilesHaveItems, TypeOK
  <2>m. ItemsWereMarked'
    BY <1>5, <2>1 DEF Crash, Leftovers, ItemsWereMarked
  <2>3. \A u \in Uploads : Active(u) => up[u].link \in stuck'
    BY <1>5 DEF Crash
  <2>4. \A a \in Admins, q \in Requests : adm'[a] # q
    BY <1>5, IDAssumption DEF Crash
  <2>5. UNCHANGED <<rq, asked, burns>> /\ stuck \subseteq stuck'
    BY <1>5 DEF Crash
  <2>6. ASSUME NEW u \in Uploads
        PROVE  (Active(u)' => Active(u)) /\ (up'[u].pc = "done" => up[u].pc = "done")
    BY <2>1 DEF Active
  <2> QED
    BY <2>1, <2>2, <2>f, <2>m, <2>3, <2>4, <2>5, <2>6, QuietFrame DEF Leftovers
<1>6. CASE UNCHANGED vars
  <2>1. LinksWereSent'
    BY <1>6 DEF vars, LinksWereSent
  <2>2. FilesHaveItems' /\ ItemsWereMarked'
    BY <1>6 DEF vars, Leftovers, FilesHaveItems, ItemsWereMarked, disk
  <2> QED
    BY <1>6, <2>1, <2>2, QuietFrame DEF vars, Leftovers, Holds, Active, UnaskedIsUnknown
<1> QED
  BY <1>1, <1>2, <1>3, <1>4, <1>5, <1>6

(* A request that is created was unknown: nobody holds or burned it.       *)
LEMMA InvCreate ==
  ASSUME Inv, TypeOK', NEW q \in Requests, CreateRequest(q)
  PROVE  Inv'
<1> USE DEF Inv, history
<1>1. /\ rq' = [rq EXCEPT ![q] = [status |-> "available", item |-> NoItem,
                                 full |-> TRUE, ttl |-> TRUE]]
      /\ UNCHANGED <<up, item, disk, adm, history>>
      /\ asked[q] = "no" /\ asked'[q] # "no"
      /\ \A r \in Requests : r # q => asked'[r] = asked[r]
  BY DEF CreateRequest, TypeOK
<1>2. \A u \in Uploads : up[u].pc # "none" => up[u].link # q
  BY <1>1 DEF LinksWereSent
<1>3. q \notin burned
  BY <1>1 DEF UnaskedIsUnknown
<1>4. \A r \in Requests : r # q => rq'[r] = rq[r]
  BY <1>1, IDAssumption DEF TypeOK, Keys
<1>5. LinksWereSent'
  BY <1>1 DEF LinksWereSent
<1>6. UnaskedIsUnknown'
  BY <1>1, <1>4 DEF UnaskedIsUnknown, burns
<1>7. HoldersApart' /\ FilesHaveItems'
  BY <1>1 DEF HoldersApart, Leftovers, FilesHaveItems, Holds, Active, disk
<1>11. ItemsWereMarked'
  <2>1. \A k \in Keys : k # q => rq'[k] = rq[k]
    BY <1>1 DEF TypeOK
  <2>2. \A u \in Uploads : rq'[q].item # u
    BY <1>1, IDAssumption DEF TypeOK, Keys
  <2> QED
    BY <1>1, <2>1, <2>2 DEF Leftovers, ItemsWereMarked
<1>8. HeldIsClosed' /\ PartialStaysPartial' /\ AcceptedStaysAttached'
  BY <1>1, <1>2, <1>4
  DEF HeldIsClosed, PartialStaysPartial, AcceptedStaysAttached, Holds, Active, Claimable,
      LinksWereSent
<1>9. BurnedStaysClosed'
  BY <1>1, <1>3, <1>4 DEF BurnedStaysClosed, Holds, Active, Claimable, TypeOK, burns
<1>10. UploadingHasUploader'
  <2>1. rq'[q].status = "available"
    BY <1>1 DEF TypeOK, Keys
  <2> QED
    BY <1>1, <1>4, <2>1 DEF UploadingHasUploader, Active
<1> QED
  BY <1>5, <1>6, <1>7, <1>8, <1>9, <1>10, <1>11 DEF Leftovers

(* The submission u writes to the hash it has the ID of, which nobody else *)
(* holds, and goes on or ends.                                             *)
LEMMA WriteFrame ==
  ASSUME Inv, TypeOK', NEW u \in Uploads, Active(u), Leftovers',
         UNCHANGED <<asked, adm, burned>>, stuck \subseteq stuck',
         atBurn \ {u} \subseteq atBurn', Holds(u)' => atBurn' = atBurn,
         reopened \subseteq reopened',
         up'[u].link = up[u].link, up'[u].id = up[u].id, up'[u].pc # "none",
         \A v \in Uploads \ {u} : up'[v] = up[v],
         \A k \in Keys : k # up[u].id => rq'[k] = rq[k],
         rq'[up[u].id].full = rq[up[u].id].full,
         Holds(u)' \/ up[u].link \in burned \ reopened' => ~Claimable(up[u].link)',
         up'[u].pc = "done" /\ rq'[up[u].link].full =>
            rq'[up[u].link].item = u /\ rq'[up[u].link].status = "uploaded",
         rq'[up[u].link].status = "uploading" /\ rq'[up[u].link].full =>
            Active(u)' \/ up[u].link \in stuck'
  PROVE  Inv'
<1> USE DEF Inv
<1>1. /\ up[u].link \in Requests /\ asked[up[u].link] # "no" /\ up[u].pc # "none"
      /\ up[u].id \in {up[u].link, EmptyID} /\ up[u].id \in Keys
  BY DEF LinksWereSent, TypeOK, Active
<1>2. \A r \in Requests : /\ r # up[u].link => rq'[r] = rq[r]
                         /\ rq'[r].full = rq[r].full
  BY <1>1, IDAssumption DEF Keys
<1>3. \A v \in Uploads \ {u} : (Holds(v)' <=> Holds(v)) /\ (Active(v)' <=> Active(v))
  BY DEF Holds, Active
<1>4. \A v \in Uploads \ {u} : Holds(v) => up[v].link # up[u].link /\ up[v].link \in Requests
  BY DEF HoldersApart, Holds, Active, LinksWereSent
<1>5. LinksWereSent'
  BY DEF LinksWereSent, Active
<1>6. UnaskedIsUnknown'
  BY <1>1, <1>2 DEF UnaskedIsUnknown
<1>7. HoldersApart'
  BY <1>3, <1>4 DEF HoldersApart
<1>8. HeldIsClosed'
  BY <1>1, <1>2, <1>3, <1>4 DEF HeldIsClosed, Claimable
<1>9. PartialStaysPartial'
  BY <1>1, <1>2, <1>3, <1>4 DEF PartialStaysPartial, Holds
<1>10. AcceptedStaysAttached'
  <2> SUFFICES ASSUME NEW v \in Uploads, up'[v].pc = "done", rq'[up'[v].link].full
               PROVE  /\ rq'[up'[v].link].item = v
                      /\ rq'[up'[v].link].status \in {"uploaded", "consumed"}
    BY DEF AcceptedStaysAttached
  <2>1. CASE v = u
    BY <2>1
  <2>2. CASE v # u
    <3>1. up'[v] = up[v] /\ Holds(v)
      BY <2>2 DEF Holds
    <3>2. rq'[up[v].link] = rq[up[v].link]
      BY <1>2, <1>4, <2>2, <3>1
    <3> QED
      BY <3>1, <3>2 DEF AcceptedStaysAttached
  <2> QED
    BY <2>1, <2>2
<1>11. BurnedStaysClosed'
  <2> SUFFICES ASSUME NEW q \in burned \ reopened'
               PROVE  /\ ~Claimable(q)'
                      /\ \A v \in Uploads : Holds(v)' /\ up'[v].link = q => v \in atBurn'
    BY DEF BurnedStaysClosed
  <2>1. q \in Requests /\ q \notin reopened
    BY DEF TypeOK
  <2>2. ~Claimable(q)'
    BY <1>2, <2>1 DEF BurnedStaysClosed, Claimable
  <2>3. ASSUME NEW v \in Uploads, Holds(v)', up'[v].link = q PROVE v \in atBurn'
    <3>1. Holds(u)
      BY DEF Holds
    <3>2. v \in atBurn
      BY <1>3, <2>1, <2>3, <3>1 DEF BurnedStaysClosed
    <3> QED
      BY <2>3, <3>2
  <2> QED
    BY <2>2, <2>3
<1>12. UploadingHasUploader'
  <2> SUFFICES ASSUME NEW q \in Requests, rq'[q].status = "uploading", rq'[q].full,
                      q # up[u].link
               PROVE  q \in stuck' \/ \E v \in Uploads : Active(v)' /\ up'[v].link = q
    BY DEF UploadingHasUploader
  <2>1. q \in stuck \/ \E v \in Uploads : Active(v) /\ up[v].link = q
    BY <1>2 DEF UploadingHasUploader
  <2> QED
    BY <1>3, <2>1
<1> QED
  BY <1>5, <1>6, <1>7, <1>8, <1>9, <1>10, <1>11, <1>12

LEMMA InvWrite ==
  ASSUME Inv, TypeOK', NEW u \in Uploads, Mark(u) \/ MarkFails(u) \/ Release(u)
  PROVE  Inv'
<1> USE DEF Inv, Goto, history
<1>1. /\ Active(u) /\ Holds(u) /\ up[u].link \in Requests /\ up[u].link # EmptyID
      /\ up[u].id \in {up[u].link, EmptyID} /\ up[u].id \in Keys /\ up[u].link \in Keys
      /\ up[u].id = EmptyID => ~rq[up[u].link].full
      /\ ~Claimable(up[u].link)
  BY IDAssumption
  DEF Mark, MarkFails, Release, Active, Holds, LinksWereSent, TypeOK, PartialStaysPartial,
      HeldIsClosed, Keys
<1>t. up \in [Uploads -> [pc : UploadPCs, link : Keys, id : Keys]] /\ rq \in [Keys -> Record]
  BY DEF TypeOK
<1>2. CASE Mark(u)
  <2>1. FilesHaveItems'
    BY <1>2, <1>t DEF Mark, Leftovers, FilesHaveItems, disk
  <2>2. /\ rq'[up[u].id].status = "uploaded" /\ rq'[up[u].id].item = u
        /\ rq'[up[u].id].full = rq[up[u].id].full
        /\ \A k \in Keys : k # up[u].id => rq'[k] = rq[k]
    BY <1>1, <1>2, <1>t DEF Mark, Marked, Record
  <2>3. /\ up'[u].pc = "done" /\ up'[u].link = up[u].link /\ up'[u].id = up[u].id
        /\ \A v \in Uploads \ {u} : up'[v] = up[v]
    BY <1>2, <1>t DEF Mark
  <2>4. UNCHANGED <<asked, item, adm, history>>
    BY <1>2 DEF Mark
  <2>m. ItemsWereMarked'
    <3>1. \A k \in Keys : rq'[k].item = rq[k].item \/ rq'[k].item = u
      BY <1>1, <1>2, <1>t DEF Mark, Marked, Record
    <3> QED
      BY <1>2, <2>3, <2>4, <3>1 DEF Mark, Leftovers, ItemsWereMarked
  <2>5. ~Claimable(up[u].link)'
    BY <1>1, <2>2, <2>3 DEF Claimable
  <2>6. rq'[up[u].link].status = "uploading" => ~rq'[up[u].link].full
    BY <1>1, <2>2
  <2>7. rq'[up[u].link].full =>
          rq'[up[u].link].item = u /\ rq'[up[u].link].status = "uploaded"
    BY <1>1, <2>2
  <2> QED
    BY <1>1, <2>1, <2>2, <2>3, <2>4, <2>5, <2>6, <2>7, <2>m, WriteFrame
    DEF Leftovers, history, burns
<1>3. CASE MarkFails(u)
  <2>1. FilesHaveItems'
    BY <1>3, <1>t DEF MarkFails, Leftovers, FilesHaveItems, disk
  <2>2. /\ rq'[up[u].id].status = "uploaded" \/ rq' = rq
        /\ rq'[up[u].id].full = rq[up[u].id].full
        /\ \A k \in Keys : k # up[u].id => rq'[k] = rq[k]
    BY <1>1, <1>3, <1>t DEF MarkFails, Marked, Record
  <2>3. /\ up'[u].pc = "unmark" /\ up'[u].link = up[u].link /\ up'[u].id = up[u].id
        /\ \A v \in Uploads \ {u} : up'[v] = up[v]
    BY <1>3, <1>t DEF MarkFails
  <2>4. UNCHANGED <<asked, item, adm, history>>
    BY <1>3 DEF MarkFails
  <2>m. ItemsWereMarked'
    <3>1. \A k \in Keys : rq'[k].item = rq[k].item \/ rq'[k].item = u
      BY <1>1, <1>3, <1>t DEF MarkFails, Marked, Record
    <3> QED
      BY <1>3, <2>3, <2>4, <3>1 DEF MarkFails, Leftovers, ItemsWereMarked
  <2>5. ~Claimable(up[u].link)'
    BY <1>1, <2>2, <2>3 DEF Claimable
  <2>6. Active(u)'
    BY <2>3 DEF Active
  <2> QED
    BY <1>1, <2>1, <2>2, <2>3, <2>4, <2>5, <2>6, <2>m, WriteFrame DEF Leftovers, history, burns
<1>4. CASE Release(u)
  <2>1. FilesHaveItems'
    BY <1>4, <1>t DEF Release, Leftovers, FilesHaveItems, disk
  <2>2. /\ rq'[up[u].id].status = "available" \/ (rq' = rq /\ up[u].link \in stuck')
        /\ rq'[up[u].id].full = rq[up[u].id].full
        /\ \A k \in Keys : k # up[u].id => rq'[k] = rq[k]
    BY <1>1, <1>4, <1>t DEF Release, SetStatus, Record
  <2>3. /\ up'[u].pc \in {"unstore", "failed"}
        /\ up'[u].link = up[u].link /\ up'[u].id = up[u].id
        /\ \A v \in Uploads \ {u} : up'[v] = up[v]
    BY <1>4, <1>t DEF Release
  <2>4. /\ UNCHANGED <<asked, item, adm, burned, unburned>> /\ stuck \subseteq stuck'
        /\ atBurn' = atBurn \ {u} /\ reopened \subseteq reopened'
    BY <1>4 DEF Release
  <2>m. ItemsWereMarked'
    <3>1. \A k \in Keys : rq'[k].item = rq[k].item
      BY <1>1, <1>4, <1>t DEF Release, SetStatus, Record
    <3> QED
      BY <1>4, <2>3, <2>4, <3>1 DEF Release, Leftovers, ItemsWereMarked
  <2>b. up[u].link \in burned \ reopened' => ~Claimable(up[u].link)'
    <3> SUFFICES ASSUME up[u].link \in burned \ reopened'
                 PROVE  rq'[up[u].link] = rq[up[u].link]
      BY <1>1, <2>3 DEF Claimable
    <3>1. u \in atBurn
      BY <1>1, <2>4 DEF BurnedStaysClosed
    <3> QED
      BY <1>1, <1>4, <2>2, <3>1 DEF Release
  <2>5. ~Holds(u)'
    BY <2>3 DEF Holds, Active
  <2>6. rq'[up[u].link].status = "uploading" /\ rq'[up[u].link].full => up[u].link \in stuck'
    BY <1>1, <2>2
  <2> QED
    BY <1>1, <2>1, <2>2, <2>3, <2>4, <2>5, <2>6, <2>m, <2>b, WriteFrame DEF Leftovers
<1> QED
  BY <1>2, <1>3, <1>4

(* Whoever claims a request finds it available: nobody holds it, and it    *)
(* was not burned, or only while somebody worked on it.                    *)
LEMMA InvClaim ==
  ASSUME Inv, TypeOK', NEW u \in Uploads, Claim(u)
  PROVE  Inv'
<1> USE DEF Inv
<1> DEFINE q == up[u].link
<1>1. /\ q \in Requests /\ q \in Keys /\ q # EmptyID /\ asked[q] # "no"
      /\ rq[q].status = "available"
  BY IDAssumption DEF Claim, Claimable, LinksWereSent, Keys
<1>2. \A v \in Uploads : Holds(v) => up[v].link # q
  BY <1>1 DEF HeldIsClosed, Claimable
<1>3. /\ UNCHANGED <<asked, item, disk, adm, burns, unclean, unburned>>
      /\ stuck \subseteq stuck'
      /\ up[u].pc = "ready" /\ up'[u].pc \in {"claimed", "refused"}
      /\ up'[u].pc = "refused" => q \in stuck' /\ up'[u].id = up[u].id
      /\ up'[u].pc = "claimed" => up'[u].id = IF rq[q].full THEN q ELSE EmptyID
      /\ up'[u].link = q
      /\ \A v \in Uploads \ {u} : up'[v] = up[v]
  BY DEF Claim, Goto, TypeOK
<1>4. /\ rq'[q].status = "uploading" /\ rq'[q].full = rq[q].full
      /\ \A r \in Requests : r # q => rq'[r] = rq[r]
  BY <1>1, IDAssumption DEF Claim, SetStatus, TypeOK, Keys, Record
<1>5. LinksWereSent'
  BY <1>1, <1>3 DEF LinksWereSent
<1>6. UnaskedIsUnknown'
  BY <1>1, <1>3, <1>4 DEF UnaskedIsUnknown, burns
<1>7. \A v \in Uploads \ {u} : (Holds(v)' <=> Holds(v)) /\ (Active(v)' <=> Active(v))
  BY <1>3 DEF Holds, Active
<1>8. HoldersApart'
  BY <1>2, <1>3, <1>7 DEF HoldersApart
<1>9. \A v \in Uploads \ {u} : Holds(v) => up[v].link \in Requests
  BY DEF LinksWereSent, Holds, Active
<1>10. HeldIsClosed'
  BY <1>2, <1>3, <1>4, <1>7, <1>9 DEF HeldIsClosed, Claimable
<1>11. PartialStaysPartial'
  BY <1>1, <1>2, <1>3, <1>4, <1>7, <1>9 DEF PartialStaysPartial, Holds, Active
<1>12. AcceptedStaysAttached'
  <2> SUFFICES ASSUME NEW v \in Uploads, up'[v].pc = "done", rq'[up'[v].link].full
               PROVE  /\ rq'[up'[v].link].item = v
                      /\ rq'[up'[v].link].status \in {"uploaded", "consumed"}
    BY DEF AcceptedStaysAttached
  <2>1. v # u /\ up'[v] = up[v] /\ Holds(v)
    BY <1>3 DEF Holds
  <2>2. rq'[up[v].link] = rq[up[v].link]
    BY <1>2, <1>4, <1>9, <2>1
  <2> QED
    BY <2>1, <2>2 DEF AcceptedStaysAttached
<1>13. BurnedStaysClosed'
  <2>1. q \notin burned \ reopened
    BY <1>1 DEF BurnedStaysClosed, Claimable
  <2>2. \A r \in burned \ reopened : rq'[r] = rq[r]
    BY <1>4, <2>1 DEF TypeOK
  <2> QED
    BY <1>3, <1>7, <2>1, <2>2 DEF BurnedStaysClosed, Claimable, burns
<1>14. Leftovers'
  <2>1. FilesHaveItems'
    <3>1. /\ file' = file /\ temp' = temp /\ unclean' = unclean
          /\ file \subseteq Uploads /\ temp \subseteq Uploads
      BY <1>3 DEF TypeOK, disk
    <3>2. FilesHaveItems
      BY DEF Leftovers
    <3>3. \A v \in Uploads : up'[v] = up[v] \/ v = u
      BY <1>3
    <3>4. u \in file \cup temp => u \in unclean
      BY <1>3, <3>2 DEF FilesHaveItems
    <3> QED
      BY <3>1, <3>2, <3>3, <3>4 DEF FilesHaveItems
  <2>2. \A k \in Keys : rq'[k].item = rq[k].item
    BY <1>1 DEF Claim, SetStatus, TypeOK, Record
  <2>3. ItemsWereMarked'
    BY <1>3, <2>2 DEF Leftovers, ItemsWereMarked
  <2> QED
    BY <2>1, <2>3 DEF Leftovers
<1>15. UploadingHasUploader'
  <2> SUFFICES ASSUME NEW r \in Requests, rq'[r].status = "uploading", rq'[r].full
               PROVE  r \in stuck' \/ \E v \in Uploads : Active(v)' /\ up'[v].link = r
    BY DEF UploadingHasUploader
  <2>1. CASE r = q
    BY <1>3, <2>1 DEF Active
  <2>2. CASE r # q
    <3>1. r \in stuck \/ \E v \in Uploads : Active(v) /\ up[v].link = r
      BY <1>4, <2>2 DEF UploadingHasUploader
    <3> QED
      BY <1>3, <1>7, <2>2, <3>1
  <2> QED
    BY <2>1, <2>2
<1> QED
  BY <1>5, <1>6, <1>8, <1>10, <1>11, <1>12, <1>13, <1>14, <1>15

(* A burn closes the request to all but the one who holds it.              *)
LEMMA InvBurn ==
  ASSUME Inv, TypeOK', NEW a \in Admins, BurnRequest(a)
  PROVE  Inv'
<1> USE DEF Inv
<1> DEFINE q == adm[a]
<1>1. q \in Requests /\ q \in Keys /\ asked[q] # "no"
  BY DEF BurnRequest, TypeOK, Keys, UnaskedIsUnknown
<1>2. /\ UNCHANGED <<asked, up, item, disk, stuck, unclean, unburned>>
      /\ burned' = burned \cup {q} /\ reopened' = reopened \ {q}
      /\ \A b \in Admins : adm'[b] \in {adm[b], EmptyID}
      /\ \A u \in Uploads :
           u \in atBurn' <=> IF up[u].link = q THEN Holds(u) ELSE u \in atBurn
  BY DEF BurnRequest, TypeOK
<1>3. /\ rq'[q].status = "consumed" /\ rq'[q].full = rq[q].full /\ rq'[q].item = rq[q].item
      /\ \A k \in Keys : k # q => rq'[k] = rq[k]
  BY <1>1 DEF BurnRequest, SetStatus, TypeOK, Record
<1>4. LinksWereSent' /\ FilesHaveItems'
  BY <1>2 DEF LinksWereSent, Leftovers, FilesHaveItems, disk
<1>12. ItemsWereMarked'
  BY <1>2, <1>3 DEF Leftovers, ItemsWereMarked
<1>5. UnaskedIsUnknown'
  BY <1>1, <1>2, <1>3, IDAssumption DEF UnaskedIsUnknown, Keys
<1>6. HoldersApart'
  BY <1>2 DEF HoldersApart, Holds, Active
<1>7. \A u \in Uploads : Holds(u) => up[u].link \in Keys
  BY DEF LinksWereSent, Holds, Active, Keys
<1>8. HeldIsClosed' /\ PartialStaysPartial'
  BY <1>2, <1>3, <1>7 DEF HeldIsClosed, PartialStaysPartial, Holds, Active, Claimable
<1>9. AcceptedStaysAttached'
  BY <1>2, <1>3, <1>7 DEF AcceptedStaysAttached, Holds
<1>10. BurnedStaysClosed'
  <2> SUFFICES ASSUME NEW r \in burned' \ reopened'
               PROVE  /\ ~Claimable(r)'
                      /\ \A u \in Uploads : Holds(u) /\ up[u].link = r => u \in atBurn'
    BY <1>2 DEF BurnedStaysClosed, Holds, Active
  <2>1. CASE r = q
    BY <1>2, <1>3, <2>1 DEF Claimable
  <2>2. CASE r # q
    <3>1. r \in burned \ reopened /\ r \in Keys
      BY <1>2, <2>2 DEF TypeOK, Keys
    <3> QED
      BY <1>2, <1>3, <2>2, <3>1 DEF BurnedStaysClosed, Claimable
  <2> QED
    BY <2>1, <2>2
<1>11. UploadingHasUploader'
  BY <1>2, <1>3 DEF UploadingHasUploader, Active, Keys
<1> QED
  BY <1>4, <1>5, <1>6, <1>8, <1>9, <1>10, <1>11, <1>12 DEF Leftovers

(* A request that expires is neither available nor claimed.                *)
LEMMA InvExpire ==
  ASSUME Inv, TypeOK', NEW k \in Keys, Expire(k)
  PROVE  Inv'
<1> USE DEF Inv, history
<1>1. /\ UNCHANGED <<asked, up, item, disk, adm, history>>
      /\ rq'[k] = NoRecord /\ \A j \in Keys : j # k => rq'[j] = rq[j]
  BY DEF Expire, TypeOK
<1>2. NoRecord.status = "none" /\ ~NoRecord.full
  BY DEF NoRecord
<1>3. \A j \in Keys : ~(rq'[j].full) \/ rq'[j] = rq[j]
  BY <1>1, <1>2
<1>4. \A j \in Keys : Claimable(j)' => Claimable(j)
  BY <1>1, <1>2 DEF Claimable
<1>5. LinksWereSent' /\ FilesHaveItems' /\ HoldersApart'
  BY <1>1 DEF LinksWereSent, Leftovers, FilesHaveItems, HoldersApart, Holds, Active, disk
<1>12. ItemsWereMarked'
  BY <1>1, IDAssumption DEF Leftovers, ItemsWereMarked, NoRecord
<1>6. UnaskedIsUnknown'
  BY <1>1 DEF UnaskedIsUnknown, burns, Keys
<1>7. \A u \in Uploads : Holds(u) => up[u].link \in Keys
  BY DEF LinksWereSent, Holds, Active, Keys
<1>8. HeldIsClosed' /\ PartialStaysPartial'
  BY <1>1, <1>3, <1>4, <1>7 DEF HeldIsClosed, PartialStaysPartial, Holds, Active
<1>9. AcceptedStaysAttached'
  BY <1>1, <1>3, <1>7 DEF AcceptedStaysAttached, Holds
<1>10. BurnedStaysClosed'
  BY <1>1, <1>4 DEF BurnedStaysClosed, Holds, Active, TypeOK, Keys, burns
<1>11. UploadingHasUploader'
  BY <1>1, <1>3 DEF UploadingHasUploader, Active, Keys
<1> QED
  BY <1>5, <1>6, <1>8, <1>9, <1>10, <1>11, <1>12 DEF Leftovers

LEMMA InvNext == Inv /\ [Next]_vars => Inv'
<1> SUFFICES ASSUME Inv, [Next]_vars PROVE Inv'
  OBVIOUS
<1>1. TypeOK'
  BY TypeSubmit, TypeOthers DEF Inv
<1>2. ASSUME NEW u \in Uploads, Submit(u) PROVE Inv'
  BY <1>1, <1>2, InvUploading, InvClaim, InvWrite DEF Submit
<1>3. ASSUME NEW q \in Requests, CreateRequest(q) PROVE Inv'
  BY <1>1, <1>3, InvCreate
<1>4. ASSUME NEW a \in Admins, BurnRequest(a) PROVE Inv'
  BY <1>1, <1>4, InvBurn
<1>5. ASSUME NEW k \in Keys, Expire(k) PROVE Inv'
  BY <1>1, <1>5, InvExpire
<1> QED
  BY <1>1, <1>2, <1>3, <1>4, <1>5, InvAround DEF Next

LEMMA InvAlways == Spec => []Inv
  BY InvInit, InvNext, PTL DEF Spec

-----------------------------------------------------------------------------
(* Theorems                                                                *)

(* The variables keep their types; a hash is written only under a key that *)
(* a submission or an administrator knows.                                 *)
THEOREM TypeCorrect == Spec => []TypeOK
<1>1. Inv => TypeOK
  BY DEF Inv
<1> QED
  BY <1>1, InvAlways, PTL

(* However many submissions race, and whatever fails: two of them never    *)
(* work on one request at a time.                                          *)
THEOREM ExclusiveUploadHolds == Spec => []ExclusiveUpload
<1>1. Inv => ExclusiveUpload
  BY DEF Inv, HoldersApart, ExclusiveUpload, Holds
<1> QED
  BY <1>1, InvAlways, PTL

(* At most one submission to a request is told that it is complete.        *)
THEOREM OneAcceptedUploadHolds == Spec => []OneAcceptedUpload
<1>1. Inv => OneAcceptedUpload
  BY DEF Inv, HoldersApart, OneAcceptedUpload, Holds
<1> QED
  BY <1>1, InvAlways, PTL

(* The accepted upload stays the one its requester is offered.             *)
THEOREM AcceptedStaysAttachedHolds == Spec => []AcceptedStaysAttached
<1>1. Inv => AcceptedStaysAttached
  BY DEF Inv
<1> QED
  BY <1>1, InvAlways, PTL

(* A request is left "uploading" only by a crash or a failing call.        *)
THEOREM UploadingHasUploaderHolds == Spec => []UploadingHasUploader
<1>1. Inv => UploadingHasUploader
  BY DEF Inv
<1> QED
  BY <1>1, InvAlways, PTL

(* Behind a burn the request stays closed to everybody but the submission  *)
(* that held it at the burn, until that one releases it.                   *)
THEOREM BurnedStaysClosedHolds == Spec => []BurnedStaysClosed
<1>1. Inv => BurnedStaysClosed
  BY DEF Inv
<1> QED
  BY <1>1, InvAlways, PTL

(* A submission that was answered with an error leaves no file and no item *)
(* its requester is offered, but for what failing calls left.              *)
THEOREM FailedUploadIsUndoneHolds == Spec => []FailedUploadIsUndone
<1>1. Inv => FailedUploadIsUndone
  <2> SUFFICES ASSUME Inv, NEW u \in Uploads, up[u].pc = "failed"
               PROVE  /\ u \in file \cup temp => u \in unclean
                      /\ \A q \in Requests : Offers(q, u) => u \in unburned
    BY DEF FailedUploadIsUndone
  <2>1. u \in file \cup temp => u \in unclean
    BY DEF Inv, Leftovers, FilesHaveItems
  <2>2. ASSUME NEW q \in Requests, Offers(q, u) PROVE u \in unburned
    BY <2>2 DEF Inv, Leftovers, ItemsWereMarked, Offers, Keys
  <2> QED
    BY <2>1, <2>2
<1> QED
  BY <1>1, InvAlways, PTL
=============================================================================
