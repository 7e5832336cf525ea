-------------------------- MODULE ItemLinks_proofs --------------------------
(***************************************************************************)
(* What ItemLinks guarantees for any number of links, recipients and       *)
(* administrators, any TTL and any schedule: its types, what follows from  *)
(* its inductive invariant, and what becomes of the files.                 *)
(***************************************************************************)
EXTENDS ItemLinks, TLAPS

(***************************************************************************)
(* Types                                                                   *)
(***************************************************************************)

(* The records Redis may hold after each command.                          *)
LEMMA RecordTypes ==
  ASSUME TypeOK, NEW l \in Links
  PROVE  /\ NoRecord \in Record /\ db[l] \in Record
         /\ ClaimedRecord(l) \in Record /\ BurntRecord(l) \in Record
         /\ \A e \in Nat : Created(l, e) \in Record
         /\ \A t \in Nat : Evicted(l, t) \in Record
         /\ ClaimReply(l) \in [secret : BOOLEAN, path : BOOLEAN]
<1> USE TimeAssumption DEF TypeOK, Record
<1>1. NoRecord \in Record /\ db[l] \in Record
  BY DEF NoRecord
<1>2. ClaimedRecord(l) \in Record /\ BurntRecord(l) \in Record
  BY DEF ClaimedRecord, BurntRecord
<1>3. ASSUME NEW e \in Nat PROVE Created(l, e) \in Record
  <2>1. (l \in FileLinks) \in BOOLEAN
    OBVIOUS
  <2> QED
    BY <1>1, <2>1 DEF Created
<1>4. \A t \in Nat : Evicted(l, t) \in Record
  BY <1>1 DEF Evicted
<1>5. ClaimReply(l) \in [secret : BOOLEAN, path : BOOLEAN]
  BY DEF ClaimReply
<1> QED
  BY <1>1, <1>2, <1>3, <1>4, <1>5

LEMMA InitTypes == Init => TypeOK
BY DEF Init, TypeOK, Record, NoRecord, File, NoFile, MakePhases, Drafts

(* Creating a link keeps the types.                                        *)
LEMMA CreateTypes == TypeOK /\ Create => TypeOK'
<1> SUFFICES ASSUME TypeOK, Create PROVE TypeOK'
  OBVIOUS
<1> USE DEF sweep, history, MakePhases, Drafts, File, NoFile
<1>1. ASSUME NEW l \in FileLinks, BeginFile(l) PROVE TypeOK'
  BY <1>1, TimeAssumption DEF TypeOK, BeginFile, Links
<1>2. ASSUME NEW l \in FileLinks, WriteFile(l) PROVE TypeOK'
  <2>1. make' \in [Links -> MakePhases] /\ disk' \in [FileLinks -> File]
    BY <1>2 DEF TypeOK, WriteFile
  <2> QED
    BY <1>2, <2>1 DEF TypeOK, WriteFile
<1>3. ASSUME NEW l \in FileLinks, WriteFails(l) PROVE TypeOK'
  BY <1>3 DEF TypeOK, WriteFails
<1>4. ASSUME NEW l \in FileLinks, StoreFile(l) PROVE TypeOK'
  <2>1. Created(l, expires[l]) \in Record
    BY RecordTypes DEF TypeOK, Links
  <2> QED
    BY <1>4, <2>1 DEF TypeOK, StoreFile
<1>5. ASSUME NEW l \in FileLinks, StoreFileFails(l) PROVE TypeOK'
  <2>1. Created(l, expires[l]) \in Record
    BY RecordTypes DEF TypeOK, Links
  <2> QED
    BY <1>5, <2>1 DEF TypeOK, StoreFileFails
<1>6. ASSUME NEW l \in TextLinks, StoreText(l) PROVE TypeOK'
  <2>1. \A ttl \in 0..MaxTTL : now + ttl \in Nat /\ Created(l, now + ttl) \in Record
    BY TimeAssumption, RecordTypes DEF TypeOK, Links
  <2>2. PICK ttl \in 0..MaxTTL : /\ expires' = [expires EXCEPT ![l] = now + ttl]
                                /\ db' = [db EXCEPT ![l] = Created(l, now + ttl)]
    BY <1>6 DEF StoreText
  <2>3. make' \in [Links -> MakePhases]
    BY <1>6 DEF TypeOK, StoreText
  <2>4. db' \in [Links -> Record] /\ expires' \in [Links -> Nat]
    BY <2>1, <2>2 DEF TypeOK
  <2> QED
    BY <1>6, <2>3, <2>4 DEF TypeOK, StoreText
<1>7. ASSUME NEW l \in Links, AnswerCreator(l) PROVE TypeOK'
  BY <1>7 DEF TypeOK, AnswerCreator
<1>8. ASSUME NEW l \in Links, ConfirmBurn(l) PROVE TypeOK'
  BY <1>8 DEF TypeOK, ConfirmBurn
<1> QED
  BY <1>1, <1>2, <1>3, <1>4, <1>5, <1>6, <1>7, <1>8 DEF Create

(* Opening a link keeps the types.                                         *)
LEMMA OpenTypes == TypeOK /\ (\E r \in Recipients : Open(r)) => TypeOK'
<1> SUFFICES ASSUME TypeOK, NEW r \in Recipients, Open(r) PROVE TypeOK'
  OBVIOUS
<1> USE RecordTypes DEF sweep, history, File, NoFile, Opening, IdleRequest
<1>1. ASSUME NEW l \in Links, Look(r, l) PROVE TypeOK'
  BY <1>1 DEF TypeOK, Look
<1>2. CASE TurnAway(r)
  BY <1>2 DEF TypeOK, TurnAway
<1>3. CASE Claim(r)
  BY <1>3 DEF TypeOK, Claim, Claimable, Live
<1>4. CASE ClaimGone(r)
  BY <1>4 DEF TypeOK, ClaimGone
<1>5. CASE RevealText(r)
  BY <1>5 DEF TypeOK, RevealText, Links
<1>6. CASE OpenFile(r)
  <2>1. deliveries' \in [Links -> Nat]
    BY <1>6 DEF TypeOK, OpenFile, Links
  <2>2. req' \in [Recipients -> Opening \cup {IdleRequest}]
    BY <1>6 DEF TypeOK, OpenFile
  <2> QED
    BY <1>6, <2>1, <2>2 DEF TypeOK, OpenFile
<1>7. CASE OpenMissing(r)
  BY <1>7 DEF TypeOK, OpenMissing
<1>8. CASE EndDownload(r)
  BY <1>8 DEF TypeOK, EndDownload
<1> QED
  BY <1>1, <1>2, <1>3, <1>4, <1>5, <1>6, <1>7, <1>8 DEF Open

(* Burning a link keeps the types.                                         *)
LEMMA BurnTypes == TypeOK /\ (\E a \in Admins : Burn(a)) => TypeOK'
<1> SUFFICES ASSUME TypeOK, NEW a \in Admins, Burn(a) PROVE TypeOK'
  OBVIOUS
<1> USE RecordTypes DEF sweep, history, File, NoFile, Burning, IdleBurn
<1>1. ASSUME NEW l \in Links, BurnLook(a, l) PROVE TypeOK'
  BY <1>1 DEF TypeOK, BurnLook, Record
<1>2. CASE BurnItem(a)
  <2>1. adm[a] \in Burning /\ adm[a].link \in Links
    BY <1>2 DEF TypeOK, BurnItem
  <2>2. db' \in [Links -> Record] /\ burned' \subseteq Links
    BY <1>2, <2>1 DEF TypeOK, BurnItem
  <2>3. adm' \in [Admins -> Burning \cup {IdleBurn}]
    BY <1>2, <2>1 DEF TypeOK, BurnItem
  <2> QED
    BY <1>2, <2>2, <2>3 DEF TypeOK, BurnItem
<1>3. CASE BurnDelete(a)
  BY <1>3 DEF TypeOK, BurnDelete
<1>4. CASE BurnFails(a)
  BY <1>4 DEF TypeOK, BurnFails
<1> QED
  BY <1>1, <1>2, <1>3, <1>4 DEF Burn

(* The cleanup keeps the types.                                            *)
LEMMA CleanupTypes == TypeOK /\ Cleanup => TypeOK'
<1> SUFFICES ASSUME TypeOK, Cleanup PROVE TypeOK'
  OBVIOUS
<1> USE DEF sweep, history, File, NoFile
<1>1. CASE CleanupOlderThan
  BY <1>1 DEF TypeOK, CleanupOlderThan
<1>2. CASE LookupActive
  BY <1>2 DEF TypeOK, LookupActive, ActivePaths
<1>3. CASE LookupFails
  BY <1>3 DEF TypeOK, LookupFails
<1>4. CASE ListFiles
  BY <1>4 DEF TypeOK, ListFiles
<1>5. ASSUME NEW l \in FileLinks, VisitFile(l) PROVE TypeOK'
  BY <1>5 DEF TypeOK, VisitFile
<1>6. CASE EndWalk
  BY <1>6 DEF TypeOK, EndWalk
<1> QED
  BY <1>1, <1>2, <1>3, <1>4, <1>5, <1>6 DEF Cleanup

(* The clock and a crash keep the types.                                   *)
LEMMA TickTypes == TypeOK /\ Tick => TypeOK'
BY TimeAssumption, RecordTypes DEF TypeOK, Tick, sweep, history

LEMMA CrashTypes == TypeOK /\ Crash => TypeOK'
BY TimeAssumption DEF TypeOK, Crash, history, MakePhases, Drafts

(* Type correctness: every variable keeps its type, and a request or a     *)
(* burn that is under way names a link.                                    *)
THEOREM TypeCorrect == Spec => []TypeOK
<1>1. TypeOK /\ [Next]_vars => TypeOK'
  <2> SUFFICES ASSUME TypeOK, [Next]_vars PROVE TypeOK'
    OBVIOUS
  <2>1. CASE Next
    BY <2>1, CreateTypes, OpenTypes, BurnTypes, CleanupTypes, TickTypes, CrashTypes DEF Next
  <2>2. CASE UNCHANGED vars
    BY <2>2 DEF TypeOK, vars
  <2> QED
    BY <2>1, <2>2
<1> QED
  BY <1>1, InitTypes, PTL DEF Spec

(***************************************************************************)
(* The invariant of ItemLinks that is inductive, in its parts, and the     *)
(* proof that every step of the handlers, the cleanup, the clock and a     *)
(* crash preserves it.  None of the properties of ItemLinks is inductive:  *)
(* SingleDelivery, say, needs that a link somebody was served can never be *)
(* claimed again, and that needs that no step makes its record live again. *)
(***************************************************************************)

(* A request that won the claim of l and is not finished.                  *)
Serves(r, l) == req[r].pc \in {"claimed", "streaming"} /\ req[r].link = l

(* A link whose item was not stored yet has no record and no history.      *)
DraftsAreFresh ==
  \A l \in Links : make[l] \in Drafts =>
    db[l] = NoRecord /\ deliveries[l] = 0 /\ l \notin burned

(* Only links somebody was told are opened, only stored ones burned.       *)
RequestsNameKnownLinks ==
  /\ \A r \in Recipients : req[r].pc # "idle" => Known(req[r].link)
  /\ \A a \in Admins : adm[a].pc = "burn" => make[adm[a].link] \notin Drafts

(* A record that can be claimed has all its secrets, nobody was served, it *)
(* is not burned, and its TTL ends at its ExpiresAt.                       *)
LiveIsUntouched ==
  \A l \in Links : Live(l) =>
    /\ db[l].secret /\ (l \in FileLinks => db[l].path)
    /\ deliveries[l] = 0 /\ l \notin burned
    /\ now < expires[l] /\ db[l].deadline = expires[l]
    /\ \A r \in Recipients : ~Serves(r, l)

(* The winner of a claim has the secrets, Redis does not, and the content  *)
(* has not left the server yet.                                            *)
HoldersHaveSecrets ==
  \A r \in Recipients, l \in Links : Holds(r, l) =>
    /\ req[r].secret /\ (l \in FileLinks => req[r].path)
    /\ ~db[l].secret /\ ~db[l].path
    /\ deliveries[l] = 0

(* A link is served to one request, and only a request that is being       *)
(* served has a secret.                                                    *)
OneServed ==
  /\ \A r, s \in Recipients, l \in Links : Serves(r, l) /\ Serves(s, l) => r = s
  /\ \A r \in Recipients : req[r].secret => req[r].pc \in {"claimed", "streaming"}

(* The inductive invariant of the records.                                 *)
Inv ==
  /\ TypeOK
  /\ DraftsAreFresh
  /\ RequestsNameKnownLinks
  /\ LiveIsUntouched
  /\ HoldersHaveSecrets
  /\ OneServed
  /\ SingleDelivery

-----------------------------------------------------------------------------
LEMMA InvInit == Init => Inv
BY InitTypes DEF Init, Inv, DraftsAreFresh, RequestsNameKnownLinks, LiveIsUntouched,
   HoldersHaveSecrets, OneServed, SingleDelivery, Live, Known, Holds, Serves,
   IdleRequest, IdleBurn, NoRecord, Drafts

(* A step that leaves the records, the requests and the history of the     *)
(* deliveries and burns alone preserves the invariant.                     *)
LEMMA Frame ==
  ASSUME Inv, TypeOK', UNCHANGED <<now, db, expires, make, req, adm, deliveries, burned>>
  PROVE  Inv'
BY DEF Inv, DraftsAreFresh, RequestsNameKnownLinks, LiveIsUntouched,
   HoldersHaveSecrets, OneServed, SingleDelivery, Live, Known, Holds, Serves

(* A step that only moves the requests that create links, never back to a  *)
(* draft and never away from a link that is known.                         *)
LEMMA MakeFrame ==
  ASSUME Inv, TypeOK',
         UNCHANGED <<now, db, req, adm, deliveries, burned>>,
         \A l \in Links : /\ make'[l] \in Drafts => make[l] \in Drafts
                          /\ make[l] = "done" => make'[l] = "done"
                          /\ make[l] \notin Drafts => expires'[l] = expires[l]
  PROVE  Inv'
<1> USE DEF Inv
<1>1. DraftsAreFresh'
  BY DEF DraftsAreFresh
<1>2. RequestsNameKnownLinks'
  BY DEF RequestsNameKnownLinks, Known, TypeOK, Opening, Burning, IdleBurn, IdleRequest
<1>3. LiveIsUntouched'
  BY DEF LiveIsUntouched, Live, Serves, DraftsAreFresh, NoRecord
<1>4. HoldersHaveSecrets' /\ OneServed' /\ SingleDelivery'
  BY DEF HoldersHaveSecrets, OneServed, SingleDelivery, Holds, Serves
<1> QED
  BY <1>1, <1>2, <1>3, <1>4

(* The item of a draft is stored, or Redis was not reached: the request    *)
(* moves on.                                                               *)
LEMMA StoreFrame ==
  ASSUME Inv, TypeOK', NEW l \in Links, make[l] \in Drafts,
         NEW phase \in {"stored", "failed"}, make' = [make EXCEPT ![l] = phase],
         NEW e \in Nat, expires' = [expires EXCEPT ![l] = e],
         db' = [db EXCEPT ![l] = Created(l, e)],
         UNCHANGED <<now, req, adm, deliveries, burned>>
  PROVE  Inv'
<1> USE DEF Inv, TypeOK
<1>1. DraftsAreFresh'
  BY DEF DraftsAreFresh, Drafts
<1>2. RequestsNameKnownLinks'
  BY DEF RequestsNameKnownLinks, Known, Drafts, Opening, Burning, IdleBurn, IdleRequest
<1>3. \A r \in Recipients : req[r].pc # "idle" => req[r].link # l
  BY DEF RequestsNameKnownLinks, Known, Drafts
<1>4. LiveIsUntouched'
  <2> SUFFICES ASSUME NEW k \in Links, Live(k)'
               PROVE  /\ db'[k].secret /\ (k \in FileLinks => db'[k].path)
                      /\ deliveries'[k] = 0 /\ k \notin burned'
                      /\ now' < expires'[k] /\ db'[k].deadline = expires'[k]
                      /\ \A r \in Recipients : ~Serves(r, k)'
    BY DEF LiveIsUntouched
  <2>1. CASE k = l
    <3>1. db'[l] = Created(l, e) /\ expires'[l] = e
      OBVIOUS
    <3>2. e > now
      BY <2>1, <3>1 DEF Live, Created, NoRecord
    <3>3. /\ Created(l, e).secret /\ (l \in FileLinks => Created(l, e).path)
          /\ Created(l, e).deadline = e
      BY <3>2 DEF Created
    <3> QED
      BY <2>1, <1>3, <3>1, <3>2, <3>3 DEF DraftsAreFresh, Serves
  <2>2. CASE k # l
    BY <2>2 DEF LiveIsUntouched, Live, Serves
  <2> QED
    BY <2>1, <2>2
<1>5. HoldersHaveSecrets'
  BY <1>3 DEF HoldersHaveSecrets, Holds
<1>6. OneServed' /\ SingleDelivery'
  BY DEF OneServed, SingleDelivery, Serves
<1> QED
  BY <1>1, <1>2, <1>4, <1>5, <1>6

LEMMA InvCreate == Inv /\ TypeOK' /\ Create => Inv'
<1> SUFFICES ASSUME Inv, TypeOK', Create PROVE Inv'
  OBVIOUS
<1>t. TypeOK
  BY DEF Inv
<1>1. ASSUME NEW l \in FileLinks, BeginFile(l) PROVE Inv'
  BY <1>1, <1>t, MakeFrame DEF BeginFile, history, TypeOK, Links, Drafts
<1>2. ASSUME NEW l \in FileLinks, WriteFile(l) PROVE Inv'
  BY <1>2, <1>t, MakeFrame DEF WriteFile, history, TypeOK, Links, Drafts
<1>3. ASSUME NEW l \in FileLinks, WriteFails(l) PROVE Inv'
  BY <1>3, <1>t, MakeFrame DEF WriteFails, history, TypeOK, Links, Drafts
<1>4. ASSUME NEW l \in FileLinks, StoreFile(l) PROVE Inv'
  <2>1. expires' = [expires EXCEPT ![l] = expires[l]] /\ expires[l] \in Nat /\ l \in Links
    BY <1>4, <1>t DEF StoreFile, TypeOK, Links
  <2> QED
    BY <1>4, <2>1, StoreFrame DEF StoreFile, history, Drafts
<1>5. ASSUME NEW l \in FileLinks, StoreFileFails(l) PROVE Inv'
  <2>1. expires' = [expires EXCEPT ![l] = expires[l]] /\ expires[l] \in Nat /\ l \in Links
    BY <1>5, <1>t DEF StoreFileFails, TypeOK, Links
  <2>2. CASE db' = [db EXCEPT ![l] = Created(l, expires[l])]
    BY <1>5, <2>1, <2>2, StoreFrame DEF StoreFileFails, history, Drafts
  <2>3. CASE db' = db
    BY <1>5, <2>1, <2>3, <1>t, MakeFrame DEF StoreFileFails, history, TypeOK, Drafts
  <2> QED
    BY <1>5, <2>2, <2>3 DEF StoreFileFails
<1>6. ASSUME NEW l \in TextLinks, StoreText(l) PROVE Inv'
  <2>1. PICK ttl \in 0..MaxTTL : /\ expires' = [expires EXCEPT ![l] = now + ttl]
                                 /\ db' = [db EXCEPT ![l] = Created(l, now + ttl)]
    BY <1>6 DEF StoreText
  <2>2. now + ttl \in Nat /\ l \in Links
    BY <1>t, TimeAssumption DEF TypeOK, Links
  <2>3. PICK outcome \in {"stored", "failed"} : make' = [make EXCEPT ![l] = outcome]
    BY <1>6 DEF StoreText
  <2> QED
    BY <1>6, <2>1, <2>2, <2>3, StoreFrame DEF StoreText, history, Drafts
<1>7. ASSUME NEW l \in Links, AnswerCreator(l) PROVE Inv'
  BY <1>7, <1>t, MakeFrame DEF AnswerCreator, history, TypeOK, Drafts
<1>8. ASSUME NEW l \in Links, ConfirmBurn(l) PROVE Inv'
  BY <1>8, Frame DEF ConfirmBurn
<1> QED
  BY <1>1, <1>2, <1>3, <1>4, <1>5, <1>6, <1>7, <1>8 DEF Create

(* A step of the request r alone: it moves on within the link it opens, or *)
(* it ends.                                                                *)
LEMMA OpeningFrame ==
  ASSUME Inv, TypeOK', NEW r \in Recipients,
         UNCHANGED <<now, db, expires, make, adm, burned, deliveries>>,
         \A s \in Recipients \ {r} : req'[s] = req[s],
         \/ req'[r] = IdleRequest
         \/ /\ req'[r].pc = "gate" /\ ~req'[r].secret
            /\ Known(req'[r].link)
  PROVE  Inv'
<1> USE DEF Inv
<1>1. DraftsAreFresh' /\ SingleDelivery'
  BY DEF DraftsAreFresh, SingleDelivery
<1>2. RequestsNameKnownLinks'
  BY DEF RequestsNameKnownLinks, Known, IdleRequest
<1>3. \A s \in Recipients, l \in Links : Serves(s, l)' => Serves(s, l) /\ s # r
  BY DEF Serves, IdleRequest
<1>4. LiveIsUntouched'
  BY <1>3 DEF LiveIsUntouched, Live
<1>5. HoldersHaveSecrets'
  BY DEF HoldersHaveSecrets, Holds, IdleRequest
<1>6. OneServed'
  BY <1>3 DEF OneServed, IdleRequest
<1> QED
  BY <1>1, <1>2, <1>4, <1>5, <1>6

(* The content of l leaves the server to the request that won it.          *)
LEMMA DeliverFrame ==
  ASSUME Inv, TypeOK', NEW r \in Recipients, NEW l \in Links, Holds(r, l),
         UNCHANGED <<now, db, expires, make, adm, burned>>,
         deliveries' = [deliveries EXCEPT ![l] = @ + 1],
         \A s \in Recipients \ {r} : req'[s] = req[s],
         req'[r] = IdleRequest \/ req'[r] = [req[r] EXCEPT !.pc = "streaming"]
  PROVE  Inv'
<1> USE DEF Inv, TypeOK
<1>1. deliveries[l] = 0 /\ ~Live(l) /\ make[l] = "done" /\ Serves(r, l)
  BY DEF HoldersHaveSecrets, LiveIsUntouched, RequestsNameKnownLinks, Known, Holds, Serves
<1>2. \A s \in Recipients, k \in Links : Serves(s, k)' => Serves(s, k)
  BY <1>1 DEF Serves, IdleRequest, Opening
<1>3. \A s \in Recipients, k \in Links : Holds(s, k)' => Holds(s, k) /\ s # r /\ k # l
  <2> SUFFICES ASSUME NEW s \in Recipients, NEW k \in Links, Holds(s, k)'
               PROVE  Holds(s, k) /\ s # r /\ k # l
    OBVIOUS
  <2>1. s # r
    BY DEF Holds, IdleRequest, Opening
  <2>2. Holds(s, k)
    BY <2>1 DEF Holds
  <2>3. k # l
    BY <2>1, <2>2, <1>1 DEF OneServed, Serves, Holds
  <2> QED
    BY <2>1, <2>2, <2>3
<1>4. DraftsAreFresh' /\ SingleDelivery'
  BY <1>1 DEF DraftsAreFresh, SingleDelivery, Drafts
<1>5. RequestsNameKnownLinks'
  BY <1>1 DEF RequestsNameKnownLinks, Known, IdleRequest, Holds, Opening
<1>6. LiveIsUntouched'
  BY <1>1, <1>2 DEF LiveIsUntouched, Live
<1>7. HoldersHaveSecrets'
  BY <1>3 DEF HoldersHaveSecrets, Holds
<1>8. OneServed'
  BY <1>2 DEF OneServed, IdleRequest, Holds, Opening
<1> QED
  BY <1>4, <1>5, <1>6, <1>7, <1>8

(* A claim takes the secrets of a live link to the request that made it.   *)
LEMMA InvClaim ==
  ASSUME Inv, TypeOK', NEW r \in Recipients, Claim(r)
  PROVE  Inv'
<1> USE DEF Inv
<1>0. PICK l \in Links : l = req[r].link
  BY DEF TypeOK, Claim, Opening, IdleRequest
<1>1. /\ req[r].pc = "gate" /\ Live(l)
      /\ make[l] = "done" /\ deliveries[l] = 0 /\ l \notin burned
      /\ db[l].secret /\ (l \in FileLinks => db[l].path)
      /\ \A s \in Recipients : ~Serves(s, l)
  BY <1>0 DEF Claim, Claimable, RequestsNameKnownLinks, Known, LiveIsUntouched
<1>2. /\ db' = [db EXCEPT ![l] = ClaimedRecord(l)]
      /\ UNCHANGED <<now, expires, make, adm, burned, deliveries>>
      /\ \A s \in Recipients \ {r} : req'[s] = req[s]
  BY <1>0 DEF TypeOK, Claim, history
<1>3. \/ req'[r] = IdleRequest
      \/ /\ req'[r].pc = "claimed" /\ req'[r].link = l
         /\ req'[r].secret /\ (l \in FileLinks => req'[r].path)
  BY <1>0, <1>1 DEF TypeOK, Claim, ClaimReply
<1>4. /\ db'[l] = ClaimedRecord(l) /\ ~Live(l)'
      /\ ~db'[l].secret /\ ~db'[l].path
      /\ \A k \in Links \ {l} : db'[k] = db[k]
  BY <1>1, <1>2 DEF TypeOK, ClaimedRecord, Live
<1>5. DraftsAreFresh' /\ SingleDelivery'
  BY <1>1, <1>2, <1>4 DEF TypeOK, DraftsAreFresh, SingleDelivery, Drafts
<1>6. RequestsNameKnownLinks'
  BY <1>1, <1>2, <1>3 DEF RequestsNameKnownLinks, Known, IdleRequest
<1>7. LiveIsUntouched'
  BY <1>1, <1>2, <1>3, <1>4 DEF LiveIsUntouched, Live, Serves, IdleRequest
<1>8. HoldersHaveSecrets'
  <2> SUFFICES ASSUME NEW s \in Recipients, NEW k \in Links, Holds(s, k)'
               PROVE  /\ req'[s].secret /\ (k \in FileLinks => req'[s].path)
                      /\ ~db'[k].secret /\ ~db'[k].path
                      /\ deliveries'[k] = 0
    BY DEF HoldersHaveSecrets
  <2>1. CASE s = r
    BY <2>1, <1>1, <1>2, <1>3, <1>4 DEF Holds, IdleRequest
  <2>2. CASE s # r
    <3>1. Holds(s, k)
      BY <2>2, <1>2 DEF Holds
    <3>2. k # l
      BY <3>1, <1>1 DEF Serves, Holds
    <3> QED
      BY <3>1, <3>2, <2>2, <1>2, <1>4 DEF HoldersHaveSecrets
  <2> QED
    BY <2>1, <2>2
<1>9. OneServed'
  BY <1>1, <1>2, <1>3 DEF OneServed, Serves, IdleRequest
<1> QED
  BY <1>5, <1>6, <1>7, <1>8, <1>9

LEMMA InvOpen == Inv /\ TypeOK' /\ (\E r \in Recipients : Open(r)) => Inv'
<1> SUFFICES ASSUME Inv, TypeOK', NEW r \in Recipients, Open(r) PROVE Inv'
  OBVIOUS
<1>t. req \in [Recipients -> Opening \cup {IdleRequest}]
  BY DEF Inv, TypeOK
<1>1. ASSUME NEW l \in Links, Look(r, l) PROVE Inv'
  BY <1>1, <1>t, OpeningFrame DEF Look, history, IdleRequest
<1>2. CASE TurnAway(r)
  BY <1>2, <1>t, OpeningFrame DEF TurnAway, history
<1>3. CASE Claim(r)
  BY <1>3, InvClaim
<1>4. CASE ClaimGone(r)
  BY <1>4, <1>t, OpeningFrame DEF ClaimGone, history
<1>5. CASE RevealText(r)
  <2>1. req[r].link \in Links /\ Holds(r, req[r].link)
    BY <1>5, <1>t DEF RevealText, Holds, Links
  <2>2. req[r].secret
    BY <2>1 DEF Inv, HoldersHaveSecrets
  <2> QED
    BY <1>5, <1>t, <2>1, <2>2, DeliverFrame DEF RevealText
<1>6. CASE OpenFile(r)
  <2>1. req[r].link \in Links /\ Holds(r, req[r].link)
    BY <1>6, <1>t DEF OpenFile, Holds, Links
  <2> QED
    BY <1>6, <1>t, <2>1, DeliverFrame DEF OpenFile
<1>7. CASE OpenMissing(r)
  BY <1>7, <1>t, OpeningFrame DEF OpenMissing, history
<1>8. CASE EndDownload(r)
  BY <1>8, <1>t, OpeningFrame DEF EndDownload, history
<1> QED
  BY <1>1, <1>2, <1>3, <1>4, <1>5, <1>6, <1>7, <1>8 DEF Open

(* A step that only clears records, or lets them expire, preserves the     *)
(* invariant.                                                              *)
LEMMA ClearFrame ==
  ASSUME Inv, TypeOK', UNCHANGED <<expires, make, req, deliveries>>,
         \A l \in Links :
           \/ db'[l] = db[l] /\ (Live(l) => now' < expires[l] /\ l \notin burned')
           \/ db'[l] = NoRecord
           \/ db'[l] = BurntRecord(l) /\ make[l] \notin Drafts,
         \A a \in Admins : adm'[a].pc = "burn" => make[adm'[a].link] \notin Drafts,
         \A l \in burned' \ burned : make[l] \notin Drafts
  PROVE  Inv'
<1> USE DEF Inv
<1>1. \A l \in Links : /\ Live(l)' => db'[l] = db[l] /\ Live(l)
                       /\ ~db[l].secret => ~db'[l].secret
                       /\ ~db[l].path => ~db'[l].path
  BY DEF Live, NoRecord, BurntRecord
<1>2. DraftsAreFresh'
  BY DEF DraftsAreFresh
<1>3. RequestsNameKnownLinks'
  BY DEF RequestsNameKnownLinks, Known
<1>4. LiveIsUntouched'
  BY <1>1 DEF LiveIsUntouched, Serves, Live, NoRecord, BurntRecord
<1>5. HoldersHaveSecrets'
  BY <1>1 DEF HoldersHaveSecrets, Holds
<1>6. OneServed' /\ SingleDelivery'
  BY DEF OneServed, SingleDelivery, Serves
<1> QED
  BY <1>2, <1>3, <1>4, <1>5, <1>6

LEMMA InvBurn == Inv /\ TypeOK' /\ (\E a \in Admins : Burn(a)) => Inv'
<1> SUFFICES ASSUME Inv, TypeOK', NEW a \in Admins, Burn(a) PROVE Inv'
  OBVIOUS
<1>t. TypeOK /\ \A b \in Admins : adm[b].pc = "burn" => make[adm[b].link] \notin Drafts
  BY DEF Inv, RequestsNameKnownLinks
<1>l. \A l \in Links : Live(l) => now < expires[l] /\ l \notin burned
  BY DEF Inv, LiveIsUntouched
<1>1. ASSUME NEW l \in Links, BurnLook(a, l) PROVE Inv'
  <2>1. make[l] \notin Drafts
    BY <1>1 DEF BurnLook, Exists, Inv, DraftsAreFresh, NoRecord
  <2>2. \A b \in Admins : adm'[b].pc = "burn" => make[adm'[b].link] \notin Drafts
    BY <1>1, <1>t, <2>1 DEF BurnLook, TypeOK
  <2> QED
    BY <1>1, <1>l, <2>2, ClearFrame DEF BurnLook, history
<1>2. CASE BurnItem(a)
  <2>1. PICK l \in Links : l = adm[a].link
    BY <1>2, <1>t DEF BurnItem, TypeOK, Burning, IdleBurn
  <2>2. make[l] \notin Drafts /\ adm[a].pc = "burn"
    BY <1>2, <1>t, <2>1 DEF BurnItem
  <2>3. \A b \in Admins : adm'[b].pc = "burn" => make[adm'[b].link] \notin Drafts
    BY <1>2, <1>t DEF BurnItem, TypeOK, Burning, IdleBurn
  <2>4. \A k \in Links :
          \/ db'[k] = db[k] /\ (Live(k) => now' < expires[k] /\ k \notin burned')
          \/ db'[k] = BurntRecord(k) /\ make[k] \notin Drafts
    BY <1>2, <1>t, <1>l, <2>1, <2>2 DEF BurnItem, TypeOK
  <2>5. \A k \in burned' \ burned : make[k] \notin Drafts
    BY <1>2, <2>1, <2>2 DEF BurnItem
  <2> QED
    BY <1>2, <2>3, <2>4, <2>5, ClearFrame DEF BurnItem
<1>3. CASE BurnFails(a) \/ BurnDelete(a)
  <2>1. \A b \in Admins : adm'[b].pc = "burn" => make[adm'[b].link] \notin Drafts
    BY <1>3, <1>t DEF BurnFails, BurnDelete, TypeOK, IdleBurn
  <2> QED
    BY <1>3, <1>l, <2>1, ClearFrame DEF BurnFails, BurnDelete, history
<1> QED
  BY <1>1, <1>2, <1>3 DEF Burn

LEMMA InvCleanup == Inv /\ TypeOK' /\ Cleanup => Inv'
<1> SUFFICES ASSUME Inv, TypeOK', Cleanup PROVE Inv'
  OBVIOUS
<1> QED
  BY Frame DEF Cleanup, CleanupOlderThan, LookupActive, LookupFails, ListFiles,
               VisitFile, EndWalk, history

LEMMA InvTick == Inv /\ TypeOK' /\ Tick => Inv'
<1> SUFFICES ASSUME Inv, TypeOK', Tick PROVE Inv'
  OBVIOUS
<1>1. \A l \in Links :
        \/ db'[l] = db[l] /\ (Live(l) => now' < expires[l] /\ l \notin burned')
        \/ db'[l] = NoRecord
  <2> SUFFICES ASSUME NEW l \in Links, db'[l] # NoRecord
               PROVE  db'[l] = db[l] /\ (Live(l) => now' < expires[l] /\ l \notin burned')
    OBVIOUS
  <2>1. db'[l] = db[l] /\ ~(Exists(l) /\ db[l].deadline <= now + 1)
    BY DEF Tick, Evicted
  <2>2. Live(l) => Exists(l) /\ db[l].deadline = expires[l] /\ l \notin burned
    BY DEF Inv, LiveIsUntouched, Live, Exists
  <2> QED
    BY <2>1, <2>2 DEF Tick, history, Inv, TypeOK
<1>2. \A a \in Admins : adm'[a].pc = "burn" => make[adm'[a].link] \notin Drafts
  BY DEF Tick, Inv, RequestsNameKnownLinks
<1> QED
  BY <1>1, <1>2, ClearFrame DEF Tick, history

(* A crash ends every request; what it leaves behind is a crashed request  *)
(* in place of a draft, and no draft is left in the middle of its writes.  *)
LEMMA InvCrash == Inv /\ TypeOK' /\ Crash => Inv'
<1> SUFFICES ASSUME Inv, TypeOK', Crash PROVE Inv'
  OBVIOUS
<1> USE DEF Inv
<1>1. \A l \in Links : make'[l] \in Drafts => make[l] \in Drafts
  BY DEF Crash, Drafts
<1>2. \A r \in Recipients, l \in Links : ~Serves(r, l)' /\ ~Holds(r, l)'
  BY DEF Crash, Serves, Holds, IdleRequest
<1>3. DraftsAreFresh' /\ SingleDelivery'
  BY <1>1 DEF Crash, history, DraftsAreFresh, SingleDelivery
<1>4. RequestsNameKnownLinks'
  BY DEF Crash, RequestsNameKnownLinks, IdleRequest, IdleBurn
<1>5. LiveIsUntouched'
  BY <1>2 DEF Crash, history, LiveIsUntouched, Live
<1>6. HoldersHaveSecrets'
  BY <1>2 DEF HoldersHaveSecrets
<1>7. OneServed'
  BY <1>2 DEF Crash, OneServed, IdleRequest
<1> QED
  BY <1>3, <1>4, <1>5, <1>6, <1>7

LEMMA InvNext == Inv /\ TypeOK' /\ [Next]_vars => Inv'
<1> SUFFICES ASSUME Inv, TypeOK', [Next]_vars PROVE Inv'
  OBVIOUS
<1>1. CASE Next
  BY <1>1, InvCreate, InvOpen, InvBurn, InvCleanup, InvTick, InvCrash DEF Next
<1>2. CASE UNCHANGED vars
  BY <1>2, Frame DEF vars
<1> QED
  BY <1>1, <1>2

(* The invariant holds in every state of a behaviour.                      *)
THEOREM Invariance == Spec => []Inv
BY InvInit, InvNext, TypeCorrect, PTL DEF Spec

-----------------------------------------------------------------------------
(* Single use: whatever interleaves, what a link guards leaves the server  *)
(* at most once.                                                           *)
THEOREM SingleDeliveryHolds == Spec => []SingleDelivery
<1>1. Inv => SingleDelivery
  BY DEF Inv
<1> QED
  BY <1>1, Invariance, PTL

(* The winner of a claim has the secrets, and neither Redis nor another    *)
(* request has them from then on.                                          *)
THEOREM SecretHasOneHolderHolds == Spec => []SecretHasOneHolder
<1>1. Inv => SecretHasOneHolder
  <2> SUFFICES ASSUME Inv, NEW l \in Links, NEW r \in Recipients, Holds(r, l)
               PROVE  /\ req[r].secret /\ (l \in FileLinks => req[r].path)
                      /\ ~db[l].secret /\ ~db[l].path
                      /\ \A s \in Recipients \ {r} : ~(req[s].link = l /\ req[s].secret)
    BY DEF SecretHasOneHolder
  <2>1. \A s \in Recipients \ {r} : ~(req[s].link = l /\ req[s].secret)
    BY DEF Inv, OneServed, Serves, Holds
  <2> QED
    BY <2>1 DEF Inv, HoldersHaveSecrets
<1> QED
  BY <1>1, Invariance, PTL

(* A link can be claimed only before its ExpiresAt.                        *)
THEOREM NoLiveRecordOutlivesExpiryHolds == Spec => []NoLiveRecordOutlivesExpiry
<1>1. Inv => NoLiveRecordOutlivesExpiry
  BY DEF Inv, LiveIsUntouched, NoLiveRecordOutlivesExpiry
<1> QED
  BY <1>1, Invariance, PTL

(* A request comes to hold the secrets of a link by a claim that wins, and *)
(* a claim wins only while the record is available.                        *)
LEMMA HoldsByClaim ==
  ASSUME Inv, Next, NEW r \in Recipients, NEW l \in Links, Holds(r, l)', ~Holds(r, l)
  PROVE  Claim(r) /\ req[r].link = l /\ Live(l)
<1>t. TypeOK
  BY DEF Inv
<1>1. req'[r] # req[r] /\ req'[r].pc = "claimed" /\ req'[r].link = l
  BY DEF Holds
<1>2. ASSUME NEW s \in Recipients, Open(s) PROVE Claim(s)
  <2>1. CASE \E k \in Links : Look(s, k)
    BY <2>1, <1>t, <1>1 DEF Look, TypeOK, IdleRequest
  <2>2. CASE TurnAway(s) \/ ClaimGone(s) \/ OpenMissing(s) \/ EndDownload(s)
    BY <2>2, <1>t, <1>1 DEF TurnAway, ClaimGone, OpenMissing, EndDownload, TypeOK, IdleRequest
  <2>3. CASE RevealText(s)
    BY <2>3, <1>t, <1>1 DEF RevealText, TypeOK, IdleRequest
  <2>4. CASE OpenFile(s)
    <3>1. req' = [req EXCEPT ![s] = [req[s] EXCEPT !.pc = "streaming"]]
      BY <2>4, <1>t DEF OpenFile, TypeOK
    <3>2. req'[s].pc = "streaming" /\ \A k \in Recipients \ {s} : req'[k] = req[k]
      BY <2>4, <3>1, <1>t DEF OpenFile, TypeOK, IdleRequest, Opening
    <3> QED
      BY <3>2, <1>1
  <2> QED
    BY <1>2, <2>1, <2>2, <2>3, <2>4 DEF Open
<1>3. ASSUME NEW s \in Recipients, Claim(s) PROVE s = r /\ req[r].link = l /\ Live(l)
  BY <1>t, <1>1, <1>3 DEF Claim, Claimable, TypeOK, IdleRequest
<1>4. CASE Create
  BY <1>1, <1>4 DEF Create, BeginFile, WriteFile, WriteFails, StoreFile, StoreFileFails,
     StoreText, AnswerCreator, ConfirmBurn
<1>5. CASE Cleanup \/ Tick \/ \E a \in Admins : Burn(a)
  BY <1>1, <1>5 DEF Cleanup, CleanupOlderThan, LookupActive, LookupFails, ListFiles,
     VisitFile, EndWalk, Tick, Burn, BurnLook, BurnItem, BurnFails, BurnDelete
<1>6. CASE Crash
  BY <1>1, <1>6 DEF Crash, IdleRequest
<1> QED
  BY <1>2, <1>3, <1>4, <1>5, <1>6 DEF Next

(* After an administrator burned a link no request wins a claim of it,     *)
(* whatever it had read before: winning takes a live record, and a burned  *)
(* link never has one again.                                               *)
THEOREM BurnIsFinalHolds == Spec => BurnIsFinal
<1>1. ASSUME Inv, Next, NEW r \in Recipients, NEW l \in burned, Holds(r, l)'
      PROVE  Holds(r, l)
  <2>1. l \in Links /\ ~Live(l)
    BY <1>1 DEF Inv, TypeOK, LiveIsUntouched
  <2> QED
    BY <1>1, <2>1, HoldsByClaim
<1>2. Inv /\ [Next]_vars => [\A r \in Recipients, l \in burned : Holds(r, l)' => Holds(r, l)]_vars
  BY <1>1
<1> QED
  BY <1>2, Invariance, PTL DEF Spec, BurnIsFinal

(***************************************************************************)
(* Files are lost to the sweep for orphans only.  The proof goes by what a *)
(* step may change: a link becomes available, or awaited, only by the      *)
(* storing of its item and by a claim; its file goes in six ways, and each *)
(* of them is noted in raced, or comes when nobody needs the file any more. *)
(***************************************************************************)

(* The steps that take the file of l away.                                 *)
Lost(l) ==
  \/ WriteFails(l) \/ StoreFileFails(l)
  \/ \E r \in Recipients : EndDownload(r) /\ req[r].link = l
  \/ \E a \in Admins : BurnDelete(a) /\ adm[a].link = l
  \/ CleanupOlderThan /\ TooOld(l)
  \/ VisitFile(l) /\ l \notin active

-----------------------------------------------------------------------------
(* What a step may change                                                  *)

LEMMA DiskMoves ==
  ASSUME TypeOK, Next, NEW l \in FileLinks
  PROVE  \/ disk'[l] = disk[l]
         \/ disk'[l] = NoFile /\ Lost(l)
         \/ BeginFile(l) \/ WriteFile(l)
<1>1. CASE Create
  <2>1. ASSUME NEW k \in FileLinks, BeginFile(k) \/ WriteFile(k), k # l
        PROVE  disk'[l] = disk[l]
    BY <2>1 DEF TypeOK, BeginFile, WriteFile
  <2>2. ASSUME NEW k \in FileLinks, WriteFails(k) \/ StoreFileFails(k)
        PROVE  disk'[l] = disk[l] \/ (disk'[l] = NoFile /\ k = l)
    BY <2>2 DEF TypeOK, WriteFails, StoreFileFails
  <2>3. ASSUME NEW k, StoreFile(k) \/ StoreText(k) \/ AnswerCreator(k) \/ ConfirmBurn(k)
        PROVE  disk'[l] = disk[l]
    BY <2>3 DEF StoreFile, StoreText, AnswerCreator, ConfirmBurn
  <2> QED
    BY <1>1, <2>1, <2>2, <2>3 DEF Create, Lost
<1>2. ASSUME NEW r \in Recipients, Open(r) PROVE disk'[l] = disk[l] \/ (disk'[l] = NoFile /\ Lost(l))
  <2>1. CASE EndDownload(r)
    BY <2>1 DEF TypeOK, EndDownload, Lost
  <2>2. CASE ~EndDownload(r)
    BY <1>2, <2>2
    DEF Open, Look, TurnAway, Claim, ClaimGone, RevealText, OpenFile, OpenMissing
  <2> QED
    BY <2>1, <2>2
<1>3. ASSUME NEW a \in Admins, Burn(a) PROVE disk'[l] = disk[l] \/ (disk'[l] = NoFile /\ Lost(l))
  <2>1. CASE BurnDelete(a)
    BY <2>1 DEF TypeOK, BurnDelete, Lost
  <2>2. CASE ~BurnDelete(a)
    BY <1>3, <2>2 DEF Burn, BurnLook, BurnItem, BurnFails
  <2> QED
    BY <2>1, <2>2
<1>4. CASE Cleanup
  <2>1. CASE CleanupOlderThan
    BY <2>1 DEF CleanupOlderThan, Lost
  <2>2. ASSUME NEW k \in FileLinks, VisitFile(k)
        PROVE  disk'[l] = disk[l] \/ (disk'[l] = NoFile /\ k = l /\ l \notin active)
    BY <2>2 DEF TypeOK, VisitFile
  <2>3. CASE LookupActive \/ LookupFails \/ ListFiles \/ EndWalk
    BY <2>3 DEF LookupActive, LookupFails, ListFiles, EndWalk
  <2> QED
    BY <1>4, <2>1, <2>2, <2>3 DEF Cleanup, Lost
<1>5. CASE Tick \/ Crash
  BY <1>5 DEF Tick, Crash
<1> QED
  BY <1>1, <1>2, <1>3, <1>4, <1>5 DEF Next

(* The request that creates l moves forward; the times and the notes grow. *)
LEMMA MakeMoves ==
  ASSUME TypeOK, Next, NEW l \in FileLinks
  PROVE  /\ make'[l] \in Drafts => make[l] \in Drafts
         /\ make[l] = "failed" => make'[l] = "failed"
         /\ make'[l] # make[l] /\ make'[l] = "written" => WriteFile(l) /\ OnDisk(l)'
         /\ make'[l] # make[l] /\ make'[l] \in {"none", "writing"} => BeginFile(l)
         /\ expires'[l] # expires[l] => BeginFile(l)
<1>1. CASE Create
  <2>1. ASSUME NEW k \in Links, k # l,
               \/ k \in FileLinks /\ (BeginFile(k) \/ WriteFile(k) \/ WriteFails(k)
                                      \/ StoreFile(k) \/ StoreFileFails(k))
               \/ StoreText(k) \/ AnswerCreator(k) \/ ConfirmBurn(k)
        PROVE  make'[l] = make[l] /\ expires'[l] = expires[l]
    BY <2>1
    DEF TypeOK, Links, BeginFile, WriteFile, WriteFails, StoreFile, StoreFileFails, StoreText,
        AnswerCreator, ConfirmBurn
  <2>2. CASE BeginFile(l)
    BY <2>2 DEF TypeOK, Links, BeginFile, Drafts
  <2>3. CASE WriteFile(l)
    BY <2>3 DEF TypeOK, Links, WriteFile, Drafts, OnDisk
  <2>4. CASE WriteFails(l) \/ StoreFile(l) \/ StoreFileFails(l) \/ AnswerCreator(l)
    BY <2>4 DEF TypeOK, Links, WriteFails, StoreFile, StoreFileFails, AnswerCreator, Drafts
  <2>5. CASE ConfirmBurn(l)
    BY <2>5 DEF ConfirmBurn
  <2> QED
    BY <1>1, <2>1, <2>2, <2>3, <2>4, <2>5, LinksAssumption DEF Create, Links
<1>2. CASE Cleanup \/ Tick \/ (\E a \in Admins : Burn(a)) \/ \E r \in Recipients : Open(r)
  BY <1>2 DEF Cleanup, CleanupOlderThan, LookupActive, LookupFails, ListFiles, VisitFile,
     EndWalk, Tick, Burn, BurnLook, BurnItem, BurnFails, BurnDelete, Open, Look, TurnAway,
     Claim, ClaimGone, RevealText, OpenFile, OpenMissing, EndDownload
<1>3. CASE Crash
  BY <1>3 DEF Crash, Drafts, TypeOK, Links
<1> QED
  BY <1>1, <1>2, <1>3 DEF Next

LEMMA HistoryGrows ==
  ASSUME TypeOK, Next
  PROVE  now <= now' /\ raced \subseteq raced' /\ burned \subseteq burned'
<1>1. CASE Create
  BY <1>1 DEF TypeOK, Create, BeginFile, WriteFile, WriteFails, StoreFile, StoreFileFails,
     StoreText, AnswerCreator, ConfirmBurn, history
<1>2. ASSUME NEW r \in Recipients, Open(r)
      PROVE  now <= now' /\ raced \subseteq raced' /\ burned \subseteq burned'
  <2>1. CASE (\E l \in Links : Look(r, l)) \/ TurnAway(r) \/ ClaimGone(r) \/ OpenMissing(r)
    <3>1. UNCHANGED <<now, history>>
      BY <2>1 DEF Look, TurnAway, ClaimGone, OpenMissing
    <3> QED
      BY <3>1 DEF TypeOK, history
  <2>2. CASE Claim(r) \/ RevealText(r) \/ OpenFile(r) \/ EndDownload(r)
    BY <2>2 DEF TypeOK, Claim, RevealText, OpenFile, EndDownload, history
  <2> QED
    BY <1>2, <2>1, <2>2 DEF Open
<1>3. ASSUME NEW a \in Admins, Burn(a)
      PROVE  now <= now' /\ raced \subseteq raced' /\ burned \subseteq burned'
  BY <1>3 DEF TypeOK, Burn, BurnLook, BurnItem, BurnFails, BurnDelete, history
<1>4. CASE Cleanup
  BY <1>4 DEF TypeOK, Cleanup, CleanupOlderThan, LookupActive, LookupFails, ListFiles,
     VisitFile, EndWalk, history
<1>5. CASE Tick \/ Crash
  BY <1>5 DEF TypeOK, Tick, Crash, history
<1> QED
  BY <1>1, <1>2, <1>3, <1>4, <1>5 DEF Next

(* Only the storing of its item makes a file link available.               *)
LEMMA LiveByStore ==
  ASSUME TypeOK, Next, NEW l \in FileLinks, Live(l)', ~Live(l)
  PROVE  StoreFile(l) \/ StoreFileFails(l)
<1>1. db'[l] # db[l] /\ db'[l].status = "available"
  BY DEF Live
<1>2. CASE Create
  <2>1. ASSUME NEW k \in TextLinks, StoreText(k) PROVE db'[l] = db[l]
    BY <2>1, LinksAssumption DEF TypeOK, Links, StoreText
  <2>2. ASSUME NEW k \in FileLinks, k # l, StoreFile(k) \/ StoreFileFails(k)
        PROVE  db'[l] = db[l]
    BY <2>2 DEF TypeOK, Links, StoreFile, StoreFileFails
  <2>3. ASSUME NEW k, BeginFile(k) \/ WriteFile(k) \/ WriteFails(k) \/ AnswerCreator(k)
                      \/ ConfirmBurn(k)
        PROVE  db'[l] = db[l]
    BY <2>3 DEF BeginFile, WriteFile, WriteFails, AnswerCreator, ConfirmBurn
  <2> QED
    BY <1>1, <1>2, <2>1, <2>2, <2>3 DEF Create
<1>3. ASSUME NEW r \in Recipients, Open(r) PROVE FALSE
  <2>1. CASE Claim(r)
    BY <1>1, <2>1 DEF Claim, ClaimedRecord, TypeOK, Links
  <2>2. CASE ~Claim(r)
    BY <1>1, <1>3, <2>2
    DEF Open, Look, TurnAway, ClaimGone, RevealText, OpenFile, OpenMissing, EndDownload
  <2> QED
    BY <2>1, <2>2
<1>4. ASSUME NEW a \in Admins, Burn(a) PROVE FALSE
  <2>1. CASE BurnItem(a)
    BY <1>1, <2>1 DEF BurnItem, BurntRecord, TypeOK, Links
  <2>2. CASE ~BurnItem(a)
    BY <1>1, <1>4, <2>2 DEF Burn, BurnLook, BurnFails, BurnDelete
  <2> QED
    BY <2>1, <2>2
<1>5. CASE Tick
  BY <1>1, <1>5 DEF Tick, Evicted, NoRecord, Links
<1>6. CASE Cleanup \/ Crash
  BY <1>1, <1>6 DEF Cleanup, CleanupOlderThan, LookupActive, LookupFails, ListFiles,
     VisitFile, EndWalk, Crash
<1> QED
  BY <1>2, <1>3, <1>4, <1>5, <1>6 DEF Next

(* Only a claim that wins makes it awaited.                                *)
LEMMA AwaitedByClaim ==
  ASSUME Inv, Next, NEW l \in FileLinks, Awaited(l)', ~Awaited(l)
  PROVE  /\ Live(l) /\ make[l] = "done"
         /\ disk' = disk /\ make' = make /\ raced' = raced /\ burned' = burned
<1>1. PICK r \in Recipients : Holds(r, l)' /\ ~Holds(r, l)
  BY DEF Awaited
<1>2. Claim(r) /\ req[r].link = l
  BY <1>1, HoldsByClaim DEF Links
<1> QED
  BY <1>2 DEF Claim, Claimable, history, Inv, RequestsNameKnownLinks, Known

-----------------------------------------------------------------------------
(* The invariant                                                           *)

(* A file is as old as its name says, and its link expires no later than   *)
(* MaxTTL after it was written: by the time the walk finds it too old the  *)
(* link has expired.                                                       *)
Dated(l) ==
  disk[l] # NoFile => disk[l].mtime <= now /\ expires[l] <= disk[l].mtime + MaxTTL

(* The file has its final name only when the request has written it.       *)
NotYetNamed(l) == make[l] \in {"none", "writing"} => ~OnDisk(l)

(* The property, and what it needs of a file whose item is not stored yet. *)
NeededIsThere(l) ==
  l \notin raced =>
    /\ Live(l) /\ make[l] # "failed" => OnDisk(l)
    /\ make[l] = "written" /\ now < expires[l] => OnDisk(l)
    /\ Awaited(l) /\ l \notin burned => OnDisk(l)

(* Nobody needs the file, or ever will.                                    *)
Unneeded(l) == make[l] \notin Drafts /\ ~Live(l) /\ ~Awaited(l)

(* What the walk is about to remove is noted in raced or unneeded.         *)
DoomedIsUnneeded(l) ==
  cleaner = "walk" /\ l \in pending \ active /\ l \notin raced => Unneeded(l)

(* A burn notes the link before it deletes the file.                       *)
BurnsAreNoted == \A a \in Admins : adm[a].pc = "delete" => adm[a].link \in burned

(* The inductive invariant of the records and the files.                   *)
FilesInv ==
  /\ Inv /\ BurnsAreNoted
  /\ \A l \in FileLinks :
       Dated(l) /\ NotYetNamed(l) /\ NeededIsThere(l) /\ DoomedIsUnneeded(l)

LEMMA FilesInit == Init => FilesInv
BY InvInit DEF Init, FilesInv, BurnsAreNoted, Dated, NotYetNamed, NeededIsThere,
   DoomedIsUnneeded, IdleBurn, IdleRequest, OnDisk, NoFile, Live, NoRecord, Awaited, Holds, Links

LEMMA UnneededStays ==
  ASSUME Inv, Next, NEW l \in FileLinks, Unneeded(l)
  PROVE  Unneeded(l)'
<1>1. TypeOK /\ make'[l] \notin Drafts
  BY MakeMoves DEF Inv, Unneeded
<1>2. ~Live(l)'
  BY <1>1, LiveByStore DEF Unneeded, StoreFile, StoreFileFails, Drafts
<1>3. ~Awaited(l)'
  BY AwaitedByClaim DEF Unneeded
<1> QED
  BY <1>1, <1>2, <1>3 DEF Unneeded

LEMMA DatedStays ==
  ASSUME Inv, TypeOK', Next, NEW l \in FileLinks, Dated(l), NotYetNamed(l)
  PROVE  Dated(l)' /\ NotYetNamed(l)'
<1>0. TypeOK /\ now <= now' /\ now \in Nat /\ now' \in Nat
  BY HistoryGrows DEF Inv, TypeOK
<1>1. CASE BeginFile(l)
  <2>1. disk'[l] = [name |-> "tmp", mtime |-> now] /\ now' = now
    BY <1>0, <1>1 DEF BeginFile, TypeOK
  <2>2. expires'[l] <= now + MaxTTL
    BY <1>0, <1>1, TimeAssumption DEF BeginFile, TypeOK, Links
  <2> QED
    BY <1>0, <2>1, <2>2 DEF Dated, NotYetNamed, OnDisk
<1>2. CASE WriteFile(l)
  <2>1. CASE disk[l].name = "tmp"
    <3>1. /\ disk'[l] = [name |-> "bin", mtime |-> now] /\ now' = now
          /\ expires' = expires /\ make'[l] = "written"
      BY <1>0, <1>2, <2>1 DEF WriteFile, TypeOK, Links
    <3>2. disk[l].mtime <= now /\ expires[l] <= disk[l].mtime + MaxTTL
      BY <2>1 DEF Dated, NoFile
    <3>3. expires[l] \in Nat /\ disk[l].mtime \in Nat /\ MaxTTL \in Nat
      BY <1>0, TimeAssumption DEF TypeOK, Links, File
    <3> QED
      BY <1>0, <3>1, <3>2, <3>3 DEF Dated, NotYetNamed
  <2>2. CASE disk[l].name # "tmp"
    BY <1>0, <1>2, <2>2 DEF WriteFile, TypeOK, Links, Dated, NotYetNamed
  <2> QED
    BY <2>1, <2>2
<1>3. CASE ~BeginFile(l) /\ ~WriteFile(l)
  <2>1. expires'[l] = expires[l] /\ (make'[l] \in {"none", "writing"} => make[l] = make'[l])
    BY <1>0, <1>3, MakeMoves
  <2>2. disk'[l] \in {disk[l], NoFile}
    BY <1>0, <1>3, DiskMoves
  <2>3. disk[l] \in File
    BY <1>0 DEF TypeOK
  <2> QED
    BY <1>0, <2>1, <2>2, <2>3 DEF Dated, NotYetNamed, OnDisk, NoFile, File
<1> QED
  BY <1>1, <1>2, <1>3

(* When a file goes, nobody needs it, or raced has it.                     *)
LEMMA LostIsUnneeded ==
  ASSUME FilesInv, TypeOK', Next, NEW l \in FileLinks, Lost(l), l \notin raced'
  PROVE  /\ make'[l] = "failed" \/ ~Live(l)'
         /\ ~(make'[l] = "written" /\ now' < expires'[l])
         /\ Awaited(l)' => l \in burned'
<1>0. /\ Inv /\ TypeOK /\ l \in Links /\ l \notin raced
      /\ make[l] \in Drafts => ~Live(l) /\ ~Awaited(l)
  <2>1. make[l] \in Drafts => ~Live(l)
    BY DEF FilesInv, Inv, DraftsAreFresh, Live, NoRecord, Links
  <2>2. ASSUME NEW r \in Recipients, Holds(r, l) PROVE make[l] \notin Drafts
    BY <2>2 DEF FilesInv, Inv, RequestsNameKnownLinks, Known, Holds, Drafts
  <2> QED
    BY <2>1, <2>2, HistoryGrows DEF FilesInv, Inv, Awaited, Links
<1>1. CASE WriteFails(l) \/ StoreFileFails(l)
  <2>1. make'[l] = "failed" /\ req' = req /\ make[l] \in Drafts
    BY <1>0, <1>1 DEF WriteFails, StoreFileFails, TypeOK, Drafts
  <2> QED
    BY <1>0, <2>1 DEF Awaited, Holds
<1>2. ASSUME Unneeded(l) PROVE ~Live(l)' /\ make'[l] # "written" /\ ~Awaited(l)'
  BY <1>0, <1>2, UnneededStays DEF Unneeded, Drafts
<1>3. ASSUME NEW r \in Recipients, EndDownload(r), req[r].link = l PROVE Unneeded(l)
  <2>1. Serves(r, l) /\ req[r].pc = "streaming" /\ Known(l)
    BY <1>0, <1>3 DEF EndDownload, Serves, Inv, RequestsNameKnownLinks
  <2>2. ~Live(l)
    BY <1>0, <2>1 DEF Inv, LiveIsUntouched
  <2>3. ~Awaited(l)
    BY <1>0, <2>1 DEF Inv, OneServed, Awaited, Holds, Serves
  <2> QED
    BY <2>1, <2>2, <2>3 DEF Unneeded, Known, Drafts
<1>4. ASSUME NEW a \in Admins, BurnDelete(a), adm[a].link = l
      PROVE  ~Live(l)' /\ make'[l] # "written" /\ l \in burned'
  <2>1. l \in burned /\ ~Live(l) /\ make[l] \notin Drafts
    BY <1>0, <1>4 DEF BurnDelete, FilesInv, BurnsAreNoted, Inv, LiveIsUntouched, DraftsAreFresh
  <2> QED
    BY <1>4, <2>1 DEF BurnDelete, history, Live, Drafts
<1>5. CASE CleanupOlderThan /\ TooOld(l)
  <2>1. expires[l] < now
    <3>1. disk[l].mtime < now - (MaxTTL + Hour) /\ expires[l] <= disk[l].mtime + MaxTTL
      BY <1>5 DEF TooOld, FilesInv, Dated
    <3>2. /\ now \in Nat /\ expires[l] \in Nat /\ disk[l].mtime \in Nat
          /\ MaxTTL \in Nat /\ Hour \in Nat
      BY <1>0, TimeAssumption DEF TypeOK, File
    <3> QED
      BY <3>1, <3>2
  <2>2. now \in Nat /\ expires[l] \in Nat
    BY <1>0 DEF TypeOK
  <2>3. ~Live(l)
    BY <1>0, <2>1, <2>2 DEF Inv, LiveIsUntouched
  <2>4. /\ UNCHANGED <<now, db, expires, make, req>>
        /\ ~Awaited(l)
    BY <1>0, <1>5 DEF CleanupOlderThan
  <2> QED
    BY <2>1, <2>2, <2>3, <2>4 DEF Live, Awaited, Holds
<1>6. ASSUME VisitFile(l), l \notin active PROVE Unneeded(l)
  BY <1>0, <1>6 DEF VisitFile, FilesInv, DoomedIsUnneeded
<1> QED
  BY <1>1, <1>2, <1>3, <1>4, <1>5, <1>6 DEF Lost

LEMMA NeededStays ==
  ASSUME FilesInv, TypeOK', Next, NEW l \in FileLinks
  PROVE  NeededIsThere(l)'
<1> SUFFICES ASSUME l \notin raced' PROVE
      /\ Live(l)' /\ make'[l] # "failed" => OnDisk(l)'
      /\ make'[l] = "written" /\ now' < expires'[l] => OnDisk(l)'
      /\ Awaited(l)' /\ l \notin burned' => OnDisk(l)'
  BY DEF NeededIsThere
<1>0. /\ Inv /\ TypeOK /\ l \in Links /\ l \notin raced /\ NeededIsThere(l)
      /\ now <= now' /\ burned \subseteq burned' /\ now \in Nat /\ now' \in Nat
      /\ expires[l] \in Nat /\ expires'[l] \in Nat
  BY HistoryGrows DEF FilesInv, Inv, TypeOK, Links
<1>d. make[l] \in Drafts => ~Live(l) /\ ~Awaited(l)
  <2>1. make[l] \in Drafts => ~Live(l)
    BY <1>0 DEF Inv, DraftsAreFresh, Live, NoRecord
  <2>2. ASSUME NEW r \in Recipients, Holds(r, l) PROVE make[l] \notin Drafts
    BY <1>0, <2>2 DEF Inv, RequestsNameKnownLinks, Known, Holds, Drafts
  <2> QED
    BY <2>1, <2>2 DEF Awaited
<1>1. CASE Lost(l)
  BY <1>1, LostIsUnneeded
<1>2. CASE BeginFile(l)
  <2>1. make[l] \in Drafts /\ make'[l] = "writing" /\ db' = db /\ req' = req
    BY <1>0, <1>2 DEF BeginFile, TypeOK, Drafts
  <2> QED
    BY <1>d, <2>1 DEF Live, Awaited, Holds
<1>3. CASE WriteFile(l)
  <2>1. /\ make[l] \in Drafts /\ db' = db /\ req' = req
        /\ make'[l] = "written" => OnDisk(l)'
    BY <1>0, <1>3 DEF WriteFile, TypeOK, Drafts, OnDisk
  <2> QED
    BY <1>d, <2>1 DEF Live, Awaited, Holds
<1>4. CASE disk'[l] = disk[l] /\ ~Lost(l) /\ ~BeginFile(l) /\ ~WriteFile(l)
  <2>1. /\ OnDisk(l)' <=> OnDisk(l)
        /\ expires'[l] = expires[l]
        /\ make'[l] # "failed" => make[l] # "failed"
        /\ make'[l] = "written" => make[l] = "written"
    BY <1>0, <1>4, MakeMoves DEF OnDisk
  <2>2. ASSUME Live(l)', make'[l] # "failed" PROVE OnDisk(l)
    <3>1. CASE Live(l)
      BY <1>0, <2>1, <2>2, <3>1 DEF NeededIsThere
    <3>2. CASE ~Live(l)
      <4>1. StoreFile(l)
        BY <1>0, <1>4, <2>2, <3>2, LiveByStore DEF Lost
      <4>2. make[l] = "written" /\ now < expires[l]
        BY <1>0, <2>2, <4>1 DEF StoreFile, Created, Live, NoRecord, TypeOK
      <4> QED
        BY <1>0, <4>2 DEF NeededIsThere
    <3> QED
      BY <3>1, <3>2
  <2>3. ASSUME make'[l] = "written", now' < expires'[l] PROVE OnDisk(l)
    BY <1>0, <2>1, <2>3 DEF NeededIsThere
  <2>4. ASSUME Awaited(l)', l \notin burned' PROVE OnDisk(l)
    <3>1. CASE Awaited(l)
      BY <1>0, <2>4, <3>1 DEF NeededIsThere
    <3>2. CASE ~Awaited(l)
      BY <1>0, <2>4, <3>2, AwaitedByClaim DEF NeededIsThere
    <3> QED
      BY <3>1, <3>2
  <2> QED
    BY <2>1, <2>2, <2>3, <2>4
<1> QED
  BY <1>0, <1>1, <1>2, <1>3, <1>4, DiskMoves

LEMMA DoomedStays ==
  ASSUME FilesInv, TypeOK', Next, NEW l \in FileLinks
  PROVE  DoomedIsUnneeded(l)'
<1> SUFFICES ASSUME cleaner' = "walk", l \in pending' \ active', l \notin raced'
             PROVE  Unneeded(l)'
  BY DEF DoomedIsUnneeded
<1>0. Inv /\ TypeOK /\ l \notin raced
  BY HistoryGrows DEF FilesInv, Inv
<1>1. CASE ListFiles
  <2>1. /\ OnDisk(l) /\ make[l] # "written" /\ ~Live(l) /\ ~Awaited(l)
    BY <1>1 DEF ListFiles
  <2>2. make[l] \notin Drafts
    BY <2>1 DEF FilesInv, NotYetNamed, Drafts
  <2> QED
    BY <1>0, <2>1, <2>2, UnneededStays DEF Unneeded
<1>2. CASE cleaner = "walk" /\ l \in pending \ active
  BY <1>0, <1>2, UnneededStays DEF FilesInv, DoomedIsUnneeded
<1>3. ListFiles \/ (cleaner = "walk" /\ l \in pending \ active)
  <2>1. CASE UNCHANGED sweep
    BY <2>1 DEF sweep
  <2>2. CASE Cleanup
    BY <2>2 DEF Cleanup, CleanupOlderThan, LookupActive, LookupFails, VisitFile, EndWalk
  <2>3. CASE Crash
    BY <2>3 DEF Crash
  <2>4. CASE Create \/ Tick \/ (\E a \in Admins : Burn(a)) \/ \E r \in Recipients : Open(r)
    BY <2>1, <2>4 DEF Create, BeginFile, WriteFile, WriteFails, StoreFile, StoreFileFails,
       StoreText, AnswerCreator, ConfirmBurn, Tick, Burn, BurnLook, BurnItem, BurnFails,
       BurnDelete, Open, Look, TurnAway, Claim, ClaimGone, RevealText, OpenFile, OpenMissing,
       EndDownload
  <2> QED
    BY <2>2, <2>3, <2>4 DEF Next
<1> QED
  BY <1>1, <1>2, <1>3

LEMMA BurnsStayNoted ==
  ASSUME FilesInv, Next
  PROVE  BurnsAreNoted'
<1>0. TypeOK /\ BurnsAreNoted /\ burned \subseteq burned'
  BY HistoryGrows DEF FilesInv, Inv
<1>1. CASE adm' = adm
  BY <1>0, <1>1 DEF BurnsAreNoted
<1>2. ASSUME NEW a \in Admins, Burn(a) PROVE BurnsAreNoted'
  <2>1. \A b \in Admins \ {a} : adm'[b] = adm[b]
    BY <1>0, <1>2 DEF Burn, BurnLook, BurnItem, BurnFails, BurnDelete, TypeOK
  <2>2. adm'[a].pc = "delete" => adm'[a].link \in burned'
    <3>1. CASE BurnItem(a)
      <4>1. adm'[a] = [adm[a] EXCEPT !.pc = "delete"] \/ adm'[a] = IdleBurn
        BY <1>0, <3>1 DEF BurnItem, TypeOK
      <4>2. adm[a].link \in burned' /\ adm[a] \in Burning
        BY <1>0, <3>1 DEF BurnItem, TypeOK, IdleBurn
      <4> QED
        BY <4>1, <4>2 DEF IdleBurn, Burning
    <3>2. CASE \E l \in Links : BurnLook(a, l)
      BY <1>0, <3>2 DEF BurnLook, TypeOK
    <3>3. CASE BurnFails(a) \/ BurnDelete(a)
      BY <1>0, <3>3 DEF BurnFails, BurnDelete, IdleBurn, TypeOK
    <3> QED
      BY <1>2, <3>1, <3>2, <3>3 DEF Burn
  <2> QED
    BY <1>0, <2>1, <2>2 DEF BurnsAreNoted
<1>3. CASE Crash
  BY <1>3 DEF Crash, IdleBurn, BurnsAreNoted
<1>4. CASE Create \/ Cleanup \/ Tick \/ \E r \in Recipients : Open(r)
  BY <1>1, <1>4 DEF Create, BeginFile, WriteFile, WriteFails, StoreFile, StoreFileFails,
     StoreText, AnswerCreator, ConfirmBurn, Tick, Cleanup, CleanupOlderThan, LookupActive,
     LookupFails, ListFiles, VisitFile, EndWalk, Open, Look, TurnAway, Claim, ClaimGone,
     RevealText, OpenFile, OpenMissing, EndDownload
<1> QED
  BY <1>2, <1>3, <1>4 DEF Next

LEMMA FilesNext == FilesInv /\ TypeOK' /\ [Next]_vars => FilesInv'
<1> SUFFICES ASSUME FilesInv, TypeOK', [Next]_vars PROVE FilesInv'
  OBVIOUS
<1>1. Inv'
  BY InvNext DEF FilesInv
<1>2. CASE Next
  BY <1>1, <1>2, BurnsStayNoted, DatedStays, NeededStays, DoomedStays DEF FilesInv
<1>3. CASE UNCHANGED vars
  BY <1>1, <1>3 DEF vars, FilesInv, BurnsAreNoted, Dated, NotYetNamed, NeededIsThere,
     DoomedIsUnneeded, Unneeded, OnDisk, Live, Awaited, Holds
<1> QED
  BY <1>2, <1>3

(* A file that a live link or a request still needs is lost only where     *)
(* raced has it: to the sweep for orphans, with a copy of the active paths *)
(* made too early or without its key, or to the age of a claim that waited *)
(* for an hour; never to the age of a live link, and to no request.        *)
THEOREM OnlyTheOrphanSweepLosesFilesHolds == Spec => []OnlyTheOrphanSweepLosesFiles
<1>1. FilesInv => OnlyTheOrphanSweepLosesFiles
  BY DEF FilesInv, NeededIsThere, OnlyTheOrphanSweepLosesFiles
<1> QED
  BY <1>1, FilesInit, FilesNext, TypeCorrect, PTL DEF Spec
=============================================================================
