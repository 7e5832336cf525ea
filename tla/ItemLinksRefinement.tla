------------------------ MODULE ItemLinksRefinement ------------------------
(***************************************************************************)
(* ItemLinks implements OneTimeLink under the mapping Phase, for any       *)
(* number of links, recipients and administrators.                         *)
(***************************************************************************)
EXTENDS ItemLinks_proofs

IsDraft(l) == make[l] \in Drafts

(* A step keeps the order of the phases of l: it makes a record live only  *)
(* out of a draft, lets a request win only a live record, and never turns  *)
(* a link back into a draft.                                               *)
Advances(l) ==
  /\ Live(l)' => Live(l) \/ IsDraft(l)
  /\ Awaited(l)' => Awaited(l) \/ Live(l)
  /\ IsDraft(l)' => IsDraft(l)

(* The content of a link leaves the server and its recipient's turn ends.  *)
Delivers(l) ==
  /\ Awaited(l) /\ deliveries'[l] = deliveries[l] + 1
  /\ ~Live(l)' /\ ~Awaited(l)' /\ ~IsDraft(l)'

(* A link is in one phase only: one that is live or taken is not a draft,  *)
(* and one that is taken is not live.                                      *)
LEMMA PhasesExclude ==
  ASSUME Inv, NEW l \in Links
  PROVE  /\ IsDraft(l) => ~Live(l) /\ ~Awaited(l)
         /\ Live(l) => ~Awaited(l)
<1>1. Awaited(l) => make[l] = "done"
  BY DEF Inv, RequestsNameKnownLinks, Known, Awaited, Holds
<1>2. Live(l) => ~Awaited(l)
  BY DEF Inv, LiveIsUntouched, Awaited, Holds, Serves
<1>3. IsDraft(l) => ~Live(l)
  BY DEF Inv, DraftsAreFresh, IsDraft, Live, NoRecord
<1> QED
  BY <1>1, <1>2, <1>3 DEF IsDraft, Drafts

LEMMA MapsInit == Init => Promise!Init
BY DEF Init, Promise!Init, Phase, Live, Awaited, Holds, NoRecord, IdleRequest, Drafts

(* Steps that advance or deliver every link are moves of the promise.      *)
LEMMA MapsStep ==
  ASSUME Inv, Inv',
         \A l \in Links : Delivers(l) \/ (Advances(l) /\ deliveries'[l] = deliveries[l])
  PROVE  Promise!Next
<1>1. \A l \in Links : Phase(l) \in Promise!Phases /\ Phase(l)' \in Promise!Phases
  BY DEF Phase, Promise!Phases
<1>2. deliveries \in [Links -> Nat] /\ deliveries' \in [Links -> Nat]
  BY DEF Inv, TypeOK
<1>3. ASSUME NEW l \in Links
      PROVE  \/ Phase(l) = "draft" /\ Phase(l)' = "open" /\ deliveries'[l] = deliveries[l]
             \/ Phase(l) = "open" /\ Phase(l)' = "taken" /\ deliveries'[l] = deliveries[l]
             \/ Phase(l) = "taken" /\ Phase(l)' = "gone" /\ deliveries'[l] = deliveries[l] + 1
             \/ Phase(l) # "gone" /\ Phase(l)' = "gone" /\ deliveries'[l] = deliveries[l]
             \/ Phase(l)' = Phase(l) /\ deliveries'[l] = deliveries[l]
  <2>1. CASE Delivers(l)
    BY <2>1, PhasesExclude DEF Delivers, Phase, IsDraft
  <2>2. CASE Advances(l) /\ deliveries'[l] = deliveries[l]
    BY <2>2, PhasesExclude DEF Advances, Phase, IsDraft
  <2> QED
    BY <2>1, <2>2
<1> QED
  BY <1>1, <1>2, <1>3 DEF Promise!Next, Promise!Publish, Promise!Take, Promise!HandOut,
     Promise!Withdraw, Promise!Rest

-----------------------------------------------------------------------------
(* A step that neither changes the requests nor delivers anything, and     *)
(* makes only drafts live, advances every link.                            *)
LEMMA RecordStep ==
  ASSUME req' = req, NEW l \in Links,
         db'[l].status = "available" => db[l].status = "available" \/ IsDraft(l),
         make'[l] \in Drafts => make[l] \in Drafts
  PROVE  Advances(l)
BY DEF Advances, Live, Awaited, Holds, IsDraft

LEMMA CreateMaps == Inv /\ Inv' /\ Create => Promise!Next
<1> SUFFICES ASSUME Inv, Inv', Create PROVE \A l \in Links : Advances(l) /\ deliveries'[l] = deliveries[l]
  BY MapsStep
<1>t. TypeOK
  BY DEF Inv
<1>1. deliveries' = deliveries /\ req' = req
  BY DEF Create, BeginFile, WriteFile, WriteFails, StoreFile, StoreFileFails, StoreText,
     AnswerCreator, ConfirmBurn, history
<1>2. ASSUME NEW l \in Links PROVE make'[l] \in Drafts => make[l] \in Drafts
  BY <1>t DEF Create, BeginFile, WriteFile, WriteFails, StoreFile, StoreFileFails, StoreText,
     AnswerCreator, ConfirmBurn, Drafts, TypeOK, Links
<1>3. ASSUME NEW l \in Links
      PROVE  db'[l].status = "available" => db[l].status = "available" \/ IsDraft(l)
  BY <1>t DEF Create, BeginFile, WriteFile, WriteFails, StoreFile, StoreFileFails, StoreText,
     AnswerCreator, ConfirmBurn, Drafts, TypeOK, Links, IsDraft
<1> QED
  BY <1>1, <1>2, <1>3, RecordStep

LEMMA OthersMap == Inv /\ Inv' /\ (Cleanup \/ Tick \/ \E a \in Admins : Burn(a)) => Promise!Next
<1> SUFFICES ASSUME Inv, Inv', Cleanup \/ Tick \/ \E a \in Admins : Burn(a)
             PROVE  \A l \in Links : Advances(l) /\ deliveries'[l] = deliveries[l]
  BY MapsStep
<1>t. TypeOK
  BY DEF Inv
<1>1. deliveries' = deliveries /\ req' = req /\ make' = make
  BY DEF Cleanup, CleanupOlderThan, LookupActive, LookupFails, ListFiles, VisitFile, EndWalk,
     Tick, Burn, BurnLook, BurnItem, BurnFails, BurnDelete, history
<1>2. ASSUME NEW l \in Links
      PROVE  db'[l].status = "available" => db[l].status = "available"
  BY <1>t DEF Cleanup, CleanupOlderThan, LookupActive, LookupFails, ListFiles, VisitFile, EndWalk,
     Tick, Burn, BurnLook, BurnItem, BurnFails, BurnDelete, BurntRecord, Evicted, NoRecord, TypeOK
<1> QED
  BY <1>1, <1>2, RecordStep

LEMMA CrashMaps == Inv /\ Inv' /\ Crash => Promise!Next
<1> SUFFICES ASSUME Inv, Inv', Crash
             PROVE  \A l \in Links : Advances(l) /\ deliveries'[l] = deliveries[l]
  BY MapsStep
<1> QED
  BY DEF Crash, history, Advances, Live, Awaited, Holds, IdleRequest, IsDraft, Drafts

-----------------------------------------------------------------------------
(* What a step of one request does to the requests that won a claim.       *)
LEMMA DeliverStep ==
  ASSUME Inv, NEW r \in Recipients, NEW l \in Links, Holds(r, l),
         UNCHANGED <<db, make>>, deliveries' = [deliveries EXCEPT ![l] = @ + 1],
         \A s \in Recipients \ {r} : req'[s] = req[s], req'[r].pc # "claimed"
  PROVE  \A k \in Links : Delivers(k) \/ (Advances(k) /\ deliveries'[k] = deliveries[k])
<1>1. Awaited(l) /\ ~Live(l)' /\ ~IsDraft(l)'
  BY PhasesExclude DEF Awaited, Live, IsDraft
<1>2. \A s \in Recipients : ~Holds(s, l)'
  BY DEF Inv, OneServed, Serves, Holds
<1>3. \A s \in Recipients, k \in Links : Holds(s, k)' => Holds(s, k)
  BY DEF Holds
<1>4. deliveries \in [Links -> Nat]
  BY DEF Inv, TypeOK
<1>5. Delivers(l)
  BY <1>1, <1>2, <1>4 DEF Delivers, Awaited
<1>6. ASSUME NEW k \in Links \ {l} PROVE Advances(k) /\ deliveries'[k] = deliveries[k]
  BY <1>3, <1>4 DEF Advances, Awaited, Live, IsDraft
<1> QED
  BY <1>5, <1>6

LEMMA OpenMaps == Inv /\ Inv' /\ (\E r \in Recipients : Open(r)) => Promise!Next
<1> SUFFICES ASSUME Inv, NEW r \in Recipients, Open(r)
             PROVE  \A k \in Links :
                      Delivers(k) \/ (Advances(k) /\ deliveries'[k] = deliveries[k])
  BY MapsStep
<1>t. TypeOK /\ req \in [Recipients -> Opening \cup {IdleRequest}]
  BY DEF Inv, TypeOK
<1>1. CASE \/ \E k \in Links : Look(r, k)
           \/ TurnAway(r) \/ ClaimGone(r) \/ OpenMissing(r) \/ EndDownload(r)
  <2>1. UNCHANGED <<db, make, deliveries>>
    BY <1>1 DEF Look, TurnAway, ClaimGone, OpenMissing, EndDownload, history
  <2>2. \A s \in Recipients : req'[s].pc = "claimed" => req'[s] = req[s]
    <3>1. CASE \E k \in Links : Look(r, k)
      BY <3>1, <1>t DEF Look, IdleRequest
    <3>2. CASE TurnAway(r) \/ ClaimGone(r) \/ OpenMissing(r) \/ EndDownload(r)
      BY <3>2, <1>t DEF TurnAway, ClaimGone, OpenMissing, EndDownload, IdleRequest
    <3> QED
      BY <1>1, <3>1, <3>2
  <2> QED
    BY <2>1, <2>2 DEF Advances, Awaited, Holds, Live, IsDraft
<1>2. CASE Claim(r)
  <2>1. PICK l \in Links : l = req[r].link /\ Live(l)
    BY <1>2, <1>t DEF Claim, Claimable, Opening, IdleRequest
  <2>2. UNCHANGED <<make, deliveries>>
    BY <1>2 DEF Claim, history
  <2>3. \A k \in Links : Live(k)' => Live(k)
    BY <1>2, <1>t, <2>1 DEF Claim, Live, ClaimedRecord, TypeOK
  <2>4. \A s \in Recipients, k \in Links : Holds(s, k)' => Holds(s, k) \/ k = l
    BY <1>2, <1>t, <2>1 DEF Claim, Holds, IdleRequest
  <2> QED
    BY <2>1, <2>2, <2>3, <2>4 DEF Advances, Awaited, IsDraft
<1>3. CASE RevealText(r)
  <2>1. req[r].link \in Links /\ Holds(r, req[r].link)
    BY <1>3, <1>t DEF RevealText, Holds, Links
  <2>2. req[r].secret
    BY <2>1 DEF Inv, HoldersHaveSecrets
  <2> QED
    BY <1>3, <1>t, <2>1, <2>2, DeliverStep DEF RevealText, IdleRequest
<1>4. CASE OpenFile(r)
  <2>1. req[r].link \in Links /\ Holds(r, req[r].link)
    BY <1>4, <1>t DEF OpenFile, Holds, Links
  <2>2. req'[r].pc # "claimed" /\ \A s \in Recipients \ {r} : req'[s] = req[s]
    BY <1>4, <1>t DEF OpenFile, Opening, IdleRequest
  <2> QED
    BY <1>4, <2>1, <2>2, DeliverStep DEF OpenFile
<1> QED
  BY <1>1, <1>2, <1>3, <1>4 DEF Open

-----------------------------------------------------------------------------
(* The links keep the promise: every behaviour of the handlers, the        *)
(* cleanup, the clock and crashes is one of one-time links.                *)
THEOREM KeepsPromiseHolds == Spec => KeepsPromise
<1>1. Inv /\ Inv' /\ [Next]_vars => [Promise!Next]_(Promise!vars)
  <2> SUFFICES ASSUME Inv, Inv', [Next]_vars PROVE [Promise!Next]_(Promise!vars)
    OBVIOUS
  <2>1. CASE Next
    BY <2>1, CreateMaps, OthersMap, CrashMaps, OpenMaps DEF Next
  <2>2. CASE UNCHANGED vars
    BY <2>2 DEF vars, Promise!vars, Phase, Live, Awaited, Holds
  <2> QED
    BY <2>1, <2>2
<1> QED
  BY <1>1, MapsInit, Invariance, PTL DEF Spec, KeepsPromise, Promise!Spec
=============================================================================
