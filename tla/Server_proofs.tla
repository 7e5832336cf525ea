--------------------------- MODULE Server_proofs ----------------------------
(***************************************************************************)
(* What the readers of the audit log, its pages and the time to live of a  *)
(* request guarantee for every log and page size, any number of operations *)
(* and keys, and any width of the integers.  UploadRequests_proofs has the *)
(* other part of MCServer.                                                 *)
(***************************************************************************)
EXTENDS MCServer, UploadRequests_proofs, FiniteSetTheorems, SequenceTheorems, WellFoundedInduction, TLAPS

(***************************************************************************)
(* The audit log and its readers                                           *)
(***************************************************************************)

(* The ids of the events that were logged.                                 *)
Ids == {e.id : e \in Logged}

(* The newest n of a set of ids.                                           *)
Newest(ids, n) == {i \in ids : Cardinality({j \in ids : j > i}) < n}

(* The index holds the newest of all the events, whatever order they were  *)
(* added in; and an id is given to one event.                              *)
LogInv ==
  /\ index = Newest(Ids, Cap)
  /\ \A m, n \in DOMAIN logged : logged[m].id = logged[n].id => m = n
  /\ \A i \in Ids : i <= stamp
  /\ \A a \in Operations : op[a].pc = "add" =>
       /\ op[a].id \in 1..stamp /\ op[a].id \notin Ids
       /\ \A b \in Operations : op[b].pc = "add" /\ op[b].id = op[a].id => b = a

(* An operation with a key is of the workspace the key is of.              *)
KeyInv ==
  /\ \A a \in Operations :
       /\ op[a].pc # "idle" => op[a].ws \in Workspaces
       /\ op[a].pc = "idle" => op[a].key = None
       /\ op[a].pc = "revoke" => op[a].key \in ApiKeys
       /\ op[a].key # None =>
            /\ keys[op[a].key].ws = op[a].ws
            /\ op[a].pc \in {"audit", "add"} => keys[op[a].key].revoked
  /\ RevocationsAccounted

(* The ids of the events that were there when the index was read.          *)
Old(r) == {logged[n].id : n \in 1 .. r.since}

(* At least limit of them are newer than i.                                *)
CrowdedOut(r, i) == Cardinality({j \in Old(r) : j > i}) >= r.limit

(* What a reader holds: the ids but for those that are crowded out, and of *)
(* what it lists, as much as still exists and can be read.                 *)
ReaderInv(r) ==
  /\ r.pc = "key" => r.key # None
  /\ r.key # None => r.key \in known
  /\ r.late => r.key # None /\ ~Valid(r.key)
  /\ r.pc \in {"index", "events", "answer"} /\ r.key # None =>
       ~r.late /\ r.ws = keys[r.key].ws
  /\ r.since <= Len(logged) /\ r.ids \subseteq Ids /\ r.out \subseteq Ids
  /\ r.pc = "events" => \A i \in Old(r) \ r.ids : CrowdedOut(r, i)
  /\ r.pc = "answer" =>
       /\ \A i \in r.out : EventOf(i).ws = r.ws
       /\ \A i \in Old(r) \ (r.out \cup r.unread) :
            EventOf(i) \in Alive /\ EventOf(i).ws = r.ws => CrowdedOut(r, i)

(* The inductive invariant: the log and the keys are sound, and so is what *)
(* every reader keeps of them for its later calls.                         *)
ReportingInv ==
  /\ ReportingTypeOK /\ LogInv /\ KeyInv
  /\ \A k \in known : keys[k].ws # None
  /\ \A q \in Readers : ReaderInv(reader[q])

-----------------------------------------------------------------------------
LEMMA GreatestExists ==
  ASSUME NEW m \in Nat, NEW T \in SUBSET (1..m), T # {}
  PROVE  \E x \in T : \A y \in T : y <= x
<1> DEFINE R == {m - y : y \in T}
<1>1. R \subseteq Nat /\ R # {}
  <2>1. \A y \in T : m - y \in Nat
    OBVIOUS
  <2>2. PICK y \in T : TRUE
    OBVIOUS
  <2>3. m - y \in R
    OBVIOUS
  <2> QED
    BY <2>1, <2>3
<1>2. IsWellFoundedOn(OpToRel(<, Nat), Nat)
  BY NatLessThanWellFounded
<1>3. PICK r \in R : \A z \in R : ~(<<z, r>> \in OpToRel(<, Nat))
  <2> HIDE DEF R
  <2> QED
    BY <1>1, <1>2, WFMin
<1>4. PICK x \in T : r = m - x
  OBVIOUS
<1>5. ASSUME NEW y \in T PROVE y <= x
  <2>1. ~(<<m - y, m - x>> \in OpToRel(<, Nat))
    BY <1>3, <1>4
  <2>2. m - y \in Nat /\ m - x \in Nat
    OBVIOUS
  <2>3. ~(m - y < m - x)
    BY <2>1, <2>2 DEF OpToRel
  <2> QED
    BY <2>3
<1> QED
  BY <1>5

LEMMA Finite ==
  ASSUME NEW m \in Nat, NEW S \in SUBSET (1..m)
  PROVE  /\ IsFiniteSet(S) /\ Cardinality(S) \in Nat
         /\ \A T \in SUBSET S : Cardinality(T) \in Nat /\ Cardinality(T) <= Cardinality(S)
<1>1. IsFiniteSet(1..m)
  BY FS_Interval
<1>2. IsFiniteSet(S)
  BY <1>1, FS_Subset
<1> QED
  BY <1>2, FS_Subset, FS_CardinalityType

(* What the newest n of the newest c leave out has at least n newer ones.  *)
LEMMA NewestMissed ==
  ASSUME NEW m \in Nat, NEW S \in SUBSET (1..m), NEW c \in Nat, NEW n \in 1..c,
         NEW i \in S, i \notin Newest(Newest(S, c), n)
  PROVE  Cardinality({j \in S : j > i}) >= n
<1> DEFINE A == {j \in S : j > i}
           B == {j \in Newest(S, c) : j > i}
<1>1. A \in SUBSET (1..m) /\ B \in SUBSET A
  BY DEF Newest
<1>2. Cardinality(A) \in Nat /\ Cardinality(B) \in Nat /\ Cardinality(B) <= Cardinality(A)
  <2> HIDE DEF A, B
  <2> QED
    BY <1>1, Finite
<1>3. CASE i \in Newest(S, c)
  <2>1. ~(Cardinality(B) < n)
    BY <1>3 DEF Newest
  <2> HIDE DEF A, B
  <2>2. Cardinality(A) >= n
    BY <1>2, <2>1
  <2> QED
    BY <2>2 DEF A
<1>4. CASE i \notin Newest(S, c)
  <2>1. ~(Cardinality(A) < c)
    BY <1>4 DEF Newest
  <2> HIDE DEF A, B
  <2>2. Cardinality(A) >= n
    BY <1>2, <2>1
  <2> QED
    BY <2>2 DEF A
<1> QED
  BY <1>3, <1>4

(* Dropping the oldest again and again keeps the newest of all.            *)
LEMMA NewestAgain ==
  ASSUME NEW m \in Nat, NEW A \in SUBSET (1..m), NEW x \in 1..m, NEW n \in Nat
  PROVE  Newest(Newest(A, n) \cup {x}, n) = Newest(A \cup {x}, n)
<1> DEFINE N == Newest(A, n)
           S == N \cup {x}
           T == A \cup {x}
           AboveS(i) == {j \in S : j > i}
           AboveT(i) == {j \in T : j > i}
<1>0. N \subseteq A /\ S \subseteq T /\ T \subseteq 1..m
  BY DEF Newest
<1>1. \A i \in T : /\ AboveS(i) \in SUBSET AboveT(i) /\ AboveT(i) \in SUBSET (1..m)
                   /\ Cardinality(AboveS(i)) \in Nat /\ Cardinality(AboveT(i)) \in Nat
                   /\ Cardinality(AboveS(i)) <= Cardinality(AboveT(i))
  <2> TAKE i \in T
  <2>1. AboveS(i) \in SUBSET AboveT(i) /\ AboveT(i) \in SUBSET (1..m)
    BY <1>0
  <2> HIDE DEF AboveS, AboveT
  <2> QED
    BY <2>1, Finite
<1>2. ASSUME NEW i \in Newest(T, n) PROVE i \in Newest(S, n)
  <2>1. i \in T /\ Cardinality(AboveT(i)) < n
    BY DEF Newest
  <2>2. i \in S
    <3>1. CASE i = x
      BY <3>1
    <3>2. CASE i # x
      <4> DEFINE AboveA == {j \in A : j > i}
      <4>1. i \in A /\ AboveA \in SUBSET AboveT(i) /\ AboveT(i) \in SUBSET (1..m)
        BY <2>1, <3>2, <1>0
      <4>2. Cardinality(AboveA) \in Nat /\ Cardinality(AboveA) <= Cardinality(AboveT(i))
            /\ Cardinality(AboveT(i)) \in Nat
        <5> HIDE DEF AboveA, AboveT
        <5> QED
          BY <4>1, Finite
      <4>3. Cardinality(AboveA) < n
        BY <4>2, <2>1
      <4> QED
        BY <4>1, <4>3 DEF Newest
    <3> QED
      BY <3>1, <3>2
  <2>3. Cardinality(AboveS(i)) < n
    <3>1. /\ Cardinality(AboveS(i)) \in Nat /\ Cardinality(AboveT(i)) \in Nat
          /\ Cardinality(AboveS(i)) <= Cardinality(AboveT(i))
      BY <2>1, <1>1
    <3> HIDE DEF AboveS, AboveT
    <3> QED
      BY <2>1, <3>1
  <2> QED
    BY <2>2, <2>3 DEF Newest
<1>3. ASSUME NEW i \in Newest(S, n) PROVE i \in Newest(T, n)
  <2>1. i \in S /\ i \in T /\ Cardinality(AboveS(i)) < n
    BY <1>0 DEF Newest
  <2>2. SUFFICES ASSUME NEW a \in A, a > i, a \notin N PROVE FALSE
    <3>1. \A a \in A : a > i => a \in N
      BY <2>2
    <3>2. AboveT(i) = AboveS(i)
      BY <3>1, <1>0
    <3>3. Cardinality(AboveT(i)) < n
      BY <3>2, <2>1
    <3> QED
      BY <2>1, <3>3 DEF Newest
  <2> DEFINE D == {b \in A : b > i /\ b \notin N}
  <2>3. D \in SUBSET (1..m) /\ D # {}
    BY <2>2
  <2>4. PICK g \in D : \A y \in D : y <= g
    <3> HIDE DEF D
    <3> QED
      BY <2>3, GreatestExists
  <2> DEFINE AboveG == {j \in A : j > g}
  <2>5. AboveG \in SUBSET AboveS(i)
    <3>1. ASSUME NEW j \in A, j > g PROVE j \in N /\ j > i
      <4>1. g \in 1..m /\ i \in 1..m /\ j \in 1..m /\ g > i
        BY <1>0, <2>1
      <4>2. j > i
        BY <4>1, <3>1
      <4>3. ~(j <= g)
        BY <4>1, <3>1
      <4> QED
        BY <2>4, <4>2, <4>3
    <3> QED
      BY <3>1
  <2>6. Cardinality(AboveG) \in Nat /\ Cardinality(AboveG) <= Cardinality(AboveS(i))
        /\ Cardinality(AboveS(i)) \in Nat
    <3>1. AboveS(i) \in SUBSET (1..m)
      BY <1>1, <2>1
    <3> HIDE DEF AboveG, AboveS
    <3> QED
      BY <3>1, <2>5, Finite
  <2>7. ~(Cardinality(AboveG) < n)
    BY DEF Newest
  <2> QED
    BY <2>1, <2>6, <2>7
<1>4. Newest(S, n) = Newest(T, n)
  <2> HIDE DEF S, T
  <2> QED
    BY <1>2, <1>3
<1> QED
  BY <1>4

-----------------------------------------------------------------------------
(* Types                                                                   *)

Op == [pc : {"idle", "revoke", "audit", "add"}, ws : Workspaces \cup {None},
       key : ApiKeys \cup {None}, id : 0..MaxEvents]

Reader == [pc : {"idle", "key", "index", "events", "answer"},
           key : ApiKeys \cup {None}, ws : Workspaces \cup {None},
           late : BOOLEAN, limit : Nat, since : Nat, ids : SUBSET (1..MaxEvents),
           unread : SUBSET (1..MaxEvents), out : SUBSET (1..MaxEvents)]

LEMMA IdleOnes == IdleAdmin \in Op /\ IdleReader \in Reader
BY ReportingAssumption DEF IdleAdmin, IdleReader, Op, Reader

LEMMA TypesAre ==
  ASSUME ReportingTypeOK
  PROVE  /\ keys \in [ApiKeys -> APIKey] /\ known \subseteq ApiKeys
         /\ logged \in Seq(Event) /\ dead \in 0..Len(logged) /\ Len(logged) \in Nat
         /\ DOMAIN logged = 1..Len(logged) /\ Logged \subseteq Event /\ Ids \subseteq 1..MaxEvents
         /\ index \subseteq Ids /\ stamp \in 0..MaxEvents /\ MaxEvents \in Nat
         /\ op \in [Operations -> Op] /\ reader \in [Readers -> Reader]
         /\ untold \subseteq ApiKeys
<1>1. logged \in Seq(Event) /\ Len(logged) \in Nat /\ DOMAIN logged = 1..Len(logged)
  BY LenProperties DEF ReportingTypeOK
<1>2. \A n \in 1..Len(logged) : logged[n] \in Event
  BY <1>1, ElementOfSeq
<1>3. Logged \subseteq Event
  BY <1>1, <1>2 DEF Logged
<1>4. Ids \subseteq 1..MaxEvents
  BY <1>3 DEF Ids, Event
<1> QED
  BY <1>1, <1>3, <1>4, ReportingAssumption DEF ReportingTypeOK, Op, Reader, Ids

(* An id tells its event.                                                  *)
LEMMA EventOfIs ==
  ASSUME ReportingTypeOK, LogInv
  PROVE  /\ \A n \in DOMAIN logged : EventOf(logged[n].id) = logged[n]
         /\ \A i \in Ids : EventOf(i) \in Logged /\ EventOf(i).id = i
<1>1. ASSUME NEW n \in DOMAIN logged PROVE EventOf(logged[n].id) = logged[n]
  <2>1. \A e \in Logged : e.id = logged[n].id => e = logged[n]
    BY <1>1 DEF Logged, LogInv
  <2>2. logged[n] \in Logged
    BY DEF Logged
  <2> QED
    BY <2>1, <2>2 DEF EventOf
<1>2. ASSUME NEW i \in Ids PROVE EventOf(i) \in Logged /\ EventOf(i).id = i
  BY <1>2 DEF EventOf, Ids
<1> QED
  BY <1>1, <1>2

(* What AddEvent makes of the log.                                         *)
LEMMA AddedIs ==
  ASSUME ReportingInv, NEW a \in Operations, AddEvent(a)
  PROVE  LET e == [id |-> op[a].id, ws |-> op[a].ws, revokes |-> op[a].key]
         IN  /\ e \in Event /\ e.id \notin Ids /\ e.id \in 1..stamp
             /\ logged' \in Seq(Event) /\ Len(logged') = Len(logged) + 1
             /\ \A n \in 1..Len(logged) : logged'[n] = logged[n]
             /\ logged'[Len(logged) + 1] = e
             /\ Logged' = Logged \cup {e} /\ Ids' = Ids \cup {e.id}
<1> DEFINE e == [id |-> op[a].id, ws |-> op[a].ws, revokes |-> op[a].key]
<1>0. ReportingTypeOK
  BY DEF ReportingInv
<1>1. op[a].pc = "add" /\ op[a].id \in 1..stamp /\ op[a].id \notin Ids /\ op[a].ws \in Workspaces
  BY DEF AddEvent, ReportingInv, LogInv, KeyInv
<1>2. e \in Event
  <2>1. op[a].id \in 1..MaxEvents /\ op[a].key \in ApiKeys \cup {None}
    BY <1>0, <1>1, TypesAre DEF Op
  <2> QED
    BY <1>1, <2>1 DEF Event
<1>3. logged' = Append(logged, e)
  BY DEF AddEvent
<1>4. logged \in Seq(Event) /\ Len(logged) \in Nat /\ DOMAIN logged = 1..Len(logged)
  BY <1>0, TypesAre
<1> HIDE DEF e
<1>5. /\ logged' \in Seq(Event) /\ Len(logged') = Len(logged) + 1
      /\ \A n \in 1..Len(logged) : logged'[n] = logged[n]
      /\ logged'[Len(logged) + 1] = e
  BY <1>2, <1>3, <1>4, AppendProperties
<1>6. DOMAIN logged' = 1 .. Len(logged) + 1
  BY <1>5, LenProperties
<1>7. Logged' = Logged \cup {e}
  <2>1. Logged' = {logged'[n] : n \in 1 .. Len(logged) + 1}
    BY <1>6 DEF Logged
  <2>2. Logged = {logged[n] : n \in 1 .. Len(logged)}
    BY <1>4 DEF Logged
  <2>3. 1 .. Len(logged) + 1 = (1 .. Len(logged)) \cup {Len(logged) + 1}
    BY <1>4
  <2> QED
    BY <1>5, <2>1, <2>2, <2>3
<1>8. Ids' = Ids \cup {e.id}
  BY <1>7 DEF Ids
<1> QED
  BY <1>1, <1>2, <1>5, <1>7, <1>8 DEF e

-----------------------------------------------------------------------------
(* Each part of the invariant                                              *)

(* Nothing but a transaction changes the log, and nothing but a stamp the  *)
(* ids that are under way.                                                 *)
LEMMA LogStays ==
  ASSUME ReportingInv, UNCHANGED <<logged, index, stamp>>,
         \A a \in Operations : op'[a].pc = "add" => op'[a] = op[a]
  PROVE  LogInv'
BY DEF ReportingInv, LogInv, Logged, Ids, Newest

LEMMA StampKeepsLog ==
  ASSUME ReportingInv, NEW a \in Operations, StampEvent(a)
  PROVE  LogInv'
<1>0. /\ op \in [Operations -> Op] /\ stamp \in Nat /\ Ids \subseteq Nat
      /\ op' = [op EXCEPT ![a].pc = "add", ![a].id = stamp + 1] /\ stamp' = stamp + 1
      /\ logged' = logged /\ index' = index /\ Logged' = Logged /\ Ids' = Ids
  <2>1. /\ op \in [Operations -> Op] /\ stamp \in Nat /\ Ids \subseteq Nat
    BY TypesAre DEF ReportingInv
  <2>2. /\ op' = [op EXCEPT ![a].pc = "add", ![a].id = stamp + 1] /\ stamp' = stamp + 1
        /\ logged' = logged /\ index' = index
    BY DEF StampEvent, store
  <2> QED
    BY <2>1, <2>2 DEF Logged, Ids
<1>1. op'[a].pc = "add" /\ op'[a].id = stamp + 1
  BY <1>0 DEF Op
<1>2. \A b \in Operations : b # a => op'[b] = op[b]
  BY <1>0
<1>3. \A i \in Ids : i <= stamp
  BY DEF ReportingInv, LogInv
<1>4. stamp + 1 \notin Ids
  BY <1>0, <1>3
<1>5. ASSUME NEW b \in Operations, b # a, op'[b].pc = "add"
      PROVE  op'[b].id \in 1..stamp /\ op'[b].id \notin Ids /\ op'[b].id # stamp + 1
  <2>1. op[b].id \in 1..stamp /\ op[b].id \notin Ids
    BY <1>2, <1>5 DEF ReportingInv, LogInv
  <2> QED
    BY <2>1, <1>0, <1>2, <1>5
<1>6. ASSUME NEW b \in Operations, op'[b].pc = "add"
      PROVE  /\ op'[b].id \in 1..stamp' /\ op'[b].id \notin Ids'
             /\ \A c \in Operations : op'[c].pc = "add" /\ op'[c].id = op'[b].id => c = b
  <2>1. CASE b = a
    BY <2>1, <1>0, <1>1, <1>4, <1>5
  <2>2. CASE b # a
    <3>1. op'[b].id \in 1..stamp' /\ op'[b].id \notin Ids'
      BY <2>2, <1>0, <1>5, <1>6
    <3>2. ASSUME NEW c \in Operations, op'[c].pc = "add", op'[c].id = op'[b].id PROVE c = b
      <4>1. c # a
        BY <1>1, <1>5, <1>6, <2>2, <3>2
      <4> QED
        BY <1>2, <1>6, <2>2, <3>2, <4>1 DEF ReportingInv, LogInv
    <3> QED
      BY <3>1, <3>2
  <2> QED
    BY <2>1, <2>2
<1>7. \A i \in Ids' : i <= stamp'
  BY <1>0, <1>3
<1>8. index' = Newest(Ids', Cap)
  BY <1>0 DEF ReportingInv, LogInv
<1>9. \A m, n \in DOMAIN logged' : logged'[m].id = logged'[n].id => m = n
  BY <1>0 DEF ReportingInv, LogInv
<1> QED
  BY <1>6, <1>7, <1>8, <1>9 DEF LogInv

LEMMA AddKeepsLog ==
  ASSUME ReportingInv, NEW a \in Operations, AddEvent(a)
  PROVE  LogInv'
<1> DEFINE x == op[a].id
<1>0. /\ op \in [Operations -> Op] /\ Ids \subseteq 1..MaxEvents /\ stamp \in 0..MaxEvents
      /\ MaxEvents \in Nat /\ Len(logged) \in Nat /\ DOMAIN logged = 1..Len(logged)
  BY TypesAre DEF ReportingInv
<1>1. /\ x \notin Ids /\ x \in 1..stamp /\ Ids' = Ids \cup {x}
      /\ logged' \in Seq(Event) /\ Len(logged') = Len(logged) + 1
      /\ \A n \in 1..Len(logged) : logged'[n] = logged[n]
      /\ logged'[Len(logged) + 1].id = x
  BY AddedIs
<1>2. /\ op' = [op EXCEPT ![a] = IdleAdmin] /\ stamp' = stamp
      /\ index' = Trimmed(index \cup {x}) /\ op[a].pc = "add"
  BY DEF AddEvent
<1> HIDE DEF x
<1>3. index' = Newest(Ids', Cap)
  <2>1. index = Newest(Ids, Cap)
    BY DEF ReportingInv, LogInv
  <2>2. x \in 1..MaxEvents /\ Cap \in Nat
    BY <1>0, <1>1, ReportingAssumption
  <2>3. Newest(Newest(Ids, Cap) \cup {x}, Cap) = Newest(Ids \cup {x}, Cap)
    BY <1>0, <2>2, NewestAgain
  <2> QED
    BY <1>1, <1>2, <2>1, <2>3 DEF Trimmed, Newest
<1>4. ASSUME NEW m \in DOMAIN logged', NEW n \in DOMAIN logged', logged'[m].id = logged'[n].id
      PROVE  m = n
  <2>1. DOMAIN logged' = 1 .. Len(logged) + 1
    BY <1>1, LenProperties
  <2>2. \A k \in 1..Len(logged) : logged'[k].id \in Ids
    BY <1>0, <1>1 DEF Ids, Logged
  <2>3. CASE m \in 1..Len(logged) /\ n \in 1..Len(logged)
    BY <1>0, <1>1, <1>4, <2>3 DEF ReportingInv, LogInv
  <2>4. CASE m = Len(logged) + 1 \/ n = Len(logged) + 1
    BY <1>0, <1>1, <1>4, <2>1, <2>2, <2>4
  <2> QED
    BY <1>0, <2>1, <2>3, <2>4
<1>5. \A i \in Ids' : i <= stamp'
  <2>1. x <= stamp
    BY <1>0, <1>1
  <2> QED
    BY <2>1, <1>1, <1>2 DEF ReportingInv, LogInv
<1>6. ASSUME NEW b \in Operations, op'[b].pc = "add"
      PROVE  /\ op'[b].id \in 1..stamp' /\ op'[b].id \notin Ids'
             /\ \A c \in Operations : op'[c].pc = "add" /\ op'[c].id = op'[b].id => c = b
  <2>1. \A c \in Operations : op'[c].pc = "add" => c # a /\ op'[c] = op[c]
    BY <1>0, <1>2 DEF IdleAdmin
  <2>2. op[b].id # x
    BY <1>2, <1>6, <2>1 DEF ReportingInv, LogInv, x
  <2> QED
    BY <1>1, <1>2, <1>6, <2>1, <2>2 DEF ReportingInv, LogInv
<1> QED
  BY <1>3, <1>4, <1>5, <1>6 DEF LogInv

(* What is used of the keys and of the operations below.                   *)
LEMMA KeysAre ==
  ASSUME ReportingInv
  PROVE  /\ keys \in [ApiKeys -> APIKey] /\ op \in [Operations -> Op]
         /\ None \notin Workspaces /\ None \notin ApiKeys /\ KeyInv
BY TypesAre, ReportingAssumption DEF ReportingInv

LEMMA CreateKeepsKeys ==
  ASSUME ReportingInv, NEW a \in Operations, NEW w \in Workspaces, NEW k \in ApiKeys,
         CreateKey(a, w, k)
  PROVE  KeyInv'
<1>1. PICK scope \in BOOLEAN : keys' = [keys EXCEPT ![k] = Created(w, scope)]
  BY DEF CreateKey
<1>2. /\ \A j \in ApiKeys : j # k => keys'[j] = keys[j]
      /\ keys[k].ws = None /\ ~keys[k].revoked /\ ~keys'[k].revoked
  BY <1>1, KeysAre DEF CreateKey, Created, NoApiKey
<1>3. /\ op[a] = IdleAdmin /\ Logged' = Logged /\ untold' = untold
      /\ op' = op \/ op' = [op EXCEPT ![a] = [IdleAdmin EXCEPT !.pc = "audit", !.ws = w]]
  BY DEF CreateKey, store, Logged
<1>4. /\ \A b \in Operations : op'[b] = op[b] \/ b = a
      /\ op'[a] = op[a] \/ (op'[a].pc = "audit" /\ op'[a].ws = w /\ op'[a].key = None)
      /\ op[a].pc = "idle"
  <2>1. op \in [Operations -> Op]
    BY KeysAre
  <2>2. CASE op' = op
    BY <1>3, <2>2 DEF IdleAdmin
  <2>3. CASE op' = [op EXCEPT ![a] = [IdleAdmin EXCEPT !.pc = "audit", !.ws = w]]
    <3>1. op'[a] = [IdleAdmin EXCEPT !.pc = "audit", !.ws = w]
      BY <2>1, <2>3
    <3>2. \A b \in Operations : b # a => op'[b] = op[b]
      BY <2>1, <2>3
    <3> QED
      BY <1>3, <3>1, <3>2 DEF IdleAdmin
  <2> QED
    BY <1>3, <2>2, <2>3
<1>5. \A b \in Operations : op[b].key \in ApiKeys => op[b].key # k
  BY <1>2, KeysAre DEF KeyInv, Op
<1>6. ASSUME NEW b \in Operations
      PROVE  /\ op'[b].pc # "idle" => op'[b].ws \in Workspaces
             /\ op'[b].pc = "idle" => op'[b].key = None
             /\ op'[b].pc = "revoke" => op'[b].key \in ApiKeys
             /\ op'[b].key # None =>
                  /\ keys'[op'[b].key].ws = op'[b].ws
                  /\ op'[b].pc \in {"audit", "add"} => keys'[op'[b].key].revoked
  <2>1. op[b].key # None => op[b].key \in ApiKeys /\ keys'[op[b].key] = keys[op[b].key]
    BY <1>2, <1>5, KeysAre DEF Op
  <2> QED
    BY <1>4, <2>1, KeysAre DEF KeyInv
<1>7. RevocationsAccounted'
  <2>1. ASSUME NEW e \in Logged, e.revokes # None
        PROVE  keys'[e.revokes].revoked /\ keys'[e.revokes].ws = e.ws
    <3>1. keys[e.revokes].revoked /\ keys[e.revokes].ws = e.ws /\ e.revokes \in ApiKeys
      BY <2>1, KeysAre, TypesAre DEF KeyInv, RevocationsAccounted, Event, ReportingInv
    <3> QED
      BY <1>2, <3>1
  <2>2. ASSUME NEW j \in ApiKeys, keys'[j].revoked
        PROVE  \/ \E e \in Logged : e.revokes = j
               \/ \E b \in Operations : op'[b].key = j /\ op'[b].pc \in {"audit", "add"}
               \/ j \in untold
    <3>1. j # k /\ keys[j].revoked
      BY <1>2, <2>2
    <3>2. \A b \in Operations : op[b].pc \in {"audit", "add"} => op'[b] = op[b]
      BY <1>4
    <3> QED
      BY <3>1, <3>2, KeysAre DEF KeyInv, RevocationsAccounted
  <2> QED
    BY <1>3, <2>1, <2>2 DEF RevocationsAccounted
<1> QED
  BY <1>6, <1>7 DEF KeyInv

(* An operation goes on with its key, or ends.                             *)
LEMMA OpKeepsKeys ==
  ASSUME ReportingInv, NEW a \in Operations, keys' = keys, Logged' = Logged,
         \A b \in Operations : b # a => op'[b] = op[b],
         op'[a].pc # "idle" => op'[a].ws \in Workspaces,
         op'[a].pc = "idle" => op'[a].key = None,
         op'[a].pc = "revoke" => op'[a].key \in ApiKeys,
         op'[a].key # None => keys[op'[a].key].ws = op'[a].ws,
         op'[a].key # None /\ op'[a].pc \in {"audit", "add"} => keys[op'[a].key].revoked,
         untold \subseteq untold',
         op[a].pc \in {"audit", "add"} /\ op[a].key \in ApiKeys =>
           (op'[a].pc \in {"audit", "add"} /\ op'[a].key = op[a].key) \/ op[a].key \in untold'
  PROVE  KeyInv'
<1>1. ASSUME NEW b \in Operations
      PROVE  /\ op'[b].pc # "idle" => op'[b].ws \in Workspaces
             /\ op'[b].pc = "idle" => op'[b].key = None
             /\ op'[b].pc = "revoke" => op'[b].key \in ApiKeys
             /\ op'[b].key # None =>
                  /\ keys[op'[b].key].ws = op'[b].ws
                  /\ op'[b].pc \in {"audit", "add"} => keys[op'[b].key].revoked
  BY KeysAre DEF KeyInv
<1>2. ASSUME NEW j \in ApiKeys, keys[j].revoked
      PROVE  \/ \E e \in Logged : e.revokes = j
             \/ \E b \in Operations : op'[b].key = j /\ op'[b].pc \in {"audit", "add"}
             \/ j \in untold'
  <2>1. CASE \E b \in Operations : op[b].key = j /\ op[b].pc \in {"audit", "add"}
    <3>1. PICK b \in Operations : op[b].key = j /\ op[b].pc \in {"audit", "add"}
      BY <2>1
    <3>2. CASE b = a
      BY <3>1, <3>2
    <3>3. CASE b # a
      BY <3>1, <3>3
    <3> QED
      BY <3>2, <3>3
  <2> QED
    BY <1>2, <2>1, KeysAre DEF KeyInv, RevocationsAccounted
<1>3. \A e \in Logged : e.revokes # None =>
        keys[e.revokes].revoked /\ keys[e.revokes].ws = e.ws
  BY KeysAre DEF KeyInv, RevocationsAccounted
<1> QED
  BY <1>1, <1>2, <1>3 DEF KeyInv, RevocationsAccounted

LEMMA RevokeKeepsKeys ==
  ASSUME ReportingInv, NEW a \in Operations, Revoke(a)
  PROVE  KeyInv'
<1> DEFINE k == op[a].key
<1>1. /\ op[a].pc = "revoke" /\ k \in ApiKeys /\ keys[k].ws = op[a].ws
      /\ op[a].ws \in Workspaces /\ Logged' = Logged
  BY KeysAre DEF Revoke, KeyInv, store, Logged
<1>2. /\ \A j \in ApiKeys : keys'[j].ws = keys[j].ws /\ (keys[j].revoked => keys'[j].revoked)
      /\ \A j \in ApiKeys : j # k => keys'[j] = keys[j]
      /\ keys'[k].revoked
  <2>1. keys' = [keys EXCEPT ![k].revoked = TRUE]
    BY DEF Revoke
  <2> QED
    BY <1>1, <2>1, KeysAre DEF APIKey
<1>3. /\ \A b \in Operations : b # a => op'[b] = op[b]
      /\ \/ op'[a] = [op[a] EXCEPT !.pc = "audit"] /\ untold' = untold
         \/ op'[a] = IdleAdmin /\ untold' = untold \cup {k}
  BY KeysAre DEF Revoke
<1>4. \/ /\ op'[a].pc = "audit" /\ op'[a].ws = op[a].ws /\ op'[a].key = k
         /\ untold' = untold
      \/ op'[a].pc = "idle" /\ op'[a].key = None /\ untold' = untold \cup {k}
  <2>1. op[a] \in Op
    BY KeysAre
  <2>2. CASE op'[a] = [op[a] EXCEPT !.pc = "audit"] /\ untold' = untold
    BY <2>1, <2>2 DEF Op
  <2>3. CASE op'[a] = IdleAdmin /\ untold' = untold \cup {k}
    BY <2>3 DEF IdleAdmin
  <2> QED
    BY <1>3, <2>2, <2>3
<1> HIDE DEF k
<1>5. ASSUME NEW b \in Operations
      PROVE  /\ op'[b].pc # "idle" => op'[b].ws \in Workspaces
             /\ op'[b].pc = "idle" => op'[b].key = None
             /\ op'[b].pc = "revoke" => op'[b].key \in ApiKeys
             /\ op'[b].key # None =>
                  /\ keys'[op'[b].key].ws = op'[b].ws
                  /\ op'[b].pc \in {"audit", "add"} => keys'[op'[b].key].revoked
  <2>1. CASE b = a
    BY <1>1, <1>2, <1>4, <2>1
  <2>2. CASE b # a
    <3>1. op[b].key # None => op[b].key \in ApiKeys
      BY KeysAre DEF Op
    <3> QED
      BY <1>2, <1>3, <2>2, <3>1, KeysAre DEF KeyInv
  <2> QED
    BY <2>1, <2>2
<1>6. ASSUME NEW e \in Logged, e.revokes # None
      PROVE  keys'[e.revokes].revoked /\ keys'[e.revokes].ws = e.ws
  <2>1. keys[e.revokes].revoked /\ keys[e.revokes].ws = e.ws /\ e.revokes \in ApiKeys
    BY <1>6, KeysAre, TypesAre DEF KeyInv, RevocationsAccounted, Event, ReportingInv
  <2> QED
    BY <1>2, <2>1
<1>7. ASSUME NEW j \in ApiKeys, keys'[j].revoked
      PROVE  \/ \E e \in Logged : e.revokes = j
             \/ \E b \in Operations : op'[b].key = j /\ op'[b].pc \in {"audit", "add"}
             \/ j \in untold'
  <2>1. CASE j = k
    BY <1>4, <2>1
  <2>2. CASE j # k
    <3>1. keys[j].revoked
      BY <1>2, <1>7, <2>2
    <3>2. \A b \in Operations : op[b].pc \in {"audit", "add"} => op'[b] = op[b]
      BY <1>1, <1>3
    <3> QED
      BY <1>4, <3>1, <3>2, KeysAre DEF KeyInv, RevocationsAccounted
  <2> QED
    BY <2>1, <2>2
<1> QED
  BY <1>1, <1>5, <1>6, <1>7 DEF KeyInv, RevocationsAccounted

LEMMA AddKeepsKeys ==
  ASSUME ReportingInv, NEW a \in Operations, AddEvent(a)
  PROVE  KeyInv'
<1> DEFINE e == [id |-> op[a].id, ws |-> op[a].ws, revokes |-> op[a].key]
<1>1. Logged' = Logged \cup {e}
  BY AddedIs
<1>2. e.ws = op[a].ws /\ e.revokes = op[a].key
  OBVIOUS
<1> HIDE DEF e
<1>3. /\ op[a].pc = "add" /\ keys' = keys /\ untold' = untold
      /\ op'[a].pc = "idle" /\ op'[a].key = None
      /\ \A b \in Operations : b # a => op'[b] = op[b]
  BY KeysAre DEF AddEvent, IdleAdmin
<1>4. \A f \in Logged' : f.revokes # None => keys[f.revokes].revoked /\ keys[f.revokes].ws = f.ws
  BY <1>1, <1>2, <1>3, KeysAre DEF KeyInv, RevocationsAccounted
<1>5. ASSUME NEW j \in ApiKeys, keys[j].revoked
      PROVE  \/ \E f \in Logged' : f.revokes = j
             \/ \E b \in Operations : op'[b].key = j /\ op'[b].pc \in {"audit", "add"}
             \/ j \in untold
  <2>1. CASE op[a].key = j
    BY <1>1, <1>2, <2>1
  <2>2. CASE op[a].key # j
    <3>1. \A b \in Operations : op[b].key = j => op'[b] = op[b]
      BY <1>3, <2>2
    <3> QED
      BY <1>1, <1>5, <3>1, KeysAre DEF KeyInv, RevocationsAccounted
  <2> QED
    BY <2>1, <2>2
<1>6. ASSUME NEW b \in Operations
      PROVE  /\ op'[b].pc # "idle" => op'[b].ws \in Workspaces
             /\ op'[b].pc = "idle" => op'[b].key = None
             /\ op'[b].pc = "revoke" => op'[b].key \in ApiKeys
             /\ op'[b].key # None =>
                  /\ keys[op'[b].key].ws = op'[b].ws
                  /\ op'[b].pc \in {"audit", "add"} => keys[op'[b].key].revoked
  BY <1>3, KeysAre DEF KeyInv
<1> QED
  BY <1>3, <1>4, <1>5, <1>6 DEF KeyInv, RevocationsAccounted

(* What is left alone or only loses its time keeps the rest.               *)
LEMMA KeysStay ==
  ASSUME ReportingInv, UNCHANGED <<op, logged, untold>>,
         \A k \in ApiKeys : keys'[k].ws = keys[k].ws /\ keys'[k].revoked = keys[k].revoked
  PROVE  KeyInv'
<1>1. Logged' = Logged
  BY DEF Logged
<1>2. \A b \in Operations : op[b].key # None => op[b].key \in ApiKeys
  BY KeysAre DEF Op
<1>3. \A e \in Logged : e.revokes # None => e.revokes \in ApiKeys
  BY TypesAre DEF Event, ReportingInv
<1>4. RevocationsAccounted'
  BY <1>1, <1>3, KeysAre DEF KeyInv, RevocationsAccounted
<1> QED
  BY <1>2, <1>4, KeysAre DEF KeyInv

(* A key that no longer works never works again, nor changes its           *)
(* workspace; so what a reader holds stays true while it rests.            *)
LEMMA ReadersStay ==
  ASSUME ReportingInv, UNCHANGED <<reader, logged>>, dead' \in Nat, dead' >= dead,
         known \subseteq known',
         \A k \in known : keys'[k].ws = keys[k].ws /\ (~Valid(k) => ~Valid(k)')
  PROVE  \A q \in Readers : ReaderInv(reader[q])'
<1>1. /\ Logged' = Logged /\ Ids' = Ids /\ \A i : EventOf(i)' = EventOf(i)
      /\ \A r : Old(r)' = Old(r) /\ \A i : CrowdedOut(r, i)' <=> CrowdedOut(r, i)
  BY DEF Logged, Ids, EventOf, Old, CrowdedOut
<1>2. Alive' \subseteq Alive
  <2>1. dead \in Nat /\ Len(logged) \in Nat
    BY TypesAre DEF ReportingInv
  <2>2. PICK d \in Nat, e \in Nat, m \in Nat :
          d = dead /\ e = dead' /\ m = Len(logged) /\ e >= d
    BY <2>1
  <2>3. d <= e
    BY <2>2
  <2>4. \A n \in e + 1 .. m : n \in d + 1 .. m
    BY <2>3
  <2> QED
    BY <2>2, <2>4 DEF Alive
<1>3. ASSUME NEW q \in Readers PROVE ReaderInv(reader[q])'
  <2>0. PICK r \in Reader : r = reader[q]
    BY TypesAre DEF ReportingInv
  <2>1. ReaderInv(r)
    BY <2>0 DEF ReportingInv
  <2>2. reader'[q] = r /\ logged' = logged
    BY <2>0
  <2>3. /\ r.pc = "key" => r.key # None
        /\ r.key # None => r.key \in known'
        /\ r.since <= Len(logged') /\ r.ids \subseteq Ids' /\ r.out \subseteq Ids'
    BY <1>1, <2>1, <2>2 DEF ReaderInv
  <2>4. r.pc = "events" => \A i \in Old(r)' \ r.ids : CrowdedOut(r, i)'
    BY <1>1, <2>1 DEF ReaderInv
  <2>5. /\ r.late => r.key # None /\ ~Valid(r.key)'
        /\ r.pc \in {"index", "events", "answer"} /\ r.key # None =>
             ~r.late /\ r.ws = keys'[r.key].ws
    BY <2>1 DEF ReaderInv
  <2>6. r.pc = "answer" =>
          /\ \A i \in r.out : EventOf(i)'.ws = r.ws
          /\ \A i \in Old(r)' \ (r.out \cup r.unread) :
               EventOf(i)' \in Alive' /\ EventOf(i)'.ws = r.ws => CrowdedOut(r, i)'
    BY <1>1, <1>2, <2>1 DEF ReaderInv
  <2>7. ReaderInv(r)'
    BY Zenon, <2>3, <2>4, <2>5, <2>6 DEF ReaderInv
  <2> QED
    BY <2>2, <2>7
<1> QED
  BY <1>3

LEMMA AddKeepsReaders ==
  ASSUME ReportingInv, LogInv', ReportingTypeOK', NEW a \in Operations, AddEvent(a)
  PROVE  \A q \in Readers : ReaderInv(reader[q])'
<1>1. /\ Len(logged) \in Nat /\ Len(logged') = Len(logged) + 1
      /\ \A n \in 1..Len(logged) : logged'[n] = logged[n]
      /\ Logged \subseteq Logged' /\ Ids \subseteq Ids'
  BY AddedIs, TypesAre DEF ReportingInv
<1>2. \A i \in Ids : EventOf(i)' = EventOf(i)
  <2> TAKE i \in Ids
  <2>1. EventOf(i) \in Logged' /\ EventOf(i).id = i
    BY <1>1, EventOfIs DEF ReportingInv
  <2>2. \A e \in Logged', f \in Logged' : e.id = f.id => e = f
    BY DEF LogInv, Logged
  <2> QED
    BY <2>1, <2>2 DEF EventOf
<1>3. /\ reader' = reader /\ keys' = keys /\ known' = known /\ dead' = dead
      /\ \A k : Valid(k)' = Valid(k)
  BY DEF AddEvent, Valid
<1>4. ASSUME NEW i \in Ids, EventOf(i)' \in Alive' PROVE EventOf(i) \in Alive
  <2>1. EventOf(i)' = EventOf(i) /\ EventOf(i).id = i
    BY <1>2, EventOfIs DEF ReportingInv
  <2>2. PICK n \in dead + 1 .. Len(logged) + 1 : logged'[n] = EventOf(i)
    BY <1>1, <1>3, <1>4, <2>1 DEF Alive
  <2>3. CASE n \in 1..Len(logged)
    <3>1. n \in dead + 1 .. Len(logged) /\ logged[n] = EventOf(i)
      BY <1>1, <2>2, <2>3, TypesAre DEF ReportingInv
    <3> QED
      BY <3>1 DEF Alive
  <2>4. CASE n = Len(logged) + 1
    <3>1. logged'[n].id = op[a].id
      BY <2>4, TypesAre, AppendProperties DEF AddEvent, ReportingInv
    <3>2. op[a].id \notin Ids
      BY DEF AddEvent, ReportingInv, LogInv
    <3> QED
      BY <2>1, <2>2, <3>1, <3>2
  <2>5. dead \in Nat
    BY TypesAre DEF ReportingInv
  <2> QED
    BY <1>1, <2>2, <2>3, <2>4, <2>5
<1>5. ASSUME NEW q \in Readers PROVE ReaderInv(reader[q])'
  <2>0. PICK r \in Reader : r = reader[q]
    BY TypesAre DEF ReportingInv
  <2>1. ReaderInv(r)
    BY <2>0 DEF ReportingInv
  <2>2. reader'[q] = r
    BY <1>3, <2>0
  <2>3. /\ r.since \in Nat /\ r.since <= Len(logged) /\ r.since <= Len(logged')
        /\ r.ids \subseteq Ids' /\ r.out \subseteq Ids' /\ r.out \subseteq Ids
    BY <1>1, <2>1 DEF ReaderInv, Reader
  <2>4. \A n \in 1 .. r.since : n \in 1..Len(logged) /\ logged'[n] = logged[n]
    BY <1>1, <2>3
  <2>5. /\ Old(r)' = Old(r) /\ \A i : CrowdedOut(r, i)' <=> CrowdedOut(r, i)
        /\ Old(r) \subseteq Ids
    <3>1. Old(r)' = Old(r)
      BY <2>4 DEF Old
    <3>2. \A i : CrowdedOut(r, i)' <=> CrowdedOut(r, i)
      BY <3>1 DEF CrowdedOut
    <3>3. Old(r) \subseteq Ids
      BY <2>4, TypesAre DEF Old, Ids, Logged, ReportingInv
    <3> QED
      BY <3>1, <3>2, <3>3
  <2>6. r.pc = "events" => \A i \in Old(r)' \ r.ids : CrowdedOut(r, i)'
    BY <2>1, <2>5 DEF ReaderInv
  <2>7. r.pc = "answer" =>
          /\ \A i \in r.out : EventOf(i)'.ws = r.ws
          /\ \A i \in Old(r)' \ (r.out \cup r.unread) :
               EventOf(i)' \in Alive' /\ EventOf(i)'.ws = r.ws => CrowdedOut(r, i)'
    BY <1>2, <1>4, <2>1, <2>3, <2>5 DEF ReaderInv
  <2>8. /\ r.pc = "key" => r.key # None
        /\ r.key # None => r.key \in known
        /\ r.late => r.key # None /\ ~Valid(r.key)
        /\ r.pc \in {"index", "events", "answer"} /\ r.key # None =>
             ~r.late /\ r.ws = keys[r.key].ws
    BY <2>1 DEF ReaderInv
  <2>9. ReaderInv(r)'
    BY <1>3, <2>3, <2>6, <2>7, <2>8 DEF ReaderInv
  <2> QED
    BY <2>2, <2>9
<1> QED
  BY <1>5

(* A step of a reader leaves the rest alone.                               *)
LEMMA ReaderSteps ==
  ASSUME ReportingInv, UNCHANGED <<keys, known, store, stamp, op, untold>>,
         NEW q \in Readers, NEW r \in Reader, reader' = [reader EXCEPT ![q] = r], ReaderInv(r)
  PROVE  ReportingInv'
<1>1. reader' \in [Readers -> Reader]
  BY TypesAre DEF ReportingInv
<1>2. /\ keys' = keys /\ known' = known /\ logged' = logged /\ dead' = dead
      /\ index' = index /\ stamp' = stamp /\ op' = op /\ untold' = untold
  BY DEF store
<1>3. ReportingTypeOK'
  BY <1>1, <1>2 DEF ReportingInv, ReportingTypeOK, Reader, Logged
<1>4. LogInv' /\ KeyInv' /\ \A k \in known' : keys'[k].ws # None
  BY <1>2, LogStays, KeysStay DEF ReportingInv
<1>5. \A s : ReaderInv(s) => ReaderInv(s)'
  <2>1. /\ Ids' = Ids /\ Alive' = Alive /\ \A i : EventOf(i)' = EventOf(i)
        /\ \A r1 : Old(r1)' = Old(r1) /\ \A i : CrowdedOut(r1, i)' <=> CrowdedOut(r1, i)
    BY <1>2 DEF Ids, Logged, Alive, EventOf, Old, CrowdedOut
  <2>2. \A k : Valid(k)' <=> Valid(k)
    BY <1>2 DEF Valid
  <2> QED
    BY <1>2, <2>1, <2>2 DEF ReaderInv
<1>6. \A p \in Readers : reader'[p] = r \/ reader'[p] = reader[p]
  BY TypesAre DEF ReportingInv
<1>7. \A p \in Readers : ReaderInv(reader[p])'
  <2> TAKE p \in Readers
  <2>1. PICK s : s = reader'[p] /\ ReaderInv(s)
    BY <1>6 DEF ReportingInv
  <2>2. ReaderInv(s)'
    BY <1>5, <2>1
  <2> QED
    BY <2>1, <2>2 DEF ReaderInv
<1> QED
  BY <1>3, <1>4, <1>7 DEF ReportingInv

LEMMA ReadKeepsInv ==
  ASSUME ReportingInv, NEW q \in Readers, Read(q)
  PROVE  ReportingInv'
<1> DEFINE old == reader[q]
<1>0. /\ old \in Reader /\ ReaderInv(old) /\ ReaderInv(IdleReader) /\ None \notin ApiKeys
      /\ known \subseteq ApiKeys /\ keys \in [ApiKeys -> APIKey] /\ None \notin Workspaces
      /\ logged \in Seq(Event) /\ Len(logged) \in Nat /\ DOMAIN logged = 1..Len(logged)
      /\ Ids \subseteq 1..MaxEvents /\ index \subseteq Ids /\ MaxEvents \in Nat
  BY TypesAre, ReportingAssumption DEF ReportingInv, ReaderInv, IdleReader
<1>1. ASSUME NEW k \in ApiKeys, ArriveWithKey(q, k) PROVE ReportingInv'
  <2> DEFINE r == [IdleReader EXCEPT !.pc = "key", !.key = k, !.late = ~Valid(k)]
  <2>1. /\ r.pc = "key" /\ r.key = k /\ r.late = ~Valid(k)
        /\ r.since = 0 /\ r.ids = {} /\ r.out = {}
    BY DEF IdleReader
  <2>2. k \in known
    BY <1>1 DEF ArriveWithKey
  <2>3. reader' = [reader EXCEPT ![q] = r] /\ UNCHANGED <<keys, known, store, stamp, op, untold>>
    BY <1>1 DEF ArriveWithKey
  <2> HIDE DEF r
  <2>4. r \in Reader
    <3>1. (~Valid(k)) \in BOOLEAN
      OBVIOUS
    <3> HIDE DEF IdleReader
    <3>2. [IdleReader EXCEPT !.pc = "key", !.key = k] \in Reader
      BY IdleOnes DEF Reader
    <3> QED
      BY <3>1, <3>2, IdleOnes DEF r, Reader
  <2>5. ReaderInv(r)
    <3>1. /\ r.key = k /\ k # None /\ k \in known /\ r.pc = "key"
          /\ r.since <= Len(logged) /\ r.ids \subseteq Ids /\ r.out \subseteq Ids
      BY <1>0, <2>1, <2>2
    <3>2. r.late => ~Valid(r.key)
      BY Zenon, <2>1
    <3> QED
      BY <3>1, <3>2 DEF ReaderInv
  <2> QED
    BY <2>3, <2>4, <2>5, ReaderSteps
<1>2. ASSUME NEW w \in Workspaces, OpenAdminPage(q, w) PROVE ReportingInv'
  <2> DEFINE r == [IdleReader EXCEPT !.pc = "index", !.ws = w]
  <2>1. /\ r.pc = "index" /\ r.key = None /\ ~r.late
        /\ r.since = 0 /\ r.ids = {} /\ r.out = {}
    BY DEF IdleReader
  <2>3. reader' = [reader EXCEPT ![q] = r] /\ UNCHANGED <<keys, known, store, stamp, op, untold>>
    BY <1>2 DEF OpenAdminPage
  <2> HIDE DEF r
  <2>4. r \in Reader
    BY IdleOnes DEF r, Reader
  <2>5. ReaderInv(r)
    BY <1>0, <2>1 DEF ReaderInv
  <2> QED
    BY <2>3, <2>4, <2>5, ReaderSteps
<1>3. CASE Authenticate(q)
  <2> DEFINE k == old.key
             r == IF Valid(k) THEN [old EXCEPT !.pc = "index", !.ws = keys[k].ws] ELSE IdleReader
  <2>1. reader' = [reader EXCEPT ![q] = r] /\ UNCHANGED <<keys, known, store, stamp, op, untold>>
    BY <1>3 DEF Authenticate
  <2>2. old.pc = "key" /\ k \in known /\ k \in ApiKeys /\ keys[k].ws \in Workspaces \cup {None}
    BY <1>0, <1>3 DEF Authenticate, ReaderInv, APIKey
  <2>3. CASE Valid(k)
    <3>1. /\ r.pc = "index" /\ r.key = k /\ r.ws = keys[k].ws /\ r.late = old.late
          /\ r.since = old.since /\ r.ids = old.ids /\ r.out = old.out /\ r.unread = old.unread
          /\ r \in Reader
      BY <1>0, <2>2, <2>3 DEF Reader
    <3> HIDE DEF r, k
    <3>2. ReaderInv(r)
      BY <1>0, <2>2, <2>3, <3>1 DEF ReaderInv, k
    <3> QED
      BY <2>1, <3>1, <3>2, ReaderSteps
  <2>4. CASE ~Valid(k)
    BY <1>0, <2>1, <2>4, IdleOnes, ReaderSteps
  <2> QED
    BY <2>3, <2>4
<1>4. CASE ReadIndex(q)
  <2>1. PICK limit \in IF old.key = None THEN {Cap} ELSE Limits :
          reader' = [reader EXCEPT ![q].pc = "events", ![q].limit = limit,
                       ![q].since = Len(logged), ![q].ids = LatestIds(limit)]
    BY <1>4 DEF ReadIndex
  <2>2. Cap \in Nat /\ limit \in 1..Cap /\ limit \in Nat
    BY ReportingAssumption
  <2>3. LatestIds(limit) = Newest(index, limit) /\ LatestIds(limit) \subseteq Ids
    BY <1>0 DEF LatestIds, Newest
  <2> DEFINE r == [old EXCEPT !.pc = "events", !.limit = limit, !.since = Len(logged),
                              !.ids = LatestIds(limit)]
  <2>4. reader' = [reader EXCEPT ![q] = r] /\ UNCHANGED <<keys, known, store, stamp, op, untold>>
    <3>1. reader' = [reader EXCEPT ![q] = r]
      BY <2>1, TypesAre DEF ReportingInv
    <3> QED
      BY <1>4, <3>1 DEF ReadIndex
  <2>5. /\ r.pc = "events" /\ r.key = old.key /\ r.ws = old.ws /\ r.late = old.late
        /\ r.since = Len(logged) /\ r.ids = LatestIds(limit) /\ r.out = old.out
        /\ r.unread = old.unread /\ r.limit = limit /\ r \in Reader /\ old.pc = "index"
    BY <1>0, <1>4, <2>2, <2>3 DEF Reader, ReadIndex
  <2> HIDE DEF r
  <2>6. Old(r) = Ids
    BY <1>0, <2>5 DEF Old, Ids, Logged
  <2>7. ASSUME NEW i \in Ids, i \notin LatestIds(limit)
        PROVE  Cardinality({j \in Ids : j > i}) >= limit
    <3>1. i \notin Newest(Newest(Ids, Cap), limit)
      BY <2>3, <2>7 DEF ReportingInv, LogInv
    <3>2. Ids \in SUBSET (1..MaxEvents) /\ MaxEvents \in Nat
      BY <1>0
    <3> QED
      BY <2>2, <2>7, <3>1, <3>2, NewestMissed
  <2>8. \A i \in Old(r) \ r.ids : CrowdedOut(r, i)
    BY <2>5, <2>6, <2>7 DEF CrowdedOut
  <2>9. ReaderInv(r)
    BY <1>0, <2>3, <2>5, <2>8 DEF ReaderInv
  <2> QED
    BY <2>4, <2>5, <2>9, ReaderSteps
<1>5. CASE ReadEvents(q)
  <2>1. PICK unread \in SUBSET old.ids :
          reader' = [reader EXCEPT ![q].pc = "answer", ![q].unread = unread,
                       ![q].out = ListedEvents(old.ids, old.ws, unread)]
    BY <1>5 DEF ReadEvents
  <2> DEFINE out == ListedEvents(old.ids, old.ws, unread)
             r == [old EXCEPT !.pc = "answer", !.unread = unread, !.out = out]
  <2>2. reader' = [reader EXCEPT ![q] = r] /\ UNCHANGED <<keys, known, store, stamp, op, untold>>
    <3>1. reader' = [reader EXCEPT ![q] = r]
      BY <2>1, TypesAre DEF ReportingInv
    <3> QED
      BY <1>5, <3>1 DEF ReadEvents
  <2>3. out \subseteq old.ids /\ old.ids \subseteq 1..MaxEvents /\ old.ids \subseteq Ids
    BY <1>0 DEF ListedEvents, Reader, ReaderInv
  <2>4. /\ r.pc = "answer" /\ r.key = old.key /\ r.ws = old.ws /\ r.late = old.late
        /\ r.since = old.since /\ r.ids = old.ids /\ r.out = out /\ r.limit = old.limit
        /\ r.unread = unread /\ r \in Reader /\ old.pc = "events"
    <3> HIDE DEF out
    <3> QED
      BY <1>0, <1>5, <2>3 DEF Reader, ReadEvents
  <2> HIDE DEF r
  <2>5. ASSUME NEW i \in Old(r), i \notin out, i \notin unread,
               EventOf(i) \in Alive, EventOf(i).ws = old.ws
        PROVE  CrowdedOut(r, i)
    <3>1. Old(r) = Old(old) /\ (CrowdedOut(old, i) => CrowdedOut(r, i))
      BY <2>4 DEF Old, CrowdedOut
    <3>2. i \notin old.ids
      BY <2>5 DEF ListedEvents
    <3> QED
      BY <1>0, <2>4, <2>5, <3>1, <3>2 DEF ReaderInv
  <2>6. \A i \in out : EventOf(i).ws = old.ws
    BY DEF ListedEvents
  <2> HIDE DEF out
  <2>7. ReaderInv(r)
    BY <1>0, <2>3, <2>4, <2>5, <2>6 DEF ReaderInv
  <2> QED
    BY <2>2, <2>4, <2>7, ReaderSteps
<1>6. CASE EndReport(q)
  BY <1>0, <1>6, IdleOnes, ReaderSteps DEF EndReport
<1> QED
  BY <1>1, <1>2, <1>3, <1>4, <1>5, <1>6 DEF Read

(* A step of an administrator that leaves the log alone.                   *)
LEMMA OpSteps ==
  ASSUME ReportingInv, UNCHANGED <<store, reader>>, LogInv', KeyInv',
         stamp' \in 0..MaxEvents, op' \in [Operations -> Op], untold' \subseteq ApiKeys,
         keys' \in [ApiKeys -> APIKey], known' \subseteq ApiKeys, known \subseteq known',
         \A k \in known' : keys'[k].ws # None,
         \A k \in known : keys'[k].ws = keys[k].ws /\ (~Valid(k) => ~Valid(k)')
  PROVE  ReportingInv'
<1>1. logged' = logged /\ dead' = dead /\ index' = index /\ Logged' = Logged
      /\ dead \in Nat /\ dead >= dead
  BY TypesAre DEF store, Logged, ReportingInv
<1>2. ReportingTypeOK'
  BY <1>1, TypesAre DEF ReportingInv, ReportingTypeOK, Op, Reader
<1>3. \A q \in Readers : ReaderInv(reader[q])'
  BY <1>1, ReadersStay
<1> QED
  BY <1>2, <1>3 DEF ReportingInv

LEMMA AdministerKeepsInv ==
  ASSUME ReportingInv, NEW a \in Operations, Administer(a)
  PROVE  ReportingInv'
<1>0. /\ keys \in [ApiKeys -> APIKey] /\ known \subseteq ApiKeys /\ untold \subseteq ApiKeys
      /\ op \in [Operations -> Op] /\ op[a] \in Op /\ stamp \in 0..MaxEvents /\ MaxEvents \in Nat
      /\ None \notin ApiKeys /\ None \notin Workspaces /\ IdleAdmin \in Op
      /\ \A k \in known : keys[k].ws # None
  BY TypesAre, IdleOnes, ReportingAssumption DEF ReportingInv
<1>a. IdleAdmin.pc = "idle" /\ IdleAdmin.key = None
  BY DEF IdleAdmin
<1>1. ASSUME NEW w \in Workspaces, NEW k \in ApiKeys, CreateKey(a, w, k) PROVE ReportingInv'
  <2>1. PICK scope \in BOOLEAN : keys' = [keys EXCEPT ![k] = Created(w, scope)]
    BY <1>1 DEF CreateKey
  <2>2. /\ UNCHANGED <<store, reader, stamp>> /\ untold' = untold
        /\ known' = known \cup {k} \/ known' = known
        /\ \/ op' = [op EXCEPT ![a] = [IdleAdmin EXCEPT !.pc = "audit", !.ws = w]]
           \/ op' = op
        /\ keys[k] = NoApiKey
    BY <1>1 DEF CreateKey
  <2>3. k \notin known /\ Created(w, scope) \in APIKey /\ Created(w, scope).ws = w
    BY <1>0, <2>2 DEF NoApiKey, Created, APIKey
  <2>4. [IdleAdmin EXCEPT !.pc = "audit", !.ws = w] \in Op
    BY <1>0 DEF IdleAdmin, Op
  <2>5. op' \in [Operations -> Op]
    BY <1>0, <2>2, <2>4
  <2>6. keys' \in [ApiKeys -> APIKey] /\ keys'[k].ws # None
        /\ \A j \in ApiKeys : j # k => keys'[j] = keys[j]
    BY <1>0, <2>1, <2>3
  <2>7. \A j \in known : keys'[j].ws = keys[j].ws /\ (~Valid(j) => ~Valid(j)')
    BY <1>0, <2>3, <2>6 DEF Valid
  <2>8. \A b \in Operations : op'[b].pc = "add" => op'[b] = op[b]
    BY <1>0, <2>2 DEF IdleAdmin
  <2>9. LogInv'
    BY <2>2, <2>8, LogStays DEF store
  <2>10. KeyInv'
    BY <1>1, CreateKeepsKeys
  <2> QED
    BY <1>0, <2>2, <2>5, <2>6, <2>7, <2>9, <2>10, OpSteps
<1>2. ASSUME NEW w \in Workspaces, NEW k \in ApiKeys, RevokeLook(a, w, k) PROVE ReportingInv'
  <2> DEFINE o == [IdleAdmin EXCEPT !.pc = "revoke", !.ws = w, !.key = k]
  <2>1. /\ op[a].pc = "idle" /\ keys[k].ws = w /\ op' = [op EXCEPT ![a] = o]
        /\ UNCHANGED <<keys, known, store, stamp, reader, untold>>
    BY <1>2, <1>a DEF RevokeLook
  <2>2. o \in Op /\ o.pc = "revoke" /\ o.ws = w /\ o.key = k
    BY <1>0 DEF IdleAdmin, Op
  <2> HIDE DEF o
  <2>3. op'[a] = o /\ \A b \in Operations : b # a => op'[b] = op[b]
    BY <1>0, <2>1
  <2>4. LogInv'
    BY <2>1, <2>2, <2>3, LogStays DEF store
  <2>5. KeyInv'
    BY <2>1, <2>2, <2>3, OpKeepsKeys DEF store, Logged
  <2>6. op' \in [Operations -> Op] /\ \A j : Valid(j)' = Valid(j)
    BY <1>0, <2>1, <2>2 DEF Valid
  <2> QED
    BY <1>0, <2>1, <2>4, <2>5, <2>6, OpSteps
<1>3. ASSUME NEW w \in Workspaces, Operate(a, w) PROVE ReportingInv'
  <2> DEFINE o == [IdleAdmin EXCEPT !.pc = "audit", !.ws = w]
  <2>1. /\ op[a].pc = "idle" /\ op' = [op EXCEPT ![a] = o]
        /\ UNCHANGED <<keys, known, store, stamp, reader, untold>>
    BY <1>3, <1>a DEF Operate
  <2>2. o \in Op /\ o.pc = "audit" /\ o.ws = w /\ o.key = None
    BY <1>0 DEF IdleAdmin, Op
  <2> HIDE DEF o
  <2>3. op'[a] = o /\ \A b \in Operations : b # a => op'[b] = op[b]
    BY <1>0, <2>1
  <2>4. LogInv'
    BY <2>1, <2>2, <2>3, LogStays DEF store
  <2>5. KeyInv'
    BY <2>1, <2>2, <2>3, OpKeepsKeys DEF store, Logged
  <2>6. op' \in [Operations -> Op] /\ \A j : Valid(j)' = Valid(j)
    BY <1>0, <2>1, <2>2 DEF Valid
  <2> QED
    BY <1>0, <2>1, <2>4, <2>5, <2>6, OpSteps
<1>4. CASE Revoke(a)
  <2> DEFINE k == op[a].key
  <2>1. /\ op[a].pc = "revoke" /\ k \in ApiKeys /\ keys' = [keys EXCEPT ![k].revoked = TRUE]
        /\ known' = known /\ UNCHANGED <<store, stamp, reader>>
    BY <1>4, KeysAre DEF Revoke, KeyInv
  <2>2. \/ op' = [op EXCEPT ![a] = [op[a] EXCEPT !.pc = "audit"]] /\ untold' = untold
        \/ op' = [op EXCEPT ![a] = IdleAdmin] /\ untold' = untold \cup {k}
    BY <1>0, <1>4 DEF Revoke
  <2>3. [op[a] EXCEPT !.pc = "audit"] \in Op /\ [op[a] EXCEPT !.pc = "audit"].pc = "audit"
    BY <1>0 DEF Op
  <2> HIDE DEF k
  <2>4. op' \in [Operations -> Op] /\ untold' \subseteq ApiKeys
    BY <1>0, <2>1, <2>2, <2>3
  <2>5. \A b \in Operations : op'[b].pc = "add" => op'[b] = op[b]
    BY <1>0, <1>a, <2>2, <2>3
  <2>6. LogInv'
    BY <2>1, <2>5, LogStays DEF store
  <2>7. KeyInv'
    BY <1>4, RevokeKeepsKeys
  <2>8. keys' \in [ApiKeys -> APIKey]
        /\ \A j \in ApiKeys : /\ keys'[j].ws = keys[j].ws /\ (keys[j].revoked => keys'[j].revoked)
                              /\ keys'[j].serves = keys[j].serves
    BY <1>0, <2>1 DEF APIKey
  <2>9. \A j \in known : keys'[j].ws # None /\ (~Valid(j) => ~Valid(j)')
    BY <1>0, <2>8 DEF Valid
  <2> QED
    BY <1>0, <2>1, <2>4, <2>6, <2>7, <2>8, <2>9, OpSteps
<1>5. CASE RevokeFails(a)
  <2>1. /\ op[a].pc = "revoke" /\ op' = [op EXCEPT ![a] = IdleAdmin]
        /\ UNCHANGED <<keys, known, store, stamp, reader, untold>>
    BY <1>5 DEF RevokeFails
  <2>2. op'[a] = IdleAdmin /\ \A b \in Operations : b # a => op'[b] = op[b]
    BY <1>0, <2>1
  <2>3. LogInv'
    BY <1>a, <2>1, <2>2, LogStays DEF store
  <2>4. KeyInv'
    BY <1>a, <2>1, <2>2, OpKeepsKeys DEF store, Logged
  <2>5. op' \in [Operations -> Op] /\ \A j : Valid(j)' = Valid(j)
    BY <1>0, <2>1 DEF Valid
  <2> QED
    BY <1>0, <2>1, <2>3, <2>4, <2>5, OpSteps
<1>6. CASE StampEvent(a)
  <2> DEFINE o == [op[a] EXCEPT !.pc = "add", !.id = stamp + 1]
  <2>1. /\ op[a].pc = "audit" /\ stamp < MaxEvents /\ stamp' = stamp + 1
        /\ op' = [op EXCEPT ![a] = o]
        /\ UNCHANGED <<keys, known, store, reader, untold>>
    <3>1. op' = [op EXCEPT ![a] = o]
      BY <1>0, <1>6 DEF StampEvent
    <3> QED
      BY <1>6, <3>1 DEF StampEvent
  <2>2. o \in Op /\ o.pc = "add" /\ o.ws = op[a].ws /\ o.key = op[a].key
    <3>1. stamp + 1 \in 0..MaxEvents
      BY <1>0, <2>1
    <3> QED
      BY <1>0, <3>1 DEF Op
  <2> HIDE DEF o
  <2>3. op'[a] = o /\ \A b \in Operations : b # a => op'[b] = op[b]
    BY <1>0, <2>1
  <2>4. LogInv'
    BY <1>6, StampKeepsLog
  <2>5. KeyInv'
    <3>1. /\ op[a].ws \in Workspaces
          /\ op[a].key # None => keys[op[a].key].ws = op[a].ws /\ keys[op[a].key].revoked
      BY <2>1, KeysAre DEF KeyInv
    <3>2. Logged' = Logged /\ untold' = untold /\ keys' = keys
      BY <2>1 DEF store, Logged
    <3> QED
      BY <2>1, <2>2, <2>3, <3>1, <3>2, OpKeepsKeys
  <2>6. op' \in [Operations -> Op] /\ stamp' \in 0..MaxEvents /\ \A j : Valid(j)' = Valid(j)
    BY <1>0, <2>1, <2>2 DEF Valid
  <2> QED
    BY <1>0, <2>1, <2>4, <2>5, <2>6, OpSteps
<1>7. CASE AddEvent(a)
  <2> DEFINE x == op[a].id
  <2>1. /\ logged' \in Seq(Event) /\ Len(logged') = Len(logged) + 1 /\ Ids' = Ids \cup {x}
    BY <1>7, AddedIs
  <2>2. /\ op' = [op EXCEPT ![a] = IdleAdmin] /\ index' = Trimmed(index \cup {x})
        /\ UNCHANGED <<keys, known, dead, stamp, reader, untold>>
    BY <1>7 DEF AddEvent
  <2>3. LogInv' /\ KeyInv'
    BY <1>7, AddKeepsLog, AddKeepsKeys
  <2>4. index' \subseteq Ids'
    BY <2>3 DEF LogInv, Newest
  <2>5. dead' \in 0..Len(logged')
    BY <2>1, <2>2, TypesAre DEF ReportingInv
  <2>6. op' \in [Operations -> Op]
    BY <1>0, <2>2
  <2>7. ReportingTypeOK'
    <3>1. index' \subseteq {e.id : e \in Logged'}
      BY <2>4 DEF Ids
    <3> QED
      BY <2>1, <2>2, <2>5, <2>6, <3>1 DEF ReportingInv, ReportingTypeOK, Op
  <2>8. \A q \in Readers : ReaderInv(reader[q])'
    BY <1>7, <2>3, <2>7, AddKeepsReaders
  <2> QED
    BY <1>0, <2>2, <2>3, <2>7, <2>8 DEF ReportingInv
<1>8. CASE AddFails(a)
  <2>1. /\ op' = [op EXCEPT ![a] = IdleAdmin] /\ untold' = untold \cup ({op[a].key} \cap ApiKeys)
        /\ UNCHANGED <<keys, known, store, stamp, reader>>
    BY <1>8 DEF AddFails
  <2>2. op'[a] = IdleAdmin /\ \A b \in Operations : b # a => op'[b] = op[b]
    BY <1>0, <2>1
  <2>3. LogInv'
    BY <1>a, <2>1, <2>2, LogStays DEF store
  <2>4. KeyInv'
    BY <1>a, <2>1, <2>2, OpKeepsKeys DEF store, Logged
  <2>5. op' \in [Operations -> Op] /\ untold' \subseteq ApiKeys /\ \A j : Valid(j)' = Valid(j)
    BY <1>0, <2>1 DEF Valid
  <2> QED
    BY <1>0, <2>1, <2>3, <2>4, <2>5, OpSteps
<1> QED
  BY <1>1, <1>2, <1>3, <1>4, <1>5, <1>6, <1>7, <1>8, Zenon DEF Administer

LEMMA TimeKeepsInv ==
  ASSUME ReportingInv, EventExpires \/ \E k \in ApiKeys : KeyExpires(k)
  PROVE  ReportingInv'
<1>1. CASE EventExpires
  <2>1. /\ dead' = dead + 1 /\ dead < Len(logged)
        /\ keys' = keys /\ known' = known /\ logged' = logged /\ index' = index
        /\ stamp' = stamp /\ op' = op /\ reader' = reader /\ untold' = untold
        /\ dead \in 0..Len(logged) /\ Len(logged) \in Nat /\ Logged' = Logged
    BY <1>1, TypesAre DEF EventExpires, ReportingInv, Logged
  <2>2. dead' \in 0..Len(logged') /\ dead' \in Nat /\ dead' >= dead
    BY <2>1
  <2>3. ReportingTypeOK'
    BY <2>1, <2>2 DEF ReportingInv, ReportingTypeOK
  <2>4. LogInv' /\ KeyInv'
    BY <2>1, LogStays, KeysStay
  <2>5. \A k : Valid(k)' = Valid(k)
    BY <2>1 DEF Valid
  <2>6. \A q \in Readers : ReaderInv(reader[q])'
    BY <2>1, <2>2, <2>5, ReadersStay
  <2> QED
    BY <2>1, <2>3, <2>4, <2>6 DEF ReportingInv
<1>2. ASSUME NEW k \in ApiKeys, KeyExpires(k) PROVE ReportingInv'
  <2>1. /\ keys' = [keys EXCEPT ![k].serves = FALSE]
        /\ UNCHANGED <<known, store, stamp, op, reader, untold>>
        /\ keys \in [ApiKeys -> APIKey]
    BY <1>2, TypesAre DEF KeyExpires, ReportingInv
  <2>2. /\ keys' \in [ApiKeys -> APIKey]
        /\ \A j \in ApiKeys : /\ keys'[j].ws = keys[j].ws /\ keys'[j].revoked = keys[j].revoked
                              /\ keys'[j].serves => keys[j].serves
    BY <2>1 DEF APIKey
  <2>3. LogInv' /\ KeyInv'
    BY <2>1, <2>2, LogStays, KeysStay DEF store
  <2>4. known \subseteq ApiKeys /\ \A j \in known : keys[j].ws # None
    BY TypesAre DEF ReportingInv
  <2>5. \A j \in known : keys'[j].ws = keys[j].ws /\ (~Valid(j) => ~Valid(j)')
    <3>1. \A j \in ApiKeys : keys'[j].serves /\ ~keys'[j].revoked
                             => keys[j].serves /\ ~keys[j].revoked
      BY <2>2
    <3> QED
      BY <2>2, <2>4, <3>1 DEF Valid
  <2> QED
    BY <2>1, <2>2, <2>3, <2>4, <2>5, TypesAre, OpSteps DEF ReportingInv
<1> QED
  BY <1>1, <1>2

LEMMA ReportingInvInit == ReportingInit => ReportingInv
<1> SUFFICES ASSUME ReportingInit PROVE ReportingInv
  OBVIOUS
<1>1. /\ keys = [k \in ApiKeys |-> NoApiKey] /\ known = {} /\ logged = <<>> /\ dead = 0
      /\ index = {} /\ stamp = 0 /\ untold = {}
      /\ op = [a \in Operations |-> IdleAdmin] /\ reader = [q \in Readers |-> IdleReader]
  BY DEF ReportingInit
<1>2. Logged = {} /\ Ids = {} /\ DOMAIN logged = {} /\ Len(logged) = 0 /\ logged \in Seq(Event)
  BY <1>1 DEF Logged, Ids
<1>3. NoApiKey \in APIKey /\ ~NoApiKey.revoked
  BY DEF NoApiKey, APIKey
<1>4. ReportingTypeOK
  BY <1>1, <1>2, <1>3, IdleOnes, ReportingAssumption DEF ReportingTypeOK, Op, Reader
<1>5. LogInv
  BY <1>1, <1>2 DEF LogInv, Newest, IdleAdmin
<1>6. KeyInv
  BY <1>1, <1>2, <1>3 DEF KeyInv, RevocationsAccounted, IdleAdmin
<1>7. ReaderInv(IdleReader)
  BY <1>2 DEF ReaderInv, IdleReader
<1> QED
  BY <1>1, <1>4, <1>5, <1>6, <1>7 DEF ReportingInv

LEMMA ReportingInvInvariant == ReportingSpec => []ReportingInv
<1>1. ReportingInv /\ [ReportingNext]_reportingVars => ReportingInv'
  <2> SUFFICES ASSUME ReportingInv, [ReportingNext]_reportingVars PROVE ReportingInv'
    OBVIOUS
  <2>1. CASE UNCHANGED reportingVars
    BY <2>1, OpSteps, LogStays, KeysStay, TypesAre DEF reportingVars, store, Valid, ReportingInv
  <2> QED
    BY <2>1, AdministerKeepsInv, ReadKeepsInv, TimeKeepsInv DEF ReportingNext
<1> QED
  BY ReportingInvInit, <1>1, PTL DEF ReportingSpec

-----------------------------------------------------------------------------
(* The variables of the log, of its keys and of its readers keep their     *)
(* types: whatever the index or a report lists is the id of an event.      *)
THEOREM ReportingTypeCorrect == ReportingSpec => []ReportingTypeOK
<1>1. ReportingInv => ReportingTypeOK
  BY DEF ReportingInv
<1> QED
  BY <1>1, ReportingInvInvariant, PTL

(* A report has no gap: of the events that were logged when it read the    *)
(* index, one of its workspace that exists and could be read is missing    *)
(* only if at least as many newer ones were there as it asked for.         *)
THEOREM ReportingHasNoGap == ReportingSpec => []ReportHasNoGap
<1>1. ReportingInv => ReportHasNoGap
  <2> SUFFICES ASSUME ReportingInv, NEW q \in Readers, reader[q].pc = "answer"
               PROVE  /\ \A i \in reader[q].out : EventOf(i).ws = reader[q].ws
                      /\ \A i \in Old(reader[q]) \ (reader[q].out \cup reader[q].unread) :
                           EventOf(i) \in Alive /\ EventOf(i).ws = reader[q].ws
                           => CrowdedOut(reader[q], i)
    BY DEF ReportHasNoGap, Old, CrowdedOut
  <2> QED
    BY DEF ReportingInv, ReaderInv
<1> QED
  BY <1>1, ReportingInvInvariant, PTL

(* A request that arrives after its key was revoked or has expired reports *)
(* nothing, and no report leaves the workspace of the key.                 *)
THEOREM ReportingHeedsKeys == ReportingSpec => []EndedKeysReportNothing
<1>1. ReportingInv => EndedKeysReportNothing
  BY DEF ReportingInv, ReaderInv, EndedKeysReportNothing
<1> QED
  BY <1>1, ReportingInvInvariant, PTL

(* A revocation that is logged has happened, and one that has happened is  *)
(* logged, about to be, or one whose answer or whose event was lost.       *)
THEOREM ReportingAccounts == ReportingSpec => []RevocationsAccounted
<1>1. ReportingInv => RevocationsAccounted
  BY DEF ReportingInv, KeyInv
<1> QED
  BY <1>1, ReportingInvInvariant, PTL

(***************************************************************************)
(* The pages of the log, and the time to live of a request                 *)
(***************************************************************************)

PagesTypeOK ==
  /\ pageSize \in Nat \ {0} /\ total \in Nat /\ oldest \in Nat \ {0} /\ page \in Nat
  /\ more \in BOOLEAN /\ began \in 0..total
  /\ seen \subseteq 1..total /\ blurred \subseteq 1..total

(* An event that was there when the reader began, is still there and was   *)
(* not shown is on a later page than the one shown, unless a request       *)
(* passed over it or a newer one.                                          *)
Ahead(e) == more /\ page * pageSize <= total - e

PagesInv ==
  /\ PagesTypeOK
  /\ began > 0 \/ more => page > 0
  /\ \A e \in oldest..began : e \in seen \/ (\E f \in blurred : e <= f) \/ Ahead(e)

-----------------------------------------------------------------------------
LEMMA Times ==
  ASSUME NEW a \in Nat, NEW b \in Nat, NEW s \in Nat, a <= b
  PROVE  a * s <= b * s
<1>1. b * s = a * s + (b - a) * s
  OBVIOUS
<1>2. (b - a) * s >= 0
  OBVIOUS
<1> QED
  BY <1>1, <1>2

(* The place of an event counts the newer ones of the list; when none of   *)
(* the newer was passed over, it is told by the numbers alone.             *)
LEMMA PlaceIs ==
  ASSUME PagesTypeOK, NEW list \in SUBSET (oldest..total), NEW e \in oldest..total,
         \A f \in (oldest..total) \ list : f < e
  PROVE  /\ e \in list /\ Place(list, e) = total - e
         /\ Place(list, e) < Cardinality(list)
<1>t. total \in Nat /\ oldest \in Nat \ {0} /\ e \in Nat /\ e <= total
  BY DEF PagesTypeOK
<1>1. e \in list
  <2>1. ~(e < e)
    BY <1>t
  <2> QED
    BY <2>1
<1>2. {f \in list : f > e} = (e + 1)..total
  <2>1. ASSUME NEW f \in (e + 1)..total PROVE f \in list /\ f > e
    <3>1. f \in oldest..total /\ ~(f < e) /\ f > e
      BY <1>t
    <3> QED
      BY <3>1
  <2>2. ASSUME NEW f \in list, f > e PROVE f \in (e + 1)..total
    <3>1. f \in oldest..total
      OBVIOUS
    <3> QED
      BY <1>t, <2>2, <3>1
  <2> QED
    BY <2>1, <2>2
<1>3. IsFiniteSet(oldest..total) /\ IsFiniteSet(list)
  <2>1. oldest \in Int /\ total \in Int
    BY <1>t
  <2>2. IsFiniteSet(oldest..total)
    BY <2>1, FS_Interval
  <2> QED
    BY <2>2, FS_Subset
<1>4. Cardinality((e + 1)..total) = total - e
  <2>1. e + 1 \in Int /\ total \in Int
    BY <1>t
  <2>2. Cardinality((e + 1)..total) = IF e + 1 > total THEN 0 ELSE total - (e + 1) + 1
    BY <2>1, FS_Interval
  <2> QED
    BY <1>t, <2>2
<1>5. Cardinality(((e + 1)..total) \cup {e}) = total - e + 1
  <2>1. IsFiniteSet((e + 1)..total) /\ e \notin (e + 1)..total
    BY <1>t, FS_Interval
  <2> QED
    BY <1>4, <2>1, FS_AddElement
<1>6. ((e + 1)..total) \cup {e} \subseteq list
  BY <1>1, <1>2
<1>7. total - e + 1 <= Cardinality(list) /\ Cardinality(list) \in Nat
  BY <1>3, <1>5, <1>6, FS_Subset, FS_CardinalityType
<1>8. Place(list, e) = total - e
  BY <1>2, <1>4 DEF Place
<1>9. total - e < Cardinality(list)
  BY <1>t, <1>7
<1> QED
  BY <1>1, <1>8, <1>9

(* There is a page after page p exactly if p pages do not hold the list.   *)
LEMMA PagesIs ==
  ASSUME PagesTypeOK, NEW list, Cardinality(list) \in Nat
  PROVE  /\ Pages(list) \in Nat /\ Pages(list) >= 1
         /\ \A p \in Nat \ {0} : p < Pages(list) <=> p * pageSize < Cardinality(list)
<1> DEFINE n == Cardinality(list)
           x == n + pageSize - 1
           d == x \div pageSize
<1>1. /\ d \in Nat /\ d * pageSize <= x /\ x < (d + 1) * pageSize
  BY DEF PagesTypeOK
<1>2. CASE n = 0
  <2>1. Pages(list) = 1
    BY <1>2 DEF Pages
  <2>2. \A p \in Nat : p * pageSize >= 0
    BY DEF PagesTypeOK
  <2> QED
    BY <1>2, <2>1, <2>2 DEF PagesTypeOK
<1>3. CASE n # 0
  <2>1. Pages(list) = d
    BY <1>3 DEF Pages
  <2>2. pageSize \in Nat /\ pageSize > 0 /\ n \in Nat /\ n > 0 /\ x = n + pageSize - 1
    BY <1>3 DEF PagesTypeOK
  <2> HIDE DEF d, x, n
  <2>3. (d + 1) * pageSize = d * pageSize + pageSize
    BY <1>1, <2>2
  <2>4. d * pageSize >= n
    BY <1>1, <2>2, <2>3
  <2>5. d >= 1
    BY <1>1, <2>2, <2>4
  <2>6. ASSUME NEW p \in Nat \ {0} PROVE p < d <=> p * pageSize < n
    <3>1. CASE p < d
      <4>1. (p + 1) * pageSize <= d * pageSize
        BY <1>1, <2>2, <3>1, Times
      <4>2. (p + 1) * pageSize = p * pageSize + pageSize
        BY <2>2
      <4> QED
        BY <1>1, <2>2, <3>1, <4>1, <4>2
    <3>2. CASE d <= p
      <4>1. d * pageSize <= p * pageSize
        BY <1>1, <2>2, <3>2, Times
      <4> QED
        BY <1>1, <2>2, <2>4, <3>2, <4>1
    <3> QED
      BY <1>1, <3>1, <3>2
  <2> QED
    BY <1>1, <2>1, <2>5, <2>6 DEF n
<1> QED
  BY <1>2, <1>3

(* The page that is shown is one of the list's, and the one asked for if   *)
(* the list reaches it.                                                    *)
LEMMA ShownIs ==
  ASSUME PagesTypeOK, NEW list, Cardinality(list) \in Nat, NEW p \in Nat \ {0}
  PROVE  /\ Shown(list, p) \in Nat \ {0}
         /\ (p - 1) * pageSize < Cardinality(list) => Shown(list, p) = p
<1>1. Shown(list, p) \in Nat \ {0}
  BY PagesIs DEF Shown
<1>2. ASSUME (p - 1) * pageSize < Cardinality(list) PROVE Shown(list, p) = p
  <2>1. CASE p = 1
    BY <2>1, PagesIs DEF Shown
  <2>2. CASE p # 1
    <3>1. p - 1 \in Nat \ {0}
      BY <2>2
    <3>2. p - 1 < Pages(list)
      BY <1>2, <3>1, PagesIs
    <3> QED
      BY <3>2, PagesIs DEF Shown
  <2> QED
    BY <2>1, <2>2
<1> QED
  BY <1>1, <1>2

(* A request for page p keeps the types and shows page p, or one before    *)
(* it; an event that is not before page p is shown now, or ahead, unless   *)
(* the request passed over it or a newer one.                              *)
LEMMA ShowPageShows ==
  ASSUME PagesTypeOK, NEW p \in Nat \ {0}, ShowPage(p),
         UNCHANGED <<pageSize, total, oldest>>
  PROVE  /\ page' \in Nat \ {0} /\ more' \in BOOLEAN
         /\ seen \subseteq seen' /\ seen' \subseteq 1..total
         /\ blurred \subseteq blurred' /\ blurred' \subseteq 1..total
         /\ \A e \in oldest..total :
              (p - 1) * pageSize <= total - e =>
                e \in seen' \/ (\E f \in blurred' : e <= f) \/ Ahead(e)'
<1>t. /\ pageSize \in Nat \ {0} /\ total \in Nat /\ oldest \in Nat \ {0}
      /\ seen \subseteq 1..total /\ blurred \subseteq 1..total
  BY DEF PagesTypeOK
<1>0. oldest..total \subseteq 1..total
  BY <1>t
<1>1. PICK list \in SUBSET (oldest..total) :
        /\ page' = Shown(list, p) /\ more' = (Shown(list, p) < Pages(list))
        /\ seen' = seen \cup EventsOn(list, Shown(list, p))
        /\ blurred' = blurred \cup ((oldest..total) \ list)
  BY DEF ShowPage
<1>2. Cardinality(list) \in Nat
  <2>1. oldest \in Int /\ total \in Int
    BY <1>t
  <2>2. IsFiniteSet(oldest..total)
    BY <2>1, FS_Interval
  <2> QED
    BY <2>2, FS_Subset, FS_CardinalityType
<1>3. page' \in Nat \ {0} /\ more' \in BOOLEAN
  BY <1>1, <1>2, ShownIs
<1>4. EventsOn(list, Shown(list, p)) \subseteq list
  BY DEF EventsOn
<1>5. ASSUME NEW e \in oldest..total, (p - 1) * pageSize <= total - e,
             \A f \in blurred' : ~(e <= f)
      PROVE  e \in seen' \/ Ahead(e)'
  <2>1. \A f \in (oldest..total) \ list : f < e
    BY <1>t, <1>1, <1>5
  <2>2. /\ e \in list /\ Place(list, e) = total - e /\ total - e < Cardinality(list)
        /\ total - e \in Nat
    BY <1>t, <2>1, PlaceIs
  <2>3. (p - 1) * pageSize \in Nat /\ p * pageSize = (p - 1) * pageSize + pageSize
    BY <1>t
  <2>4. Shown(list, p) = p
    BY <1>2, <1>5, <2>2, <2>3, ShownIs
  <2>5. CASE total - e < p * pageSize
    <3>1. total - e \in (p - 1) * pageSize .. (p - 1) * pageSize + pageSize - 1
      BY <1>t, <1>5, <2>2, <2>3, <2>5
    <3>2. e \in EventsOn(list, p)
      BY <2>2, <3>1 DEF EventsOn
    <3> QED
      BY <1>1, <2>4, <3>2
  <2>6. CASE p * pageSize <= total - e
    <3>1. p * pageSize < Cardinality(list) /\ p * pageSize \in Nat
      BY <1>t, <1>2, <2>2, <2>3, <2>6
    <3>2. p < Pages(list)
      BY <1>2, <3>1, PagesIs
    <3>3. more' /\ page' = p
      BY <1>1, <2>4, <3>2
    <3> QED
      BY <2>6, <3>3 DEF Ahead
  <2> QED
    BY <1>t, <2>2, <2>3, <2>5, <2>6
<1> QED
  BY <1>t, <1>0, <1>1, <1>3, <1>4, <1>5

LEMMA OpenKeepsPages ==
  ASSUME PagesInv, OpenPage
  PROVE  PagesInv'
<1>t. PagesTypeOK /\ UNCHANGED <<pageSize, total, oldest>> /\ total \in Nat
      /\ oldest \in Nat \ {0} /\ pageSize \in Nat \ {0}
  BY DEF PagesInv, PagesTypeOK, OpenPage
<1>1. PICK p \in 1 .. MaxTotal + 1 : ShowPage(p) /\ began' = IF p = 1 THEN total ELSE 0
  BY DEF OpenPage
<1>2. p \in Nat \ {0}
  BY PagesAssumption
<1>3. /\ page' \in Nat \ {0} /\ more' \in BOOLEAN
      /\ seen' \subseteq 1..total /\ blurred' \subseteq 1..total
  BY <1>t, <1>1, <1>2, ShowPageShows
<1>4. began' \in 0..total
  BY <1>t, <1>1
<1>5. PagesTypeOK'
  BY <1>t, <1>3, <1>4 DEF PagesTypeOK
<1>6. ASSUME NEW e \in oldest..began'
      PROVE  e \in seen' \/ (\E f \in blurred' : e <= f) \/ Ahead(e)'
  <2>1. p = 1 /\ e \in oldest..total
    BY <1>t, <1>1
  <2>2. (p - 1) * pageSize = 0 /\ 0 <= total - e
    BY <1>t, <2>1
  <2> QED
    BY <1>t, <1>1, <1>2, <2>1, <2>2, ShowPageShows
<1> QED
  BY <1>t, <1>3, <1>5, <1>6 DEF PagesInv

LEMMA FollowKeepsPages ==
  ASSUME PagesInv, FollowNext
  PROVE  PagesInv'
<1>t. /\ PagesTypeOK /\ UNCHANGED <<pageSize, total, oldest, began>> /\ total \in Nat
      /\ oldest \in Nat \ {0} /\ pageSize \in Nat \ {0} /\ page \in Nat \ {0} /\ began \in 0..total
      /\ more /\ ShowPage(page + 1)
  BY DEF PagesInv, PagesTypeOK, FollowNext
<1>1. page + 1 \in Nat \ {0} /\ (page + 1) - 1 = page
  BY <1>t
<1>2. /\ page' \in Nat \ {0} /\ more' \in BOOLEAN
      /\ seen \subseteq seen' /\ seen' \subseteq 1..total
      /\ blurred \subseteq blurred' /\ blurred' \subseteq 1..total
      /\ \A e \in oldest..total :
           page * pageSize <= total - e =>
             e \in seen' \/ (\E f \in blurred' : e <= f) \/ Ahead(e)'
  BY <1>t, <1>1, ShowPageShows
<1>3. PagesTypeOK'
  BY <1>t, <1>2 DEF PagesTypeOK
<1>4. ASSUME NEW e \in oldest..began
      PROVE  e \in seen' \/ (\E f \in blurred' : e <= f) \/ Ahead(e)'
  <2>1. e \in oldest..total
    BY <1>t
  <2>2. e \in seen \/ (\E f \in blurred : e <= f) \/ page * pageSize <= total - e
    BY <1>4 DEF PagesInv, Ahead
  <2> QED
    BY <1>2, <2>1, <2>2
<1> QED
  BY <1>t, <1>2, <1>3, <1>4 DEF PagesInv

LEMMA StaysBelow ==
  ASSUME NEW a \in Int, NEW b \in Int, NEW c \in Int, NEW d \in Int, d <= a - c, a <= b
  PROVE  d <= b - c
  OBVIOUS

LEMMA LogKeepsPages ==
  ASSUME PagesInv, LogEvent \/ DropOldest
  PROVE  PagesInv'
<1>t. /\ PagesTypeOK /\ total' \in {total, total + 1} /\ oldest' \in {oldest, oldest + 1}
      /\ UNCHANGED <<pageSize, page, more, began, seen, blurred>>
      /\ total \in Nat /\ oldest \in Nat \ {0} /\ pageSize \in Nat \ {0} /\ page \in Nat
      /\ began \in 0..total
  BY DEF PagesInv, PagesTypeOK, LogEvent, DropOldest
<1>1. 1..total \subseteq 1..total' /\ total' \in Nat /\ oldest' \in Nat \ {0} /\ began \in 0..total'
  BY <1>t
<1>2. PagesTypeOK'
  BY <1>t, <1>1 DEF PagesTypeOK
<1>n. total \in Nat /\ total' \in Nat /\ total <= total' /\ began \in Nat
  BY <1>t
<1>o. oldest \in Nat /\ oldest' \in Nat /\ oldest <= oldest'
  BY <1>t
<1>3. ASSUME NEW e \in oldest'..began
      PROVE  e \in seen \/ (\E f \in blurred : e <= f) \/ Ahead(e)'
  <2>1. e \in oldest..began /\ e \in Nat
    BY <1>n, <1>o
  <2>2. CASE Ahead(e)
    <3>1. page * pageSize \in Nat
      BY <1>t
    <3>2. more /\ page * pageSize <= total - e
      BY <2>2 DEF Ahead
    <3>3. page * pageSize <= total' - e
      <4>1. total \in Int /\ total' \in Int /\ e \in Int /\ total <= total'
        BY <1>n, <2>1
      <4> QED
        BY <3>1, <3>2, <4>1, StaysBelow
    <3>4. more' /\ page' * pageSize' <= total' - e
      BY <1>t, <3>2, <3>3
    <3> QED
      BY <3>4 DEF Ahead
  <2> QED
    BY <2>1, <2>2 DEF PagesInv
<1> QED
  BY <1>t, <1>2, <1>3 DEF PagesInv

LEMMA PagesInvInvariant == PagesSpec => []PagesInv
<1>1. ASSUME PagesInit PROVE PagesInv
  <2>1. /\ pageSize \in Nat \ {0} /\ total = 0 /\ oldest = 1 /\ page = 0 /\ more = FALSE
        /\ began = 0 /\ seen = {} /\ blurred = {}
    BY <1>1, PagesAssumption DEF PagesInit
  <2>2. PagesTypeOK
    <3>1. /\ began \in 0..total /\ total \in Nat /\ page \in Nat /\ oldest \in Nat \ {0}
          /\ seen \subseteq 1..total /\ blurred \subseteq 1..total
      BY <2>1
    <3>2. more \in BOOLEAN
      BY <2>1, Zenon
    <3> QED
      BY <2>1, <3>1, <3>2 DEF PagesTypeOK
  <2>3. oldest..began = {}
    BY <2>1
  <2>4. ~(began > 0 \/ more)
    BY <2>1
  <2> QED
    BY <2>2, <2>3, <2>4 DEF PagesInv
<1>2. PagesInv /\ [PagesNext]_pagesVars => PagesInv'
  <2> SUFFICES ASSUME PagesInv, [PagesNext]_pagesVars PROVE PagesInv'
    OBVIOUS
  <2>1. CASE UNCHANGED pagesVars
    BY <2>1 DEF pagesVars, PagesInv, PagesTypeOK, Ahead
  <2> QED
    BY <2>1, OpenKeepsPages, FollowKeepsPages, LogKeepsPages DEF PagesNext
<1> QED
  BY <1>1, <1>2, PTL DEF PagesSpec

-----------------------------------------------------------------------------
(* Who follows the links from the first page to the last misses, of the    *)
(* events logged when they began, only those that have left the list and   *)
(* those no newer than one that a request passed over.                     *)
THEOREM PagesShowAll == PagesSpec => []PagesMissNoEvent
<1>1. PagesInv => PagesMissNoEvent
  BY DEF PagesInv, PagesMissNoEvent, Ahead
<1> QED
  BY <1>1, PagesInvInvariant, PTL

-----------------------------------------------------------------------------
(* A number in the range of the registers is held as it is.                *)
LEMMA WrappedInRange ==
  ASSUME NEW x \in Smallest..Largest
  PROVE  Wrapped(x) = x
BY TtlAssumption DEF Wrapped, Smallest, Largest

LEMMA WrappedIsInt ==
  ASSUME NEW x \in Int
  PROVE  Wrapped(x) \in Int
BY TtlAssumption DEF Wrapped, Smallest

(* The settings keep the default at most the maximum; a grant is bounded   *)
(* by it.                                                                  *)
TtlInv ==
  /\ settings \in [default : Durations, max : Durations]
  /\ settings.default <= settings.max
  /\ TtlInRangeAsAsked

(* Whatever the form sends, a TTL is positive and at most MaxTTL, and one  *)
(* that fits is granted as asked.                                          *)
THEOREM TtlIsGranted == TtlSpec => []TtlInRangeAsAsked
<1>1. TtlInit => TtlInv
  BY TtlAssumption DEF TtlInit, TtlInv, TtlInRangeAsAsked, Durations, Largest
<1>2. ASSUME TtlInv, ttl PROVE TtlInv'
  <2>1. PICK n \in Numbers : form' = n /\ granted' = Clamped(Seconds(n))
    BY <1>2 DEF ttl
  <2>2. /\ settings' = settings /\ settings.default \in Nat \ {0} /\ settings.max \in Nat
        /\ settings.default <= settings.max
    BY <1>2, TtlAssumption DEF ttl, TtlInv, Durations, Largest
  <2>3. Seconds(n) \in Int
    <3>1. ParseInt(n) \in Int
      BY TtlAssumption DEF Numbers, ParseInt, Largest, Smallest
    <3>2. ParseInt(n) * Second \in Int
      BY <3>1, TtlAssumption
    <3> QED
      BY <3>2, WrappedIsInt DEF Seconds
  <2>4. granted' \in 1..settings.max
    BY <2>1, <2>2, <2>3 DEF Clamped
  <2>5. ASSUME n \in 1..(Largest \div Second)
        PROVE  Seconds(n) = n * Second /\ n * Second > 0
    <3>1. Largest \in Nat /\ Second \in Nat \ {0} /\ Smallest < 0 /\ Smallest \in Int
      BY TtlAssumption DEF Largest, Smallest
    <3>2. (Largest \div Second) \in Nat /\ (Largest \div Second) * Second <= Largest
      BY <3>1
    <3>3. n \in Nat /\ n > 0 /\ n <= Largest \div Second
      BY <2>5, <3>2
    <3>4. n * Second <= (Largest \div Second) * Second
      BY <3>1, <3>2, <3>3, Times
    <3>5. n * Second \in Nat /\ n <= n * Second
      BY <3>1, <3>3
    <3>6. ParseInt(n) = n
      BY <3>1, <3>2, <3>3, <3>4, <3>5 DEF ParseInt
    <3>7. n * Second \in Smallest..Largest
      BY <3>1, <3>2, <3>4, <3>5
    <3>8. Seconds(n) = n * Second
      BY <3>6, <3>7, WrappedInRange DEF Seconds
    <3>9. n * Second > 0
      BY <3>3, <3>5
    <3> QED
      BY <3>8, <3>9
  <2>6. n \in 1..(Largest \div Second) =>
          granted' = IF n * Second < settings.max THEN n * Second ELSE settings.max
    <3> SUFFICES ASSUME n \in 1..(Largest \div Second)
                 PROVE  granted' = IF n * Second < settings.max THEN n * Second ELSE settings.max
      OBVIOUS
    <3>1. Seconds(n) = n * Second /\ n * Second > 0 /\ n * Second \in Int
      BY <2>3, <2>5
    <3>2. Clamped(n * Second) = IF n * Second > settings.max THEN settings.max ELSE n * Second
      BY <3>1 DEF Clamped
    <3> QED
      BY <2>1, <2>2, <3>1, <3>2
  <2>7. TtlInRangeAsAsked'
    BY <2>1, <2>2, <2>4, <2>6 DEF TtlInRangeAsAsked, Largest
  <2> QED
    BY <1>2, <2>2, <2>7 DEF TtlInv
<1>3. TtlInv /\ UNCHANGED ttlVars => TtlInv'
  BY DEF TtlInv, TtlInRangeAsAsked, ttlVars
<1>4. TtlInv => TtlInRangeAsAsked
  BY DEF TtlInv
<1> QED
  BY <1>1, <1>2, <1>3, <1>4, PTL DEF TtlSpec

(***************************************************************************)
(* The four together                                                       *)
(***************************************************************************)

(* What MCServer starts and carries out is a behaviour of each of its      *)
(* parts, so the theorems above hold of it.                                *)
THEOREM EachOnItsOwn == MCSpec => Spec /\ ReportingSpec /\ PagesSpec /\ TtlSpec
<1>1. MCInit => Init /\ ReportingInit /\ PagesInit /\ TtlInit
  BY DEF MCInit
<1>2. [MCNext]_mcVars => /\ [Next]_vars /\ [ReportingNext]_reportingVars
                         /\ [PagesNext]_pagesVars /\ [ttl]_ttlVars
  BY DEF MCNext, mcVars
<1> QED  BY <1>1, <1>2, PTL DEF MCSpec, Spec, ReportingSpec, PagesSpec, TtlSpec

(* The variables of requests and log keep their types.                     *)
THEOREM TypesCorrect == MCSpec => []TypesOK
BY EachOnItsOwn, TypeCorrect, ReportingTypeCorrect, PTL DEF TypesOK
=============================================================================
