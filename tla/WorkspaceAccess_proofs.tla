----------------------- MODULE WorkspaceAccess_proofs -----------------------
(***************************************************************************)
(* What WorkspaceAccess guarantees for any users, workspaces, sessions,    *)
(* invitations and requests.                                               *)
(***************************************************************************)
EXTENDS WorkspaceAccess, TLAPS

-----------------------------------------------------------------------------
(* Type correctness                                                        *)

(* What a request keeps for the calls it still makes: q is its record.     *)
Keeps(q) ==
  /\ q.pc \notin {"idle", "setup", "locked", "create", "giveup", "done"} => q.me \in Users
  /\ q.pc \in {"active", "home", "join", "in", "switch", "accept", "admit", "enter"} =>
       q.sid \in Sessions
  /\ q.pc \in {"savecheck", "save", "savenew", "saveadd", "delcheck", "remove", "list",
               "erase", "move", "forget"} => q.about \in Users
  /\ q.pc \in {"active", "home", "join", "in", "admit", "savecheck", "save", "savenew",
               "saveadd", "move"} => q.role \in Roles
  /\ q.pc = "accept" => q.inv \in Invitations
  /\ q.pc \in {"legacy", "move", "forget", "groups"} => q.me \in Entra

TypeInv == TypeOK /\ \A r \in Requests : Keeps(req[r])

StoreOK ==
  /\ user \in [Users -> Record]
  /\ member \in [Users -> [Workspaces -> Roles \cup {"none"}]]
  /\ session \in [Sessions -> Users \cup {NoUser, Closed}]
  /\ active \in [Sessions -> Workspaces \cup {NoWorkspace}]
  /\ invite \in [Invitations -> Invitation]
  /\ lock \in BOOLEAN
HistoryOK ==
  /\ admitted \subseteq Places
  /\ withdrawn \subseteq Users \X Workspaces /\ missed \subseteq Users \X Workspaces
  /\ setups \in Nat /\ lapsed \in BOOLEAN /\ overlooked \in BOOLEAN /\ vacant \in BOOLEAN

LEMMA StoreFrame == StoreOK /\ UNCHANGED store => StoreOK'
  BY DEF StoreOK, store

LEMMA HistoryFrame == HistoryOK /\ UNCHANGED history => HistoryOK'
  BY DEF HistoryOK, history

LEMMA EndedKeeps == Ended \in Request /\ Keeps(Ended)
  BY NamesAssumption DEF Ended, IdleRequest, Request, PCs, Keeps

(* A step of the request r, which becomes n.                               *)
LEMMA TypeFrame ==
  ASSUME TypeInv, NEW r \in Requests, NEW n \in Request, Keeps(n),
         req' = [req EXCEPT ![r] = n], StoreOK', HistoryOK'
  PROVE  TypeInv'
  BY DEF TypeInv, TypeOK, StoreOK, HistoryOK

(* r goes on to another call with what it has.                             *)
LEMMA TypeGoto ==
  ASSUME TypeInv, NEW r \in Requests, NEW pc \in PCs, Goto(r, pc),
         Keeps([req[r] EXCEPT !.pc = pc]), StoreOK', HistoryOK'
  PROVE  TypeInv'
<1> DEFINE n == [req[r] EXCEPT !.pc = pc]
<1>1. req \in [Requests -> Request]
  BY DEF TypeInv, TypeOK
<1>2. n \in Request /\ Keeps(n)
  BY <1>1 DEF Request
<1>3. req' = [req EXCEPT ![r] = n]
  BY DEF Goto
<1> HIDE DEF n
<1> QED
  BY <1>2, <1>3, TypeFrame

LEMMA TypeEnd ==
  ASSUME TypeInv, NEW r \in Requests, End(r), StoreOK', HistoryOK'
  PROVE  TypeInv'
  BY EndedKeeps, TypeFrame DEF End

LEMMA TypeAuthenticate ==
  ASSUME TypeInv, NEW r \in Requests, Authenticate(r)
  PROVE  TypeInv'
<1>0. TypeOK /\ StoreOK /\ HistoryOK /\ req[r] \in Request /\ Keeps(req[r])
  BY DEF TypeInv, TypeOK, StoreOK, HistoryOK
<1>1. ASSUME NEW s \in Sessions, Arrive(r, s) PROVE TypeInv'
  <2> DEFINE n == [IdleRequest EXCEPT !.pc = "active", !.sid = s, !.me = session[s],
                     !.ws = user[session[s]].home, !.role = user[session[s]].role,
                     !.gated = HasAdmin]
  <2>1. session[s] \in Users /\ user[session[s]] \in Record /\ user[session[s]].role # "none"
    BY <1>0, <1>1 DEF Arrive, Exists, TypeOK
  <2>2. n \in Request /\ Keeps(n)
    BY <2>1 DEF Request, IdleRequest, PCs, Keeps, Record, HasAdmin
  <2>3. req' = [req EXCEPT ![r] = n]
    BY <1>1 DEF Arrive
  <2> HIDE DEF n
  <2> QED
    BY <1>0, <1>1, <2>2, <2>3, TypeFrame, StoreFrame, HistoryFrame DEF Arrive
<1>2. CASE ReadActive(r)
  <2> DEFINE w == active[req[r].sid]
             role == member[req[r].me][w]
  <2>1. PICK n \in Request : Keeps(n) /\ req' = [req EXCEPT ![r] = n]
    <3>1. CASE Goto(r, "home")
      BY <1>0, <1>2, <3>1 DEF ReadActive, Goto, At, Request, PCs, Keeps
    <3>2. CASE /\ w # NoWorkspace /\ role # "none"
               /\ req' = [req EXCEPT ![r].pc = "home", ![r].ws = w, ![r].role = role]
      <4>1. w \in Workspaces /\ role \in Roles
        BY <1>0, <1>2, <3>2 DEF ReadActive, At, Keeps, TypeOK
      <4> DEFINE n == [req[r] EXCEPT !.pc = "home", !.ws = w, !.role = role]
      <4> HIDE DEF w, role
      <4>2. n \in Request /\ Keeps(n)
        BY <1>0, <1>2, <4>1 DEF ReadActive, At, Request, PCs, Keeps
      <4>3. req' = [req EXCEPT ![r] = n]
        BY <1>0, <3>2 DEF TypeOK, Request
      <4> QED
        BY <4>2, <4>3
    <3> QED
      BY <1>2, <3>1, <3>2 DEF ReadActive
  <2> QED
    BY <1>0, <1>2, <2>1, TypeFrame, StoreFrame, HistoryFrame DEF ReadActive
<1>3. CASE ReadHome(r)
  <2>1. PICK n \in Request : Keeps(n) /\ req' = [req EXCEPT ![r] = n]
    <3> DEFINE role == member[req[r].me][req[r].ws]
    <3>1. CASE role # "none" /\ req' = [req EXCEPT ![r].pc = "in", ![r].role = role]
      <4>1. role \in Roles
        BY <1>0, <1>3, <3>1 DEF ReadHome, At, Keeps, TypeOK, Request
      <4> DEFINE n == [req[r] EXCEPT !.pc = "in", !.role = role]
      <4> HIDE DEF role
      <4>2. n \in Request /\ Keeps(n)
        BY <1>0, <1>3, <4>1 DEF ReadHome, At, Request, PCs, Keeps
      <4>3. req' = [req EXCEPT ![r] = n]
        BY <1>0, <3>1 DEF TypeOK, Request
      <4> QED
        BY <4>2, <4>3
    <3>2. ASSUME NEW pc \in {"join", "in"}, Goto(r, pc)
          PROVE  \E n \in Request : Keeps(n) /\ req' = [req EXCEPT ![r] = n]
      <4> DEFINE n == [req[r] EXCEPT !.pc = pc]
      <4>1. n \in Request /\ Keeps(n)
        BY <1>0, <1>3 DEF ReadHome, At, Request, PCs, Keeps
      <4>2. req' = [req EXCEPT ![r] = n]
        BY <1>0, <3>2 DEF Goto, TypeOK, Request
      <4> QED
        BY <4>1, <4>2
    <3> QED
      BY <1>3, <3>1, <3>2 DEF ReadHome
  <2> QED
    BY <1>0, <1>3, <2>1, TypeFrame, StoreFrame, HistoryFrame DEF ReadHome
<1>4. CASE Join(r)
  <2>1. PICK n \in Request : Keeps(n) /\ req' = [req EXCEPT ![r] = n]
    BY <1>0, <1>4 DEF Join, Goto, At, Request, PCs, Keeps
  <2>2. StoreOK'
    <3>1. req[r].me \in Users /\ req[r].ws \in Workspaces /\ req[r].role \in Roles
      BY <1>0, <1>4 DEF Join, At, Request, Keeps
    <3>2. member' \in [Users -> [Workspaces -> Roles \cup {"none"}]]
      <4>1. \/ member' = member
            \/ member' = [member EXCEPT ![req[r].me][req[r].ws] = req[r].role]
        BY <1>4 DEF Join
      <4>2. member \in [Users -> [Workspaces -> Roles \cup {"none"}]]
        BY <1>0 DEF StoreOK
      <4> QED
        BY <3>1, <4>1, <4>2
    <3> QED
      BY <1>0, <1>4, <3>2 DEF Join, StoreOK
  <2>3. HistoryOK'
    BY <1>0, <1>4 DEF Join, At, HistoryOK, NoteMissed, Keeps, Request
  <2> QED
    BY <2>1, <2>2, <2>3, TypeFrame
<1> QED
  BY <1>1, <1>2, <1>3, <1>4 DEF Authenticate

LEMMA TypeUseWorkspace ==
  ASSUME TypeInv, NEW r \in Requests, UseWorkspace(r)
  PROVE  TypeInv'
<1>0. TypeOK /\ StoreOK /\ HistoryOK /\ req[r] \in Request /\ Keeps(req[r])
  BY DEF TypeInv, TypeOK, StoreOK, HistoryOK
<1>1. ASSUME NEW w \in Workspaces, SwitchLook(r, w) PROVE TypeInv'
  <2> DEFINE n == [req[r] EXCEPT !.pc = "switch", !.ws = w]
  <2>1. n \in Request /\ Keeps(n)
    BY <1>0, <1>1 DEF SwitchLook, At, Request, PCs, Keeps
  <2>n. req' = [req EXCEPT ![r] = n]
    BY <1>0, <1>1 DEF SwitchLook, TypeOK, Request
  <2> HIDE DEF n
  <2> QED
    BY <1>0, <1>1, <2>1, <2>n, StoreFrame, HistoryFrame, TypeFrame DEF SwitchLook
<1>2. CASE SwitchSet(r)
  <2>1. PICK n \in Request : Keeps(n) /\ req' = [req EXCEPT ![r] = n]
    BY <1>0, <1>2, EndedKeeps DEF SwitchSet, Goto, End, At, TypeOK, Request, PCs, Keeps
  <2>2. StoreOK'
    BY <1>0, <1>2 DEF SwitchSet, At, StoreOK, Request, Keeps
  <2>3. HistoryOK'
    BY <1>0, <1>2 DEF SwitchSet, At, HistoryOK, Request, Keeps, history
  <2> QED
    BY <1>0, <1>2, <2>1, <2>2, <2>3, TypeFrame
<1>3. ASSUME NEW i \in Invitations, AcceptLook(r, i) PROVE TypeInv'
  <2> DEFINE n == [req[r] EXCEPT !.pc = "accept", !.inv = i]
  <2>1. n \in Request /\ Keeps(n)
    BY <1>0, <1>3 DEF AcceptLook, At, Request, PCs, Keeps
  <2>n. req' = [req EXCEPT ![r] = n]
    BY <1>0, <1>3 DEF AcceptLook, TypeOK, Request
  <2> HIDE DEF n
  <2> QED
    BY <1>0, <1>3, <2>1, <2>n, StoreFrame, HistoryFrame, TypeFrame DEF AcceptLook
<1>4. CASE AcceptSpend(r)
  <2> DEFINE n == [req[r] EXCEPT !.pc = "admit", !.ws = invite[req[r].inv].ws,
                                  !.role = invite[req[r].inv].role]
  <2>0. /\ req[r].inv \in Invitations /\ invite[req[r].inv].ws \in Workspaces
        /\ invite[req[r].inv].role \in Roles
        /\ [invite[req[r].inv] EXCEPT !.state = "gone"] \in Invitation
    <3>1. req[r].inv \in Invitations
      BY <1>0, <1>4 DEF AcceptSpend, At, Keeps
    <3>2. invite[req[r].inv] \in Invitation
      BY <1>0, <3>1 DEF StoreOK
    <3> QED
      BY <3>1, <3>2 DEF Invitation
  <2>1. n \in Request /\ Keeps(n)
    <3>1. n \in Request
      BY <1>0, <2>0 DEF Request, PCs
    <3>2. /\ n.pc = "admit" /\ n.me = req[r].me /\ n.sid = req[r].sid
          /\ n.role = invite[req[r].inv].role
      BY <1>0 DEF Request
    <3>3. req[r].me \in Users
      BY <1>0, <1>4 DEF AcceptSpend, At, Keeps
    <3>4. req[r].sid \in Sessions
      BY <1>0, <1>4 DEF AcceptSpend, At, Keeps
    <3> HIDE DEF n
    <3>5. Keeps(n)
      BY <2>0, <3>2, <3>3, <3>4 DEF Keeps
    <3> QED
      BY <3>1, <3>5
  <2>n. req' = [req EXCEPT ![r] = n]
    BY <1>0, <1>4 DEF AcceptSpend, TypeOK, Request
  <2> HIDE DEF n
  <2>2. StoreOK'
    BY <1>0, <1>4, <2>0 DEF AcceptSpend, StoreOK
  <2>3. HistoryOK'
    BY <1>0, <1>4 DEF AcceptSpend, At, HistoryOK, Request, Keeps, history
  <2> QED
    BY <1>0, <1>4, <2>1, <2>n, <2>2, <2>3, TypeFrame
<1>5. CASE AcceptAdmit(r)
  <2>1. PICK n \in Request : Keeps(n) /\ req' = [req EXCEPT ![r] = n]
    BY <1>0, <1>5 DEF AcceptAdmit, Goto, End, At, TypeOK, Request, PCs, Keeps
  <2>2. StoreOK'
    BY <1>0, <1>5 DEF AcceptAdmit, At, StoreOK, Request, Keeps
  <2>3. HistoryOK'
    BY <1>0, <1>5 DEF AcceptAdmit, At, HistoryOK, Request, Keeps, NoteMissed
  <2> QED
    BY <1>0, <1>5, <2>1, <2>2, <2>3, TypeFrame
<1> QED
  BY <1>1, <1>2, <1>3, <1>4, <1>5 DEF UseWorkspace

LEMMA TypeAdministrate ==
  ASSUME TypeInv, NEW r \in Requests, Administrate(r)
  PROVE  TypeInv'
<1>0. TypeOK /\ StoreOK /\ HistoryOK /\ req[r] \in Request /\ Keeps(req[r])
  BY DEF TypeInv, TypeOK, StoreOK, HistoryOK
<1>1. ASSUME NEW i \in Invitations, NEW to \in Addressed, NEW role \in Roles, Invite(r, i, to, role) PROVE TypeInv'
  <2>1. /\ [state |-> "open", to |-> to, ws |-> req[r].ws, role |-> role] \in Invitation
        /\ to \X {req[r].ws} \X {role} \subseteq Places
    BY <1>0, NamesAssumption DEF Request, Invitation, Places
  <2>2. StoreOK'
    BY <1>0, <1>1, <2>1 DEF Invite, StoreOK
  <2>3. HistoryOK'
    BY <1>0, <1>1, <2>1 DEF Invite, HistoryOK
  <2> QED
    BY <1>1, <2>2, <2>3, TypeEnd DEF Invite
<1>2. ASSUME NEW u \in Users, NEW role \in Roles, SaveLook(r, u, role) PROVE TypeInv'
  <2>0. PICK pc \in {"savecheck", "savenew"} :
          req' = [req EXCEPT ![r].pc = pc, ![r].about = u, ![r].role = role]
    BY <1>2 DEF SaveLook
  <2> DEFINE n == [req[r] EXCEPT !.pc = pc, !.about = u, !.role = role]
  <2>1. n \in Request /\ Keeps(n)
    BY <1>0, <1>2, <2>0 DEF SaveLook, IsAdmin, At, Request, PCs, Keeps
  <2>n. req' = [req EXCEPT ![r] = n]
    BY <1>0, <1>2, <2>0 DEF SaveLook, TypeOK, Request
  <2> HIDE DEF n
  <2> QED
    BY <1>0, <1>2, <2>1, <2>n, StoreFrame, HistoryFrame, TypeFrame DEF SaveLook
<1>3. CASE SaveCheck(r)
  <2>2. StoreOK'
    BY <1>0, <1>3, StoreFrame DEF SaveCheck
  <2>3. HistoryOK'
    BY <1>0, <1>3, HistoryFrame DEF SaveCheck
  <2>4. CASE Goto(r, "save")
    <3>1. Keeps([req[r] EXCEPT !.pc = "save"]) /\ "save" \in PCs
      BY <1>0, <1>3 DEF SaveCheck, At, Keeps, Request, PCs
    <3> QED
      BY <2>2, <2>3, <2>4, <3>1, TypeGoto
  <2> QED
    BY <1>3, <2>2, <2>3, <2>4, TypeEnd DEF SaveCheck
<1>4. CASE Save(r)
  <2>1. PICK n \in Request : Keeps(n) /\ req' = [req EXCEPT ![r] = n]
    BY <1>0, <1>4 DEF Save, Goto, End, At, TypeOK, Request, PCs, Keeps
  <2>2. StoreOK'
    BY <1>0, <1>4 DEF Save, At, StoreOK, Request, Keeps, Record
  <2>3. HistoryOK'
    BY <1>0, <1>4 DEF Save, At, HistoryOK, Request, Keeps, Places, NoteVacancy
  <2> QED
    BY <1>0, <1>4, <2>1, <2>2, <2>3, TypeFrame
<1>5. CASE SaveAdd(r)
  <2>1. PICK n \in Request : Keeps(n) /\ req' = [req EXCEPT ![r] = n]
    BY <1>0, <1>5, EndedKeeps DEF SaveAdd, Goto, End, At, TypeOK, Request, PCs, Keeps
  <2>2. StoreOK'
    BY <1>0, <1>5 DEF SaveAdd, At, StoreOK, Request, Keeps
  <2>3. HistoryOK'
    BY <1>0, <1>5 DEF SaveAdd, At, HistoryOK, Request, Keeps, NoteMissed
  <2> QED
    BY <1>0, <1>5, <2>1, <2>2, <2>3, TypeFrame
<1>6. ASSUME NEW u \in Users, DeleteLook(r, u) PROVE TypeInv'
  <2> DEFINE n == [req[r] EXCEPT !.pc = "delcheck", !.about = u]
  <2>1. n \in Request /\ Keeps(n)
    BY <1>0, <1>6 DEF DeleteLook, IsAdmin, At, Request, PCs, Keeps
  <2>n. req' = [req EXCEPT ![r] = n]
    BY <1>0, <1>6 DEF DeleteLook, TypeOK, Request
  <2> HIDE DEF n
  <2> QED
    BY <1>0, <1>6, <2>1, <2>n, StoreFrame, HistoryFrame, TypeFrame DEF DeleteLook
<1>7. CASE DeleteCheck(r)
  <2>2. StoreOK'
    BY <1>0, <1>7, StoreFrame DEF DeleteCheck
  <2>3. HistoryOK'
    BY <1>0, <1>7, HistoryFrame DEF DeleteCheck
  <2>4. CASE Goto(r, "remove")
    <3>1. Keeps([req[r] EXCEPT !.pc = "remove"]) /\ "remove" \in PCs
      BY <1>0, <1>7 DEF DeleteCheck, At, Keeps, Request, PCs
    <3> QED
      BY <2>2, <2>3, <2>4, <3>1, TypeGoto
  <2> QED
    BY <1>7, <2>2, <2>3, <2>4, TypeEnd DEF DeleteCheck
<1>8. CASE Remove(r)
  <2>1. PICK n \in Request : Keeps(n) /\ req' = [req EXCEPT ![r] = n]
    BY <1>0, <1>8 DEF Remove, Goto, End, At, TypeOK, Request, PCs, Keeps
  <2>2. StoreOK'
    BY <1>0, <1>8 DEF Remove, At, StoreOK, Request, Keeps
  <2>3. HistoryOK'
    BY <1>0, <1>8 DEF Remove, At, HistoryOK, Request, Keeps
  <2> QED
    BY <1>0, <1>8, <2>1, <2>2, <2>3, TypeFrame
<1>9. CASE List(r)
  <2>2. StoreOK'
    BY <1>0, <1>9, StoreFrame DEF List
  <2>3. HistoryOK'
    <3>1. req[r].about \in Users
      BY <1>0, <1>9 DEF List, At, Keeps
    <3>2. MembershipsOf(req[r].about) \subseteq Users \X Workspaces
      BY <3>1 DEF MembershipsOf
    <3> QED
      BY <1>0, <1>9, <3>2 DEF List, HistoryOK
  <2>4. CASE Goto(r, "erase")
    <3>1. Keeps([req[r] EXCEPT !.pc = "erase"]) /\ "erase" \in PCs
      BY <1>0, <1>9 DEF List, At, Keeps, Request, PCs
    <3> QED
      BY <2>2, <2>3, <2>4, <3>1, TypeGoto
  <2> QED
    BY <1>9, <2>2, <2>3, <2>4, TypeEnd DEF List
<1>10. CASE Erase(r)
  <2>1. PICK n \in Request : Keeps(n) /\ req' = [req EXCEPT ![r] = n]
    BY <1>0, <1>10, EndedKeeps DEF Erase, Goto, End, At, TypeOK, Request, PCs, Keeps
  <2>2. StoreOK'
    <3>1. NoRecord \in Record /\ req[r].about \in Users
      BY <1>0, <1>10, NamesAssumption DEF Erase, At, Keeps, NoRecord, Record
    <3> QED
      BY <1>0, <1>10, <3>1 DEF Erase, StoreOK
  <2>3. HistoryOK'
    BY <1>0, <1>10 DEF Erase, At, HistoryOK, Request, Keeps, NoteVacancy
  <2> QED
    BY <1>0, <1>10, <2>1, <2>2, <2>3, TypeFrame
<1> QED
  BY <1>1, <1>2, <1>3, <1>4, <1>5, <1>6, <1>7, <1>8, <1>9, <1>10 DEF Administrate

LEMMA TypeSignIn ==
  ASSUME TypeInv, NEW r \in Requests, SignIn(r)
  PROVE  TypeInv'
<1>0. TypeOK /\ StoreOK /\ HistoryOK /\ req[r] \in Request /\ Keeps(req[r])
  BY DEF TypeInv, TypeOK, StoreOK, HistoryOK
<1>1. ASSUME NEW u \in Users, Login(r, u) PROVE TypeInv'
  <2> DEFINE n == [req[r] EXCEPT !.pc = "signin", !.me = u]
  <2>1. n \in Request /\ Keeps(n)
    BY <1>0, <1>1 DEF Login, At, Request, PCs, Keeps
  <2>n. req' = [req EXCEPT ![r] = n]
    BY <1>0, <1>1 DEF Login, TypeOK, Request
  <2> HIDE DEF n
  <2> QED
    BY <1>0, <1>1, <2>1, <2>n, StoreFrame, HistoryFrame, TypeFrame DEF Login
<1>2. ASSUME NEW u \in Directory, DirectoryLogin(r, u) PROVE TypeInv'
  <2> DEFINE n == [req[r] EXCEPT !.pc = "signin", !.me = u]
  <2>0. u \in Users
    BY DEF Users
  <2>1. n \in Request /\ Keeps(n)
    BY <1>0, <1>2, <2>0 DEF DirectoryLogin, At, Request, PCs, Keeps
  <2>n. req' = [req EXCEPT ![r] = n]
    BY <1>0, <1>2 DEF DirectoryLogin, TypeOK, Request
  <2> HIDE DEF n
  <2> QED
    BY <1>0, <1>2, <2>1, <2>n, StoreFrame, HistoryFrame, TypeFrame DEF DirectoryLogin
<1>3. ASSUME NEW u \in Entra, Microsoft(r, u) PROVE TypeInv'
  <2>1. PICK n \in Request : Keeps(n) /\ req' = [req EXCEPT ![r] = n]
    BY <1>0, <1>3 DEF Microsoft, Goto, End, At, TypeOK, Request, PCs, Keeps, Users, Record
  <2> QED
    BY <1>0, <1>3, <2>1, StoreFrame, HistoryFrame, TypeFrame DEF Microsoft
<1>4. CASE FindLegacy(r)
  <2> DEFINE old == LegacyOf[req[r].me]
             n == [req[r] EXCEPT !.pc = "move", !.about = old,
                                 !.role = user[old].role, !.ws = user[old].home]
  <2>1. StoreOK' /\ HistoryOK'
    BY <1>0, <1>4, StoreFrame, HistoryFrame DEF FindLegacy
  <2>2. CASE Goto(r, "groups")
    <3>1. Keeps([req[r] EXCEPT !.pc = "groups"]) /\ "groups" \in PCs
      BY <1>0, <1>4 DEF FindLegacy, At, Keeps, Request, PCs
    <3> QED
      BY <2>1, <2>2, <3>1, TypeGoto
  <2>3. CASE old # NoUser /\ Exists(old) /\ ~user[old].local
    <3>1. /\ req[r].me \in Entra /\ req[r].me \in Users /\ old \in Users
          /\ user[old].role \in Roles /\ user[old].home \in Workspaces
      BY <1>0, <1>4, <2>3, NamesAssumption
      DEF FindLegacy, At, Keeps, Users, Exists, TypeOK, Record
    <3>2. n \in Request
      BY <1>0, <3>1 DEF Request, PCs
    <3>4. Keeps(n)
      <4>1. n.pc = "move" /\ n.me = req[r].me /\ n.about = old /\ n.role = user[old].role
        BY <1>0 DEF Request
      <4> HIDE DEF n
      <4> QED
        BY <3>1, <4>1 DEF Keeps
    <3>3. req' = [req EXCEPT ![r] = n]
      BY <1>0, <1>4, <2>3 DEF FindLegacy, TypeOK, Request
    <3> HIDE DEF n
    <3> QED
      BY <2>1, <3>2, <3>3, <3>4, TypeFrame
  <2> QED
    BY <1>4, <2>2, <2>3 DEF FindLegacy
<1>5. CASE MoveLegacy(r)
  <2>1. PICK n \in Request : Keeps(n) /\ req' = [req EXCEPT ![r] = n]
    BY <1>0, <1>5 DEF MoveLegacy, Goto, End, At, TypeOK, Request, PCs, Keeps
  <2>2. StoreOK'
    BY <1>0, <1>5 DEF MoveLegacy, At, StoreOK, Request, Keeps, Record
  <2>3. HistoryOK'
    BY <1>0, <1>5 DEF MoveLegacy, At, HistoryOK, Request, Keeps, Places, NoteVacancy
  <2> QED
    BY <1>0, <1>5, <2>1, <2>2, <2>3, TypeFrame
<1>6. CASE ForgetLegacy(r)
  <2>1. PICK n \in Request : Keeps(n) /\ req' = [req EXCEPT ![r] = n]
    BY <1>0, <1>6 DEF ForgetLegacy, Goto, End, At, TypeOK, Request, PCs, Keeps
  <2>2. StoreOK'
    <3>1. NoRecord \in Record /\ req[r].about \in Users
      BY <1>0, <1>6, NamesAssumption DEF ForgetLegacy, At, Keeps, NoRecord, Record
    <3> QED
      BY <1>0, <1>6, <3>1 DEF ForgetLegacy, StoreOK
  <2>3. HistoryOK'
    <3>1. req[r].about \in Users
      BY <1>0, <1>6 DEF ForgetLegacy, At, Keeps
    <3>2. MembershipsOf(req[r].about) \subseteq Users \X Workspaces
      BY <3>1 DEF MembershipsOf
    <3> QED
      BY <1>0, <1>6, <3>2 DEF ForgetLegacy, HistoryOK, NoteVacancy
  <2> QED
    BY <1>0, <1>6, <2>1, <2>2, <2>3, TypeFrame
<1>7. CASE SaveEntra(r)
  <2>0. /\ req[r].me \in Users
        /\ \A role \in {"administrator", "user",
                       IF req[r].role = "none" THEN "user" ELSE req[r].role} :
             /\ [role |-> role, home |-> Default, local |-> FALSE] \in Record
             /\ <<req[r].me, Default, role>> \in Places
    BY <1>0, <1>7, NamesAssumption DEF SaveEntra, At, Keeps, Request, Record, Places, Roles
  <2>1. PICK n \in Request : Keeps(n) /\ req' = [req EXCEPT ![r] = n]
    BY <1>0, <1>7 DEF SaveEntra, Goto, End, At, TypeOK, Request, PCs, Keeps
  <2>2. StoreOK'
    BY <1>0, <1>7, <2>0 DEF SaveEntra, StoreOK
  <2>3. HistoryOK'
    BY <1>0, <1>7, <2>0 DEF SaveEntra, HistoryOK, NoteVacancy
  <2> QED
    BY <1>0, <1>7, <2>1, <2>2, <2>3, TypeFrame
<1>8. ASSUME NEW s \in Sessions, CreateSession(r, s) PROVE TypeInv'
  <2>1. PICK n \in Request : Keeps(n) /\ req' = [req EXCEPT ![r] = n]
    BY <1>0, <1>8, EndedKeeps DEF CreateSession, Goto, End, At, TypeOK, Request, PCs, Keeps
  <2>2. StoreOK'
    BY <1>0, <1>8 DEF CreateSession, At, StoreOK, Request, Keeps
  <2>3. HistoryOK'
    BY <1>0, <1>8 DEF CreateSession, At, HistoryOK, Request, Keeps, history
  <2> QED
    BY <1>0, <1>8, <2>1, <2>2, <2>3, TypeFrame
<1> QED
  BY <1>1, <1>2, <1>3, <1>4, <1>5, <1>6, <1>7, <1>8 DEF SignIn

LEMMA TypeSetUp ==
  ASSUME TypeInv, NEW r \in Requests, SetUp(r)
  PROVE  TypeInv'
<1>0. TypeOK /\ StoreOK /\ HistoryOK /\ req[r] \in Request /\ Keeps(req[r])
  BY DEF TypeInv, TypeOK, StoreOK, HistoryOK
<1>1. CASE Setup(r)
  <2>1. Keeps([req[r] EXCEPT !.pc = "setup"]) /\ "setup" \in PCs
    BY <1>0, <1>1 DEF Setup, At, Keeps, Request, PCs
  <2>2. StoreOK' /\ HistoryOK'
    BY <1>0, <1>1, StoreFrame, HistoryFrame DEF Setup
  <2> QED
    BY <1>1, <2>1, <2>2, TypeGoto DEF Setup
<1>2. CASE Lock(r)
  <2>2. StoreOK'
    BY <1>0, <1>2 DEF Lock, At, StoreOK, Request, Keeps
  <2>3. HistoryOK'
    BY <1>0, <1>2 DEF Lock, At, HistoryOK, Request, Keeps, history
  <2>4. CASE Goto(r, "locked")
    <3>1. Keeps([req[r] EXCEPT !.pc = "locked"]) /\ "locked" \in PCs
      BY <1>0, <1>2 DEF Lock, At, Keeps, Request, PCs
    <3> QED
      BY <2>2, <2>3, <2>4, <3>1, TypeGoto
  <2> QED
    BY <1>2, <2>2, <2>3, <2>4, TypeEnd DEF Lock
<1>3. CASE CheckAgain(r)
  <2>1. PICK pc \in {"giveup", "create"} : Goto(r, pc)
    BY <1>3 DEF CheckAgain
  <2>2. Keeps([req[r] EXCEPT !.pc = pc]) /\ pc \in PCs
    BY <1>0, <1>3 DEF CheckAgain, At, Keeps, Request, PCs
  <2>3. StoreOK' /\ HistoryOK'
    BY <1>0, <1>3, StoreFrame DEF CheckAgain, HistoryOK, HasAdmin
  <2> QED
    BY <2>1, <2>2, <2>3, TypeGoto
<1>4. ASSUME NEW u \in Locals, CreateAdmin(r, u) PROVE TypeInv'
  <2> DEFINE n == [req[r] EXCEPT !.pc = "unlock", !.me = u]
  <2>0. /\ u \in Users
        /\ [role |-> "administrator", home |-> Default, local |-> TRUE] \in Record
        /\ <<u, Default, "administrator">> \in Places
    BY NamesAssumption DEF Users, Record, Roles, Places
  <2>1. n \in Request /\ Keeps(n)
    BY <1>0, <1>4, <2>0 DEF CreateAdmin, At, Request, PCs, Keeps
  <2>n. req' = [req EXCEPT ![r] = n]
    BY <1>0, <1>4 DEF CreateAdmin, TypeOK, Request
  <2> HIDE DEF n
  <2>2. StoreOK'
    BY <1>0, <1>4, <2>0 DEF CreateAdmin, StoreOK
  <2>3. HistoryOK'
    BY <1>0, <1>4, <2>0 DEF CreateAdmin, HistoryOK
  <2> QED
    BY <1>0, <1>4, <2>1, <2>n, <2>2, <2>3, TypeFrame
<1>5. CASE Unlock(r)
  <2>2. StoreOK'
    BY <1>0, <1>5 DEF Unlock, At, StoreOK, Request, Keeps
  <2>3. HistoryOK'
    BY <1>0, <1>5 DEF Unlock, At, HistoryOK, Request, Keeps
  <2>4. CASE At(r, "unlock")
    <3>1. Keeps([req[r] EXCEPT !.pc = "signin"]) /\ "signin" \in PCs
      BY <1>0, <2>4 DEF At, Keeps, PCs
    <3> QED
      BY <1>5, <2>2, <2>3, <2>4, <3>1, TypeGoto DEF Unlock
  <2> QED
    BY <1>5, <2>2, <2>3, <2>4, TypeEnd DEF Unlock
<1> QED
  BY <1>1, <1>2, <1>3, <1>4, <1>5 DEF SetUp

LEMMA TypeAround ==
  ASSUME TypeInv,
         \/ \E r \in Requests : Abort(r)
         \/ \E s \in Sessions : EndSession(s)
         \/ \E i \in Invitations : InvitationExpires(i)
         \/ LockExpires
         \/ UNCHANGED vars
  PROVE  TypeInv'
<1>0. TypeOK /\ StoreOK /\ HistoryOK
  BY DEF TypeInv, TypeOK, StoreOK, HistoryOK
<1>1. ASSUME NEW r \in Requests, Abort(r) PROVE TypeInv'
  <2>1. StoreOK' /\ HistoryOK'
    BY <1>0, <1>1, HistoryFrame DEF Abort, StoreOK
  <2> QED
    BY <1>1, <2>1, TypeEnd DEF Abort
<1>2. ASSUME NEW s \in Sessions, EndSession(s) PROVE TypeInv'
  BY <1>2 DEF EndSession, history, TypeInv, TypeOK
<1>3. ASSUME NEW i \in Invitations, InvitationExpires(i) PROVE TypeInv'
  <2>1. [invite[i] EXCEPT !.state = "gone"] \in Invitation
    BY <1>0 DEF TypeOK, Invitation
  <2> QED
    BY <1>3, <2>1 DEF InvitationExpires, history, TypeInv, TypeOK
<1>4. CASE LockExpires
  BY <1>4 DEF LockExpires, TypeInv, TypeOK
<1>5. CASE UNCHANGED vars
  BY <1>5 DEF vars, TypeInv, TypeOK
<1> QED
  BY <1>1, <1>2, <1>3, <1>4, <1>5

LEMMA TypeInit == Init => TypeInv
<1> SUFFICES ASSUME Init PROVE TypeInv
  OBVIOUS
<1>1. \A r \in Requests : Keeps(req[r])
  BY DEF Init, Keeps, IdleRequest
<1>2. IdleRequest \in Request
  BY NamesAssumption DEF IdleRequest, Request, PCs
<1>3. /\ invite \in [Invitations -> Invitation] /\ lock \in BOOLEAN
      /\ req \in [Requests -> Request] /\ withdrawn = {} /\ missed = {}
      /\ setups \in Nat /\ lapsed \in BOOLEAN /\ overlooked \in BOOLEAN /\ vacant \in BOOLEAN
  BY <1>2, NamesAssumption DEF Init, Invitation, NoInvitation, Roles
<1>4. CASE Fresh
  <2>1. NoRecord \in Record
    BY NamesAssumption DEF NoRecord, Record
  <2> QED
    BY <1>1, <1>3, <1>4, <2>1 DEF Fresh, TypeInv, TypeOK
<1>5. CASE Running
  <2>1. \A u \in Users : FirstRole(u) \in Roles \cup {"none"}
    BY DEF FirstRole, Roles
  <2>2. user \in [Users -> Record]
    BY <1>5, <2>1, NamesAssumption DEF Running, Record
  <2>3. member \in [Users -> [Workspaces -> Roles \cup {"none"}]]
    BY <1>5, <2>1 DEF Running
  <2>4. FirstAdmins \cup FirstUsers \subseteq Users
    BY NamesAssumption DEF Users
  <2> QED
    BY <1>1, <1>3, <1>5, <2>2, <2>3, <2>4 DEF Running, TypeInv, TypeOK
<1> QED
  BY <1>1, <1>4, <1>5 DEF Init

LEMMA TypeNext == TypeInv /\ [Next]_vars => TypeInv'
  BY TypeAuthenticate, TypeUseWorkspace, TypeAdministrate, TypeSignIn, TypeSetUp, TypeAround
  DEF Next

LEMMA TypeAlways == Spec => []TypeInv
  BY TypeInit, TypeNext, PTL DEF Spec

(* The variables keep their types, and a request has what the calls it     *)
(* still makes need.                                                       *)
THEOREM TypeCorrect == Spec => []TypeOK
<1>1. TypeInv => TypeOK
  BY DEF TypeInv
<1> QED
  BY <1>1, TypeAlways, PTL

-----------------------------------------------------------------------------
(* Roles                                                                   *)

(* RolesWereAssigned is not inductive: it says nothing of the role a       *)
(* request is about to write.  That one was assigned, too: it came from an *)
(* invitation or from an administrator who has stored the record.  Nor of  *)
(* what became of a membership an administrator's request has seen: it may *)
(* be gone, but it was given.                                              *)
Entitled(q) ==
  /\ q.pc \in {"active", "home", "join", "in", "admit"} => <<q.me, q.ws, q.role>> \in admitted
  /\ q.pc = "saveadd" => <<q.about, q.ws, q.role>> \in admitted
  /\ q.pc \in {"save", "remove", "list", "erase"} =>
       \E role \in Roles : <<q.about, q.ws, role>> \in admitted
  /\ q.pc = "accept" => invite[q.inv].state # "none" /\ q.me \in invite[q.inv].to

(* The home workspace of a user counts as one that was assigned with the   *)
(* record, and what an invitation offers as assigned to those it is for.   *)
Granted ==
  /\ \A u \in Users, w \in Workspaces :
       member[u][w] # "none" => <<u, w, member[u][w]>> \in admitted
  /\ \A u \in Users : Exists(u) => <<u, user[u].home, user[u].role>> \in admitted
  /\ \A i \in Invitations : invite[i].state # "none" =>
       \A u \in invite[i].to : <<u, invite[i].ws, invite[i].role>> \in admitted

(* The inductive invariant of the roles.                                   *)
GrantInv == TypeInv /\ Granted /\ \A r \in Requests : Entitled(req[r])

(* A step of r that writes to neither users, memberships nor invitations.  *)
LEMMA GrantFrame ==
  ASSUME GrantInv, TypeInv', NEW r \in Requests,
         UNCHANGED <<user, member, invite, admitted>>,
         \A q \in Requests \ {r} : req'[q] = req[q], Entitled(req'[r])
  PROVE  GrantInv'
<1>1. Granted'
  BY DEF GrantInv, Granted, Exists
<1>2. ASSUME NEW q \in Requests PROVE Entitled(req[q])'
  BY DEF GrantInv, Entitled
<1> QED
  BY <1>1, <1>2 DEF GrantInv

LEMMA GrantEnd ==
  ASSUME GrantInv, TypeInv', NEW r \in Requests, End(r),
         UNCHANGED <<user, member, invite, admitted>>
  PROVE  GrantInv'
<1>1. req \in [Requests -> Request]
  BY DEF GrantInv, TypeInv, TypeOK
<1>2. Entitled(req'[r]) /\ \A q \in Requests \ {r} : req'[q] = req[q]
  BY <1>1 DEF End, Ended, IdleRequest, Entitled
<1> QED
  BY <1>2, GrantFrame

LEMMA GrantAuthenticate ==
  ASSUME GrantInv, TypeInv', NEW r \in Requests, Authenticate(r)
  PROVE  GrantInv'
<1>0. TypeOK /\ req[r] \in Request /\ Keeps(req[r]) /\ Entitled(req[r]) /\ Granted
  BY DEF GrantInv, TypeInv, TypeOK
<1>1. ASSUME NEW s \in Sessions, Arrive(r, s) PROVE GrantInv'
  <2>1. Entitled(req'[r]) /\ \A q \in Requests \ {r} : req'[q] = req[q]
    BY <1>0, <1>1 DEF Arrive, Entitled, Granted, IdleRequest, TypeOK
  <2> QED
    BY <1>1, <2>1, GrantFrame DEF Arrive, store, history
<1>2. CASE ReadActive(r)
  <2>1. \A q \in Requests \ {r} : req'[q] = req[q]
    BY <1>0, <1>2 DEF ReadActive, Goto, TypeOK
  <2>2. CASE Goto(r, "home")
    <3>1. Entitled(req'[r])
      BY <1>0, <1>2, <2>2 DEF ReadActive, Goto, At, Entitled, TypeOK, Request
    <3> QED
      BY <1>2, <2>1, <3>1, GrantFrame DEF ReadActive, store, history
  <2>3. CASE /\ active[req[r].sid] # NoWorkspace
             /\ member[req[r].me][active[req[r].sid]] # "none"
             /\ req' = [req EXCEPT ![r].pc = "home", ![r].ws = active[req[r].sid],
                                   ![r].role = member[req[r].me][active[req[r].sid]]]
    <3>1. req[r].me \in Users /\ active[req[r].sid] \in Workspaces
      BY <1>0, <1>2, <2>3 DEF ReadActive, At, Keeps, TypeOK
    <3>2. /\ req'[r].pc = "home" /\ req'[r].me = req[r].me
          /\ req'[r].ws = active[req[r].sid]
          /\ req'[r].role = member[req[r].me][active[req[r].sid]]
      BY <1>0, <2>3 DEF TypeOK, Request
    <3>3. Entitled(req'[r])
      BY <1>0, <2>3, <3>1, <3>2 DEF Entitled, Granted
    <3> QED
      BY <1>2, <2>1, <3>3, GrantFrame DEF ReadActive, store, history
  <2> QED
    BY <1>2, <2>2, <2>3 DEF ReadActive
<1>3. CASE ReadHome(r)
  <2>1. req[r].me \in Users /\ req[r].ws \in Workspaces
    BY <1>0, <1>3 DEF ReadHome, At, Keeps, Request
  <2>2. Entitled(req'[r])
    <3>1. /\ req'[r].pc \in {"in", "join"} /\ req'[r].me = req[r].me /\ req'[r].ws = req[r].ws
          /\ \/ req'[r].role = req[r].role
             \/ /\ member[req[r].me][req[r].ws] # "none"
                /\ req'[r].role = member[req[r].me][req[r].ws]
      BY <1>0, <1>3 DEF ReadHome, Goto, TypeOK, Request
    <3>2. <<req[r].me, req[r].ws, req[r].role>> \in admitted
      BY <1>0, <1>3 DEF ReadHome, At, Entitled
    <3> QED
      BY <1>0, <2>1, <3>1, <3>2 DEF Entitled, Granted
  <2>3. \A q \in Requests \ {r} : req'[q] = req[q]
    BY <1>0, <1>3 DEF ReadHome, Goto, TypeOK
  <2> QED
    BY <1>3, <2>2, <2>3, GrantFrame DEF ReadHome, store, history
<1>4. CASE Join(r)
  <2>1. /\ req[r].me \in Users /\ req[r].ws \in Workspaces
        /\ <<req[r].me, req[r].ws, req[r].role>> \in admitted
    BY <1>0, <1>4 DEF Join, At, Keeps, Request, Entitled
  <2>2. UNCHANGED <<user, invite, admitted>>
    BY <1>4 DEF Join
  <2>3. \A u \in Users, w \in Workspaces :
          \/ member'[u][w] = member[u][w]
          \/ u = req[r].me /\ w = req[r].ws /\ member'[u][w] = req[r].role
    BY <1>0, <1>4, <2>1 DEF Join, TypeOK
  <2>g. Granted'
    BY <1>0, <2>1, <2>2, <2>3 DEF Granted, Exists
  <2>4. ASSUME NEW q \in Requests PROVE Entitled(req[q])'
    <3>1. Entitled(req[q])
      BY DEF GrantInv
    <3>2. CASE q = r
      <4>1. req'[r] = [req[r] EXCEPT !.pc = "in"]
        BY <1>0, <1>4 DEF Join, Goto, TypeOK
      <4>2. /\ req'[r].pc = "in" /\ req'[r].me = req[r].me
            /\ req'[r].ws = req[r].ws /\ req'[r].role = req[r].role
        BY <1>0, <4>1 DEF Request
      <4> QED
        BY <2>1, <2>2, <3>2, <4>2 DEF Entitled
    <3>3. CASE q # r
      <4>1. req'[q] = req[q]
        BY <1>0, <1>4, <3>3 DEF Join, Goto, TypeOK
      <4> QED
        BY <2>2, <3>1, <4>1 DEF Entitled
    <3> QED
      BY <3>2, <3>3
  <2> QED
    BY <2>g, <2>4 DEF GrantInv
<1> QED
  BY <1>1, <1>2, <1>3, <1>4 DEF Authenticate

LEMMA GrantUseWorkspace ==
  ASSUME GrantInv, TypeInv', NEW r \in Requests, UseWorkspace(r)
  PROVE  GrantInv'
<1>0. TypeOK /\ req[r] \in Request /\ Keeps(req[r]) /\ Entitled(req[r]) /\ Granted
  BY DEF GrantInv, TypeInv, TypeOK
<1>1. ASSUME NEW w \in Workspaces, SwitchLook(r, w) PROVE GrantInv'
  <2>1. Entitled(req'[r]) /\ \A q \in Requests \ {r} : req'[q] = req[q]
    BY <1>0, <1>1 DEF SwitchLook, Entitled, TypeOK, Request
  <2> QED
    BY <1>1, <2>1, GrantFrame DEF SwitchLook, store, history
<1>2. CASE SwitchSet(r)
  BY <1>2, GrantEnd DEF SwitchSet, history
<1>3. ASSUME NEW i \in Invitations, AcceptLook(r, i) PROVE GrantInv'
  <2>1. Entitled(req'[r]) /\ \A q \in Requests \ {r} : req'[q] = req[q]
    BY <1>0, <1>3 DEF AcceptLook, Entitled, TypeOK, Request
  <2> QED
    BY <1>3, <2>1, GrantFrame DEF AcceptLook, store, history
<1>4. CASE AcceptSpend(r)
  <2> DEFINE i == req[r].inv
  <2>1. /\ i \in Invitations /\ invite[i].state # "none" /\ req[r].me \in invite[i].to
        /\ <<req[r].me, invite[i].ws, invite[i].role>> \in admitted
    BY <1>0, <1>4 DEF AcceptSpend, At, Keeps, Entitled, Granted
  <2>2. \A j \in Invitations :
          /\ invite'[j].to = invite[j].to /\ invite'[j].ws = invite[j].ws
          /\ invite'[j].role = invite[j].role
          /\ invite[j].state # "none" <=> invite'[j].state # "none"
    BY <1>0, <1>4, <2>1 DEF AcceptSpend, TypeOK, Invitation
  <2>3. UNCHANGED <<user, member, admitted>>
    BY <1>4 DEF AcceptSpend, history
  <2>4. Granted'
    BY <1>0, <2>2, <2>3 DEF Granted, Exists
  <2>5. /\ req'[r].pc = "admit" /\ req'[r].me = req[r].me
        /\ req'[r].ws = invite[i].ws /\ req'[r].role = invite[i].role
        /\ \A q \in Requests \ {r} : req'[q] = req[q]
    BY <1>0, <1>4 DEF AcceptSpend, TypeOK, Request
  <2>6. ASSUME NEW q \in Requests PROVE Entitled(req[q])'
    <3>1. CASE q = r
      BY <2>1, <2>3, <2>5, <3>1 DEF Entitled
    <3>2. CASE q # r
      <4>1. Entitled(req[q]) /\ Keeps(req[q]) /\ req'[q] = req[q]
        BY <2>5, <3>2 DEF GrantInv, TypeInv
      <4> QED
        BY <2>2, <2>3, <4>1 DEF Entitled, Keeps
    <3> QED
      BY <3>1, <3>2
  <2> QED
    BY <2>4, <2>6 DEF GrantInv
<1>5. CASE AcceptAdmit(r)
  <2>1. /\ req[r].me \in Users /\ req[r].ws \in Workspaces
        /\ <<req[r].me, req[r].ws, req[r].role>> \in admitted
    BY <1>0, <1>5 DEF AcceptAdmit, At, Keeps, Request, Entitled
  <2>2. UNCHANGED <<user, invite, admitted>>
    BY <1>5 DEF AcceptAdmit
  <2>3. Granted'
    BY <1>0, <1>5, <2>1, <2>2 DEF AcceptAdmit, Granted, Exists, TypeOK
  <2>4. ASSUME NEW q \in Requests PROVE Entitled(req[q])'
    BY <1>5, <2>2 DEF AcceptAdmit, Goto, At, Entitled, GrantInv, TypeInv, TypeOK, Request
  <2> QED
    BY <2>3, <2>4 DEF GrantInv
<1> QED
  BY <1>1, <1>2, <1>3, <1>4, <1>5 DEF UseWorkspace

LEMMA GrantAdministrate ==
  ASSUME GrantInv, TypeInv', NEW r \in Requests, Administrate(r)
  PROVE  GrantInv'
<1>0. TypeOK /\ req[r] \in Request /\ Keeps(req[r]) /\ Entitled(req[r]) /\ Granted
  BY DEF GrantInv, TypeInv, TypeOK
<1>1. ASSUME NEW i \in Invitations, NEW to \in Addressed, NEW role \in Roles,
             Invite(r, i, to, role) PROVE GrantInv'
  <2>1. /\ invite[i].state = "none" /\ admitted \subseteq admitted'
        /\ to \X {req[r].ws} \X {role} \subseteq admitted'
        /\ UNCHANGED <<user, member>>
    BY <1>1 DEF Invite
  <2>2. /\ invite'[i].to = to /\ invite'[i].ws = req[r].ws /\ invite'[i].role = role
        /\ \A j \in Invitations \ {i} : invite'[j] = invite[j]
    BY <1>0, <1>1 DEF Invite, TypeOK
  <2>3. Granted'
    BY <1>0, <2>1, <2>2 DEF Granted, Exists
  <2>4. ASSUME NEW q \in Requests PROVE Entitled(req[q])'
    <3>1. CASE q = r
      BY <1>0, <1>1, <3>1 DEF Invite, End, Ended, IdleRequest, Entitled, TypeOK
    <3>2. CASE q # r
      <4>1. Entitled(req[q]) /\ Keeps(req[q]) /\ req'[q] = req[q]
        BY <1>0, <1>1, <3>2 DEF Invite, End, GrantInv, TypeInv, TypeOK
      <4> QED
        BY <2>1, <2>2, <4>1 DEF Entitled, Keeps
    <3> QED
      BY <3>1, <3>2
  <2> QED
    BY <2>3, <2>4 DEF GrantInv
<1>2. ASSUME NEW u \in Users, NEW role \in Roles,
             SaveLook(r, u, role) \/ SaveCheck(r) \/ DeleteLook(r, u) \/ DeleteCheck(r) \/ List(r)
      PROVE  GrantInv'
  <2>1. UNCHANGED <<user, member, invite, admitted>>
    BY <1>2 DEF SaveLook, SaveCheck, DeleteLook, DeleteCheck, List, store, history
  <2>2. CASE End(r)
    BY <2>1, <2>2, GrantEnd
  <2>3. CASE ~End(r)
    <3>1. \A q \in Requests \ {r} : req'[q] = req[q]
      BY <1>0, <1>2, <2>3
      DEF SaveLook, SaveCheck, DeleteLook, DeleteCheck, List, Goto, TypeOK, Request
    <3>2. CASE SaveLook(r, u, role) \/ DeleteLook(r, u)
      <4>1. req'[r].pc \in {"savecheck", "savenew", "delcheck"}
        BY <1>0, <3>2 DEF SaveLook, DeleteLook, TypeOK, Request
      <4>2. Entitled(req'[r])
        BY <4>1 DEF Entitled
      <4> QED
        BY <2>1, <3>1, <4>2, GrantFrame
    <3>3. CASE SaveCheck(r) \/ DeleteCheck(r)
      <4>1. /\ req'[r].pc \in {"save", "remove"}
            /\ req'[r].about = req[r].about /\ req'[r].ws = req[r].ws
            /\ member[req[r].about][req[r].ws] # "none"
        BY <1>0, <2>3, <3>3 DEF SaveCheck, DeleteCheck, Goto, TypeOK, Request
      <4>2. req[r].about \in Users /\ req[r].ws \in Workspaces
        BY <1>0, <3>3 DEF SaveCheck, DeleteCheck, At, Keeps, Request
      <4>3. /\ member[req[r].about][req[r].ws] \in Roles
            /\ <<req[r].about, req[r].ws, member[req[r].about][req[r].ws]>> \in admitted
        BY <1>0, <4>1, <4>2 DEF Granted, TypeOK
      <4>4. Entitled(req'[r])
        BY <4>1, <4>3 DEF Entitled
      <4> QED
        BY <2>1, <3>1, <4>4, GrantFrame
    <3>4. CASE List(r)
      <4>1. /\ req'[r].pc = "erase" /\ req[r].pc = "list"
            /\ req'[r].about = req[r].about /\ req'[r].ws = req[r].ws
        BY <1>0, <2>3, <3>4 DEF List, At, Goto, TypeOK, Request
      <4>2. Entitled(req'[r])
        BY <1>0, <4>1 DEF Entitled
      <4> QED
        BY <2>1, <3>1, <4>2, GrantFrame
    <3> QED
      BY <1>2, <3>2, <3>3, <3>4
  <2> QED
    BY <2>2, <2>3
<1>3. CASE Save(r)
  <2> DEFINE u == req[r].about
  <2>1. /\ u \in Users /\ <<u, req[r].ws, req[r].role>> \in admitted'
        /\ admitted \subseteq admitted' /\ UNCHANGED <<member, invite>>
    BY <1>0, <1>3 DEF Save, At, Keeps
  <2>2. /\ user'[u].role = req[r].role /\ user'[u].home = req[r].ws
        /\ \A v \in Users \ {u} : user'[v] = user[v]
    BY <1>0, <1>3, <2>1 DEF Save, TypeOK
  <2>3. Granted'
    BY <1>0, <2>1, <2>2 DEF Granted, Exists
  <2>4. /\ req'[r].pc = "saveadd" /\ req'[r].about = u
        /\ req'[r].ws = req[r].ws /\ req'[r].role = req[r].role
        /\ \A q \in Requests \ {r} : req'[q] = req[q]
    BY <1>0, <1>3 DEF Save, Goto, TypeOK, Request
  <2>5. ASSUME NEW q \in Requests PROVE Entitled(req[q])'
    <3>1. CASE q = r
      BY <2>1, <2>4, <3>1 DEF Entitled
    <3>2. CASE q # r
      BY <2>1, <2>4, <3>2 DEF Entitled, GrantInv
    <3> QED
      BY <3>1, <3>2
  <2> QED
    BY <2>3, <2>5 DEF GrantInv
<1>4. CASE SaveAdd(r) \/ Remove(r)
  <2> DEFINE u == req[r].about
  <2>1. /\ u \in Users /\ req[r].ws \in Workspaces /\ UNCHANGED <<user, invite, admitted>>
        /\ At(r, "saveadd") => <<u, req[r].ws, req[r].role>> \in admitted
        /\ At(r, "remove") => \E role \in Roles : <<u, req[r].ws, role>> \in admitted
    BY <1>0, <1>4 DEF SaveAdd, Remove, At, Keeps, Request, Entitled
  <2>2. \A v \in Users, w \in Workspaces :
          \/ member'[v][w] \in {member[v][w], "none"}
          \/ At(r, "saveadd") /\ v = u /\ w = req[r].ws /\ member'[v][w] = req[r].role
    BY <1>0, <1>4, <2>1 DEF SaveAdd, Remove, TypeOK
  <2>3. Granted'
    BY <1>0, <2>1, <2>2 DEF Granted, Exists
  <2>4. /\ \/ req'[r].pc = "done"
           \/ /\ At(r, "remove") /\ req'[r].pc = "list"
              /\ req'[r].about = u /\ req'[r].ws = req[r].ws
        /\ \A q \in Requests \ {r} : req'[q] = req[q]
    BY <1>0, <1>4 DEF SaveAdd, Remove, Goto, End, Ended, IdleRequest, TypeOK, Request
  <2>5. ASSUME NEW q \in Requests PROVE Entitled(req[q])'
    <3>1. CASE q = r
      BY <2>1, <2>4, <3>1 DEF Entitled
    <3>2. CASE q # r
      BY <2>1, <2>4, <3>2 DEF Entitled, GrantInv
    <3> QED
      BY <3>1, <3>2
  <2> QED
    BY <2>3, <2>5 DEF GrantInv
<1>5. CASE Erase(r)
  <2>1. UNCHANGED <<member, invite, admitted>>
    BY <1>5 DEF Erase
  <2>2. \A v \in Users : user'[v] = user[v] \/ user'[v] = NoRecord
    BY <1>0, <1>5 DEF Erase, TypeOK
  <2>3. Granted'
    BY <1>0, <2>1, <2>2 DEF Granted, Exists, NoRecord
  <2>4. req'[r].pc = "done" /\ \A q \in Requests \ {r} : req'[q] = req[q]
    BY <1>0, <1>5 DEF Erase, End, Ended, IdleRequest, TypeOK
  <2>5. ASSUME NEW q \in Requests PROVE Entitled(req[q])'
    BY <2>1, <2>4 DEF Entitled, GrantInv
  <2> QED
    BY <2>3, <2>5 DEF GrantInv
<1> QED
  <2>1. \A u \in Users : Roles # {} /\ "user" \in Roles
    BY DEF Roles
  <2>2. ASSUME SaveCheck(r) \/ DeleteCheck(r) \/ List(r) PROVE req[r].about \in Users
    BY <1>0, <2>2 DEF SaveCheck, DeleteCheck, List, At, Keeps
  <2> QED
    BY <1>1, <1>2, <1>3, <1>4, <1>5, <2>1, <2>2 DEF Administrate

LEMMA GrantSignIn ==
  ASSUME GrantInv, TypeInv', NEW r \in Requests, SignIn(r)
  PROVE  GrantInv'
<1>0. TypeOK /\ req[r] \in Request /\ Keeps(req[r]) /\ Entitled(req[r]) /\ Granted
  BY DEF GrantInv, TypeInv, TypeOK
<1>1. ASSUME NEW u, Login(r, u) \/ DirectoryLogin(r, u) \/ Microsoft(r, u) \/ FindLegacy(r)
      PROVE  GrantInv'
  <2>1. UNCHANGED <<user, member, invite, admitted>>
    BY <1>1 DEF Login, DirectoryLogin, Microsoft, FindLegacy, store, history
  <2>2. /\ req'[r].pc \in {"signin", "groups", "legacy", "move"}
        /\ \A q \in Requests \ {r} : req'[q] = req[q]
    BY <1>0, <1>1 DEF Login, DirectoryLogin, Microsoft, FindLegacy, Goto, TypeOK, Request
  <2>3. Entitled(req'[r])
    BY <2>2 DEF Entitled
  <2> QED
    BY <2>1, <2>2, <2>3, GrantFrame
<1>2. CASE MoveLegacy(r) \/ SaveEntra(r) \/ ForgetLegacy(r)
  <2>1. admitted \subseteq admitted' /\ UNCHANGED <<member, invite>>
    BY <1>2 DEF MoveLegacy, SaveEntra, ForgetLegacy
  <2>2. \A v \in Users : \/ user'[v] \in {user[v], NoRecord}
                        \/ <<v, user'[v].home, user'[v].role>> \in admitted'
    BY <1>0, <1>2 DEF MoveLegacy, SaveEntra, ForgetLegacy, At, Keeps, TypeOK
  <2>3. Granted'
    BY <1>0, <2>1, <2>2 DEF Granted, Exists, NoRecord
  <2>4. /\ req'[r].pc \in {"forget", "groups", "signin"}
        /\ \A q \in Requests \ {r} : req'[q] = req[q]
    BY <1>0, <1>2 DEF MoveLegacy, SaveEntra, ForgetLegacy, Goto, TypeOK, Request
  <2>5. ASSUME NEW q \in Requests PROVE Entitled(req[q])'
    BY <2>1, <2>4 DEF Entitled, GrantInv
  <2> QED
    BY <2>3, <2>5 DEF GrantInv
<1>3. ASSUME NEW s \in Sessions, CreateSession(r, s) PROVE GrantInv'
  BY <1>3, GrantEnd DEF CreateSession, history
<1> QED
  BY <1>1, <1>2, <1>3 DEF SignIn

LEMMA GrantSetUp ==
  ASSUME GrantInv, TypeInv', NEW r \in Requests, SetUp(r)
  PROVE  GrantInv'
<1>0. TypeOK /\ req[r] \in Request /\ Granted
  BY DEF GrantInv, TypeInv, TypeOK
<1>1. CASE Setup(r) \/ Lock(r) \/ CheckAgain(r) \/ Unlock(r)
  <2>1. UNCHANGED <<user, member, invite, admitted>>
    BY <1>1 DEF Setup, Lock, CheckAgain, Unlock, store, history
  <2>2. CASE End(r)
    BY <2>1, <2>2, GrantEnd
  <2>3. CASE ~End(r)
    <3>1. /\ req'[r].pc \in {"setup", "locked", "giveup", "create", "signin"}
          /\ \A q \in Requests \ {r} : req'[q] = req[q]
      <4>1. CASE Setup(r)
        BY <1>0, <4>1 DEF Setup, Goto, TypeOK, Request
      <4>2. CASE Lock(r)
        BY <1>0, <4>2, <2>3 DEF Lock, Goto, TypeOK, Request
      <4>3. CASE CheckAgain(r)
        BY <1>0, <4>3 DEF CheckAgain, Goto, TypeOK, Request
      <4>4. CASE Unlock(r)
        BY <1>0, <4>4, <2>3 DEF Unlock, Goto, TypeOK, Request
      <4> QED
        BY <1>1, <4>1, <4>2, <4>3, <4>4
    <3>2. Entitled(req'[r])
      BY <3>1 DEF Entitled
    <3> QED
      BY <2>1, <3>1, <3>2, GrantFrame
  <2> QED
    BY <2>2, <2>3
<1>2. ASSUME NEW u \in Locals, CreateAdmin(r, u) PROVE GrantInv'
  <2>1. admitted \subseteq admitted' /\ UNCHANGED <<member, invite>> /\ u \in Users
    BY <1>2 DEF CreateAdmin, Users
  <2>2. \A v \in Users : \/ user'[v] = user[v]
                        \/ <<v, user'[v].home, user'[v].role>> \in admitted'
    BY <1>0, <1>2, <2>1 DEF CreateAdmin, TypeOK
  <2>3. Granted'
    BY <1>0, <2>1, <2>2 DEF Granted, Exists
  <2>4. req'[r].pc = "unlock" /\ \A q \in Requests \ {r} : req'[q] = req[q]
    BY <1>0, <1>2 DEF CreateAdmin, TypeOK, Request
  <2>5. ASSUME NEW q \in Requests PROVE Entitled(req[q])'
    BY <2>1, <2>4 DEF Entitled, GrantInv
  <2> QED
    BY <2>3, <2>5 DEF GrantInv
<1> QED
  BY <1>1, <1>2 DEF SetUp

LEMMA GrantAround ==
  ASSUME GrantInv, TypeInv',
         \/ \E r \in Requests : Abort(r)
         \/ \E s \in Sessions : EndSession(s)
         \/ \E i \in Invitations : InvitationExpires(i)
         \/ LockExpires
         \/ UNCHANGED vars
  PROVE  GrantInv'
<1>0. TypeOK /\ Granted
  BY DEF GrantInv, TypeInv
<1>1. ASSUME NEW r \in Requests, Abort(r) PROVE GrantInv'
  BY <1>1, GrantEnd DEF Abort, history
<1>2. CASE UNCHANGED <<user, member, invite, admitted, req>>
  BY <1>2 DEF GrantInv, Granted, Entitled, Exists
<1>3. ASSUME NEW i \in Invitations, InvitationExpires(i) PROVE GrantInv'
  <2>1. \A j \in Invitations :
          /\ invite'[j].to = invite[j].to /\ invite'[j].ws = invite[j].ws
          /\ invite'[j].role = invite[j].role
          /\ invite[j].state # "none" <=> invite'[j].state # "none"
    BY <1>0, <1>3 DEF InvitationExpires, TypeOK, Invitation
  <2>2. UNCHANGED <<user, member, admitted, req>>
    BY <1>3 DEF InvitationExpires, history
  <2>3. Granted'
    BY <1>0, <2>1, <2>2 DEF Granted, Exists
  <2>4. ASSUME NEW q \in Requests PROVE Entitled(req[q])'
    BY <2>1, <2>2 DEF Entitled, Keeps, GrantInv, TypeInv
  <2> QED
    BY <2>3, <2>4 DEF GrantInv
<1> QED
  BY <1>1, <1>2, <1>3 DEF EndSession, LockExpires, history, vars

LEMMA GrantInit == Init => GrantInv
<1> SUFFICES ASSUME Init PROVE GrantInv
  OBVIOUS
<1>1. TypeInv
  BY TypeInit
<1>2. \A r \in Requests : Entitled(req[r])
  BY DEF Init, IdleRequest, Entitled
<1>3. \A i \in Invitations : invite[i].state = "none"
  BY DEF Init, NoInvitation
<1>4. CASE Fresh
  BY <1>1, <1>2, <1>3, <1>4 DEF Fresh, GrantInv, Granted, Exists, NoRecord
<1>5. CASE Running
  <2>1. \A u \in Users, w \in Workspaces, role \in Roles :
          \/ member[u][w] = role
          \/ user[u].home = w /\ user[u].role = role
          => <<u, w, role>> \in admitted
    <3>1. ASSUME NEW p \in Places,
                 \/ member[p[1]][p[2]] = p[3]
                 \/ user[p[1]].home = p[2] /\ user[p[1]].role = p[3]
          PROVE  p \in admitted
      BY <1>5, <3>1 DEF Running
    <3> QED
      BY <3>1 DEF Places
  <2>2. ASSUME NEW u \in Users, NEW w \in Workspaces, member[u][w] # "none"
        PROVE  <<u, w, member[u][w]>> \in admitted
    <3>1. member[u][w] \in Roles
      BY <1>1, <2>2 DEF TypeInv, TypeOK
    <3> QED
      BY <2>1, <3>1
  <2>3. ASSUME NEW u \in Users, Exists(u)
        PROVE  <<u, user[u].home, user[u].role>> \in admitted
    <3>1. user[u].home \in Workspaces /\ user[u].role \in Roles
      BY <1>1, <2>3 DEF TypeInv, TypeOK, Record, Exists
    <3> QED
      BY <2>1, <3>1
  <2> QED
    BY <1>1, <1>2, <1>3, <2>2, <2>3 DEF GrantInv, Granted
<1> QED
  BY <1>4, <1>5 DEF Init

LEMMA GrantNext == GrantInv /\ [Next]_vars => GrantInv'
<1> SUFFICES ASSUME GrantInv, [Next]_vars PROVE GrantInv'
  OBVIOUS
<1>1. TypeInv'
  BY TypeNext DEF GrantInv
<1> QED
  BY <1>1, GrantAuthenticate, GrantUseWorkspace, GrantAdministrate, GrantSignIn, GrantSetUp,
     GrantAround
  DEF Next

(* Workspaces are isolated: whatever a request has read in which order, it *)
(* acts with a role that was assigned in the workspace it acts in.         *)
THEOREM RolesWereAssignedHolds == Spec => []RolesWereAssigned
<1>1. GrantInv => RolesWereAssigned
  BY DEF GrantInv, Granted, Entitled, RolesWereAssigned, Acting, Changing
<1> QED
  BY <1>1, GrantInit, GrantNext, PTL DEF Spec
-----------------------------------------------------------------------------
(* Setup creates one administrator.  As long as no lock has ended under    *)
(* its holder, the lock is taken while a request is between Lock and       *)
(* CreateAdmin, and by one request; as long as there has also been an      *)
(* administrator since setup made the first, and no scan under the lock    *)
(* passed over one, a request that found none there is the first to make   *)
(* one.                                                                    *)

Holds(r) == At(r, "locked") \/ At(r, "create")

LockIsHeld ==
  ~lapsed => \A r \in Requests : Holds(r) =>
               /\ lock
               /\ \A q \in Requests : Holds(q) => q = r

AdminStays ==
  ~lapsed /\ ~overlooked /\ ~vacant =>
    /\ setups >= 1 => HasAdmin
    /\ \A r \in Requests : At(r, "create") => setups = 0

SetupInv == TypeInv /\ LockIsHeld /\ AdminStays /\ SetupOnce

(* A step outside setup that leaves an administrator, or notes that none   *)
(* is left, changes nothing of this.                                       *)
LEMMA SetupFrame ==
  ASSUME SetupInv, TypeInv', NEW r \in Requests,
         ~Holds(r)',
         \A q \in Requests \ {r} : req'[q] = req[q],
         UNCHANGED <<lock, lapsed, overlooked, setups>>,
         vacant => vacant',
         HasAdmin => HasAdmin' \/ vacant'
  PROVE  SetupInv'
<1>1. ASSUME NEW q \in Requests
      PROVE  (Holds(q)' => Holds(q)) /\ (At(q, "create")' => At(q, "create"))
  BY DEF Holds, At
<1>2. LockIsHeld'
  <2> SUFFICES ASSUME ~lapsed', NEW p \in Requests, Holds(p)'
               PROVE  lock' /\ \A q \in Requests : Holds(q)' => q = p
    BY DEF LockIsHeld
  <2>1. lock /\ \A q \in Requests : Holds(q) => q = p
    BY <1>1 DEF SetupInv, LockIsHeld
  <2> QED
    BY <1>1, <2>1
<1>3. AdminStays'
  <2> SUFFICES ASSUME ~lapsed', ~overlooked', ~vacant'
               PROVE  /\ setups' >= 1 => HasAdmin'
                      /\ \A q \in Requests : At(q, "create")' => setups' = 0
    BY DEF AdminStays
  <2>1. (setups >= 1 => HasAdmin) /\ \A q \in Requests : At(q, "create") => setups = 0
    BY DEF SetupInv, AdminStays
  <2> QED
    BY <1>1, <2>1
<1>4. SetupOnce'
  BY DEF SetupInv, SetupOnce
<1> QED
  BY <1>2, <1>3, <1>4 DEF SetupInv

(* NoteVacancy sees to the last hypothesis.                                *)
LEMMA VacancyNoted ==
  ASSUME TypeOK, NoteVacancy
  PROVE  (vacant => vacant') /\ (HasAdmin => HasAdmin' \/ vacant')
BY DEF NoteVacancy, HasAdmin, TypeOK

LEMMA SetupOthers ==
  ASSUME SetupInv, TypeInv', NEW r \in Requests,
         Authenticate(r) \/ UseWorkspace(r) \/ Administrate(r) \/ SignIn(r)
  PROVE  SetupInv'
<1>0. TypeOK /\ req[r] \in Request
  BY DEF SetupInv, TypeInv, TypeOK
<1>1. /\ req'[r].pc \notin {"locked", "create"}
      /\ \A q \in Requests \ {r} : req'[q] = req[q]
  <2>1. CASE Authenticate(r)
    <3>1. ASSUME NEW s \in Sessions, Arrive(r, s) PROVE req'[r].pc = "active"
      BY <1>0, <3>1 DEF Arrive, IdleRequest, TypeOK
    <3>2. CASE ReadActive(r)
      BY <1>0, <3>2 DEF ReadActive, Goto, TypeOK, Request
    <3>3. CASE ReadHome(r) \/ Join(r)
      BY <1>0, <3>3 DEF ReadHome, Join, Goto, TypeOK, Request
    <3>4. ASSUME NEW s \in Sessions, Arrive(r, s)
          PROVE  \A q \in Requests \ {r} : req'[q] = req[q]
      BY <1>0, <3>4 DEF Arrive, TypeOK
    <3> QED
      BY <2>1, <3>1, <3>2, <3>3, <3>4 DEF Authenticate
  <2>2. CASE UseWorkspace(r)
    BY <1>0, <2>2
    DEF UseWorkspace, SwitchLook, SwitchSet, AcceptLook, AcceptSpend, AcceptAdmit, Goto, End,
        Ended, TypeOK, Request, IdleRequest
  <2>3. CASE Administrate(r)
    <3>1. CASE \E i \in Invitations, to \in Addressed, role \in Roles : Invite(r, i, to, role)
      BY <1>0, <3>1 DEF Invite, End, Ended, TypeOK, Request, IdleRequest
    <3>2. CASE \E u \in Users, role \in Roles : SaveLook(r, u, role)
      BY <1>0, <3>2 DEF SaveLook, TypeOK, Request
    <3>3. CASE \E u \in Users : DeleteLook(r, u)
      BY <1>0, <3>3 DEF DeleteLook, TypeOK, Request
    <3>4. CASE SaveCheck(r) \/ DeleteCheck(r) \/ List(r)
      BY <1>0, <3>4
      DEF SaveCheck, DeleteCheck, List, Goto, End, Ended, TypeOK, Request, IdleRequest
    <3>5. CASE Save(r) \/ SaveAdd(r) \/ Remove(r) \/ Erase(r)
      BY <1>0, <3>5
      DEF Save, SaveAdd, Remove, Erase, Goto, End, Ended, TypeOK, Request, IdleRequest
    <3> QED
      BY <2>3, <3>1, <3>2, <3>3, <3>4, <3>5 DEF Administrate
  <2>4. CASE SignIn(r)
    <3>1. CASE \E u \in Users : Login(r, u)
      BY <1>0, <3>1 DEF Login, TypeOK, Request
    <3>2. CASE \E u \in Directory : DirectoryLogin(r, u)
      BY <1>0, <3>2 DEF DirectoryLogin, TypeOK, Request
    <3>3. CASE \E u \in Entra : Microsoft(r, u)
      BY <1>0, <3>3 DEF Microsoft, TypeOK, Request
    <3>4. CASE FindLegacy(r) \/ MoveLegacy(r) \/ ForgetLegacy(r) \/ SaveEntra(r)
      BY <1>0, <3>4
      DEF FindLegacy, MoveLegacy, ForgetLegacy, SaveEntra, Goto, TypeOK, Request
    <3>5. CASE \E s \in Sessions : CreateSession(r, s)
      BY <1>0, <3>5 DEF CreateSession, End, Ended, TypeOK, Request, IdleRequest
    <3> QED
      BY <2>4, <3>1, <3>2, <3>3, <3>4, <3>5 DEF SignIn
  <2> QED
    BY <2>1, <2>2, <2>3, <2>4
<1>2. UNCHANGED <<lock, lapsed, overlooked, setups>>
  BY DEF Authenticate, Arrive, ReadActive, ReadHome, Join,
         UseWorkspace, SwitchLook, SwitchSet, AcceptLook, AcceptSpend, AcceptAdmit,
         Administrate, Invite, SaveLook, SaveCheck, Save, SaveAdd, DeleteLook, DeleteCheck,
         Remove, List, Erase,
         SignIn, Login, DirectoryLogin, Microsoft, FindLegacy, MoveLegacy, ForgetLegacy,
         SaveEntra, CreateSession, store, history
<1>3. UNCHANGED <<user, vacant>> \/ NoteVacancy
  BY DEF Authenticate, Arrive, ReadActive, ReadHome, Join,
         UseWorkspace, SwitchLook, SwitchSet, AcceptLook, AcceptSpend, AcceptAdmit,
         Administrate, Invite, SaveLook, SaveCheck, Save, SaveAdd, DeleteLook, DeleteCheck,
         Remove, List, Erase,
         SignIn, Login, DirectoryLogin, Microsoft, FindLegacy, MoveLegacy, ForgetLegacy,
         SaveEntra, CreateSession, store, history
<1>4. (vacant => vacant') /\ (HasAdmin => HasAdmin' \/ vacant')
  <2>1. CASE UNCHANGED <<user, vacant>>
    BY <2>1 DEF HasAdmin
  <2> QED
    BY <1>0, <1>3, <2>1, VacancyNoted
<1>5. ~Holds(r)'
  BY <1>1 DEF Holds, At
<1> QED
  BY <1>1, <1>2, <1>4, <1>5, SetupFrame

LEMMA SetupSetUp ==
  ASSUME SetupInv, TypeInv', NEW r \in Requests, SetUp(r)
  PROVE  SetupInv'
<1>0. TypeOK /\ req[r] \in Request /\ LockIsHeld /\ AdminStays /\ SetupOnce
  BY DEF SetupInv, TypeInv, TypeOK
<1>1. CASE Setup(r)
  <2>1. /\ req'[r].pc = "setup" /\ \A q \in Requests \ {r} : req'[q] = req[q]
        /\ UNCHANGED <<user, vacant, lock, lapsed, overlooked, setups>>
    BY <1>0, <1>1 DEF Setup, Goto, TypeOK, Request, store, history
  <2>2. ~Holds(r)' /\ (HasAdmin => HasAdmin')
    BY <2>1 DEF Holds, At, HasAdmin
  <2> QED
    BY <2>1, <2>2, SetupFrame
<1>2. CASE Lock(r)
  <2>1. /\ req'[r].pc = IF lock THEN "done" ELSE "locked"
        /\ \A q \in Requests \ {r} : req'[q] = req[q]
        /\ UNCHANGED <<user, vacant, lapsed, overlooked, setups>> /\ lock'
    BY <1>0, <1>2 DEF Lock, Goto, End, Ended, IdleRequest, TypeOK, Request, history
  <2>2. \A q \in Requests \ {r} : Holds(q)' => Holds(q)
    BY <2>1 DEF Holds, At
  <2>3. Holds(r)' => ~lock
    BY <2>1 DEF Holds, At
  <2>4. LockIsHeld'
    BY <1>0, <2>1, <2>2, <2>3 DEF LockIsHeld
  <2>5. AdminStays'
    BY <1>0, <2>1 DEF AdminStays, At, HasAdmin
  <2> QED
    BY <1>0, <2>1, <2>4, <2>5 DEF SetupInv, SetupOnce
<1>3. CASE CheckAgain(r)
  <2>1. /\ At(r, "locked")
        /\ req'[r].pc \in {"giveup", "create"}
        /\ req'[r].pc = "create" /\ HasAdmin => overlooked'
        /\ overlooked => overlooked'
        /\ \A q \in Requests \ {r} : req'[q] = req[q]
        /\ UNCHANGED <<user, vacant, lock, lapsed, setups>>
    <3>1. CASE HasAdmin /\ Goto(r, "giveup") /\ UNCHANGED overlooked
      BY <1>0, <1>3, <3>1 DEF CheckAgain, Goto, TypeOK, Request, store
    <3>2. CASE Goto(r, "create") /\ overlooked' = (overlooked \/ HasAdmin)
      BY <1>0, <1>3, <3>2 DEF CheckAgain, Goto, TypeOK, Request, store
    <3> QED
      BY <1>3, <3>1, <3>2 DEF CheckAgain
  <2>2. \A q \in Requests : Holds(q)' => Holds(q)
    BY <2>1 DEF Holds, At
  <2>3. LockIsHeld'
    BY <1>0, <2>1, <2>2 DEF LockIsHeld
  <2>4. HasAdmin' <=> HasAdmin
    BY <2>1 DEF HasAdmin
  <2>5. setups \in Nat
    BY <1>0 DEF TypeOK
  <2>6. AdminStays'
    <3> SUFFICES ASSUME ~lapsed', ~overlooked', ~vacant'
                 PROVE  /\ setups' >= 1 => HasAdmin'
                        /\ \A q \in Requests : At(q, "create")' => setups' = 0
      BY DEF AdminStays
    <3>1. /\ setups >= 1 => HasAdmin
          /\ \A q \in Requests : At(q, "create") => setups = 0
      BY <1>0, <2>1 DEF AdminStays
    <3>2. req'[r].pc = "create" => setups = 0
      BY <2>1, <2>5, <3>1
    <3> QED
      BY <2>1, <2>4, <3>1, <3>2 DEF At
  <2>7. SetupOnce'
    BY <1>0, <2>1 DEF SetupOnce
  <2> QED
    BY <2>3, <2>6, <2>7 DEF SetupInv
<1>4. ASSUME NEW u \in Locals, CreateAdmin(r, u) PROVE SetupInv'
  <2>1. /\ At(r, "create") /\ setups' = setups + 1
        /\ req'[r].pc = "unlock" /\ \A q \in Requests \ {r} : req'[q] = req[q]
        /\ UNCHANGED <<vacant, lock, lapsed, overlooked>>
    BY <1>0, <1>4 DEF CreateAdmin, TypeOK, Request
  <2>2. HasAdmin'
    BY <1>0, <1>4 DEF CreateAdmin, HasAdmin, TypeOK, Users
  <2>3. \A q \in Requests : Holds(q)' => Holds(q) /\ q # r
    BY <2>1 DEF Holds, At
  <2>4. LockIsHeld'
    BY <1>0, <2>1, <2>3 DEF LockIsHeld
  <2>5. ~lapsed => \A q \in Requests : ~At(q, "create")'
    BY <1>0, <2>1, <2>3 DEF LockIsHeld, Holds
  <2>6. AdminStays'
    BY <2>1, <2>2, <2>5 DEF AdminStays
  <2>7. SetupOnce'
    BY <1>0, <2>1 DEF SetupOnce, AdminStays
  <2> QED
    BY <2>4, <2>6, <2>7 DEF SetupInv
<1>5. CASE Unlock(r)
  <2>1. /\ ~Holds(r) /\ req'[r].pc \in {"signin", "done"}
        /\ \A q \in Requests \ {r} : req'[q] = req[q]
        /\ UNCHANGED <<user, vacant, overlooked, setups>>
        /\ ~lapsed' => ~lapsed /\ \A q \in Requests \ {r} : ~Holds(q)
    <3>1. /\ At(r, "unlock") \/ At(r, "giveup")
          /\ IF At(r, "unlock") THEN Goto(r, "signin") ELSE End(r)
          /\ UNCHANGED <<user, vacant, overlooked, setups>>
          /\ lapsed' = (lapsed \/ \E q \in Requests \ {r} : Holds(q))
      BY <1>5 DEF Unlock, Holds
    <3>2. ~Holds(r)
      BY <3>1 DEF Holds, At
    <3>3. req'[r].pc \in {"signin", "done"} /\ \A q \in Requests \ {r} : req'[q] = req[q]
      BY <1>0, <3>1 DEF Goto, End, Ended, IdleRequest, TypeOK, Request
    <3> QED
      BY <3>1, <3>2, <3>3
  <2>2. ~lapsed' => \A q \in Requests : ~Holds(q)'
    BY <2>1 DEF Holds, At
  <2>3. LockIsHeld' /\ AdminStays' /\ SetupOnce'
    BY <1>0, <2>1, <2>2 DEF LockIsHeld, AdminStays, SetupOnce, Holds, HasAdmin
  <2> QED
    BY <2>3 DEF SetupInv
<1> QED
  BY <1>1, <1>2, <1>3, <1>4, <1>5 DEF SetUp

LEMMA SetupAround ==
  ASSUME SetupInv, TypeInv',
         \/ \E r \in Requests : Abort(r)
         \/ \E s \in Sessions : EndSession(s)
         \/ \E i \in Invitations : InvitationExpires(i)
         \/ LockExpires
         \/ UNCHANGED vars
  PROVE  SetupInv'
<1>0. TypeOK /\ LockIsHeld /\ AdminStays /\ SetupOnce
  BY DEF SetupInv, TypeInv
<1>1. ASSUME NEW r \in Requests, Abort(r) PROVE SetupInv'
  <2>1. /\ req'[r].pc = "done" /\ \A q \in Requests \ {r} : req'[q] = req[q]
        /\ UNCHANGED <<user, vacant, setups, lapsed, overlooked>>
        /\ lock' = lock \/ Holds(r)
    BY <1>0, <1>1 DEF Abort, Holds, End, Ended, IdleRequest, TypeOK, Request, history
  <2>2. \A q \in Requests : Holds(q)' => Holds(q) /\ q # r
    BY <2>1 DEF Holds, At
  <2>3. LockIsHeld'
    BY <1>0, <2>1, <2>2 DEF LockIsHeld
  <2>4. AdminStays'
    BY <1>0, <2>1 DEF AdminStays, At, HasAdmin
  <2> QED
    BY <1>0, <2>1, <2>3, <2>4 DEF SetupInv, SetupOnce
<1>2. CASE UNCHANGED <<user, vacant, setups, lapsed, overlooked, lock, req>>
  BY <1>0, <1>2 DEF SetupInv, LockIsHeld, AdminStays, SetupOnce, Holds, At, HasAdmin
<1>3. CASE LockExpires
  <2>1. /\ UNCHANGED <<user, vacant, setups, overlooked, req>>
        /\ ~lapsed' => ~lapsed /\ \A q \in Requests : ~Holds(q)
    BY <1>0, <1>3 DEF LockExpires, Holds, TypeOK
  <2>2. LockIsHeld' /\ AdminStays' /\ SetupOnce'
    BY <1>0, <2>1 DEF LockIsHeld, AdminStays, SetupOnce, Holds, At, HasAdmin
  <2> QED
    BY <2>2 DEF SetupInv
<1> QED
  BY <1>1, <1>2, <1>3 DEF EndSession, InvitationExpires, history, vars

LEMMA SetupInit == Init => SetupInv
BY TypeInit DEF Init, IdleRequest, SetupInv, LockIsHeld, AdminStays, SetupOnce, Holds, At

LEMMA SetupNext == SetupInv /\ [Next]_vars => SetupInv'
<1> SUFFICES ASSUME SetupInv, [Next]_vars PROVE SetupInv'
  OBVIOUS
<1>1. TypeInv'
  BY TypeNext DEF SetupInv
<1> QED
  BY <1>1, SetupOthers, SetupSetUp, SetupAround DEF Next

(* Setup creates one administrator, whatever the number of requests in it  *)
(* at once, as long as the lock does not end under its holder, no scan     *)
(* under the lock passes over the administrators there are, and the last   *)
(* of them is not demoted or deleted.                                      *)
THEOREM SetupOnceHolds == Spec => []SetupOnce
<1>1. SetupInv => SetupOnce
  BY DEF SetupInv
<1> QED
  BY <1>1, SetupInit, SetupNext, PTL DEF Spec
-----------------------------------------------------------------------------
(* A user without a record is a member of nothing, but for the memberships *)
(* noted in missed.  A request that is about to delete a record has seen   *)
(* none, or noted those its scan passed over, and whoever adds one since   *)
(* notes it.                                                               *)

Deleting(q) ==
  q.pc = "erase" =>
    \A w \in Workspaces : member[q.about][w] = "none" \/ <<q.about, w>> \in missed

MemberInv ==
  /\ TypeInv /\ NoRecordNoMembership
  /\ \A r \in Requests : Deleting(req[r])

(* A step of r after which every membership is noted, or is one of a user  *)
(* with a record that nobody else is deleting, or was there before, and    *)
(* not noted, and its user has not lost a record.                          *)
LEMMA MemberFrame ==
  ASSUME MemberInv, TypeInv', NEW r \in Requests,
         Deleting(req[r])',
         \A q \in Requests \ {r} : req'[q] = req[q],
         \A u \in Users, w \in Workspaces : member'[u][w] # "none" =>
           \/ <<u, w>> \in missed'
           \/ /\ Exists(u)'
              /\ \A q \in Requests \ {r} : ~(At(q, "erase") /\ req[q].about = u)
           \/ /\ member[u][w] # "none" /\ <<u, w>> \notin missed
              /\ Exists(u) => Exists(u)'
  PROVE  MemberInv'
<1>1. NoRecordNoMembership'
  <2> SUFFICES ASSUME NEW u \in Users, NEW w \in Workspaces,
                      ~Exists(u)', member'[u][w] # "none"
               PROVE  <<u, w>> \in missed'
    BY DEF NoRecordNoMembership
  <2>1. ~Exists(u) /\ member[u][w] # "none" => <<u, w>> \in missed
    BY DEF MemberInv, NoRecordNoMembership
  <2> QED
    BY <2>1
<1>2. ASSUME NEW q \in Requests \ {r} PROVE Deleting(req[q])'
  <2>1. req'[q] = req[q] /\ Deleting(req[q]) /\ Keeps(req[q])
    BY DEF MemberInv, TypeInv
  <2>2. ASSUME req[q].pc = "erase", NEW w \in Workspaces
        PROVE  member'[req[q].about][w] = "none" \/ <<req[q].about, w>> \in missed'
    <3>1. /\ req[q].about \in Users
          /\ member[req[q].about][w] = "none" \/ <<req[q].about, w>> \in missed
      BY <2>1, <2>2 DEF Deleting, Keeps
    <3> QED
      BY <2>2, <3>1 DEF At
  <2> QED
    BY <2>1, <2>2 DEF Deleting
<1> QED
  BY <1>1, <1>2 DEF MemberInv

(* A step that stores users, if anything, and gives no membership.         *)
LEMMA MemberStored ==
  ASSUME MemberInv, TypeInv', NEW r \in Requests,
         req'[r].pc # "erase",
         \A q \in Requests \ {r} : req'[q] = req[q],
         \A u \in Users : user'[u] = user[u] \/ user'[u].role # "none",
         UNCHANGED <<member, missed>>
  PROVE  MemberInv'
<1>1. \A u \in Users : Exists(u) => Exists(u)'
  BY DEF Exists
<1>2. Deleting(req[r])'
  BY DEF Deleting
<1> QED
  BY <1>1, <1>2, MemberFrame

LEMMA MemberQuiet ==
  ASSUME MemberInv, TypeInv', NEW r \in Requests,
         req'[r].pc # "erase",
         \A q \in Requests \ {r} : req'[q] = req[q],
         UNCHANGED <<user, member, missed>>
  PROVE  MemberInv'
BY MemberStored

(* A step that gives u a membership in w, and notes it when it has to.     *)
LEMMA MemberGiven ==
  ASSUME MemberInv, TypeInv', NEW r \in Requests, NEW u \in Users, NEW w \in Workspaces,
         req'[r].pc # "erase",
         \A q \in Requests \ {r} : req'[q] = req[q],
         \A v \in Users, x \in Workspaces :
           v # u \/ x # w => member'[v][x] = member[v][x],
         NoteMissed(u, w), UNCHANGED user
  PROVE  MemberInv'
<1>1. Deleting(req[r])'
  BY DEF Deleting
<1>2. \A v \in Users : Exists(v)' <=> Exists(v)
  BY DEF Exists
<1>3. \/ <<u, w>> \in missed'
      \/ Exists(u) /\ \A q \in Requests : ~(At(q, "erase") /\ req[q].about = u)
  BY DEF NoteMissed
<1>4. \A v \in Users, x \in Workspaces :
        v # u \/ x # w => (<<v, x>> \in missed' <=> <<v, x>> \in missed)
  BY DEF NoteMissed
<1> QED
  BY <1>1, <1>2, <1>3, <1>4, MemberFrame

LEMMA MemberAuthenticate ==
  ASSUME MemberInv, TypeInv', NEW r \in Requests, Authenticate(r)
  PROVE  MemberInv'
<1>0. TypeOK /\ req[r] \in Request /\ Keeps(req[r])
  BY DEF MemberInv, TypeInv, TypeOK
<1>1. ASSUME NEW s \in Sessions, Arrive(r, s) PROVE MemberInv'
  <2>1. /\ req'[r].pc = "active" /\ \A q \in Requests \ {r} : req'[q] = req[q]
        /\ UNCHANGED <<user, member, missed>>
    BY <1>0, <1>1 DEF Arrive, IdleRequest, TypeOK, store, history
  <2> QED
    BY <2>1, MemberQuiet
<1>2. CASE ReadActive(r) \/ ReadHome(r)
  <2>1. /\ req'[r].pc \in {"home", "join", "in"} /\ \A q \in Requests \ {r} : req'[q] = req[q]
        /\ UNCHANGED <<user, member, missed>>
    BY <1>0, <1>2 DEF ReadActive, ReadHome, Goto, TypeOK, Request, store, history
  <2> QED
    BY <2>1, MemberQuiet
<1>3. CASE Join(r)
  <2>1. /\ req'[r].pc = "in" /\ \A q \in Requests \ {r} : req'[q] = req[q]
        /\ req[r].me \in Users /\ UNCHANGED user
    BY <1>0, <1>3 DEF Join, Goto, At, Keeps, TypeOK, Request
  <2>2. CASE UNCHANGED <<member, missed>>
    BY <2>1, <2>2, MemberQuiet
  <2>3. CASE /\ member' = [member EXCEPT ![req[r].me][req[r].ws] = req[r].role]
             /\ NoteMissed(req[r].me, req[r].ws)
    <3>1. /\ req[r].ws \in Workspaces
          /\ \A v \in Users, x \in Workspaces :
               v # req[r].me \/ x # req[r].ws => member'[v][x] = member[v][x]
      BY <1>0, <2>3 DEF TypeOK, Request
    <3> QED
      BY <2>1, <2>3, <3>1, MemberGiven
  <2> QED
    BY <1>3, <2>2, <2>3 DEF Join
<1> QED
  BY <1>1, <1>2, <1>3 DEF Authenticate

LEMMA MemberUseWorkspace ==
  ASSUME MemberInv, TypeInv', NEW r \in Requests, UseWorkspace(r)
  PROVE  MemberInv'
<1>0. TypeOK /\ req[r] \in Request /\ Keeps(req[r])
  BY DEF MemberInv, TypeInv, TypeOK
<1>1. CASE AcceptAdmit(r)
  <2>1. /\ req'[r].pc = "enter" /\ \A q \in Requests \ {r} : req'[q] = req[q]
        /\ req[r].me \in Users /\ req[r].ws \in Workspaces
        /\ NoteMissed(req[r].me, req[r].ws) /\ UNCHANGED user
        /\ \A v \in Users, x \in Workspaces :
             v # req[r].me \/ x # req[r].ws => member'[v][x] = member[v][x]
    BY <1>0, <1>1 DEF AcceptAdmit, Goto, At, Keeps, TypeOK, Request
  <2> QED
    BY <2>1, MemberGiven
<1>2. ASSUME ~AcceptAdmit(r) PROVE MemberInv'
  <2>1. /\ req'[r].pc \in {"switch", "accept", "admit", "done"}
        /\ \A q \in Requests \ {r} : req'[q] = req[q]
    BY <1>0, <1>2
    DEF UseWorkspace, SwitchLook, SwitchSet, AcceptLook, AcceptSpend, Goto, End, Ended,
        IdleRequest, TypeOK, Request
  <2>2. UNCHANGED <<user, member, missed>>
    BY <1>2
    DEF UseWorkspace, SwitchLook, SwitchSet, AcceptLook, AcceptSpend, store, history
  <2> QED
    BY <2>1, <2>2, MemberQuiet
<1> QED
  BY <1>1, <1>2

LEMMA MemberAdministrate ==
  ASSUME MemberInv, TypeInv', NEW r \in Requests, Administrate(r)
  PROVE  MemberInv'
<1>0. TypeOK /\ req[r] \in Request /\ Keeps(req[r])
  BY DEF MemberInv, TypeInv, TypeOK
<1>1. CASE \/ \E i \in Invitations, to \in Addressed, role \in Roles : Invite(r, i, to, role)
           \/ \E u \in Users, role \in Roles : SaveLook(r, u, role)
           \/ \E u \in Users : DeleteLook(r, u)
  <2>1. /\ req'[r].pc \in {"done", "savecheck", "savenew", "delcheck"}
        /\ \A q \in Requests \ {r} : req'[q] = req[q]
    <3>1. CASE \E i \in Invitations, to \in Addressed, role \in Roles : Invite(r, i, to, role)
      BY <1>0, <3>1 DEF Invite, End, Ended, IdleRequest, TypeOK
    <3>2. CASE \E u \in Users, role \in Roles : SaveLook(r, u, role)
      BY <1>0, <3>2 DEF SaveLook, TypeOK, Request
    <3>3. CASE \E u \in Users : DeleteLook(r, u)
      BY <1>0, <3>3 DEF DeleteLook, TypeOK, Request
    <3> QED
      BY <1>1, <3>1, <3>2, <3>3
  <2>2. UNCHANGED <<user, member, missed>>
    BY <1>1 DEF Invite, SaveLook, DeleteLook, store, history
  <2> QED
    BY <2>1, <2>2, MemberQuiet
<1>2. CASE SaveCheck(r) \/ DeleteCheck(r)
  <2>1. /\ req'[r].pc \in {"save", "remove", "done"}
        /\ \A q \in Requests \ {r} : req'[q] = req[q]
        /\ UNCHANGED <<user, member, missed>>
    BY <1>0, <1>2
    DEF SaveCheck, DeleteCheck, Goto, End, Ended, IdleRequest, TypeOK, Request, store, history
  <2> QED
    BY <2>1, MemberQuiet
<1>3. CASE List(r)
  <2> DEFINE a == req[r].about
  <2>1. CASE Goto(r, "erase") /\ missed' = missed \cup MembershipsOf(a)
    <3>1. /\ req'[r].about = a /\ \A q \in Requests \ {r} : req'[q] = req[q]
          /\ UNCHANGED <<user, member>> /\ missed \subseteq missed'
      BY <1>0, <1>3, <2>1 DEF List, Goto, TypeOK, Request, store
    <3>2. \A w \in Workspaces : member'[a][w] = "none" \/ <<a, w>> \in missed'
      BY <2>1, <3>1 DEF MembershipsOf
    <3>3. Deleting(req[r])'
      BY <3>1, <3>2 DEF Deleting
    <3>4. \A u \in Users : Exists(u)' <=> Exists(u)
      BY <3>1 DEF Exists
    <3> QED
      BY <3>1, <3>3, <3>4, MemberFrame
  <2>2. CASE End(r) /\ UNCHANGED missed
    <3>1. /\ req'[r].pc = "done" /\ \A q \in Requests \ {r} : req'[q] = req[q]
          /\ UNCHANGED <<user, member, missed>>
      BY <1>0, <1>3, <2>2 DEF List, End, Ended, IdleRequest, TypeOK, store
    <3> QED
      BY <3>1, MemberQuiet
  <2> QED
    BY <1>3, <2>1, <2>2 DEF List
<1>4. CASE Save(r)
  <2>1. /\ req'[r].pc = "saveadd" /\ \A q \in Requests \ {r} : req'[q] = req[q]
        /\ UNCHANGED <<member, missed>> /\ req[r].role \in Roles
        /\ \A u \in Users : user'[u] = user[u] \/ user'[u].role = req[r].role
    BY <1>0, <1>4 DEF Save, Goto, At, Keeps, TypeOK, Request
  <2>2. \A u \in Users : user'[u] = user[u] \/ user'[u].role # "none"
    BY <2>1 DEF Roles
  <2> QED
    BY <2>1, <2>2, MemberStored
<1>5. CASE SaveAdd(r)
  <2>1. /\ req'[r].pc = "done" /\ \A q \in Requests \ {r} : req'[q] = req[q]
        /\ req[r].about \in Users /\ req[r].ws \in Workspaces
        /\ NoteMissed(req[r].about, req[r].ws) /\ UNCHANGED user
        /\ \A v \in Users, x \in Workspaces :
             v # req[r].about \/ x # req[r].ws => member'[v][x] = member[v][x]
    BY <1>0, <1>5 DEF SaveAdd, End, Ended, IdleRequest, At, Keeps, TypeOK, Request
  <2> QED
    BY <2>1, MemberGiven
<1>6. CASE Remove(r)
  <2> DEFINE p == <<req[r].about, req[r].ws>>
  <2>1. /\ req'[r].pc = "list" /\ \A q \in Requests \ {r} : req'[q] = req[q]
        /\ UNCHANGED user /\ missed' = missed \ {p}
        /\ \A u \in Users, w \in Workspaces :
             member'[u][w] = IF <<u, w>> = p THEN "none" ELSE member[u][w]
    BY <1>0, <1>6 DEF Remove, Goto, TypeOK, Request
  <2>2. \A u \in Users : Exists(u)' <=> Exists(u)
    BY <2>1 DEF Exists
  <2>3. Deleting(req[r])'
    BY <2>1 DEF Deleting
  <2>4. \A u \in Users, w \in Workspaces : member'[u][w] # "none" =>
          /\ member[u][w] # "none"
          /\ <<u, w>> \in missed' <=> <<u, w>> \in missed
    BY <2>1
  <2> HIDE DEF p
  <2> QED
    BY <2>1, <2>2, <2>3, <2>4, MemberFrame
<1>7. CASE Erase(r)
  <2> DEFINE a == req[r].about
  <2>1. /\ req'[r].pc = "done" /\ \A q \in Requests \ {r} : req'[q] = req[q]
        /\ UNCHANGED <<member, missed>>
        /\ \A u \in Users : u # a => user'[u] = user[u]
    BY <1>0, <1>7 DEF Erase, End, Ended, IdleRequest, TypeOK
  <2>2. \A w \in Workspaces : member'[a][w] = "none" \/ <<a, w>> \in missed'
    BY <1>7, <2>1 DEF Erase, At, MemberInv, Deleting
  <2>3. \A u \in Users : u # a => (Exists(u)' <=> Exists(u))
    BY <2>1 DEF Exists
  <2>4. Deleting(req[r])'
    BY <2>1 DEF Deleting
  <2> HIDE DEF a
  <2> QED
    BY <2>1, <2>2, <2>3, <2>4, MemberFrame
<1> QED
  BY <1>1, <1>2, <1>3, <1>4, <1>5, <1>6, <1>7 DEF Administrate

LEMMA MemberSignIn ==
  ASSUME MemberInv, TypeInv', NEW r \in Requests, SignIn(r)
  PROVE  MemberInv'
<1>0. TypeOK /\ req[r] \in Request /\ Keeps(req[r])
  BY DEF MemberInv, TypeInv, TypeOK
<1>1. CASE \/ \E u \in Users : Login(r, u)
           \/ \E u \in Directory : DirectoryLogin(r, u)
           \/ \E u \in Entra : Microsoft(r, u)
           \/ \E s \in Sessions : CreateSession(r, s)
  <2>1. /\ req'[r].pc \in {"signin", "groups", "legacy", "done"}
        /\ \A q \in Requests \ {r} : req'[q] = req[q]
    <3>1. CASE \E u \in Users : Login(r, u)
      BY <1>0, <3>1 DEF Login, TypeOK, Request
    <3>2. CASE \E u \in Directory : DirectoryLogin(r, u)
      BY <1>0, <3>2 DEF DirectoryLogin, TypeOK, Request
    <3>3. CASE \E u \in Entra : Microsoft(r, u)
      BY <1>0, <3>3 DEF Microsoft, TypeOK, Request
    <3>4. CASE \E s \in Sessions : CreateSession(r, s)
      BY <1>0, <3>4 DEF CreateSession, End, Ended, IdleRequest, TypeOK
    <3> QED
      BY <1>1, <3>1, <3>2, <3>3, <3>4
  <2>2. UNCHANGED <<user, member, missed>>
    BY <1>1 DEF Login, DirectoryLogin, Microsoft, CreateSession, store, history
  <2> QED
    BY <2>1, <2>2, MemberQuiet
<1>2. CASE FindLegacy(r)
  <2>1. /\ req'[r].pc \in {"groups", "move"} /\ \A q \in Requests \ {r} : req'[q] = req[q]
        /\ UNCHANGED <<user, member, missed>>
    BY <1>0, <1>2 DEF FindLegacy, Goto, TypeOK, Request, store, history
  <2> QED
    BY <2>1, MemberQuiet
<1>3. CASE MoveLegacy(r)
  <2>1. /\ req'[r].pc = "forget" /\ \A q \in Requests \ {r} : req'[q] = req[q]
        /\ UNCHANGED <<member, missed>> /\ req[r].role \in Roles
        /\ \A u \in Users : user'[u] = user[u] \/ user'[u].role = req[r].role
    BY <1>0, <1>3 DEF MoveLegacy, Goto, At, Keeps, TypeOK, Request
  <2>2. \A u \in Users : user'[u] = user[u] \/ user'[u].role # "none"
    BY <2>1 DEF Roles
  <2> QED
    BY <2>1, <2>2, MemberStored
<1>4. CASE ForgetLegacy(r)
  <2> DEFINE a == req[r].about
  <2>1. /\ req'[r].pc = "groups" /\ \A q \in Requests \ {r} : req'[q] = req[q]
        /\ UNCHANGED member /\ missed' = missed \cup MembershipsOf(a)
        /\ \A u \in Users : u # a => user'[u] = user[u]
    BY <1>0, <1>4 DEF ForgetLegacy, Goto, TypeOK, Request
  <2>2. \A w \in Workspaces : member'[a][w] = "none" \/ <<a, w>> \in missed'
    BY <2>1 DEF MembershipsOf
  <2>3. \A u \in Users : u # a => (Exists(u)' <=> Exists(u))
    BY <2>1 DEF Exists
  <2>4. Deleting(req[r])' /\ missed \subseteq missed'
    BY <2>1 DEF Deleting
  <2> HIDE DEF a
  <2> QED
    BY <2>1, <2>2, <2>3, <2>4, MemberFrame
<1>5. CASE SaveEntra(r)
  <2>1. /\ req'[r].pc = "signin" /\ \A q \in Requests \ {r} : req'[q] = req[q]
        /\ UNCHANGED <<member, missed>>
        /\ \A u \in Users : user'[u] = user[u] \/ user'[u].role # "none"
    BY <1>0, <1>5 DEF SaveEntra, Goto, TypeOK, Request
  <2> QED
    BY <2>1, MemberStored
<1> QED
  BY <1>1, <1>2, <1>3, <1>4, <1>5 DEF SignIn

LEMMA MemberSetUp ==
  ASSUME MemberInv, TypeInv', NEW r \in Requests, SetUp(r) \/ Abort(r)
  PROVE  MemberInv'
<1>0. TypeOK /\ req[r] \in Request
  BY DEF MemberInv, TypeInv, TypeOK
<1>1. ASSUME NEW u \in Locals, CreateAdmin(r, u) PROVE MemberInv'
  <2>1. /\ req'[r].pc = "unlock" /\ \A q \in Requests \ {r} : req'[q] = req[q]
        /\ UNCHANGED <<member, missed>>
        /\ \A v \in Users : user'[v] = user[v] \/ user'[v].role # "none"
    BY <1>0, <1>1 DEF CreateAdmin, TypeOK, Request
  <2> QED
    BY <2>1, MemberStored
<1>2. CASE Setup(r) \/ Lock(r) \/ CheckAgain(r) \/ Unlock(r) \/ Abort(r)
  <2>1. UNCHANGED <<user, member, missed>>
    BY <1>2 DEF Setup, Lock, CheckAgain, Unlock, Abort, store, history
  <2>2. /\ req'[r].pc \in {"setup", "locked", "giveup", "create", "signin", "done"}
        /\ \A q \in Requests \ {r} : req'[q] = req[q]
    <3>1. CASE End(r)
      BY <1>0, <3>1 DEF End, Ended, IdleRequest, TypeOK
    <3>2. CASE \E pc \in {"setup", "locked", "giveup", "create", "signin"} : Goto(r, pc)
      BY <1>0, <3>2 DEF Goto, TypeOK, Request
    <3>3. End(r) \/ \E pc \in {"setup", "locked", "giveup", "create", "signin"} : Goto(r, pc)
      <4>1. CASE Setup(r) \/ CheckAgain(r)
        BY <4>1 DEF Setup, CheckAgain
      <4>2. CASE Lock(r) \/ Unlock(r) \/ Abort(r)
        BY <4>2 DEF Lock, Unlock, Abort
      <4> QED
        BY <1>2, <4>1, <4>2
    <3> QED
      BY <3>1, <3>2, <3>3
  <2> QED
    BY <2>1, <2>2, MemberQuiet
<1> QED
  BY <1>1, <1>2 DEF SetUp

LEMMA MemberInit == Init => MemberInv
<1> SUFFICES ASSUME Init PROVE MemberInv
  OBVIOUS
<1>1. \A r \in Requests : Deleting(req[r])
  BY DEF Init, IdleRequest, Deleting
<1>2. CASE Fresh
  BY <1>1, <1>2, TypeInit DEF MemberInv, NoRecordNoMembership, Fresh
<1>3. CASE Running
  <2>1. ASSUME NEW u \in Users, NEW w \in Workspaces, ~Exists(u) PROVE member[u][w] = "none"
    <3>1. user[u].role = FirstRole(u)
      BY <1>3 DEF Running
    <3>2. member[u][w] = IF u \in Legacy /\ w # Default THEN "none" ELSE FirstRole(u)
      BY <1>3 DEF Running
    <3> QED
      BY <2>1, <3>1, <3>2 DEF Exists
  <2> QED
    BY <1>1, <2>1, TypeInit DEF MemberInv, NoRecordNoMembership
<1> QED
  BY <1>2, <1>3 DEF Init

LEMMA MemberNext ==
  ASSUME MemberInv, [Next]_vars
  PROVE  MemberInv'
<1>1. TypeInv'
  BY TypeNext DEF MemberInv
<1>2. CASE UNCHANGED <<user, member, missed, req>>
  BY <1>1, <1>2 DEF MemberInv, NoRecordNoMembership, Exists, Deleting
<1> QED
  BY <1>1, <1>2, MemberAuthenticate, MemberUseWorkspace, MemberAdministrate, MemberSignIn,
     MemberSetUp
  DEF Next, EndSession, InvitationExpires, LockExpires, history, vars

(* No user's record is removed from under a membership: deletions that     *)
(* race with each other, with sign-ins and invitations leave a membership  *)
(* without a record only where it was added behind the deletion's look,    *)
(* where the deletion's scan passed over it, or where an Entra user's      *)
(* sign-in forgot the record of the older name.                            *)
THEOREM NoRecordNoMembershipHolds == Spec => []NoRecordNoMembership
<1>1. MemberInv /\ [Next]_vars => MemberInv'
  BY MemberNext
<1>2. MemberInv => NoRecordNoMembership
  BY DEF MemberInv
<1> QED
  BY <1>1, <1>2, MemberInit, PTL DEF Spec
=============================================================================
