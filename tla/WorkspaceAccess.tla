-------------------------- MODULE WorkspaceAccess --------------------------
(***************************************************************************)
(* Who may do what: the first administrator (setupPost), users and their   *)
(* sessions (loginPost, microsoftPost, adPost, logout), memberships of     *)
(* workspaces (authenticatedUser, switchWorkspace, invitations) and their  *)
(* administration (adminSaveUser, adminDeleteUser).                        *)
(*                                                                         *)
(* A handler is a sequence of calls to Redis; any other call may come      *)
(* between two of them.  A call that fails, or whose answer is lost, ends  *)
(* the handler there (Abort), and so does a crash of the server, except    *)
(* where the handler ignores the error.  Reads that follow each other are  *)
(* one step where a call that comes between them could as well come after  *)
(* them.  A scan of the keys is one step, which may pass over records: it  *)
(* skips those whose HGETALL fails, and reads one after the other while    *)
(* they change.                                                            *)
(***************************************************************************)
EXTENDS Naturals, FiniteSets

CONSTANTS
  Locals,        \* names of users that sign in with a password
  Entra,         \* "entra:<oid>" names
  Legacy,        \* names under which Entra users signed in before
  LegacyOf,      \* the older name of an Entra user
  Directory,     \* "ad:<name>" names
  NoUser, Closed,
  Workspaces, Default, NoWorkspace,
  Sessions,      \* session tokens; each is issued once
  Invitations,   \* invitation tokens; each is issued once
  Requests,      \* bound: requests that are served; each token serves one
  Addressed,     \* the users an invitation may be addressed to
  FirstAdmins, FirstUsers  \* local users of a server that is in use

Users == Locals \cup Entra \cup Legacy \cup Directory
Roles == {"user", "administrator"}

ASSUME NamesAssumption ==
  /\ NoUser \notin Users /\ Closed \notin Users /\ NoWorkspace \notin Workspaces
  /\ Default \in Workspaces
  /\ LegacyOf \in [Entra -> Legacy \cup {NoUser}]
  /\ Addressed \subseteq SUBSET Users
  /\ FirstAdmins \subseteq Locals /\ FirstUsers \subseteq Locals

VARIABLES
  user,      \* the hash el:user:<name>
  member,    \* the role in el:membership:<name>:<workspace>
  session,   \* the name in el:session:<token>
  active,    \* el:session_workspace:<token>
  invite,    \* the hash el:workspace_invitation:<token>
  lock,      \* el:setup:admin_lock
  req,       \* the requests
  admitted,  \* history: who was given which role in which workspace
  withdrawn, \* history: memberships removed and not given again
  missed,    \* history: memberships that outlive the record of their user,
             \* not seen by the call that deleted it
  setups,    \* history: how often setup created an administrator
  lapsed,    \* history: the lock ended under its holder
  overlooked,  \* history: setup saw no administrator where there was one
  vacant     \* history: the last administrator was demoted or deleted

vars == <<user, member, session, active, invite, lock, req,
          admitted, withdrawn, missed, setups, lapsed, overlooked, vacant>>

store   == <<user, member, session, active, invite, lock>>
history == <<admitted, withdrawn, missed, setups, lapsed, overlooked, vacant>>

-----------------------------------------------------------------------------
(* home: workspace_id.  local: the record has a password hash.  Only       *)
(* Microsoft sign-in stores records without one.                           *)
Record == [role : Roles \cup {"none"}, home : Workspaces, local : BOOLEAN]
NoRecord == [role |-> "none", home |-> Default, local |-> FALSE]

Exists(u) == user[u].role # "none"

(* HasAdmin looks at the roles of the user records, not the memberships.   *)
HasAdmin == \E u \in Users : user[u].role = "administrator"

Invitation == [state : {"none", "open", "gone"}, to : SUBSET Users,
               ws : Workspaces, role : Roles]
NoInvitation == [state |-> "none", to |-> {}, ws |-> Default, role |-> "user"]

(* What a request keeps: its session, the user it acts for (the user that  *)
(* signs in), the user it is about, its workspace and role as it read      *)
(* them, its invitation, and whether requireAuth found an administrator.   *)
PCs == {"idle", "active", "home", "join", "in", "switch", "accept", "admit",
        "enter", "savecheck", "save", "savenew", "saveadd", "delcheck", "remove", "list", "erase",
        "signin", "legacy", "move", "forget", "groups",
        "setup", "locked", "create", "unlock", "giveup", "done"}

Request == [pc : PCs, sid : Sessions \cup {NoUser}, me : Users \cup {NoUser},
            about : Users \cup {NoUser}, ws : Workspaces, role : Roles \cup {"none"},
            inv : Invitations \cup {NoUser}, gated : BOOLEAN]

IdleRequest == [pc |-> "idle", sid |-> NoUser, me |-> NoUser, about |-> NoUser,
                ws |-> Default, role |-> "none", inv |-> NoUser, gated |-> FALSE]

(* A request that has ended keeps nothing.                                 *)
Ended == [IdleRequest EXCEPT !.pc = "done"]

At(r, pc)   == req[r].pc = pc
Goto(r, pc) == req' = [req EXCEPT ![r].pc = pc]
End(r)      == req' = [req EXCEPT ![r] = Ended]

Places == Users \X Workspaces \X Roles

(* A request past authenticatedUser that has not taken up a workspace or a *)
(* role for something else.                                                *)
Acting(r) == req[r].pc \in {"active", "home", "join", "in"}

(* A request of an administrator that is past its check of the membership  *)
(* of the user it is about.                                                *)
Changing(r) == req[r].pc \in {"save", "remove", "list", "erase"}

(* u is given a membership in w: behind a deletion that is past its look   *)
(* for memberships, or has come to its end, or not.                        *)
NoteMissed(u, w) ==
  missed' = IF ~Exists(u) \/ \E r \in Requests : At(r, "erase") /\ req[r].about = u
            THEN missed \cup {<<u, w>>} ELSE missed \ {<<u, w>>}

(* The memberships u has in any workspace.                                 *)
MembershipsOf(u) == {<<u, w>> : w \in {v \in Workspaces : member[u][v] # "none"}}

(* user' after a step that may demote or delete the last administrator.    *)
NoteVacancy ==
  vacant' = (vacant \/ (HasAdmin /\ \A u \in Users : user'[u].role # "administrator"))

(* A server nobody has set up yet.                                         *)
Fresh ==
  /\ user = [u \in Users |-> NoRecord]
  /\ member = [u \in Users |-> [w \in Workspaces |-> "none"]]
  /\ session = [s \in Sessions |-> NoUser]
  /\ active = [s \in Sessions |-> NoWorkspace]
  /\ admitted = {}

(* A server in use: local users in all workspaces, each signed in once, and *)
(* Entra users that signed in under their older names.                     *)
FirstRole(u) ==
  IF u \in FirstAdmins THEN "administrator"
  ELSE IF u \in FirstUsers \cup Legacy THEN "user" ELSE "none"
Running ==
  /\ \E home \in [FirstUsers \cup FirstAdmins -> Workspaces] :
       user = [u \in Users |-> [role |-> FirstRole(u),
                 home |-> IF u \in DOMAIN home THEN home[u] ELSE Default,
                 local |-> u \in FirstAdmins \cup FirstUsers]]
  /\ member = [u \in Users |-> [w \in Workspaces |->
                 IF u \in Legacy /\ w # Default THEN "none" ELSE FirstRole(u)]]
  /\ session \in [Sessions -> FirstAdmins \cup FirstUsers \cup {NoUser}]
  /\ \A s, t \in Sessions : s # t /\ session[s] # NoUser => session[s] # session[t]
  /\ \A u \in FirstAdmins \cup FirstUsers : \E s \in Sessions : session[s] = u
  /\ active = [s \in Sessions |-> NoWorkspace]
  /\ admitted = {p \in Places : \/ member[p[1]][p[2]] = p[3]
                                \/ user[p[1]].home = p[2] /\ user[p[1]].role = p[3]}

Init ==
  /\ Fresh \/ Running
  /\ invite = [i \in Invitations |-> NoInvitation]
  /\ lock = FALSE
  /\ req = [r \in Requests |-> IdleRequest]
  /\ withdrawn = {} /\ missed = {}
  /\ setups = 0 /\ lapsed = FALSE /\ overlooked = FALSE /\ vacant = FALSE

-----------------------------------------------------------------------------
(* authenticatedUser                                                       *)

(* The session names a user that has a record.  requireAuth has looked for *)
(* an administrator before.                                                *)
Arrive(r, s) ==
  LET u == session[s] IN
  /\ At(r, "idle")
  /\ u \in Users /\ Exists(u)
  /\ req' = [req EXCEPT ![r] = [IdleRequest EXCEPT !.pc = "active", !.sid = s, !.me = u,
               !.ws = user[u].home, !.role = user[u].role, !.gated = HasAdmin]]
  /\ UNCHANGED <<store, history>>

(* Mutant: the role is still the one of the user record.                   *)
ReadActiveKeepingRole(r) ==
  LET w == active[req[r].sid] IN
  /\ At(r, "active")
  /\ \/ /\ w # NoWorkspace /\ member[req[r].me][w] # "none"
        /\ req' = [req EXCEPT ![r].pc = "home", ![r].ws = w]
     \/ Goto(r, "home")
  /\ UNCHANGED <<store, history>>

(* The workspace the session has switched to counts if the user is a       *)
(* member of it.  It does not when one of the two calls fails.             *)
ReadActive(r) ==
  LET w == active[req[r].sid] IN
  /\ At(r, "active")
  /\ \/ /\ w # NoWorkspace /\ member[req[r].me][w] # "none"
        /\ req' = [req EXCEPT ![r].pc = "home", ![r].ws = w,
                              ![r].role = member[req[r].me][w]]
     \/ Goto(r, "home")
  /\ UNCHANGED <<store, history>>

(* The membership of the workspace found so far decides the role.  When it *)
(* cannot be read the role stays as it is.                                 *)
ReadHome(r) ==
  LET role == member[req[r].me][req[r].ws] IN
  /\ At(r, "home")
  /\ \/ role # "none" /\ req' = [req EXCEPT ![r].pc = "in", ![r].role = role]
     \/ role = "none" /\ Goto(r, "join")
     \/ Goto(r, "in")
  /\ UNCHANGED <<store, history>>

(* A membership that is not there is added; an error is ignored.           *)
Join(r) ==
  /\ At(r, "join")
  /\ Goto(r, "in")
  /\ \/ /\ member' = [member EXCEPT ![req[r].me][req[r].ws] = req[r].role]
        /\ NoteMissed(req[r].me, req[r].ws)
     \/ UNCHANGED <<member, missed>>
  /\ UNCHANGED <<user, session, active, invite, lock, admitted, withdrawn,
                 setups, lapsed, overlooked, vacant>>

-----------------------------------------------------------------------------
(* Workspaces and invitations                                              *)

SwitchLook(r, w) ==
  /\ At(r, "in") /\ req[r].gated
  /\ member[req[r].me][w] # "none"
  /\ req' = [req EXCEPT ![r].pc = "switch", ![r].ws = w]
  /\ UNCHANGED <<store, history>>

(* SetSessionWorkspace, of switchWorkspace and of an accepted invitation.  *)
SwitchSet(r) ==
  /\ At(r, "switch") \/ At(r, "enter")
  /\ active' = [active EXCEPT ![req[r].sid] = req[r].ws]
  /\ End(r)
  /\ UNCHANGED <<user, member, session, invite, lock, history>>

(* requireAdmin, in the handlers of administrators.                        *)
IsAdmin(r) == At(r, "in") /\ req[r].gated /\ req[r].role = "administrator"

(* to: the users whose records carry the e-mail address of the invitation. *)
Invite(r, i, to, role) ==
  /\ IsAdmin(r)
  /\ invite[i].state = "none"
  /\ invite' = [invite EXCEPT ![i] = [state |-> "open", to |-> to, ws |-> req[r].ws,
                                      role |-> role]]
  /\ admitted' = admitted \cup (to \X {req[r].ws} \X {role})
  /\ End(r)
  /\ UNCHANGED <<user, member, session, active, lock, withdrawn, missed, setups,
                 lapsed, overlooked, vacant>>

(* GetWorkspaceInvitation, once by the handler and once more by            *)
(* AcceptWorkspaceInvitation.  This handler is not behind requireAuth.     *)
AcceptLook(r, i) ==
  /\ At(r, "in")
  /\ invite[i].state = "open" /\ req[r].me \in invite[i].to
  /\ req' = [req EXCEPT ![r].pc = "accept", ![r].inv = i]
  /\ UNCHANGED <<store, history>>

(* DEL of the invitation, whether or not it is still there.                *)
AcceptSpend(r) ==
  LET i == req[r].inv IN
  /\ At(r, "accept")
  /\ invite' = [invite EXCEPT ![i].state = "gone"]
  /\ req' = [req EXCEPT ![r].pc = "admit", ![r].ws = invite[i].ws,
                        ![r].role = invite[i].role]
  /\ UNCHANGED <<user, member, session, active, lock, history>>

AcceptAdmit(r) ==
  /\ At(r, "admit")
  /\ member' = [member EXCEPT ![req[r].me][req[r].ws] = req[r].role]
  /\ withdrawn' = withdrawn \ {<<req[r].me, req[r].ws>>}
  /\ NoteMissed(req[r].me, req[r].ws)
  /\ Goto(r, "enter")
  /\ UNCHANGED <<user, session, active, invite, lock, admitted, setups, lapsed,
                 overlooked, vacant>>

(* Its 24 hours are over.                                                  *)
InvitationExpires(i) ==
  /\ invite[i].state = "open"
  /\ invite' = [invite EXCEPT ![i].state = "gone"]
  /\ UNCHANGED <<user, member, session, active, lock, req, history>>

-----------------------------------------------------------------------------
(* Administration of users                                                 *)

(* adminSaveUser: GetUser.  A user without a password is left alone, and   *)
(* so is a new name without one.  A name whose record cannot be read is    *)
(* taken for a new one, and its memberships are not looked at.             *)
SaveLook(r, u, role) ==
  /\ IsAdmin(r)
  /\ \E pc \in {"savecheck", "savenew"} :
       /\ pc = "savecheck" => Exists(u) /\ user[u].local
       /\ req' = [req EXCEPT ![r].pc = pc, ![r].about = u, ![r].role = role]
  /\ UNCHANGED <<store, history>>

(* HasWorkspaceMembership; others are "not found".                         *)
SaveCheck(r) ==
  /\ At(r, "savecheck")
  /\ IF member[req[r].about][req[r].ws] # "none" THEN Goto(r, "save") ELSE End(r)
  /\ UNCHANGED <<store, history>>

Save(r) ==
  LET u == req[r].about IN
  /\ At(r, "save") \/ At(r, "savenew")
  /\ user' = [user EXCEPT ![u] = [role |-> req[r].role, home |-> req[r].ws,
                                  local |-> TRUE]]
  /\ admitted' = admitted \cup {<<u, req[r].ws, req[r].role>>}
  /\ NoteVacancy
  /\ Goto(r, "saveadd")
  /\ UNCHANGED <<member, session, active, invite, lock, withdrawn, missed, setups,
                 lapsed, overlooked>>

SaveAdd(r) ==
  LET u == req[r].about IN
  /\ At(r, "saveadd")
  /\ member' = [member EXCEPT ![u][req[r].ws] = req[r].role]
  /\ withdrawn' = withdrawn \ {<<u, req[r].ws>>}
  /\ NoteMissed(u, req[r].ws)
  /\ End(r)
  /\ UNCHANGED <<user, session, active, invite, lock, admitted, setups, lapsed,
                 overlooked, vacant>>

(* adminDeleteUser: GetUser; a user without a password is left alone.      *)
DeleteLook(r, u) ==
  /\ IsAdmin(r)
  /\ u # req[r].me /\ user[u].local
  /\ req' = [req EXCEPT ![r].pc = "delcheck", ![r].about = u]
  /\ UNCHANGED <<store, history>>

DeleteCheck(r) ==
  /\ At(r, "delcheck")
  /\ IF member[req[r].about][req[r].ws] # "none" THEN Goto(r, "remove") ELSE End(r)
  /\ UNCHANGED <<store, history>>

Remove(r) ==
  LET u == req[r].about IN
  /\ At(r, "remove")
  /\ member' = [member EXCEPT ![u][req[r].ws] = "none"]
  /\ withdrawn' = withdrawn \cup {<<u, req[r].ws>>}
  /\ missed' = missed \ {<<u, req[r].ws>>}
  /\ Goto(r, "list")
  /\ UNCHANGED <<user, session, active, invite, lock, admitted, setups, lapsed,
                 overlooked, vacant>>

(* Mutant: the record goes with the first membership.                      *)
ListNothing(r) ==
  /\ At(r, "list")
  /\ Goto(r, "erase")
  /\ UNCHANGED <<store, history>>

(* "Remove the record only when no workspace membership remains."  The     *)
(* scan may pass over those that remain.                                   *)
List(r) ==
  LET left == MembershipsOf(req[r].about) IN
  /\ At(r, "list")
  /\ \/ Goto(r, "erase") /\ missed' = missed \cup left
     \/ left # {} /\ End(r) /\ UNCHANGED missed
  /\ UNCHANGED <<store, admitted, withdrawn, setups, lapsed, overlooked, vacant>>

Erase(r) ==
  /\ At(r, "erase")
  /\ user' = [user EXCEPT ![req[r].about] = NoRecord]
  /\ NoteVacancy
  /\ End(r)
  /\ UNCHANGED <<member, session, active, invite, lock, admitted, withdrawn,
                 missed, setups, lapsed, overlooked>>

-----------------------------------------------------------------------------
(* Signing in                                                              *)

(* loginPost: the user has a password and the right one is given.          *)
Login(r, u) ==
  /\ At(r, "idle") /\ user[u].local
  /\ req' = [req EXCEPT ![r].pc = "signin", ![r].me = u]
  /\ UNCHANGED <<store, history>>

(* adPost: the directory accepts the password.  No record is needed, and   *)
(* none is made.                                                           *)
DirectoryLogin(r, u) ==
  /\ At(r, "idle") /\ u \in Directory
  /\ req' = [req EXCEPT ![r].pc = "signin", ![r].me = u]
  /\ UNCHANGED <<store, history>>

CreateSession(r, s) ==
  /\ At(r, "signin")
  /\ session[s] = NoUser
  /\ session' = [session EXCEPT ![s] = req[r].me]
  /\ End(r)
  /\ UNCHANGED <<user, member, active, invite, lock, history>>

(* logout, or the TTL of the session.                                      *)
EndSession(s) ==
  /\ session[s] \in Users
  /\ session' = [session EXCEPT ![s] = Closed]
  /\ active' = [active EXCEPT ![s] = NoWorkspace]
  /\ UNCHANGED <<user, member, invite, lock, req, history>>

(* microsoftPost, once the token is valid: GetUser.  An error counts as no *)
(* record.                                                                 *)
Microsoft(r, u) ==
  /\ At(r, "idle")
  /\ \/ Exists(u) /\ req' = [req EXCEPT ![r].pc = "groups", ![r].me = u,
                                         ![r].role = user[u].role]
     \/ req' = [req EXCEPT ![r].pc = "legacy", ![r].me = u]
  /\ UNCHANGED <<store, history>>

(* migrateLegacyMicrosoftUser: the record stored under the older name.     *)
FindLegacy(r) ==
  LET old == LegacyOf[req[r].me] IN
  /\ At(r, "legacy")
  /\ IF old # NoUser /\ Exists(old) /\ ~user[old].local
     THEN req' = [req EXCEPT ![r].pc = "move", ![r].about = old,
                             ![r].role = user[old].role, ![r].ws = user[old].home]
     ELSE Goto(r, "groups")
  /\ UNCHANGED <<store, history>>

MoveLegacy(r) ==
  /\ At(r, "move")
  /\ user' = [user EXCEPT ![req[r].me] = [role |-> req[r].role, home |-> req[r].ws,
                                          local |-> FALSE]]
  /\ admitted' = admitted \cup {<<req[r].me, req[r].ws, req[r].role>>}
  /\ NoteVacancy
  /\ Goto(r, "forget")
  /\ UNCHANGED <<member, session, active, invite, lock, withdrawn, missed, setups,
                 lapsed, overlooked>>

(* DEL of the older record, whatever it is by now, and whatever memberships *)
(* its name has.                                                           *)
ForgetLegacy(r) ==
  /\ At(r, "forget")
  /\ user' = [user EXCEPT ![req[r].about] = NoRecord]
  /\ missed' = missed \cup MembershipsOf(req[r].about)
  /\ NoteVacancy
  /\ Goto(r, "groups")
  /\ UNCHANGED <<member, session, active, invite, lock, admitted, withdrawn,
                 setups, lapsed, overlooked>>

(* Mutant: a new user whose groups say nothing is stored without a role.   *)
SaveEntraWithoutRole(r) ==
  /\ At(r, "groups")
  /\ \E role \in {"administrator", "user", req[r].role} :
       /\ user' = [user EXCEPT ![req[r].me] =
                     [role |-> role, home |-> Default, local |-> FALSE]]
       /\ admitted' = admitted \cup {<<req[r].me, Default, role>>}
  /\ NoteVacancy
  /\ Goto(r, "signin")
  /\ UNCHANGED <<member, session, active, invite, lock, withdrawn, missed, setups,
                 lapsed, overlooked>>

(* microsoftRoleFromGroups and SaveUser: the groups give the role, or, when *)
(* none is configured, the user keeps the one it has.  The record is       *)
(* stored with the default workspace.                                      *)
SaveEntra(r) ==
  LET kept == IF req[r].role = "none" THEN "user" ELSE req[r].role IN
  /\ At(r, "groups")
  /\ \E role \in {"administrator", "user", kept} :
       /\ user' = [user EXCEPT ![req[r].me] =
                     [role |-> role, home |-> Default, local |-> FALSE]]
       /\ admitted' = admitted \cup {<<req[r].me, Default, role>>}
  /\ NoteVacancy
  /\ Goto(r, "signin")
  /\ UNCHANGED <<member, session, active, invite, lock, withdrawn, missed, setups,
                 lapsed, overlooked>>

-----------------------------------------------------------------------------
(* Setup                                                                   *)

(* setupRequired, of setupPost: the scan finds no administrator, or passes *)
(* over those that there are.                                              *)
Setup(r) ==
  /\ At(r, "idle")
  /\ Goto(r, "setup")
  /\ UNCHANGED <<store, history>>

(* Mutant: SET instead of SETNX: nobody looks whether the lock is taken.   *)
LockTaken(r) ==
  /\ At(r, "setup")
  /\ lock' = TRUE
  /\ Goto(r, "locked")
  /\ UNCHANGED <<user, member, session, active, invite, history>>

(* SETNX of CreateInitialAdmin.                                            *)
Lock(r) ==
  /\ At(r, "setup")
  /\ lock' = TRUE
  /\ IF lock THEN End(r) ELSE Goto(r, "locked")
  /\ UNCHANGED <<user, member, session, active, invite, history>>

(* HasAdmin again, under the lock; the scan may pass over administrators   *)
(* again.                                                                  *)
CheckAgain(r) ==
  /\ At(r, "locked")
  /\ \/ HasAdmin /\ Goto(r, "giveup") /\ UNCHANGED overlooked
     \/ Goto(r, "create") /\ overlooked' = (overlooked \/ HasAdmin)
  /\ UNCHANGED <<store, admitted, withdrawn, missed, setups, lapsed, vacant>>

CreateAdmin(r, u) ==
  /\ At(r, "create")
  /\ user' = [user EXCEPT ![u] =
                [role |-> "administrator", home |-> Default, local |-> TRUE]]
  /\ admitted' = admitted \cup {<<u, Default, "administrator">>}
  /\ setups' = setups + 1
  /\ req' = [req EXCEPT ![r].pc = "unlock", ![r].me = u]
  /\ UNCHANGED <<member, session, active, invite, lock, withdrawn, missed, lapsed,
                 overlooked, vacant>>

(* The deferred DEL, whoever's lock it is; its error is ignored.           *)
Unlock(r) ==
  /\ At(r, "unlock") \/ At(r, "giveup")
  /\ lock' \in {FALSE, lock}
  /\ IF At(r, "unlock") THEN Goto(r, "signin") ELSE End(r)
  /\ lapsed' = (lapsed \/ \E q \in Requests \ {r} : At(q, "locked") \/ At(q, "create"))
  /\ UNCHANGED <<user, member, session, active, invite, admitted, withdrawn,
                 missed, setups, overlooked, vacant>>

(* The lock is a key that lives for a minute.                              *)
LockExpires ==
  /\ lock
  /\ lock' = FALSE
  /\ lapsed' = (lapsed \/ \E r \in Requests : At(r, "locked") \/ At(r, "create"))
  /\ UNCHANGED <<user, member, session, active, invite, req, admitted,
                 withdrawn, missed, setups, overlooked, vacant>>

(* The handler ends early: a call fails, the client is refused or gets     *)
(* what it asked for, or the server crashes.  The deferred DEL of setup    *)
(* runs unless the server crashes.                                         *)
Abort(r) ==
  /\ ~At(r, "idle") /\ ~At(r, "done")
  /\ End(r)
  /\ \/ UNCHANGED lock
     \/ (At(r, "locked") \/ At(r, "create")) /\ lock' = FALSE
  /\ UNCHANGED <<user, member, session, active, invite, history>>

-----------------------------------------------------------------------------
Authenticate(r) ==
  \/ \E s \in Sessions : Arrive(r, s)
  \/ ReadActive(r) \/ ReadHome(r) \/ Join(r)

UseWorkspace(r) ==
  \/ \E w \in Workspaces : SwitchLook(r, w)
  \/ SwitchSet(r)
  \/ \E i \in Invitations : AcceptLook(r, i)
  \/ AcceptSpend(r) \/ AcceptAdmit(r)

Administrate(r) ==
  \/ \E i \in Invitations, to \in Addressed, role \in Roles : Invite(r, i, to, role)
  \/ \E u \in Users, role \in Roles : SaveLook(r, u, role)
  \/ SaveCheck(r) \/ Save(r) \/ SaveAdd(r)
  \/ \E u \in Users : DeleteLook(r, u)
  \/ DeleteCheck(r) \/ Remove(r) \/ List(r) \/ Erase(r)

SignIn(r) ==
  \/ \E u \in Users : Login(r, u)
  \/ \E u \in Directory : DirectoryLogin(r, u)
  \/ \E u \in Entra : Microsoft(r, u)
  \/ FindLegacy(r) \/ MoveLegacy(r) \/ ForgetLegacy(r) \/ SaveEntra(r)
  \/ \E s \in Sessions : CreateSession(r, s)

SetUp(r) ==
  \/ Setup(r) \/ Lock(r) \/ CheckAgain(r)
  \/ \E u \in Locals : CreateAdmin(r, u)
  \/ Unlock(r)

Next ==
  \/ \E r \in Requests :
       \/ Authenticate(r) \/ UseWorkspace(r) \/ Administrate(r)
       \/ SignIn(r) \/ SetUp(r) \/ Abort(r)
  \/ \E s \in Sessions : EndSession(s)
  \/ \E i \in Invitations : InvitationExpires(i)
  \/ LockExpires

Spec == Init /\ [][Next]_vars

-----------------------------------------------------------------------------
(* Properties                                                              *)

TypeOK ==
  /\ user \in [Users -> Record]
  /\ member \in [Users -> [Workspaces -> Roles \cup {"none"}]]
  /\ session \in [Sessions -> Users \cup {NoUser, Closed}]
  /\ active \in [Sessions -> Workspaces \cup {NoWorkspace}]
  /\ invite \in [Invitations -> Invitation]
  /\ lock \in BOOLEAN
  /\ req \in [Requests -> Request]
  /\ admitted \subseteq Places
  /\ withdrawn \subseteq Users \X Workspaces /\ missed \subseteq Users \X Workspaces
  /\ setups \in Nat /\ lapsed \in BOOLEAN /\ overlooked \in BOOLEAN /\ vacant \in BOOLEAN

(* Workspaces are isolated: whatever it read in which order, a request     *)
(* acts in a workspace only with a role its user was given there, by an    *)
(* administrator of it, an invitation, a Microsoft sign-in or setup; no    *)
(* membership says anything else; and an administrator changes the record  *)
(* of a user that is there, or ends the membership, only of one that was   *)
(* given a role in that workspace.                                         *)
RolesWereAssigned ==
  /\ \A r \in Requests : Acting(r) => <<req[r].me, req[r].ws, req[r].role>> \in admitted
  /\ \A u \in Users, w \in Workspaces :
       member[u][w] # "none" => <<u, w, member[u][w]>> \in admitted
  /\ \A r \in Requests : Changing(r) =>
       \E role \in Roles : <<req[r].about, req[r].ws, role>> \in admitted

(* Setup creates one administrator, however many requests go through it at *)
(* once; it creates another one only when the lock ended under its holder, *)
(* when it saw none of those that there were, or when there was none any   *)
(* more.                                                                   *)
SetupOnce == setups <= 1 \/ lapsed \/ overlooked \/ vacant

(* "Remove the record only when no workspace membership remains": a user   *)
(* without a record is a member of nothing, except by a membership that    *)
(* was added after the deletion had looked for memberships, that its scan  *)
(* passed over, or whose user has moved to another name.                   *)
NoRecordNoMembership ==
  \A u \in Users, w \in Workspaces :
    ~Exists(u) /\ member[u][w] # "none" => <<u, w>> \in missed

(* A user an administrator removed from a workspace is out: the membership *)
(* comes back only when an administrator adds the user again or the user   *)
(* accepts an invitation.                                                  *)
RemovedStaysOut == \A p \in withdrawn : member[p[1]][p[2]] = "none"
=============================================================================
