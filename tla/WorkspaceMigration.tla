------------------------- MODULE WorkspaceMigration -------------------------
(***************************************************************************)
(* cmd/migrate-workspaces: MigrateWorkspace goes through the records of    *)
(* one kind after the other, reads the workspace of each in one call and   *)
(* writes it in a later one, while servers create, save and delete         *)
(* records.  It passes over nothing it cannot read: an error ends it.      *)
(*                                                                         *)
(* Of a record only the workspace is kept.  WorkspaceAccess has users and  *)
(* memberships in detail: their handlers are single steps here.            *)
(***************************************************************************)
EXTENDS Naturals, Sequences

CONSTANTS
  Links,      \* items and upload requests
  Events,     \* audit events
  LocalUsers, \* names of users with a password
  EntraUsers, \* "entra:<oid>" names
  ApiKeys,
  AuditIndex, \* el:audit:index, which is a sorted set
  NoKey,
  Workspaces, Default,
  FirstUsers, \* users the server starts with
  MaxStarts     \* bound: how often the tool is started

Users   == LocalUsers \cup EntraUsers
Records == Links \cup Events \cup Users \cup ApiKeys

ASSUME MigrationAssumption ==
  /\ AuditIndex \notin Records /\ NoKey \notin Records \cup {AuditIndex}
  /\ Default \in Workspaces /\ FirstUsers \subseteq Users
  /\ Workspaces \cap {"unset", "new", "gone"} = {}
  /\ MaxStarts \in Nat

VARIABLES
  home,     \* the field workspace_id; or what there is instead of it
  husk,     \* records that hold nothing but a workspace_id
  member,   \* el:membership:<name>:<workspace>
  indexed,  \* whether el:audit:index exists
  run,      \* the arguments of the tool
  step,     \* where the tool is: pattern, call and key
  keys,     \* the keys of the pattern that it has not come to
  starts,   \* runs of the tool so far
  stopped,  \* history: the last run met a failing call, or was stopped
  fresh,    \* history: records saved since this run's scan of their pattern
  rehomed,    \* history: users the tool has moved, and where to
  cut       \* history: users whose move ended after its first write

dataVars == <<home, husk, member, indexed>>
runVars  == <<run, step, keys, starts, stopped>>
workspaceVars == <<dataVars, runVars, fresh, rehomed, cut>>

-----------------------------------------------------------------------------
(* A record from before there were workspaces has no workspace_id.         *)
Homes == Workspaces \cup {"unset", "new", "gone"}

Exists(r) == home[r] \notin {"new", "gone"}

(* A user whose record names it.                                           *)
Whole(u) == Exists(u) /\ u \notin husk

(* workspaceID, and HGET of a field or of a key that is not there.         *)
WorkspaceOf(r) == IF home[r] \in Workspaces THEN home[r] ELSE Default

(* Mutant: keys are forgotten.                                             *)
PatternsOfPeople == <<Links, Events \cup {AuditIndex}, Users>>

(* The patterns in their order; the two of links count as one.             *)
Patterns == <<Links, Events \cup {AuditIndex}, Users, ApiKeys>>

(* The keys a scan finds.                                                  *)
Matching(p) == {r \in Patterns[p] : IF r = AuditIndex THEN indexed ELSE Exists(r)}

Rest == [pattern |-> 1, call |-> "idle", key |-> NoKey]
AtRest == step.call \in {"idle", "done", "failed"}
NoRun == [from |-> Default, to |-> Default]

(* The tool exits: what it knew is gone.                                   *)
EndRun(call) ==
  /\ step' = [Rest EXCEPT !.call = call]
  /\ run' = NoRun /\ keys' = {} /\ fresh' = {}

WorkspaceInit ==
  /\ home \in [Records -> Homes]
  /\ \A r \in Records : home[r] \in {"unset", "new"}
  /\ \A u \in Users : home[u] = "new" <=> u \notin FirstUsers
  /\ husk = {} /\ member = {}
  /\ indexed = (\E e \in Events : Exists(e))
  /\ run = NoRun
  /\ step = Rest /\ keys = {} /\ starts = 0 /\ stopped = FALSE
  /\ fresh = {} /\ rehomed = {} /\ cut = {}

-----------------------------------------------------------------------------
(* The server                                                              *)

Saved(r, w) ==
  /\ home' = [home EXCEPT ![r] = w]
  /\ husk' = husk \ {r}
  /\ fresh' = IF AtRest THEN fresh ELSE fresh \cup {r}
  /\ rehomed' = {m \in rehomed : m[1] # r} /\ cut' = cut \ {r}

(* Create, CreateUploadRequest, AddAuditEvent, CreateAPIKeyInWorkspace.    *)
CreateRecord(r, w) ==
  /\ r \notin Users /\ home[r] = "new"
  /\ Saved(r, w)
  /\ indexed' = (indexed \/ r \in Events)
  /\ UNCHANGED <<member, runVars>>

(* The TTL of a link or an event runs out.  A husk has none.               *)
ExpireRecord(r) ==
  /\ r \in Links \cup Events /\ Exists(r) /\ r \notin husk
  /\ home' = [home EXCEPT ![r] = "gone"]
  /\ UNCHANGED <<husk, member, indexed, runVars, fresh, rehomed, cut>>

(* adminSaveUser of an administrator of w: SaveUser writes the workspace   *)
(* the request acts in.                                                    *)
AdminSaveUser(u, w) ==
  /\ u \in LocalUsers
  /\ Whole(u) => <<u, w>> \in member
  /\ Saved(u, w)
  /\ member' = member \cup {<<u, w>>}
  /\ UNCHANGED <<indexed, runVars>>

(* microsoftPost saves a record without a workspace, which userMap writes  *)
(* as the default one, wherever the user was.                              *)
MicrosoftPost(u) ==
  /\ u \in EntraUsers
  /\ Saved(u, Default)
  /\ UNCHANGED <<member, indexed, runVars>>

(* authenticatedUser of any request of u: a membership of the user's own   *)
(* workspace that is not there is added.                                   *)
Request(u) ==
  /\ u \in Users /\ Exists(u) /\ <<u, WorkspaceOf(u)>> \notin member
  /\ member' = member \cup {<<u, WorkspaceOf(u)>>}
  /\ UNCHANGED <<home, husk, indexed, runVars, fresh, rehomed, cut>>

(* adminDeleteUser: the record goes with its last membership.              *)
AdminDeleteUser(u, w) ==
  /\ u \in LocalUsers /\ Whole(u) /\ <<u, w>> \in member
  /\ member' = member \ {<<u, w>>}
  /\ home' = IF \E v \in Workspaces : <<u, v>> \in member'
             THEN home ELSE [home EXCEPT ![u] = "gone"]
  /\ rehomed' = rehomed \ {<<u, w>>}
  /\ UNCHANGED <<husk, indexed, runVars, fresh, cut>>

-----------------------------------------------------------------------------
(* The tool                                                                *)

(* The run takes its arguments; equal ones are nothing to do.              *)
StartRun(from, to) ==
  /\ AtRest /\ starts < MaxStarts /\ from # to
  /\ run' = [from |-> from, to |-> to]
  /\ step' = [Rest EXCEPT !.call = "scan"]
  /\ starts' = starts + 1 /\ stopped' = FALSE
  /\ UNCHANGED <<dataVars, keys, fresh, rehomed, cut>>

ScanKeys ==
  /\ step.call = "scan"
  /\ keys' = Matching(step.pattern)
  /\ fresh' = fresh \ Patterns[step.pattern]
  /\ step' = [step EXCEPT !.call = "read"]
  /\ UNCHANGED <<dataVars, run, starts, stopped, rehomed, cut>>

NextPattern ==
  /\ step.call = "read" /\ keys = {}
  /\ IF step.pattern = Len(Patterns) THEN EndRun("done")
     ELSE /\ step' = [Rest EXCEPT !.pattern = step.pattern + 1, !.call = "scan"]
          /\ UNCHANGED <<run, keys, fresh>>
  /\ UNCHANGED <<dataVars, starts, stopped, rehomed, cut>>

(* HGET workspace_id of the next key.  Redis refuses it for a sorted set,  *)
(* and the tool ends.                                                      *)
ReadWorkspace(k) ==
  /\ step.call = "read" /\ k \in keys
  /\ \/ /\ k = AuditIndex
        /\ EndRun("failed")
     \/ /\ k # AuditIndex
        /\ step' = IF WorkspaceOf(k) = run.from
                   THEN [step EXCEPT !.call = "write", !.key = k] ELSE step
        /\ keys' = keys \ {k} /\ UNCHANGED <<run, fresh>>
  /\ UNCHANGED <<dataVars, starts, stopped, rehomed, cut>>

(* A user is where its last move, or the last one to save it, has put it.  *)
Rehomed(r) ==
  /\ rehomed' = {m \in rehomed : m[1] # r} \cup ({r} \cap Users) \X {run.to}
  /\ cut' = cut \ {r}

(* Mutant: the membership is left to the next request of the user.         *)
WriteWorkspaceOnly ==
  /\ step.call = "write"
  /\ home' = [home EXCEPT ![step.key] = run.to]
  /\ husk' = IF Exists(step.key) THEN husk ELSE husk \cup {step.key}
  /\ Rehomed(step.key)
  /\ step' = [step EXCEPT !.call = "read", !.key = NoKey]
  /\ UNCHANGED <<member, indexed, run, keys, starts, stopped, fresh>>

(* HSET workspace_id, whatever the key holds by now; it makes one where    *)
(* there is none any more.                                                 *)
WriteWorkspace ==
  /\ step.call = "write"
  /\ home' = [home EXCEPT ![step.key] = run.to]
  /\ husk' = IF Exists(step.key) THEN husk ELSE husk \cup {step.key}
  /\ Rehomed(step.key)
  /\ step' = IF step.key \in Users THEN [step EXCEPT !.call = "name"]
             ELSE [step EXCEPT !.call = "read", !.key = NoKey]
  /\ UNCHANGED <<member, indexed, run, keys, starts, stopped, fresh>>

(* HGET username.  A husk has none and is left, and so is a user whose     *)
(* name cannot be read: that error is not looked at.                       *)
ReadName ==
  /\ step.call = "name"
  /\ \E answered \in BOOLEAN :
       /\ step' = IF answered /\ Whole(step.key) THEN [step EXCEPT !.call = "join"]
                  ELSE [step EXCEPT !.call = "read", !.key = NoKey]
       /\ cut' = IF answered THEN cut ELSE cut \cup {step.key}
  /\ UNCHANGED <<dataVars, run, keys, starts, stopped, fresh, rehomed>>

AddWorkspaceMembership ==
  /\ step.call = "join"
  /\ member' = member \cup {<<step.key, run.to>>}
  /\ step' = [step EXCEPT !.call = "read", !.key = NoKey]
  /\ UNCHANGED <<home, husk, indexed, run, keys, starts, stopped, fresh, rehomed, cut>>

(* A call fails, or the tool is stopped.                                   *)
StopTool ==
  /\ ~AtRest
  /\ EndRun("failed") /\ stopped' = TRUE
  /\ cut' = IF step.call \in {"name", "join"} THEN cut \cup {step.key} ELSE cut
  /\ UNCHANGED <<dataVars, starts, rehomed>>

WorkspaceNext ==
  \/ \E r \in Records, w \in Workspaces :
       CreateRecord(r, w) \/ AdminSaveUser(r, w) \/ AdminDeleteUser(r, w)
  \/ \E r \in Records : ExpireRecord(r) \/ MicrosoftPost(r) \/ Request(r)
  \/ \E from, to \in Workspaces : StartRun(from, to)
  \/ ScanKeys \/ NextPattern \/ (\E k \in keys : ReadWorkspace(k))
  \/ WriteWorkspace \/ ReadName \/ AddWorkspaceMembership \/ StopTool

WorkspaceSpec == WorkspaceInit /\ [][WorkspaceNext]_workspaceVars

-----------------------------------------------------------------------------
(* Properties                                                              *)

WorkspaceTypeOK ==
  /\ home \in [Records -> Homes]
  /\ husk \subseteq {r \in Records : Exists(r)}
  /\ member \subseteq Users \X Workspaces /\ indexed \in BOOLEAN
  /\ run \in [from : Workspaces, to : Workspaces]
  /\ step \in [pattern : DOMAIN Patterns, key : Records \cup {NoKey},
               call : {"idle", "scan", "read", "write", "name", "join", "done", "failed"}]
  /\ step.key \in Records <=> step.call \in {"write", "name", "join"}
  /\ keys \subseteq Patterns[step.pattern] \/ step.call \notin {"read", "write", "name", "join"}
  /\ starts \in 0..MaxStarts /\ stopped \in BOOLEAN
  /\ fresh \subseteq Records /\ rehomed \subseteq Users \X Workspaces /\ cut \subseteq Users

(* A run that reports success has left no record in the workspace it was   *)
(* to empty, in any of the five kinds, but those that were saved there     *)
(* behind its scan of their kind.                                          *)
CompletedMovesAll ==
  [][NextPattern /\ step'.call = "done" =>
       \A r \in Records : Exists(r) /\ WorkspaceOf(r) = run.from => r \in fresh]_workspaceVars

(* A user the tool has moved, and nobody has removed there, is a member of *)
(* the workspace it is in, once the tool is past it: the two writes of one *)
(* user are only apart when the name between them could not be read, or    *)
(* the run was cut short there.                                            *)
MovedUsersAreMembers ==
  \A u \in Users, w \in Workspaces :
    <<u, w>> \in rehomed /\ home[u] = w /\ Whole(u) /\ step.key # u =>
      <<u, w>> \in member \/ u \in cut

(* "Existing records can be reassigned": a run ends before it is done only *)
(* when a call fails that Redis could have answered, or when it is stopped.*)
WorkspaceMigrationCompletes == step.call = "failed" => stopped
=============================================================================
