---------------------------- MODULE MCMigrations ----------------------------
(***************************************************************************)
(* Both migrations on small instances, one at a time: the operator carries *)
(* out one of them, while the state of the other stays as it is.  Neither  *)
(* tool touches what the other one writes.  Or an object, which may have   *)
(* been copied or damaged on its way, is sent to a recipient.              *)
(***************************************************************************)
EXTENDS StorageMigration, WorkspaceMigration, ChunkedStream, TLC

CONSTANT MaxWork  \* bound: runs of the workspace tool and records besides users

VARIABLE task

mcVars == <<task, storageVars, workspaceVars, streamVars>>

(* What the idle parts start with makes no difference.                     *)
MCInit ==
  /\ StorageInit /\ WorkspaceInit /\ StreamInit
  /\ task \in {"storage", "workspace", "stream"}
  /\ task # "storage" => maintenance
  /\ task # "workspace" => \A r \in Records \ Users : home[r] = "new"
  /\ task # "stream" => size = 0 /\ stored = <<>>

MCNext ==
  /\ UNCHANGED task
  /\ \/ task = "storage" /\ StorageNext /\ UNCHANGED <<workspaceVars, streamVars>>
     \/ task = "workspace" /\ WorkspaceNext /\ UNCHANGED <<storageVars, streamVars>>
     \/ task = "stream" /\ DecryptReader /\ UNCHANGED <<storageVars, workspaceVars>>

MCSpec == MCInit /\ [][MCNext]_mcVars

(* The variables of both migrations keep their types.                      *)
TypesOK == StorageTypeOK /\ WorkspaceTypeOK

FewRecords ==
  Cardinality({r \in Records \ Users : home[r] # "new"}) + starts <= MaxWork

Symmetry == Permutations(Items)
=============================================================================
