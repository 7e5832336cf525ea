------------------------ MODULE MCWorkspaceAccess ------------------------
(***************************************************************************)
(* Instances of WorkspaceAccess for TLC.                                   *)
(***************************************************************************)
EXTENDS WorkspaceAccess, TLC

(* Every Entra user signed in under an older name before.                  *)
MCLegacyOf == [u \in Entra |-> CHOOSE l \in Legacy : TRUE]

(* Invitations go to one local user.                                       *)
MCAddressed == {{u} : u \in FirstUsers}

VARIABLE fresh  \* whether the server was one nobody had set up

MCInit == Init /\ fresh = Fresh

(* Bounds: setup overlooks administrators on servers that began fresh; an  *)
(* administrator saves as new only local users, or older names of others.  *)
MCNext ==
  /\ Next /\ UNCHANGED fresh
  /\ ~fresh /\ HasAdmin =>
       \A r \in Requests : At(r, "idle") => req'[r].pc # "setup"
  /\ \A r \in Requests : req'[r].pc = "savenew" => req'[r].about \in Locals \cup Legacy

MCSpec == MCInit /\ [][MCNext]_<<vars, fresh>>

(* Requests and tokens are interchangeable.                                *)
Symmetry == Permutations(Requests) \cup Permutations(Sessions)
=============================================================================
