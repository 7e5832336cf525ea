SPECIFICATION MCSpec
CONSTANTS
  Locals = {a, b}
  Entra = {e}
  Legacy = {m}
  LegacyOf <- MCLegacyOf
  Directory = {d}
  NoUser = NoUser
  Closed = Closed
  Workspaces = {w1, w2}
  Default = w1
  NoWorkspace = NoWorkspace
  Sessions = {s1, s2}
  Invitations = {i}
  Addressed <- MCAddressed
  Requests = {r1, r2, r3}
  FirstAdmins = {a}
  FirstUsers = {b}
SYMMETRY Symmetry
CHECK_DEADLOCK FALSE
INVARIANTS
  TypeOK
  RolesWereAssigned
  SetupOnce
  NoRecordNoMembership
