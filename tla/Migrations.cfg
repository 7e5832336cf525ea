SPECIFICATION MCSpec
CONSTANTS
  Items = {i, j}
  NoItem = NoItem
  MaxUnread = 1
  Links = {l}
  Events = {e}
  LocalUsers = {u}
  EntraUsers = {m}
  ApiKeys = {k}
  AuditIndex = AuditIndex
  NoKey = NoKey
  Workspaces = {default, a}
  Default = default
  FirstUsers = {u, m}
  MaxRuns = 2
  MaxStarts = 2
  MaxWork = 3
  ChunkSize = 2
SYMMETRY Symmetry
CONSTRAINT FewRecords
INVARIANTS TypesOK MaintainedMigrationLosesNothing PathsFollowObjects MigrationReopensNothing RollbackCopiesStay
INVARIANTS MovedUsersAreMembers DamageIsNoticed
PROPERTY CompletedMovesAll
CHECK_DEADLOCK FALSE
