SPECIFICATION WorkspaceSpec
CONSTANTS
  Links = {}
  Events = {e}
  LocalUsers = {u}
  EntraUsers = {}
  ApiKeys = {}
  AuditIndex = AuditIndex
  NoKey = NoKey
  Workspaces = {default, a}
  Default = default
  FirstUsers = {u}
  MaxStarts = 1
INVARIANT WorkspaceMigrationCompletes
CHECK_DEADLOCK FALSE
