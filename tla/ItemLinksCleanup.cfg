SPECIFICATION Spec
CONSTANTS
  TextLinks = {}
  FileLinks = {f}
  Recipients = {r1}
  Admins = {a}
  NoLink = NoLink
  MaxTTL = 1
  Hour = 1
  Horizon = 3
  MaxUnread = 0
  MaxCrashes = 1
PROPERTIES
  ReferencedFilesKept
