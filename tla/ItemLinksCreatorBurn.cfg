SPECIFICATION Spec
CONSTANTS
  TextLinks = {t}
  FileLinks = {}
  Recipients = {r1}
  Admins = {a}
  NoLink = NoLink
  MaxTTL = 1
  Hour = 1
  Horizon = 2
  MaxUnread = 0
  MaxCrashes = 1
PROPERTIES
  ConfirmedBurnEndsLink
