SPECIFICATION MCSpec
CONSTANTS
  TextLinks = {t}
  FileLinks = {f}
  Recipients = {r1, r2}
  Admins = {a}
  NoLink = NoLink
  MaxTTL = 3
  Hour = 1
  Horizon = 5
  MaxUnread = 1
  MaxCrashes = 1
  MaxLinks = 1
INVARIANTS
  TypeOK
  SingleDelivery
  SecretHasOneHolder
  NoLiveRecordOutlivesExpiry
  OnlyTheOrphanSweepLosesFiles
PROPERTIES
  BurnIsFinal
  KeepsPromise
  SpentFilesReclaimed
