SPECIFICATION StorageSpec
CONSTANTS
  Items = {i}
  NoItem = NoItem
  MaxUnread = 1
  MaxRuns = 1
INVARIANT S3CleanupSparesReferenced
CHECK_DEADLOCK FALSE
