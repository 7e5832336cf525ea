SPECIFICATION MCSpec
CONSTANTS
  Requests = {q}
  Uploads = {u1, u2, u3}
  Admins = {a}
  EmptyID = EmptyID
  NoItem = NoItem
  MaxFaults = 1
  Workspaces = {w1, w2}
  ApiKeys = {k}
  Operations = {o1, o2}
  Readers = {r}
  Cap = 2
  Limits = {1}
  MaxEvents = 3
  MaxUnread = 1
  None = None
  PageSizes = {1, 2, 3}
  ListCap = 4
  MaxTotal = 6
  Half = 16
  Second = 3
SYMMETRY Symmetry
INVARIANTS TypesOK ExclusiveUpload UploadingHasUploader OneAcceptedUpload AcceptedStaysAttached BurnedStaysClosed FailedUploadIsUndone
INVARIANTS ReportHasNoGap EndedKeysReportNothing RevocationsAccounted PagesMissNoEvent TtlInRangeAsAsked
CHECK_DEADLOCK FALSE
