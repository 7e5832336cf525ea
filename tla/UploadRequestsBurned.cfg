SPECIFICATION Spec
CONSTANTS
  Requests = {q}
  Uploads = {u1, u2}
  Admins = {a}
  EmptyID = EmptyID
  NoItem = NoItem
  MaxFaults = 0
CHECK_DEADLOCK FALSE
INVARIANTS
  BurnedIsNotListed
