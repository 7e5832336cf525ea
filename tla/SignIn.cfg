SPECIFICATION MCSpec
CONSTANTS
  IPs = {i, j}
  PerMinute = 2
  Minute = 2
  MaxWait = 1
  MaxRefused = 1
  Horizon = 5
  Attempts = {p1, p2, p3}
  Limit = 2
  MaxFaults = 2
  Administrators = {m1, m2}
  Values = {v}
  NoValue = NoValue
  MasterKeys = {k1, k2}
INVARIANTS AdmissionsBounded RefusedForCause EndedWindowsForgotten
INVARIANTS TypeOK GuessesBounded
INVARIANTS SecretsSealedOnce SecretsLostForCause
PROPERTY BlockedUntilWindowEnds
CHECK_DEADLOCK FALSE
