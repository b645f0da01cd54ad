SPECIFICATION Spec
CONSTANTS
  Users = {u1}
  Procs = {p1}
  SessionIds = {s1}
  None = None
  AccessTTL = 1
  RefreshTTL = 1
  PendingTTL = 1
  MaxNow = 2
  MaxFaults = 0
CHECK_DEADLOCK FALSE
INVARIANT RevokedRefused
