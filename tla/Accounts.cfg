SPECIFICATION AccountsSpec
CONSTANTS
  Accounts = {u1, u2}
  AdminProcs = {p1, p2}
  NoUser = NoUser
  MaxAdminFaults = 1
  Users = {v1}
  Procs = {p1, p2}
  SessionIds = {1, 2, 3}
  None = None
  AccessTTL = 1
  RefreshTTL = 1
  PendingTTL = 1
  MaxNow = 1
  MaxFaults = 1
  IPs = {a1}
  LoginProcs = {p1, p2}
  CodeNames = {u1, u2}
  NoEntry = NoEntry
  MaxAttemptsShort = 2
  LockoutDurationShort = 1
  MaxAttemptsLong = 3
  LockoutDurationLong = 2
  MaxSetups = 2
  MaxUses = 2
  MaxLoginTime = 3
  MaxLoginFaults = 1
SYMMETRY Symmetry
CHECK_DEADLOCK FALSE
INVARIANTS
  AccountsTypeOK AdminRemains OneFirstAdminEach AdminAuditComplete
  ForkNeedsOverlap OnlyStragglersSurvive StragglersEnd RevokedDiesWithToken
  LockBoundsGuesses BackupCodeOnce MfaHasCodes
PROPERTIES
  DeactivatedFrozen LockHolds
