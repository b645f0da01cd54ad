SPECIFICATION CountedSpec
CONSTANTS
  IPs = {a1}
  LoginProcs = {p1}
  CodeNames = {k1}
  NoEntry = NoEntry
  MaxAttemptsShort = 2
  LockoutDurationShort = 1
  MaxAttemptsLong = 3
  LockoutDurationLong = 3
  MaxSetups = 0
  MaxUses = 0
  MaxLoginTime = 4
  MaxLoginFaults = 0
CHECK_DEADLOCK FALSE
PROPERTY LongLockEarned
