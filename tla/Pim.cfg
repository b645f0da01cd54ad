SPECIFICATION Spec
CONSTANTS
  Users = {u1}
  Procs = {p1, p2}
  PimIds = {s1, s2}
  None = None
  DayLen = 3
  MaxDuration = 2
  DefaultDuration = 1
  BreakGlassDuration = 2
  BodyDurations <- MCBodyDurations
  MaxNow = 4
  MaxGrants = 2
  MaxFaults = 1
SYMMETRY Symmetry
CHECK_DEADLOCK FALSE
INVARIANTS TypeOK OnlyOverlapDuplicates CountExactWhileOpen AuditComplete AuditTruthful
PROPERTIES EndedFrozen OverrunBelowADay
