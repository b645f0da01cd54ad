SPECIFICATION AdminSpec
CONSTANTS
  Accounts = {u1, u2}
  AdminProcs = {p1, p2}
  NoUser = NoUser
  MaxAdminFaults = 0
SYMMETRY Symmetry
CHECK_DEADLOCK FALSE
INVARIANT LastAdminKept
