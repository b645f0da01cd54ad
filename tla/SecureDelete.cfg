SPECIFICATION ProcessSpec
CONSTANTS
  Slots = {1, 2}
  LastMigration = 3
  MaxStarts = 1
CHECK_DEADLOCK FALSE
INVARIANT DeletedOverwritten
