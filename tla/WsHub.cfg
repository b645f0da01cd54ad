SPECIFICATION Spec
CONSTANTS
  Clients = {c1}
  SendCap = 2
  BroadcastCap = 2
  BufferSize = 2
  None = 0
  MaxSnap = 3
  Snapshots <- MCSnapshots
CHECK_DEADLOCK FALSE
INVARIANTS TypeOK OnlyLateHistoryPanics LiveInOrder
PROPERTIES RefinesHistory CatchesUp GoroutinesEnd
