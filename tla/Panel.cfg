SPECIFICATION PanelSpec
CONSTANTS
  DefaultPerPage = 2
  MaxPerPage = 3
  MaxEntries = 4
  TailCap = 2
  PipeCap = 1
  MaxLines = 5
  Word = 16
  MaxClock = 2
  MaxCount = 2
  Pages = {p1, p2}
  Sockets = {s1, s2, s3}
  NoSocket = NoSocket
  Units = {nginx, redis}
  protectedServices = {}
  ConfirmTime = 2
  NoUnit = NoUnit
  DefaultLines = 1
  MaxQueryLines = 2
  LogLength = 3
  ReleaseLog <- PanelReleaseLog
  Current <- PanelCurrent
  Writers = {g1, g2}
  MaxPairs = 3
  MaxTrouble = 1
  Keys <- MCKeys
  Order <- MCOrder
  TypeOf <- MCTypeOf
  Mounts <- MCMounts
  Warnings <- MCWarnings
  DefaultThresholds <- MCDefaultThresholds
  Values <- MCValues
  AlertIds = {1, 2}
  NoKey = "none"
  MaxFaults = 1
  MaxAlerts = 4
  MaxToasts = 2
  MaxSeconds = 2
  ViewSockets = {1, 2, 3}
  NoView = NoView
  MaxShown = 2
  MaxLogged = 3
  Calls = {1, 2}
  Endpoints = 2
  MaxChanges = 2
  Slots = {1, 2}
  LastMigration = 3
  MaxStarts = 2
CHECK_DEADLOCK FALSE
INVARIANTS PanelTypeOK LogsSound MachineSound SocketsSound PagesSound SystemSound ProcessSound AlertsFit NoticesFit
PROPERTIES LeaverReleased SignalEnds TwoInARow
