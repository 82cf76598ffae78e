CONSTANTS
  Players = {"alice", "bob", "charles", "darwin"}
  MaxGames = 2
  UClients = {c1, c2}
  Chans = {"term", "marklin"}
  EarlyChans = {"term"}
  InputBufCap = 1
  WaitCap = 1
  OutputBufCap = 2
  FifoCap = 1
  PutLens = {0, 2}
  CkClients = {c1, c2}
  CkCap = 2
  RetryLimit = 2
  RetrySep = 2
  MaxDelay = 2
  MaxDepth = 3
  SpiFifoCap = 4
  TempCap = 3
  MaxString = 5
SPECIFICATION ProgramsSpec
CHECK_DEADLOCK FALSE
INVARIANTS
  PartnersPresent
  WaitersHaveNotifier
  StringWritten
PROPERTIES
  DelaysExact
  AllFinish
  CallsReturn
