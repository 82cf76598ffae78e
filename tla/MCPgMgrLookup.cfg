CONSTANTS
  PgCells = 4
  DspCells = 1
  MgrCells = 1
  RootCells = 1
  NSegs = 2
  Bounds = {0, 2, 4, 8, 12, 14, 16, 20, 24}
SPECIFICATION PgInitSpec
CHECK_DEADLOCK FALSE
INVARIANTS
  FreeFindsRoot
