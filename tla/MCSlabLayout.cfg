CONSTANTS
  SlabPages = {s1}
  ObjN = 3
  ObjSz = 2
  HdrSize = 2
  Paddings = {0, 1, 2}
SPECIFICATION SlabSpec
CHECK_DEADLOCK FALSE
INVARIANTS
  FreeListIsFreeObjects
