CONSTANTS
  Prios = {0, 1}
  Tds = {t1, t2}
  Cap = 6
  MaxInserts = 7
  None = None
  NNodes = 10
  NKeys = 9
  NElems = 5
  NRanks = 2
  RingCap = 4
  Senders = {s1, s2}
  NoSender = NoSender
  NsNames = {1, 2, 3, 4}
  NsTids = {7, 8}
  Bucksz = 2
  HtCap = 4
  Width = 8
  Cells = 6
  Chars = {1, 2}
  StrLen = 3
  LongBits = 5
  CharBits = 2
  NtoaCap = 6
  PrintArgs = {0, 9, 16, 31}
  WidthArgs <- Widths
  PrecArgs <- Precs
  Rooms = {0, 3}
  MaxLvl = 3
  NumPages = 8
  FirstPage = 15
  Reserved = 1
  PgCells = 4
  DspCells = 1
  MgrCells = 1
  RootCells = 1
  NSegs = 2
  Bounds = {0, 2, 4, 8, 12, 14, 16, 20, 24}
  SlabPages = {p1, p2, p3}
  ObjN = 2
  ObjSz = 2
  HdrSize = 2
  Paddings = {2}
  Half = 4
  Scale = 2
  MaxTime = 7
  Align = 4
  PageCells = 4
  LargestLvl = 2
  MaxText = 2
  MaxGap = 1
  MaxData = 2
  MaxBss = 2
  MmapFails = FALSE
  Entries = 8
  NSlices = 4
  DataBase = 1
  DeviceBase = 30
  SlabPgSz = 64
  SlabHdr = 30
  MinObjSz = 2
  SlabMgrCap = 2
  ObjNMax = 8
  EndPadding = 8
  ByteVals = 4
  AlignSfts = {0, 1, 2, 3}
SPECIFICATION LibrarySpec
CHECK_DEADLOCK FALSE
INVARIANTS
  TreeSound
  HelpersExact
  PrintfExact
  BlocksPartition
  RootsSound
  FreeListIsFreeObjects
  ImageAsLinked
  EncoderFollows
  LayoutsExact
  TimerExact
PROPERTIES
  ImplementsPrioFifo
  ImplementsOrderedSet
  ImplementsTwoLists
  RingIsFifo
  DirectoryExact
  PageOnlyWhenFull
