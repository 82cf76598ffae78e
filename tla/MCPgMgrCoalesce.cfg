CONSTANTS
  MaxLvl = 3
  NumPages = 8
  FirstPage = 15
  Reserved = 1
SPECIFICATION PgMgrSpec
CHECK_DEADLOCK FALSE
INVARIANTS
  FreeBuddiesCombine
