CONSTANTS
  MaxTid = 3
  LowestPrio = 1
  CreatePrios = {0, 1, 2}
  HeapCap = 2
  MboxCap = 1
  Events = {e1, "READY"}
  Sources = {e1}
  Msgs = {m1}
  BootParent = 99
  NoMsg = NoMsg
  NoEvent = NoEvent
SPECIFICATION FairSpec
CHECK_DEADLOCK FALSE
INVARIANTS
  KernelInvariant
PROPERTIES
  NoTaskLost
  StarvedByMoreUrgentOnly
