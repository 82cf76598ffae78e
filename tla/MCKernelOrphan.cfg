CONSTANTS
  MaxTid = 2
  LowestPrio = 1
  CreatePrios = {0}
  HeapCap = 5
  MboxCap = 5
  Events = {e1, "READY"}
  Sources = {e1}
  Msgs = {m1}
  BootParent = 99
  NoMsg = NoMsg
  NoEvent = NoEvent
SPECIFICATION Spec
CHECK_DEADLOCK FALSE
INVARIANTS
  SendersHaveReceiver
