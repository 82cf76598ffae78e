CONSTANTS
  MaxTid = 3
  LowestPrio = 1
  CreatePrios = {0, 1}
  HeapCap = 5
  MboxCap = 5
  Events = {e1, "SEND_BLOCKED", "RECEIVE_BLOCKED", "REPLY_BLOCKED"}
  Sources = {e1}
  Msgs = {m1, m2}
  BootParent = 99
  NoMsg = NoMsg
  NoEvent = NoEvent
SPECIFICATION Spec
CHECK_DEADLOCK FALSE
INVARIANTS
  WaitListsAgree
  HeapHoldsReady
  NoMissedRendezvous
PROPERTIES
  ImplementsRendezvous
