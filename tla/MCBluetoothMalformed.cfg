CONSTANTS
  MaxConns = 2
  MaxWrites = 2
  MaxReads = 1
  MaxReminders = 0
  RelayCap = 1
  SlowRadio = TRUE
  PatientPeer = TRUE
  ValidPeer = FALSE
  ServersUp = FALSE
SPECIFICATION Spec
CHECK_DEADLOCK FALSE
INVARIANTS
  SafeWithAnyPeer
