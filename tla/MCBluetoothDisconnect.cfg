CONSTANTS
  MaxConns = 1
  MaxWrites = 0
  MaxReads = 0
  MaxReminders = 0
  RelayCap = 1
  SlowRadio = TRUE
  PatientPeer = FALSE
  ValidPeer = TRUE
  ServersUp = TRUE
SPECIFICATION Spec
CHECK_DEADLOCK FALSE
INVARIANTS
  BluetoothSurvives
