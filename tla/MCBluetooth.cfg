CONSTANTS
  MaxConns = 2
  MaxWrites = 3
  MaxReads = 1
  MaxReminders = 1
  RelayCap = 1
  SlowRadio = TRUE
  PatientPeer = TRUE
  ValidPeer = TRUE
  ServersUp = TRUE
SPECIFICATION Spec
CHECK_DEADLOCK FALSE
INVARIANTS
  CommandsInOrder
  BluetoothSurvives
  GattFollowsConnection
PROPERTIES
  EveryCommandExecuted
  AdvertisesAgain
