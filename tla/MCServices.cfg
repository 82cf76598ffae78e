CONSTANTS
  ClockClients = {1, 2}
  UrgentClients = {1}
  Quantum = 3
  MaxTicks = 2
  MaxBusy = 2
  SerialClients = {c1, c2}
  RxLens = {0, 2}
  TxLens = {1, 2}
  RxFifoCap = 1
  TxFifoCap = 1
  TxTrigger = 0
  RxBufCap = 2
  TxBufCap = 2
SPECIFICATION ServicesSpec
CHECK_DEADLOCK FALSE
INVARIANTS
  ClockOnTime
  QuietMeansArmed
  TxQueueInOrder
PROPERTIES
  NotEarly
  RequestsAnswered
