\* Every fault; the gauge against the endpoint, and the retry of a flush.
SPECIFICATION FairSpec
CONSTANTS
  DatabaseEnabled = TRUE
  BatchSize = 2
  SetupAttempts = 2
  KafkaAttempts = 2
  WriteAttempts = 2
  Faults <- AllFaults
  MaxFaults = 3
  MaxEvents = 2
  MaxLives = 2
INVARIANTS
  TypeOK
  GaugeFollows
PROPERTY
  Recovers
CHECK_DEADLOCK FALSE
