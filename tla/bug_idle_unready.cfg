\* PostgreSQL comes up after the setup gave up.
SPECIFICATION FairSpec
CONSTANTS
  DatabaseEnabled = TRUE
  BatchSize = 2
  SetupAttempts = 2
  KafkaAttempts = 2
  WriteAttempts = 2
  Faults = {}
  MaxFaults = 0
  MaxEvents = 0
  MaxLives = 1
PROPERTY
  IdleIsReady
CHECK_DEADLOCK FALSE
