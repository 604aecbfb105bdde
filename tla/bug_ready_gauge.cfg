\* A signal while a flush publishes its outcome.
SPECIFICATION Spec
CONSTANTS
  DatabaseEnabled = TRUE
  BatchSize = 2
  SetupAttempts = 2
  KafkaAttempts = 2
  WriteAttempts = 2
  Faults = {"sigterm"}
  MaxFaults = 1
  MaxEvents = 2
  MaxLives = 1
INVARIANT
  GaugeIsReadiness
CHECK_DEADLOCK FALSE
