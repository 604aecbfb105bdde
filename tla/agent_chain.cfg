SPECIFICATION FairSpec

CONSTANTS
  bash1 = bash1
  bash2 = bash2
  inotify = inotify
  timer = timer
  NoProcess = NoProcess
  Shell = {bash1, bash2}
  Watcher = {inotify}
  Flusher = {}
  KafkaEnabled = FALSE
  MaxSpool = 3
  KeepNewest = 1
  MaxRetries = 2
  Faults = {"kill", "log", "signal"}
  MaxFaults = 2
  MaxEvents = 4

INVARIANTS
  TypeOK

PROPERTIES
  ImplementsSignedLog
  EmitBlocksOnStuckOnly

CHECK_DEADLOCK FALSE
