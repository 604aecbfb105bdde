SPECIFICATION FairSpec

CONSTANTS
  bash1 = bash1
  bash2 = bash2
  inotify = inotify
  timer = timer
  NoProcess = NoProcess
  Shell = {bash1}
  Watcher = {}
  Flusher = {timer}
  KafkaEnabled = TRUE
  MaxSpool = 2
  KeepNewest = 1
  MaxRetries = 2
  Faults = {"kill", "hash", "spool", "kafka"}
  MaxFaults = 2
  MaxEvents = 3

INVARIANTS
  BreaksAreFaults
  LossIsVisible

PROPERTY
  SpoolDrains

CHECK_DEADLOCK FALSE
