SPECIFICATION Spec

CONSTANTS
  bash1 = bash1
  bash2 = bash2
  inotify = inotify
  timer = timer
  NoProcess = NoProcess
  Shell = {bash1}
  Watcher = {inotify}
  Flusher = {timer}
  KafkaEnabled = TRUE
  MaxSpool = 3
  KeepNewest = 1
  MaxRetries = 2
  Faults = {}
  MaxFaults = 0
  MaxEvents = 2

INVARIANT
  SpooledIsDelivered

CHECK_DEADLOCK FALSE
