SPECIFICATION FairSpec

CONSTANTS
  bash1 = bash1
  bash2 = bash2
  inotify = inotify
  timer = timer
  NoProcess = NoProcess
  Shell = {bash1, bash2}
  Watcher = {inotify}
  Flusher = {timer}
  KafkaEnabled = FALSE
  MaxSpool = 3
  KeepNewest = 1
  MaxRetries = 2
  Faults = {"signal"}
  MaxFaults = 1
  MaxEvents = 3

PROPERTY
  EmitReturns

CHECK_DEADLOCK FALSE
