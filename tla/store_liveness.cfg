\* No faults: the retention thread gets its work done.
SPECIFICATION FairSpec
CONSTANTS
  start = start
  end = end
  file = file
  s1 = s1
  Event = {start, end, file}
  Session = {s1}
  Kind <- MCKind
  SessionOf <- MCSessionOf
  Stamp <- MCStamp
  RefusedIn <- FileRefused
  Topic <- AnyOrder
  ArchiveDays = 0
  RetentionDays = 1
  ArchiveLimit = 1
  MaxAttempts = 1
  FaultKind = {}
  MaxFaults = 0
  MaxDay = 2
PROPERTY
  ExpiredRowsGo
CHECK_DEADLOCK FALSE
