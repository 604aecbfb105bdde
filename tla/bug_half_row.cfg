\* The retention thread commits half of a row.
SPECIFICATION Spec
CONSTANTS
  start = start
  end = end
  file = file
  s1 = s1
  Event = {start, end, file}
  Session = {s1}
  Kind <- MCKind
  SessionOf <- MCSessionOf
  Stamp <- MCStamp
  RefusedIn <- FileRefused
  Topic <- InOrder
  ArchiveDays = 0
  RetentionDays = 1
  ArchiveLimit = 3
  MaxAttempts = 1
  FaultKind = {}
  MaxFaults = 0
  MaxDay = 1
INVARIANT
  DeadLettersAreNotStored
CHECK_DEADLOCK FALSE
