\* A statement of the retention thread times out during a flush.
SPECIFICATION Spec
CONSTANTS
  start = start
  end = end
  file = file
  s1 = s1
  Event = {start, end, file}
  Session = {s1}
  Kind <- MCKind
  SessionOf <- MCSessionOf
  Stamp <- MCStamp
  RefusedIn <- NoneRefused
  Topic <- InOrder
  ArchiveDays = 0
  RetentionDays = 1
  ArchiveLimit = 3
  MaxAttempts = 2
  FaultKind = {"retention_timeout"}
  MaxFaults = 1
  MaxDay = 1
INVARIANT
  AckedIsAlwaysKept
CHECK_DEADLOCK FALSE
