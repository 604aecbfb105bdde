\* Rows that expire before the archive query looks for them.
SPECIFICATION Spec
CONSTANTS
  start = start
  end = end
  file = file
  s1 = s1
  Event = {start, end, file}
  Session = {s1}
  Kind <- MCKind
  SessionOf <- MCSessionOf
  Stamp <- MCStamp
  RefusedIn <- NoneRefused
  Topic <- InOrder
  ArchiveDays = 2
  RetentionDays = 0
  ArchiveLimit = 3
  MaxAttempts = 1
  FaultKind = {}
  MaxFaults = 0
  MaxDay = 2
PROPERTY
  DeletesAreDue
CHECK_DEADLOCK FALSE
