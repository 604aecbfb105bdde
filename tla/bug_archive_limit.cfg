\* More old rows than the archive query takes.
SPECIFICATION Spec
CONSTANTS
  start = start
  end = end
  file = file
  s1 = s1
  Event = {start, end, file}
  Session = {s1}
  Kind <- MCKind
  SessionOf <- MCSessionOf
  Stamp <- MCStamp
  RefusedIn <- NoneRefused
  Topic <- InOrder
  ArchiveDays = 0
  RetentionDays = 1
  ArchiveLimit = 1
  MaxAttempts = 1
  FaultKind = {}
  MaxFaults = 0
  MaxDay = 2
PROPERTY
  DeletesAreDue
CHECK_DEADLOCK FALSE
