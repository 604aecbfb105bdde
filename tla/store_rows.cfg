\* Every fault, with rows in every order and one that is refused.
SPECIFICATION Spec
CONSTANTS
  start = start
  end = end
  file = file
  s1 = s1
  Event = {start, end, file}
  Session = {s1}
  Kind <- MCKind
  SessionOf <- MCSessionOf
  Stamp <- MCStamp
  RefusedIn <- FileRefused
  Topic <- AnyOrder
  ArchiveDays = 0
  RetentionDays = 1
  ArchiveLimit = 3
  MaxAttempts = 2
  FaultKind = {"crash", "disk", "connection", "flush_timeout", "retention_timeout"}
  MaxFaults = 1
  MaxDay = 2
INVARIANTS
  TypeOK
  AckedIsKept
  SessionsClose
PROPERTY
  DeletesAreDue
CHECK_DEADLOCK FALSE
