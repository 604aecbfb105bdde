SPECIFICATION FairSpec

CONSTANTS
  e1 = e1
  e2 = e2
  e3 = e3
  inv = inv
  rej = rej
  unenc = unenc
  web = web
  app = app
  NoPayload = NoPayload
  Payload = {e1, e2, e3, rej}
  ClassOf <- MCClassOf
  HostOf <- MCHostOf
  DatabaseEnabled = TRUE
  BatchSize = 2
  MaxSeenIds = 4
  Faults = {"db", "commit"}
  MaxFaults = 2
  MaxTopic = 4

INVARIANTS
  NoDuplicateLines
  FilesInOrder
  ExposureBounded

PROPERTY
  EventuallySettled

CHECK_DEADLOCK FALSE
