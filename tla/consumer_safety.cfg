SPECIFICATION FairSpec

CONSTANTS
  e1 = e1
  e2 = e2
  e3 = e3
  inv = inv
  rej = rej
  unenc = unenc
  web = web
  app = app
  NoPayload = NoPayload
  Payload = {e1, inv, rej, unenc}
  ClassOf <- MCClassOf
  HostOf <- MCHostOf
  DatabaseEnabled = TRUE
  BatchSize = 2
  MaxSeenIds = 2
  Faults = {"db", "conn", "file", "dlq", "commit", "crash", "sigterm", "loop", "rejoin"}
  MaxFaults = 2
  MaxTopic = 3

INVARIANTS
  TypeOK
  FlushSerialised
  DuplicateIsCovered
  NothingVanishes
  FilesFollowDatabase
  ReadinessHonest

PROPERTIES
  ImplementsContract
  StopsAtNextLine

CHECK_DEADLOCK FALSE
