SPECIFICATION Spec

CONSTANTS
  e1 = e1
  e2 = e2
  e3 = e3
  inv = inv
  rej = rej
  unenc = unenc
  web = web
  app = app
  NoPayload = NoPayload
  Payload = {e1, e2, e3}
  ClassOf <- MCClassOf
  HostOf <- MCHostOf
  DatabaseEnabled = TRUE
  BatchSize = 2
  MaxSeenIds = 4
  Faults = {"sigterm"}
  MaxFaults = 1
  MaxTopic = 4

INVARIANT
  CleanStopIsOnRecord
CHECK_DEADLOCK FALSE
