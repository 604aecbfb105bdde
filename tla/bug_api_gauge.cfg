\* A worker dies after a good check.
SPECIFICATION Spec
CONSTANTS
  Pid = {1, 2, 3}
  Workers = 1
  Kinds = {"ready"}
  Client = {c1}
  LimitPerWindow = 1
  Window = 1
  Faults = {"kill", "db"}
  MaxFaults = 2
  MaxRequests = 2
  MaxClock = 0
INVARIANT
  OutageIsShown
CHECK_DEADLOCK FALSE
