\* Requests over three ticks, workers killed, a second master. "live" and
\* "unmatched" are left out: they do what "metrics" does, with fewer statuses.
SPECIFICATION Spec
CONSTANTS
  Pid = {1, 2, 3}
  Workers = 2
  Kinds = {"token", "query", "ready", "metrics"}
  Client = {c1, c2}
  LimitPerWindow = 1
  Window = 2
  Faults = {"kill", "boot", "db"}
  MaxFaults = 2
  MaxRequests = 3
  MaxClock = 2
SYMMETRY ClientSymmetry
INVARIANTS
  SignalsAreExact
  IdleIsClean
  AttemptsBounded
CHECK_DEADLOCK FALSE
