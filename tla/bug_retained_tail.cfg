\* The retention deletes the beginning of a chain.
SPECIFICATION Spec
CONSTANTS
  a = a
  b = b
  s = s
  t = t
  Event <- MCEvent
  Stamp <- MCStamp
  HostOf <- MCHost
  SessionOf <- MCSession
  Opens = {1}
  Closes = {3}
  Prev <- MCPrev
  Unsigned = {5}
  Genesis = 0
  Filters <- MCFilters
  PageSize = 2
  BatchSize = 2
  Ordered = TRUE
  KeepTicks = 2
  MaxClock = 5
  MaxSearches = 0
INVARIANT
  UntamperedPasses
CHECK_DEADLOCK FALSE
