\* Two rows of one instant, and a client that pages.
SPECIFICATION Spec
CONSTANTS
  a = a
  b = b
  s = s
  t = t
  Event <- MCEvent
  Stamp <- MCStamp
  HostOf <- MCHost
  SessionOf <- MCSession
  Opens = {1}
  Closes = {3}
  Prev <- MCPrev
  Unsigned = {5}
  Genesis = 0
  Filters <- MCFilters
  PageSize = 1
  BatchSize = 2
  Ordered = FALSE
  KeepTicks = 9
  MaxClock = 0
  MaxSearches = 1
INVARIANT
  PagesMissNothing
CHECK_DEADLOCK FALSE
