\* Events, flushes and requests with failing starts, attaches and detaches.
SPECIFICATION Spec
CONSTANTS
  begin = begin
  end = end
  odd = odd
  Event <- MCEvent
  TraceOf <- MCTrace
  SpanOf <- MCSpan
  ParentOf <- MCParent
  NoId <- MCNoId
  Kept <- MCKept
  Carriers <- MCCarriers
  Main = "main"
  Timer = "timer"
  Worker = "worker"
  FaultKind = {"start", "attach", "detach"}
  MaxFaults = 1
  MaxJobs = 3
INVARIANTS
  AgentIdsAreExact
  TraceIsSampledAsOne
  StaysInItsTrace
  NothingLeaks
CHECK_DEADLOCK FALSE
