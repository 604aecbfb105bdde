\* A custom rule without a severity.
SPECIFICATION Spec
CONSTANTS
  e1 = e1
  e2 = e2
  e3 = e3
  low = low
  high = high
  odd = odd
  bad = bad
  late = late
  Event = {e1, e2, e3}
  Rule = {low, high, odd, bad, late}
  DefaultRules <- MCDefault
  CustomRules <- MCCustom
  Malformed = {bad}
  Unsendable = {odd}
  Matches <- MCMatches
  Score <- MCScore
  Actions <- MCActions
  Hooks = 2
  Cooldown <- MCCooldown
  Topic <- MCTopic
  BatchSize = 2
  MaxSeenIds = 2
  MaxClock = 2
  MaxFaults = 0
INVARIANT
  NothingIsLost
CHECK_DEADLOCK FALSE
