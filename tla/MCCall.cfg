INIT CallInit
NEXT CallNext
CONSTANTS
  r1 = r1
  r2 = r2
  MaxId = 2
  Request = {r1, r2}
  Serves <- MCServes
  StickyFactor <- MCStickyFactor
  Limit <- MCLimit
  MaxFailures = 2
  InitialCounts = {1, 2}
  Priorities <- MCPriorities
  ToolIds = {"t1", "t2"}
  Menu <- MCMenu
  MaxEmptyRetries = 2
  RepeatTrip = 3
  MaxInvokeHold = 5
INVARIANTS GroupIsolation
  BlocksWellFormed NothingLost SplitAsWhole ToolCallsWhole OutcomeIsTrue
PROPERTIES OnlyFailuresHeal RetryDropsNothing
CONSTRAINT FallbackBound
CHECK_DEADLOCK FALSE
