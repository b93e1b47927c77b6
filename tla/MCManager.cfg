SPECIFICATION ManagerSpec
CONSTANTS
  r1 = r1
  r2 = r2
  MaxId = 2
  Request = {r1, r2}
  Mcp = {r2}
  Serves <- MCServes
  InGroup <- MCServes
  StickyFactor <- MCStickyFactor
  Limit <- MCLimit
  MaxFailures = 2
  InitialCounts = {2}
  Priorities <- MCPriorities
  RetriesPerCredential = 2
  MaxTotalRetries = 2
  MaxReloads = 1
  Task = {t1, t2}
  NoTask = NoTask
  Torn = Torn
  Absent = Absent
  MaxVersion = 3
INVARIANTS SlotFollowsCall AckedIsDurable
PROPERTIES ImplementsPool CallEnds ImplementsDurableStore SaveReturns
