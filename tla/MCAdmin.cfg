SPECIFICATION AdminSpec
CONSTANTS
  Admins = {a, b}
  GroupNames = {"g", "n"}
  Accounts = {"x", "y"}
  BoundKeys = {"k"}
  Members <- MCMembers
  Refreshers = {r}
  MaxGroupCalls = 2
  MaxUpsets = 1
  Urls = {"u", "d"}
  Dead = {"d"}
  Checks = {"task", "page"}
  Background = "task"
  ProxyAccounts <- MCProxyAccounts
  NoProxy = "none"
  MaxProbeFailures = 2
  MaxPoolCalls = 2
  MaxPoolRestarts = 1
  Logins = {"s", "t"}
  Pollers = {c, d}
  Targets = {"x"}
  NewAccount = "new"
  Old = "old"
  Ports = 1
  Offers <- MCOffers
  Keys = {"k"}
  Batch <- MCBatch
  Workers = {v}
  Page = page
  PageUploads = {"t"}
  MaxId = 3
  MaxDeletions = 1
  MaxAccountRestarts = 1
INVARIANTS RenameKeepsIsolation PoolIsTrue LoginsDeliver ImportsKeepTheirWord IdsAreNotReused
PROPERTIES DeadProxiesRetire PortsComeBack
CHECK_DEADLOCK FALSE
