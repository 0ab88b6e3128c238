SPECIFICATION Spec
CONSTANTS
  h1 = h1
  h2 = h2
  a = a
  b = b
  NoItem = NoItem
  Hosts <- MCHosts
  HostList <- MCHostList
  Items <- MCItems
  Loops <- MCLoops
  MaxRetries = 2
  MaxTasks = 2
  VariableMayFail = FALSE
CHECK_DEADLOCK FALSE
INVARIANTS Barrier VerdictSound ItemIsolation SavedVerdict
PROPERTIES Lifecycle
