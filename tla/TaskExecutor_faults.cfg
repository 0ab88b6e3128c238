SPECIFICATION FairSpec
CONSTANTS
  h1 = h1
  h2 = h2
  a = a
  b = b
  NoItem = NoItem
  Hosts <- MCHosts
  HostList <- MCHostList
  Items <- MCItems
  Loops <- MCOneItem
  MaxRetries = 1
  MaxTasks = 1
  VariableMayFail = TRUE
CHECK_DEADLOCK FALSE
INVARIANTS RegisteredErrorFails
PROPERTIES TaskReturns
