CONSTANTS
  None = None
  m1 = m1
  m2 = m2
  Machine = {m1, m2}
  NameOrder <- MCNameOrder
  Saves = {s1, s2}
  MaxNodes = 2
  MaxOps = 0
  MaxFaults = 1
  NewNodes <- MCNewNodes
  EditedNodes <- MCEditedNodes
  OsName <- MCOsName
  InitialInv <- MCInitialInv
SPECIFICATION FairSpec
PROPERTY HostsKept
CHECK_DEADLOCK FALSE
