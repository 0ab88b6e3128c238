SPECIFICATION Spec
CONSTANTS
  MaxHosts = 5
  MaxEntries = 3
  Numbers <- MCNumbers
  Percents = {30, 60, 100}
  HostLists <- MCHostLists
  SerialLists <- MCSerialLists
  UserTags = {"etcd", "cni"}
  KeyOrder <- MCKeyOrder
  Forms <- MCForms
  Paths <- MCPaths
  NewValues <- MCNewValues
  MaxShown = 2
  PlaybookLists <- MCPlaybookLists
  m1 = m1
  m2 = m2
  m3 = m3
  Machine = {m1, m2, m3}
  NameOrder <- MCNameOrder
  NodeLists <- MCNodeLists
CHECK_DEADLOCK FALSE
INVARIANTS BatchesPartition SubtreeSelection YamlKeeps FieldEdits DefaultsSaved RecentIsLatest RolesReturn
