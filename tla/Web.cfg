SPECIFICATION Spec
CONSTANTS
  Post <- MCPost
  Uid <- MCPost
  Key = {"a", "b"}
  Label = {"install"}
  NoLabel = "none"
  Deletes <- MCDeletes
  Requests <- MCRequests
  Target <- MCTarget
  Client <- MCClients
  Mark = {"Succeeded", "Failed"}
  MaxTasks = 1
CHECK_DEADLOCK FALSE
INVARIANTS MapTellsRuns StoppedLeavesNothing LabelClashes
