CONSTANTS
  N = 2
  MaxDeleted = 1
  MaxLines = 1
SPECIFICATION FairSpec
INVARIANTS
  ShownIsReal
  AbortLasts
PROPERTIES
  ImplementsView
  EndIsShown
CHECK_DEADLOCK FALSE
