SPECIFICATION Spec
CONSTANTS
  Node <- ProjectNodes
  Tree <- ProjectTree
  Plays <- ProjectPlays
  OnlyTags <- ProjectOnly
  SkipTags <- ProjectSkip
  Conds = {"c1", "c2"}
  MayCancel = TRUE
  FaultsHappen = TRUE
INVARIANTS AlwaysRuns RescueIffFailed EscapeFails HostsCovered
