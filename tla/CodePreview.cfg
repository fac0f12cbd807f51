CONSTANTS
  Modules = {"main"}
  Functions = {"f"}
  Maps = {"map"}
  Broken = {1}
  Places = {"folder"}
  MaxEdits = 3
  MaxActs = 3
  MaxRuns = 1
SPECIFICATION Spec
INVARIANTS InSyncIsTrue
PROPERTIES FrozenWhilePaused CatchesUp
CHECK_DEADLOCK FALSE
