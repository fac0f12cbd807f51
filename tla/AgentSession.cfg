CONSTANTS
  MaxRuns = 2
  MaxRounds = 3
  MaxCalls = 2
  MaxRemounts = 1
  NoRun = NoRun
SPECIFICATION FairSpec
CHECK_DEADLOCK FALSE
INVARIANTS
  AnswersMatchCalls
  OnlyWithdrawnRunsHang
PROPERTY EveryRunEnds
