SPECIFICATION Spec
CONSTANTS
  GraphOrder <- MainAndFunction
  Places = {"folder", "browser"}
  AutoSaves = {TRUE}
  MaxEdits = 3
  MaxJobs = 2
INVARIANTS CleanMeansSaved SymbolsFollowGraphs AutoSaveWillCome
PROPERTIES SavedWorkStays
