SPECIFICATION SymbolsSpec
CONSTANTS
  Home = "main-graph"
  Containers = {"main-graph", "lib"}
  MainClass = "A"
  Classes = {"A", "B"}
  Variables = {"v"}
  Functions = {"f", "g"}
  Events = {"e"}
  MaxCommands = 5
INVARIANTS DeclaredOnce OnlyKeptReferencesBreak ChainIsLinear
PROPERTIES FixAllResolves
CHECK_DEADLOCK FALSE
