SPECIFICATION Spec
CONSTANTS
  Kinds <- MCKinds
  PinsIn <- MCPinsIn
  PinsOut <- MCPinsOut
  Starts <- MCStarts
  FirstId = 4
  MaxNodes = 4
  MaxActs = 4
INVARIANTS OneWirePerPin NoCycleOfOneType
PROPERTIES FlowSurvivesExtract
CHECK_DEADLOCK FALSE
