SPECIFICATION Spec
CONSTANTS
  Kinds <- MCKinds
  PinsIn <- MCPinsIn
  PinsOut <- MCPinsOut
  Starts <- MCStarts
  FirstId = 4
  MaxNodes = 4
  MaxActs = 3
  ControlPins <- MCControlPins
  ValuePins <- MCValuePins
  Deepens = {}
  Silent = {"value"}
  Depth = 8
  StackLimit = 3
INVARIANTS ReroutesAreTransparent
CHECK_DEADLOCK FALSE
