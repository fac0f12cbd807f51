SPECIFICATION Spec
CONSTANTS
  x = x
  y = y
  z = z
  Lines = {x, y, z}
  MaxLines = 3
  MaxNodes = 4
  MaxChain = 6
  ControlPins <- MCControlPins
  ValuePins <- MCValuePins
  Deepens = {"concat"}
  Silent = {"event", "member_event", "foreign_event"}
  Depth = 4
  StackLimit = 7
INVARIANTS NothingIsLost NothingReturns
INVARIANTS ProgramFollowsFlow NothingReachedIsLost ValuesAreWhole
CHECK_DEADLOCK FALSE
