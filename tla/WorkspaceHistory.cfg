CONSTANTS
  f = f
  g = g
  FunctionIds = {f}
  Contents = {0, 1}
  Default = 0
  MaxHistory = 2
  NoEdit = NoEdit
  NoSlice = NoSlice
  MaxApplying = 1
  BackSteps = 1
  ForwardSteps = 1
SPECIFICATION Spec
INVARIANTS
  CanvasBelongsToTab
PROPERTIES
  WalkingKeepsLine
  RecordingKeepsOlder
  EditsAreRecorded
