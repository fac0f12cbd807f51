CONSTANTS
  a = a
  b = b
  p = p
  q = q
  Nodes = {a, b}
  Wires <- OneWire
  Layouts = {p, q}
  MaxHistory = 2
  NoEdit = NoEdit
  MaxApplying = 1
  ForwardSteps = 1
SPECIFICATION Spec
INVARIANTS
  HistoryBounded
PROPERTIES
  NewerLostOnlyByRecording
  ImplementsTimeline
SYMMETRY LayoutSymmetry
