CONSTANTS
  n1 = n1
  c1 = c1
  a = a
  b = b
  r1 = r1
  r2 = r2
  x = x
  y = y
  z = z
  Ids <- MCIds
  Kinds <- MCKinds
  Handles <- MCHandles
  OutPin <- MCOutPin
  InPin <- MCInPin
  Requests = {r1, r2}
  Uploads <- MCUploads
  UploadIds <- MCUploadIds
  Asks <- MCAsks
  MaxSaves = 4
  Editors = {r1}
  Readers = {r2}
  NodeIds = {x, y, z}
  MaxSpare = 1
  MaxArrays = 4
  MaxPuts = 2
SPECIFICATION StoreSpec
SYMMETRY Symmetry
INVARIANTS EdgesJoinNodes ActiveExists
PROPERTIES LostOnlyToOverlap ReadersKeepTheirView
CHECK_DEADLOCK FALSE
