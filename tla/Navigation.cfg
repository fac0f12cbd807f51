CONSTANTS
  Functions = {"f"}
  Containers = {"c"}
  Nodes = {"node", "entry"}
  NodesIn <- MCNodesIn
  EntryNode <- MCEntryNode
  Views = {"canvas", "references"}
  Cameras = {"v"}
  FirstOpen <- MCFirstOpen
  FirstThere = {"f", "c"}
  Slices <- MCSlices
  MaxEntries = 6
  MaxActs = 3
SPECIFICATION NavSpec
INVARIANTS PlaceIsRecorded BackLandsOnThePlace
PROPERTIES DwellsKeepPlaces NavigationResumes
CHECK_DEADLOCK FALSE
