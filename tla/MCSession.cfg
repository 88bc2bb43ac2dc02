SPECIFICATION MCSpec
CONSTANTS
  MaxStarts = 4
  Ids = {1, 2}
  Conns = {1}
  Ports = {1, 2}
  NoId = NoId
  Words <- MCWords
  Hosts = {"g", "h"}
  RootPaths <- MCRootPaths
  RelPaths <- MCRelPaths
  OwnBases <- MCOwnBases
  MaxBody = 2
  MaxPath = 3
  None = None
INVARIANTS AuthIsReal OnlySilenceStrays GatewayIsOne MapFollowsTable LandsWhereMeant ChunkedIsNeverShort
PROPERTIES RemovedForwardsEnd
CHECK_DEADLOCK FALSE
