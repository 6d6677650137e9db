CONSTANTS
  Bounds <- SessionBehaviours
  session_timeout = 1
  CheckEvery = 2
  Websockets = {w1}
  Pages <- AllPages
  Included <- IncludeFiles
  Globals <- AppGlobals
  Parameters <- RequestParameters
  Elements = {1, 2}
  MaxList = 4
  Keys = {"k1", "k2", "k3", "k4"}
  MapValues = {1, 2}
  KeyHash <- Hashes
  Capacity = 2
  MapSteps = 5
  NoValue = NoValue
  Contents = {"c1", "c2", "c3"}
  Size <- Sizes
  Times = {1, 2, 3}
  MinuteTicks = 2
  Conditions <- Clients
  FileKinds <- FileStores
  MaxWrites = 2
  MaxRequests = 3
  MaxBodies = 1
  Blocks = {1, 2}
  Backends <- SelectWebsockets
  MaxConns = 3
  MaxBatch = 3
SPECIFICATION Spec
INVARIANT EventsReachTheirConnection
CHECK_DEADLOCK FALSE
