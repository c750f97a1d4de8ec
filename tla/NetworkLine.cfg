CONSTANTS
  app = app
  core1 = core1
  core2 = core2
  bridge = bridge
  r1 = r1
  r2 = r2
  producer = producer
  Faces = {app, core1, core2}
  LocalFaces = {app}
  Nonces = {1, 2}
  DefaultLifetime = 1
  Interests <- MCInterests
  Datas = {}
  Routes <- MCRoutes
  LateFaces = {}
  StrategyOf <- MCStrategy
  StragglerTime = 1
  DnlLifetime = 2
  InitialInterval = 1
  MaxInterval = 2
  NoFace = NoFace
  NoTimer = NoTimer
  BridgeName <- bridgeName
  BridgeNode = bridge
  Producers = {producer}
  CoreFaces = {core1, core2}
  PeerOf <- MCPeers
  Freshness = 0
  Horizon = 0
  MaxTime = 2
  Budget = 2
  MaxLost = 1
  Routers = {r1, r2}
  InitialRoutes <- LineRoutes
  RouterRoutes <- LineUpdates
SPECIFICATION FairNetSpec
INVARIANTS PacketConservation NamesRestored
PROPERTIES CoreDrains
CHECK_DEADLOCK FALSE
