CONSTANTS
  app = app
  peer = peer
  core = core
  Faces = {app, peer, core}
  LocalFaces = {app}
  Nonces = {1, 2}
  DefaultLifetime = 2
  Interests <- EdgeInterests
  Datas <- EdgeDatas
  Routes <- EdgeRoutes
  LateFaces = {core}
  StrategyOf <- EdgeStrategy
  StragglerTime = 1
  DnlLifetime = 2
  InitialInterval = 1
  MaxInterval = 2
  NoFace = NoFace
  NoTimer = NoTimer
  BridgeName <- bridge
  Horizon = 2
  MaxTime = 4
  Budget = 4
SPECIFICATION BridgeSpec
INVARIANT TimerDiscipline
PROPERTY BridgeImplementsPromise
CHECK_DEADLOCK FALSE
