CONSTANTS
  app = app
  peer = peer
  up = up
  Faces = {app, peer, up}
  LocalFaces = {app}
  Nonces = {1, 2}
  DefaultLifetime = 2
  Interests <- PromiseInterests
  Datas <- PromiseDatas
  Routes <- PromiseRoutes
  LateFaces = {up}
  StrategyOf <- PromiseStrategy
  StragglerTime = 1
  DnlLifetime = 2
  InitialInterval = 1
  MaxInterval = 2
  NoFace = NoFace
  NoTimer = NoTimer
  Horizon = 1
  MaxTime = 3
  Budget = 3
SPECIFICATION FairSpec
INVARIANTS FibFacesUp LocalhostConfined
PROPERTIES ImplementsPromise PendingDrains
CHECK_DEADLOCK FALSE
