CONSTANTS
  app = app
  peer = peer
  up = up
  Faces = {app, peer, up}
  LocalFaces = {app}
  Nonces = {1, 2}
  DefaultLifetime = 2
  Interests <- RetxInterests
  Datas <- RetxDatas
  Routes <- RetxRoutes
  LateFaces = {}
  StrategyOf <- RetxStrategy
  StragglerTime = 1
  DnlLifetime = 2
  InitialInterval = 1
  MaxInterval = 2
  NoFace = NoFace
  NoTimer = NoTimer
  Horizon = 2
  MaxTime = 4
  Budget = 4
SPECIFICATION Spec
INVARIANTS TypeOK TimerDiscipline FlowBalance UnansweredNonceRemembered
PROPERTIES NoPrematureExpiry
CHECK_DEADLOCK FALSE
