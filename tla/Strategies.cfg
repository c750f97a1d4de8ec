SPECIFICATION StSpec
CONSTANTS
  Upstreams = {"u1", "u2"}
  Downstreams = {"d1"}
  Hops <- MCHops
  MaxInterests = 3
  MaxTimers = 3
  MaxChanges = 1
  DataLevels = {2}
  ChoiceLevels = {2}
  MayAbstain = TRUE
  NoFace = NoFace
  NoEntry = NoEntry
  NoInfo = NoInfo
INVARIANT AssumptionsHold
PROPERTY EveryHopTried
CHECK_DEADLOCK FALSE
