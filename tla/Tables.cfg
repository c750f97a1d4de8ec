SPECIFICATION Spec
CONSTANTS
  ComponentHash <- MCHash
  Hash32Bits = 4
  MinBuckets = 2
  EnlargePercent = 50
  ShrinkPercent = 30
  FibNames <- MCFibNames
  PitNames <- MCPitNames
  ChoiceNames <- MCChoiceNames
  QueryNames <- MCQueryNames
  Strategies <- MCStrategies
  Requested <- MCRequested
  DefaultStrategy <- MCDefault
  InitialLifetime = 1
  Lifetimes <- MCLifetimes
  Packets <- MCPackets
  Freshness <- MCFreshness
  Lookups <- MCLookups
  Limits = {2, 3}
  Policies = {"fifo", "lru"}
  INITIAL_CAPACITY = 12
  MIN_CAPACITY = 8
  MAX_CAPACITY = 40
  EXPECTED_MARK_COUNT = 5
  EVICT_LIMIT = 6
  Rates = {0, 2, 5}
  MaxRateChanges = 1
  Senders = {s1, s2}
  Links <- MCLinks
  MaxPackets = 2
  MaxCopies = 1
  SeqBits = 17
  MaxRestarts = 1
  RestartsQuickly = FALSE
  NoPayload = NoPayload
INVARIANTS NameTreeSound MatchesAreLongest InfoIsOfEffectiveStrategy
  QueuesMatchTable LookupIsSelective SlicesFit DeliveredWhole
PROPERTIES FreshDataLast LifetimeSettles
CHECK_DEADLOCK FALSE
