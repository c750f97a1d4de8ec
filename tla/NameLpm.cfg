SPECIFICATION NtSpec
CONSTANTS
  ComponentHash <- MCHash
  Hash32Bits = 4
  MinBuckets = 2
  EnlargePercent = 50
  ShrinkPercent = 30
  FibNames <- RepeatedFibNames
  PitNames <- RepeatedPitNames
  ChoiceNames <- RepeatedChoiceNames
  QueryNames <- RepeatedQueryNames
  Strategies <- MCStrategies
  Requested <- MCRequested
  DefaultStrategy <- MCDefault
  InitialLifetime = 1
  Lifetimes <- MCLifetimes
INVARIANTS MatchesAreLongest
