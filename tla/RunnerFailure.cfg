SPECIFICATION Spec
CONSTANTS
  Parts = {"daemon"}
  Remotes = {r1, own}
  Wildcard = any
  Own = {own}
  Locals = {any}
  Factories = {"tcp", "udp", "ws"}
  Schemes = {"tcp", "udp", "ws", "ether"}
  Listeners = {{"tcp", "udp"}, {"ws", "unix"}}
  IdleTimeout = 1
  MaxFaces = 2
  MaxRequests = 2
  BufferSize = 3
  Inputs <- MCInputs
  MaxSends = 2
  RibNames <- MCRibNames
  Identities <- MCIdentities
  nRetries = 1
  MaxChanges = 5
  MaxFailures = 1
  Files <- MCFiles
  DefaultLimit = 9
  Invalid = Invalid
  Strategies = {"best-route", "ncc"}
  MaxEdits = 2
  MaxMulticast = 2
  MaxStarts = 2
  SizeBits = 4
PROPERTY NrdFailureEndsNfd
CHECK_DEADLOCK FALSE
