CONSTANTS
  f1 = f1
  f2 = f2
  f3 = f3
  f4 = f4
  RibFaces = {f1, f2, f3, f4}
  NoName = NoName
  NoEvent = NoEvent
  Requests <- LevelRequests
  LateRibFaces = {}
  MortalRibFaces = {f3}
  MAX_NUM_TIMEOUTS = 1
  MaxRequests = 5
  MaxQueued = 0
  MaxTimeouts = 0
  MaxLostNotices = 0
  NoDataset = NoDataset
SPECIFICATION RibSpec
INVARIANTS TreeIsPrefixTree FibMatchesRib
