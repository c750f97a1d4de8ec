CONSTANTS
  f1 = f1
  f2 = f2
  f3 = f3
  f4 = f4
  RibFaces = {f1, f2}
  NoName = NoName
  NoEvent = NoEvent
  Requests <- FaceRequests
  LateRibFaces = {}
  MortalRibFaces = {}
  MAX_NUM_TIMEOUTS = 1
  MaxRequests = 2
  MaxQueued = 0
  MaxTimeouts = 1
  MaxLostNotices = 0
  NoDataset = NoDataset
SPECIFICATION RibSpec
INVARIANT NoStrayNextHop
