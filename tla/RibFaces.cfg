CONSTANTS
  f1 = f1
  f2 = f2
  f3 = f3
  f4 = f4
  RibFaces = {f1, f2}
  NoName = NoName
  NoEvent = NoEvent
  Requests <- FaceRequests
  LateRibFaces = {f1}
  MortalRibFaces = {f1}
  MAX_NUM_TIMEOUTS = 1
  MaxRequests = 3
  MaxQueued = 1
  MaxTimeouts = 1
  MaxLostNotices = 1
  NoDataset = NoDataset
SPECIFICATION FairRibSpec
CHECK_DEADLOCK FALSE
PROPERTIES ExpiryCovered QueueDrains LostNoticeRecovered
