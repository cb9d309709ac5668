CONSTANTS
  FRAME_BUFFER = 2
  Coalesce = TRUE
  MaxFrames = 1
  MaxNotices = 2
  MaxArrivals = 0
  SocketSize = 0
SPECIFICATION Spec
INVARIANT PeerFlagFollows
CHECK_DEADLOCK FALSE
