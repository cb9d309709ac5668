CONSTANTS
  FRAME_BUFFER = 2
  Coalesce = TRUE
  MaxFrames = 3
  MaxNotices = 2
  MaxArrivals = 2
  SocketSize = 2
SPECIFICATION FairSpec
INVARIANTS ClientTypeOK LittleSentAlone RendersNewest
PROPERTIES RunEnds FramesFlow FramesRendered
CHECK_DEADLOCK FALSE
