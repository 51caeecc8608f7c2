SPECIFICATION Spec
CONSTANTS
  Frames = {f1, f2, f3}
  Sockets = {s1}
  NULL = NULL
  FRAME_COUNT_SYNC = 1
  FRAME_COUNT_SEND = 0
  FRAME_COUNT_RCV = 0
  RETRANSMIT_TIME = 50
  SOCKET_TIMEOUT = 1
  MaxRetry = 1
SYMMETRY FrameSymmetry
INVARIANTS FramesSound MessagesTaken
CHECK_DEADLOCK FALSE
VIEW FrameView
