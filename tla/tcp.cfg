SPECIFICATION Spec
CONSTANTS
  M = 32
  Isn = 29
  PeerIsn = 1
  MaxBytes = 2
  Mss = 2
  RECEIVE_WINDOW = 2
  MaxRetry = 2
  MaxFin = 2
  FinMerges = FALSE
  LateSynAck = FALSE
INVARIANTS NothingForgotten AckHonest
PROPERTIES PeerGetsStream ApplicationGetsStream ClosedIsFreed
CHECK_DEADLOCK FALSE
