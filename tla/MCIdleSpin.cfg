SPECIFICATION Spec
CONSTANTS
  ack = ack
  NoRun = NoRun
  RunIds <- Turns
  Chunks <- MCChunks
  AckChunks = {ack}
  MediaPaths = {}
  MediaIn <- MCMediaIn
  Directives = {}
  Cleaned <- MCCleaned
  ToolCalls = {}
  PRIVATE_ACK_GRACE = 1
  LIFECYCLE_END_GRACE = 1
  EMPTY_FINAL_GRACE = 1
  BASE_RECV_TIMEOUT = 1
  COMPACTION_RECV_TIMEOUT = 1
  MAX_PROVENANCE_PARTS_PER_TURN = 1
  Recovered <- Reply
  MaxTurns = 1
  FramesOf <- RecoveryFrames
  MaxText = 1
  WritesMayFail = FALSE
INVARIANTS IdleWaitsForever
CHECK_DEADLOCK FALSE
