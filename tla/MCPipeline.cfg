SPECIFICATION MCSpec
CONSTANTS
  ack = ack
  NoRun = NoRun
  RunIds <- Turns
  Chunks <- MCChunks
  AckChunks = {ack}
  MediaPaths = {}
  MediaIn <- MCMediaIn
  Directives = {}
  Cleaned <- MCCleaned
  ToolCalls = {}
  PRIVATE_ACK_GRACE = 1
  LIFECYCLE_END_GRACE = 1
  EMPTY_FINAL_GRACE = 1
  BASE_RECV_TIMEOUT = 1
  COMPACTION_RECV_TIMEOUT = 1
  MAX_PROVENANCE_PARTS_PER_TURN = 1
  Recovered <- Reply
  MaxTurns = 3
  FramesOf <- AllFrames
  MaxText = 2
  WritesMayFail = TRUE
INVARIANTS TypeOK TurnsDoNotMix ReportsStayWithTheirRun StreamingIsDriven FinalizedOnce
PROPERTIES FinalTextStays
CHECK_DEADLOCK FALSE
