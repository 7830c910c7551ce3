SPECIFICATION Spec
CONSTANTS
  own = own
  bg = bg
  NoRun = NoRun
  ack = ack
  hello = hello
  world = world
  rest = rest
  link = link
  cut = cut
  report = report
  Chunks <- MCChunks
  AckChunks <- MCAckChunks
  MediaPaths <- MCMediaPaths
  MediaIn <- MCMediaIn
  Directives <- MCDirectives
  Cleaned <- MCCleaned
  ToolCalls = {"call1"}
  PRIVATE_ACK_GRACE = 1
  LIFECYCLE_END_GRACE = 2
  EMPTY_FINAL_GRACE = 3
  BASE_RECV_TIMEOUT = 4
  COMPACTION_RECV_TIMEOUT = 6
  RunIds <- MCOneRun
  Frames <- NoFrames
  Recovered <- NothingRecovered
  MaxStream = 1
  MaxWaiting = 1
PROPERTIES ArmedWaitsFinalize
CHECK_DEADLOCK FALSE
