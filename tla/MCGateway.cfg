SPECIFICATION Spec
CONSTANTS
  Requests = {r1, r2}
  MaxFrames = 3
INVARIANTS TypeOK WaitersAreKnown FramesInOrder
PROPERTIES ConnectSettles RequestsSettle ReadToTheEnd
CHECK_DEADLOCK FALSE
