SPECIFICATION Spec
CONSTANTS
  Requests = {r1, r2, r3}
  Chats = {c1, c2}
  Keys = {k1, k2}
  None = None
INVARIANTS TypeOK OneLivePerChat PendingIsConnecting OwnKey
PROPERTIES AcquireSettles
CHECK_DEADLOCK FALSE
