SPECIFICATION MCSpec
CONSTANTS
  f1 = f1
  f2 = f2
  f3 = f3
  g1 = g1
  g2 = g2
  s1 = s1
  s2 = s2
  s3 = s3
  p1 = p1
  r1 = r1
  k1 = k1
  m1 = m1
  m2 = m2
  m3 = m3
  high = high
  on = on
  None = None
  Handlers <- MCHandlers
  FileRequests = {f1, f2, f3}
  ConfigRequests = {g1, g2}
  Values = {off, on}
  off = off
  MaxPolls = 2
  MaxVersion = 3
  Sends = {s1, s2, s3}
  Patches = {p1}
  Resets = {r1}
  Compacts = {k1}
  Messages = {m1, m2, m3}
  Levels = {standard, high}
  standard = standard
  Intents <- MCIntents
  HistoryBlock = 1
INVARIANTS TypeOK NoUnseenOverwrite DefaultsSavedOnce EachTurnOnce ContextMatchesThread VerboseIsApplied IntentHonoured
PROPERTIES EveryRequestAnswered
CHECK_DEADLOCK FALSE
