SPECIFICATION Spec
CONSTANTS
  m1 = m1
  m2 = m2
  Messages = {m1, m2}
  MaxItems <- MCMaxItems
  MaxFailures = 1
INVARIANTS NothingStrandedBehindFinal
CHECK_DEADLOCK FALSE
