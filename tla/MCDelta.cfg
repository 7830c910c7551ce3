SPECIFICATION Spec
CONSTANTS
  m1 = m1
  m2 = m2
  Messages = {m1, m2}
  MaxItems <- MCMaxItems
  MaxFailures = 2
INVARIANTS TypeOK TextHasAFlush
PROPERTIES ImplementsLog GivenIsShown
CHECK_DEADLOCK FALSE
