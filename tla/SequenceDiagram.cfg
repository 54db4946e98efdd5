SPECIFICATION Spec
CONSTANTS
  x = x
  y = y
  x1 = x1
  x2 = x2
  y1 = y1
  App <- MCApp
  Endpoint <- MCEndpoint
  AppOf <- MCAppOf
  Suppressed = {y}
  Bodies <- MCBodies
  EntryLists <- MCEntryLists
  Blackboxes <- MCBlackboxes
  None = None
INVARIANTS
  TypeOK
  NoneOpenTwice
  IndentBalanced
  OnlyLiveActive
  LifelinesClosed
  SectionDrawsReachable
PROPERTIES
  WalkEnds
CHECK_DEADLOCK FALSE
