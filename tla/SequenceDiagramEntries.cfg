SPECIFICATION Spec
CONSTANTS
  x = x
  y = y
  x1 = x1
  x2 = x2
  y1 = y1
  App <- MCApp
  Endpoint <- MCEndpoint
  AppOf <- MCAppOf
  Suppressed = {y}
  Bodies <- MCBodies
  EntryLists <- MCEntryLists
  Blackboxes <- NoBlackboxes
  None = None
INVARIANTS
  EntryIncluded
CHECK_DEADLOCK FALSE
