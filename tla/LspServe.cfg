SPECIFICATION FairSpec
CONSTANTS
  Client = {c1, c2, c3}
  Nobody = Nobody
INVARIANTS
  TypeOK
  CountsClients
  TimerTracksIdleness
PROPERTIES
  IdleServerReturns
  DialledClientsServed
CHECK_DEADLOCK FALSE
