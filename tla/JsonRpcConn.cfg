SPECIFICATION FairSpec
CONSTANTS
  Call = {c1, c2}
  Note = {}
  Cancellable = {c1}
  OutCall = {o1}
  App = App
  MaxInbox = 2
  Nobody = Nobody
INVARIANTS
  TypeOK
  SerialUntilParallel
  AnsweredOnce
  CancelReachesCall
  RunNeverBlocks
PROPERTIES
  CallsAnswered
  OutCallsReturn
  ServesInOrder
CHECK_DEADLOCK FALSE
