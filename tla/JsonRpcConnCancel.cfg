SPECIFICATION FairSpec
CONSTANTS
  Call = {c1}
  Note = {}
  Cancellable = {c1}
  OutCall = {}
  App = App
  MaxInbox = 2
  Nobody = Nobody
PROPERTIES
  CancelledCallsAnswered
CHECK_DEADLOCK FALSE
