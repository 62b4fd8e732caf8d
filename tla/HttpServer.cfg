SPECIFICATION FairSpec
CONSTANTS
  Conns = {c1, c2}
  MaxConnections = 1
  IoSeconds = 1
  MaxBody = 1
  Requests <- SomeRequests
INVARIANTS SlotsConserved ServiceOutlivesHandlers
PROPERTIES DispatchIsWhole SlotsComeBack
CHECK_DEADLOCK FALSE
