SPECIFICATION Spec
CONSTANTS
  route = route
  Objects <- MCObjects
  DumpSize = 1
  MsgbufSlots = 3
  MaxRequests = 2
  MaxAbandoned = 1
  MaxLosses = 0
  MaxBusy = 0
CHECK_DEADLOCK FALSE
INVARIANT AckTruthful
