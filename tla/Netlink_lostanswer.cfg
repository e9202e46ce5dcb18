SPECIFICATION FairSpec
CONSTANTS
  route = route
  Objects <- MCObjects
  DumpSize = 1
  MsgbufSlots = 3
  MaxRequests = 2
  MaxAbandoned = 0
  MaxLosses = 1
  MaxBusy = 0
CHECK_DEADLOCK FALSE
PROPERTY CallReturns
