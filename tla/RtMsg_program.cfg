SPECIFICATION FairSpec
CONSTANTS
  route = route
  address = address
  MaxFds = 5
  MaxForeign = 3
  MaxSpurious = 1
CHECK_DEADLOCK FALSE
INVARIANTS
  TypeOK
  HandledInOrder
  StarvedByWatcher
  LeavesWhatItReports
PROPERTY MainFinishes
