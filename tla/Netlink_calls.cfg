SPECIFICATION FairSpec
CONSTANTS
  route = route
  Objects <- MCObjects
  DumpSize = 2
  MsgbufSlots = 3
  MaxRequests = 3
  MaxAbandoned = 1
  MaxLosses = 1
  MaxBusy = 1
CHECK_DEADLOCK FALSE
INVARIANTS
  TypeOK
  ReportFaithful
  AckTruthfulUnlessAbandoned
  DumpComplete
  AnswersConserved
  OverrunNeedsBigDump
PROPERTIES
  NoResendAfterDecision
  ImplementsContract
  CallReturnsUnlessLost
