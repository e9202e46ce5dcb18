SPECIFICATION FairSpec
CONSTANTS
  c1 = c1
  c2 = c2
  c3 = c3
  log = log
  bogus = bogus
  Calls <- MCCalls
  Known <- MCKnown
  Unknown <- MCUnknown
  MaxEvents = 3
CHECK_DEADLOCK FALSE
INVARIANTS
  TypeOK
  NeverWaitsInVain
  InStep
  LeakNeedsRefusal
PROPERTY CloseReturns
