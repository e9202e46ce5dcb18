CONSTANTS
  RequestSize = 68
  ResponseSize = 84
  SizeMod = 4096
  Links <- MCLinks
  Addrs <- MCAddrs
  Routes <- MCRoutes
  Events <- MCEvents
  MaxMessage = 64
  MaxDump = 2
  MaxCalls = 2
SPECIFICATION WireSpec
INVARIANTS
  WireTypeOK AttributesFit RequestParses WalksReadTheirData
  AddressesDecoded RouteFromAnswer
CHECK_DEADLOCK FALSE
