CONSTANTS
  NULL = NULL
  ChunkVars <- MCChunkVars
  Blocks <- MCBlocks
  Contents <- MCContents
  HalfRange = 4
  MaxChunkOps = 4
  Addresses = {a, b}
  Own = own
  MaxFrames = 2
  MaxDepth = 2
  Traces <- MCTraces
  WordBits = 2
  Ids = {0, 1, 2}
  Names = {n1}
  Processes <- MCProcesses
  Sizes = {1, 5}
  FirstBuf = 1
  MaxEdits = 2
  Records = {r1, r2}
  Files <- MCFiles
  HashOf <- MCHashOf
  PageSize = 2
  MaxWrites = 2
  MaxLines = 5
SPECIFICATION LibrarySpec
INVARIANTS
  LibraryTypeOK
  FaultsAreCaused CallsAreRight
  BacktraceIsSnapshot
  CapabilitiesHold LookupIsSound
  VerdictIsJust
  AcceptedWithoutEnter
PROPERTIES
  LoopsEnd
CHECK_DEADLOCK FALSE
