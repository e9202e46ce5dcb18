SPECIFICATION Spec
CONSTANTS
  CommandTypes <- MCCommandTypes
  Argvs <- MCArgvs
  FileOptions <- MCFileOptions
  MaxCommands = 3
  MaxOptions = 4
CHECK_DEADLOCK FALSE
INVARIANTS
  SeesEveryOption
