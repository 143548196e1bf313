SPECIFICATION Spec
CONSTANTS
  None = None
  Partial = Partial
  Factory = Factory
  Configs = {c}
  LogOrder <- MCLogs
  Others <- MCOthers
  Exclusions <- MCExclusions
  Retries = 3
  StableReads = 2
  MaxPolls = 2
  MaxCommands = 3
  MaxEvents = 1
INVARIANTS
  Inv
  BackedUp
  LastIsComplete
PROPERTIES
  OneCopyLeft
  SuccessIsTrue
  NothingOverwritten
  LogFindings
CHECK_DEADLOCK FALSE
