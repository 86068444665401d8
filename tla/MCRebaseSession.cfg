\* Three changes, any of the first two stale, three commands, one of which dies.
SPECIFICATION FairSpec
CONSTANTS
  N = 3
  StaleSets <- AnyStale
  MaxVersion = 2
  MaxCommands = 3
  MaxCrashes = 1
CHECK_DEADLOCK FALSE
INVARIANTS
  TypeOK
  PickIsAccounted
  NoPatchLost
  FinishRebases
PROPERTIES
  CommandsEnd
