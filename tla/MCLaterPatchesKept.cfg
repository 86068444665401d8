\* A conflict, its resolution, a finish of an earlier patch.
SPECIFICATION Spec
CONSTANTS
  N = 3
  StaleSets <- NoStale
  MaxVersion = 2
  MaxCommands = 5
  MaxCrashes = 0
CHECK_DEADLOCK FALSE
INVARIANTS
  LaterPatchesKept
