\* Two patches with two failures, two workers, two runs, one edit or other event.
SPECIFICATION Spec
CONSTANTS
  Urls = {u, v}
  Suites = {s, t}
  Workers = 2
  MaxRetests = 2
  MaxLength = 2
  MaxRuns = 2
  MaxEdits = 1
SYMMETRY Alike
CHECK_DEADLOCK FALSE
INVARIANTS
  TypeOK
  RetestsBounded
  StatusIsOfItsPatch
  
