SPECIFICATION FairSpec
CONSTANTS
  N = 2
  Kinds <- SomeKinds
  MaxTrees = 1
  MaxUploads = 2
INVARIANTS
  HeadKeepsTree
  ChecksSuffice
  AuthorsAreBack
  LeftIsWarnedOf
PROPERTIES
  UploadEnds
CHECK_DEADLOCK FALSE
