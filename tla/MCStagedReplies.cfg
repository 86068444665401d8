\* Two places where commands run, two threads, two replies, two pushes, one event.
SPECIFICATION Spec
CONSTANTS
  Procs = {p, q}
  N = 2
  MaxReplies = 2
  MaxPushes = 2
  MaxEvents = 1
SYMMETRY AlikeProcs
CHECK_DEADLOCK FALSE
INVARIANTS
  PostedOnce
  AllOrNone
  NoReplyLost
  OwnDraftsOnly
PROPERTIES
  ImplementsOutbox
