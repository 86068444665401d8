\* Two boards in a registry of one, two requests by two threads.  The server idles, so
\* it may stop, when all is served and the refreshers wait without a timeout.
SPECIFICATION Spec
CONSTANTS
  Users = {u1, u2}
  DefaultUser = NoUser
  NoUser = NoUser
  Handlers = {h1, h2}
  Ctxs = {c1, c2}
  NoCtx = NoCtx
  MaxUsers = 1
  OnDisk = {"none", "old", "ok"}
  MaxRequests = 2
CHECK_DEADLOCK FALSE
SYMMETRY Symmetry
INVARIANTS
  TypeOK
  QueuedWillRun
  EditsAreFollowedUp
  RunningIsRegistered
  RegistryBounded
  AutoIsArmed
