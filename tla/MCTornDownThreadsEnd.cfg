\* One request thread, so that the second request evicts the first one's board.
SPECIFICATION FairSpec
CONSTANTS
  Users = {u1, u2}
  DefaultUser = NoUser
  NoUser = NoUser
  Handlers = {h1}
  Ctxs = {c1, c2}
  NoCtx = NoCtx
  MaxUsers = 1
  OnDisk = {"ok"}
  MaxRequests = 2
CHECK_DEADLOCK FALSE
PROPERTIES
  TornDownThreadsEnd
