\* Two reviews by one worker, up to two Ctrl+C.
SPECIFICATION FairSpec
CONSTANTS
  N = 2
  Jobs = 1
  GithubReviews <- LastReview
  SessionReviews <- FirstReview
  MaxInterrupts = 2
INVARIANTS
  BoundedAgents
PROPERTIES
  VerdictOfThisAttempt
  BatchEnds
