\* Three reviews and two workers, one Ctrl+C.
SPECIFICATION FairSpec
CONSTANTS
  N = 3
  Jobs = 2
  GithubReviews <- LastReview
  SessionReviews <- FirstReview
  MaxInterrupts = 1
INVARIANTS
  InterruptKillsAll
