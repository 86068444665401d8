\* Two reviews by two workers, up to two Ctrl+C.
SPECIFICATION Spec
CONSTANTS
  N = 2
  Jobs = 2
  GithubReviews <- LastReview
  SessionReviews <- FirstReview
  MaxInterrupts = 2
INVARIANTS
  AgentsAreOwned
  NothingLeftBehind
  ResultsComplete
PROPERTIES
  ImplementsPool
