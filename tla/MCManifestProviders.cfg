\* Two invocations: a Gerrit change and a pull request of two revisions each, a local ref.
\* No symmetry, which liveness does not allow.
SPECIFICATION FairSpec
CONSTANTS
  Invs = {i1, i2}
  NoInv = NoInv
  Keys = {chg, pr, ref}
  NoKey = NoKey
  GithubKeys = {pr}
  LocalKeys = {ref}
  MaxPs = 2
INVARIANTS
  TypeOK
  RunPostFindsItsBatch
PROPERTIES
  NoLostUpdate
  ImplementsLedger
  EveryInvocationEnds
