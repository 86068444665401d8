\* Three invocations, one Gerrit change, two patchsets.
SPECIFICATION Spec
CONSTANTS
  Invs = {i1, i2, i3}
  NoInv = NoInv
  Keys = {k1}
  NoKey = NoKey
  GithubKeys = {}
  LocalKeys = {}
  MaxPs = 2
SYMMETRY Symmetry
INVARIANTS
  Accounted
  LastPostedIsReal
  HolderIsCurrent
