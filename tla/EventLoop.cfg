SPECIFICATION FairSpec
CONSTANTS
  Callbacks = {c1, c2, c3}
  Oneshots = {t1, t2, t3}
INVARIANT BlockedLeaves
PROPERTY NothingStarves
CHECK_DEADLOCK FALSE
