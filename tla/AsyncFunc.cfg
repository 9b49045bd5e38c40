SPECIFICATION FairSpec
CONSTANTS
  Gens = {f1, f2}
  Promises = {p1}
  Main = main
  Null = null
  MaxAwaits = 2
INVARIANTS OwnOutcome NoLostWake SafeAwait
PROPERTIES AwaitReturns
CHECK_DEADLOCK FALSE
