SPECIFICATION FairSpec
CONSTANTS
  Loops = {l1, l2}
  Root = l1
  Tasks = {t1, t2, t3}
  MaxDepth = 3
  MaxNested = 2
  MaxThrows = 1
INVARIANTS TypeOK OnceUnlessInterrupted SafeWalk
PROPERTIES ImplementsQueue EveryOneshotRuns
CHECK_DEADLOCK FALSE
