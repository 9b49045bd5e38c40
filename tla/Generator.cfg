SPECIFICATION Spec
CONSTANTS
  Gens = {g1, g2, g3}
  Main = main
  Null = null
INVARIANTS TypeOK OneWayBack SafeUse
PROPERTY ImplementsCoroutines
CHECK_DEADLOCK FALSE
