SPECIFICATION Spec
CONSTANTS
  e1 = e1
  e2 = e2
  Promises = {p1, p2, p3}
  VoidPromises = {p3}
  Values = {v1}
  Blank = blank
  Errors = {e1, e2}
  AcceptSets <- CatchTyped
  MaxWrappers = 2
  MaxEscapes = 1
  Helper = helper
  Nothing = nothing
SYMMETRY Symmetry
INVARIANTS TypeOK NoLostCallback CallbackOnce DerivedOutcome IInv
CHECK_DEADLOCK FALSE
