SPECIFICATION FairSpec
CONSTANTS
  e1 = e1
  e2 = e2
  Promises = {p1, p2, p3}
  VoidPromises = {p3}
  Values = {v1}
  Blank = blank
  Errors = {e1}
  AcceptSets <- CatchAll
  MaxWrappers = 2
  MaxEscapes = 0
  Helper = helper
  Nothing = nothing
PROPERTIES ImplementsContract EveryReactionDelivered AdoptionSettles
