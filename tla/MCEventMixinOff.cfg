SPECIFICATION Spec
CONSTANTS
  Events = {data, close}
  MaxHandles = 2
  MaxDepth = 1
PROPERTY OffTakesEffect
