SPECIFICATION Spec
CONSTANTS
  Events = {data, close}
  MaxHandles = 3
  MaxDepth = 3
SYMMETRY Symmetry
INVARIANTS TypeOK SnapshotDelivery
