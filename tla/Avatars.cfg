CONSTANTS
  Keys = {k1, k2, k3}
  Sizes = {1, 2}
  Edges = {2}
  Requests = {r1, r2}
  Nil = Nil
SPECIFICATION Spec
SYMMETRY Symmetry
CHECK_DEADLOCK FALSE
INVARIANTS
  TypeOK
  ShownIsComplete
  NoOrphans
  ClosedHasNoAvatar
PROPERTIES
  CommittedIsStored
