CONSTANTS
  Users = {u1}
  Jtis = {j1, j2, j3}
  Requests = {r1}
  Nil = Nil
  Overlap = FALSE
  Faults = FALSE
SPECIFICATION Spec
INVARIANTS
  OpenRowLive
