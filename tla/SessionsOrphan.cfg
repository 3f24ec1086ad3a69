CONSTANTS
  Users = {u1}
  Jtis = {j1, j2, j3}
  Requests = {r1, r2}
  Nil = Nil
  Overlap = TRUE
  Faults = FALSE
SPECIFICATION Spec
INVARIANTS
  RevokeAllComplete
