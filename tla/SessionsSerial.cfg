CONSTANTS
  Users = {u1, u2}
  Jtis = {j1, j2, j3}
  Requests = {r1, r2}
  Nil = Nil
  Overlap = FALSE
  Faults = TRUE
SPECIFICATION Spec
SYMMETRY Symmetry
INVARIANTS
  TypeOK
  OneLivePerLogin
  DeliveredIndexed
  RevokeAllComplete
  RevokedRowNotLive
  InactiveHasNoSessions
