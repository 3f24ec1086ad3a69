CONSTANTS
  Users = {u1}
  Jtis = {j1, j2}
  Requests = {r1, r2}
  Nil = Nil
  Overlap = TRUE
  Faults = FALSE
SPECIFICATION FairSpec
INVARIANTS
  LiveNotRevoked
  SuccessorAfterRevocation
PROPERTIES
  ImplementsRegistry
  RequestTerminates
