CONSTANTS
  Limit = 2
  Window = 3
  MaxCount = 5
  Requests = {r1, r2}
SPECIFICATION FairSpec
INVARIANTS
  TypeOK
  SlidingBound
PROPERTIES
  BlockedRecovers
