CONSTANTS
  Jtis = {j1, j2}
  Second = 2
  Ttl = 4
  Nil = Nil
SPECIFICATION FairSpec
INVARIANTS
  TypeOK
  Remembered
  IndexOutlivesKey
  RevokeAllReaches
PROPERTIES
  SpentNotRotated
  OnlySpentIsReuse
  FadesAway
