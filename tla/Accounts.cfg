CONSTANTS
  Users = {u1, u2}
  Emails = {e1, e2}
  Names = {n1}
  Passwords = {p1}
  Tokens = {t1, t2}
  Requests = {r1, r2}
  Nil = Nil
SPECIFICATION Spec
SYMMETRY Symmetry
CHECK_DEADLOCK FALSE
INVARIANTS
  TypeOK
  KeysUnique
  RegisteredMailed
  ResetTokenSingleUse
  ClosedAnonymised
PROPERTIES
  ImplementsLifecycle
