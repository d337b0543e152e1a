SPECIFICATION Spec
CONSTANTS
  Reqs = {r1, r2}
  Keys = {k1}
  Items = {i1, i2}
  Tokens = {t1, t2}
  None = None
CHECK_DEADLOCK FALSE
SYMMETRY Symmetry
INVARIANTS
  TypeOK
  RestartKeeps
  AckedKept
  DeadTokenRefused
