SPECIFICATION Spec
CONSTANTS
  Reqs = {r1, r2}
  Keys = {}
  Items = {i1}
  Tokens = {t1}
  None = None
CHECK_DEADLOCK FALSE
PROPERTIES
  RequestAnswered
