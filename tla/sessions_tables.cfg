\* Two connections, no tunnel device; replies may exceed a frame.
CONSTANTS
  Conns = {c1, c2}
  States = {s1, s2}
  Sids = {i1, i2}
  TunnelOn = FALSE
  HugeReplies = TRUE
  None = None
SPECIFICATION Spec
SYMMETRY Symmetry
INVARIANTS
  TypeOK
  BoundIsSecure
  ReadyIsReachable
  OrphansOnlyByRace
PROPERTIES
  RetiredForGood
  ImplementsLifecycle
