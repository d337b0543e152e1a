\* One connection whose entry is dropped and made again, with the relay.
CONSTANTS
  Conns = {c1}
  States = {s1, s2, s3}
  Sids = {i1}
  TunnelOn = TRUE
  HugeReplies = FALSE
  None = None
SPECIFICATION Spec
SYMMETRY Symmetry
INVARIANT RelayIsReapable
