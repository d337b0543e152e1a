\* No symmetry: it is unsound for liveness.
CONSTANTS
  Conns = {c1}
  States = {s1, s2}
  Sids = {i1}
  TunnelOn = FALSE
  HugeReplies = TRUE
  None = None
SPECIFICATION FairSpec
PROPERTIES
  IdleEntryLeaves
  SidRetired
  ReapedPeerReleased
