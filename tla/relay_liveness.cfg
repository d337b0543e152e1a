\* No session gets an id, so every packet takes the TCP connection.
CONSTANTS
  Conns = {c1}
  States = {s1, s2}
  Sids = {}
  TunnelOn = TRUE
  HugeReplies = FALSE
  None = None
SPECIFICATION FairSpec
PROPERTY RelayReleased
