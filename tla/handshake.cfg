\* Two connections, of one client or of two; each configuration may have one mistake.
\* The connections are bounded, so the model stops when they are used up.
CONSTANTS
  Clients = {p1, p2}
  Conns = {c1, c2}
  Keys = {k1, k2, ks}
  ServerKey = ks
  Psks = {psk, other}
  Sids = {i1, i2}
  ClientCfgs <- MCClientCfgs
  None = None
  k1 = k1
  k2 = k2
  ks = ks
  psk = psk
  other = other
SPECIFICATION Spec
CHECK_DEADLOCK FALSE
INVARIANTS
  TypeOK
  ClientKnowsServer
  ServerKnowsClient
  PlaneIsOwn
  RefusedForAReason
  NoMutualWait
PROPERTY HandshakeEnds
