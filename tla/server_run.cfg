\* Three starts, each of which may find another upstream.
\* The bound on starts stops the model.
CONSTANTS
  Fixed = {"forward"}
  Bins = {legacy}
  Upstreams = {eth0, eth1}
  MaxStarts = 3
  None = None
SPECIFICATION Spec
CHECK_DEADLOCK FALSE
INVARIANTS
  TypeOK
  RulesOnce
PROPERTY RunEnds
