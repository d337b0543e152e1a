\* Two states, four frames, four requests: a torn frame with others behind it, a re-made state.
\* The bounds on frames and requests stop the model.
CONSTANTS
  MaxStates = 2
  MaxFrames = 4
  MaxAsks = 4
  MaxLength = 4
SPECIFICATION Spec
CHECK_DEADLOCK FALSE
INVARIANTS
  TypeOK
  WholeFrames
  TakenInOrder
