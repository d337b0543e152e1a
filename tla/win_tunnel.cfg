SPECIFICATION Spec
CHECK_DEADLOCK FALSE
INVARIANTS
  TypeOK
  ThreadsWithinSession
  RoutesRestored
PROPERTIES
  ErrorEndsSession
  StopsWhenCancelled
