\* Publishes may be reported as failed although the platform took them.
CONSTANTS
  Posts = {p1, p2}
  Bodies = {b1, b2}
  MaxTime = 2
  MaxAttempts = 2
  BatchSize = 2
  Lossy = TRUE
  MaxStops = 1
SPECIFICATION Spec
SYMMETRY Symmetry
INVARIANTS ExclusiveClaim PublishedAsWritten FailedIsDeadLettered
PROPERTY ImplementsLifecycle
CHECK_DEADLOCK FALSE
