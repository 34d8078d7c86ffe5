\* An error from the platform means that the post was not created; the process may be
\* stopped once.  No symmetry: fairness names each post.
CONSTANTS
  Posts = {p1, p2}
  Bodies = {b1}
  MaxTime = 2
  MaxAttempts = 2
  BatchSize = 2
  Lossy = FALSE
  MaxStops = 1
SPECIFICATION LiveSpec
INVARIANT RowsMatchPlatform
PROPERTY DueIsSettled
CHECK_DEADLOCK FALSE
