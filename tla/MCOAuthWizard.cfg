CONSTANTS
  Platforms = {p1, p2, p3}
  Connectors = {p1, p2}
  States = {s1, s2}
  Callbacks = {c1, c2, c3}
  NoPlatform = NoPlatform
  Ttl = 2
  MaxTime = 2
  SharedStore = FALSE
SPECIFICATION Spec
INVARIANT RefusedForCause
CHECK_DEADLOCK FALSE
