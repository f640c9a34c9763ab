CONSTANTS
  User = {u1}
  Export = {e1, e2}
  Worker = {w1, w2}
  Handler = {h1, h2}
  ClaimLimit = 5
  Faults = TRUE
  None = None
SPECIFICATION Spec
SYMMETRY Symmetry
INVARIANT RunningIsInProgress
