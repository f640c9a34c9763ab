CONSTANTS
  User = {u1}
  Export = {e1, e2}
  Worker = {w1, w2}
  Handler = {h1, h2}
  ClaimLimit = 1
  Faults = TRUE
  None = None
SPECIFICATION Spec
SYMMETRY Symmetry
INVARIANTS
  TypeOK
  ClaimedByOne
  CompleteHasArchive
  RetiredOnlyAfterUse
  OneUnlinker
PROPERTY ImplementsArtifacts
