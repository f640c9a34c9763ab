CONSTANTS
  Recipe = {r1, r2}
  Handler = {h1, h2}
  Meta = {m1, m2}
  Ings = {i1, i2}
  MaxRevision = 3
  None = None
SPECIFICATION Spec
SYMMETRY Symmetry
INVARIANTS
  RevisionsNumbered
  SnapshotIsCurrent
  ForkCountExact
  ForkFollowsPin
PROPERTY ImplementsHistories
