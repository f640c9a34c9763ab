CONSTANTS
  User = {u1, u2}
  OpenUser = {u1}
  Session = {s1, s2}
  Handler = {h1, h2}
  Cli = cli
  MaxPassword = 2
  Faults = TRUE
  Restores = TRUE
  None = None
SPECIFICATION Spec
SYMMETRY Symmetry
INVARIANTS
  TypeOK
  OneFirstAdmin
  DeletedIsErased
  OldSessionsEnd
  ReprocessedAll
