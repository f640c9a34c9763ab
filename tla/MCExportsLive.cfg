CONSTANTS
  User = {u1}
  Export = {e1, e2}
  Worker = {w1, w2}
  Handler = {h1}
  ClaimLimit = 1
  Faults = FALSE
  None = None
SPECIFICATION FairSpec
INVARIANTS
  NoArchiveLeaks
  OneInFlightPerUser
PROPERTIES
  RequestedEnds
  ArchiveIsRemoved
