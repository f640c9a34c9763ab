SPECIFICATION Spec
CONSTANTS
  Reminder = {r1}
  Template = {t1}
  Handler = {h1, h2}
  Tick = {w1, w2}
  Kind = {}
  StageInput = {"planning"}
  AnchorTime = {0, 1}
  Offset = {0}
  ManualTime = {1}
  MaxTime = 1
  MaxEpisode = 3
  ClaimLimit = 1
  Faults = TRUE
  None = None
SYMMETRY Symmetry
INVARIANTS TypeOK NotifiedOncePerSchedule FiredWasDue
