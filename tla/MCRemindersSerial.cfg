SPECIFICATION Spec
CONSTANTS
  Reminder = {r1, r2}
  Template = {t1}
  Handler = {h1}
  Tick = {w1}
  Kind = {"pitch"}
  StageInput = {"planning", "secondary"}
  AnchorTime = {0, 1}
  Offset = {0, 1}
  ManualTime = {1}
  MaxTime = 0
  MaxEpisode = 1
  ClaimLimit = 2
  Faults = FALSE
  None = None
SYMMETRY Symmetry
INVARIANTS RemindersFollowStart NoDuplicateReminders
