SPECIFICATION FairSpec
CONSTANTS
  Reminder = {r1, r2}
  Template = {t1}
  Handler = {h1}
  Tick = {w1, w2}
  Kind = {}
  StageInput = {"planning"}
  AnchorTime = {1}
  Offset = {0}
  ManualTime = {0}
  MaxTime = 1
  MaxEpisode = 1
  ClaimLimit = 1
  Faults = FALSE
  None = None
PROPERTY ScheduledIsNotified
