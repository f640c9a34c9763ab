CONSTANTS
  Row = {1, 2, 3}
  MaxTime = 2
  MaxLimit = 2
  None = None
  Key = {k1, k2}
  Every = 2
  Burst = 2
  IdleTTL = 4
  MaxNow = 14
  Url = {url}
  Address = {a1, a2}
  Token = {t1, t2}
  Zone = {0, 1}
  Hours = 3
  Configured = {"push", "apprise", "email"}
  Patcher = {p1, p2}
  Named = {{"push"}, {"apprise"}, {"email"}, {"url"}, {"start"}, {"end"}, {"start", "end"}, {"apprise", "url"}}
  MaxDue = 2
  MaxAsk = 2
  MaxFail = 1
  Faults = TRUE
  Unset = Unset
SPECIFICATION StandaloneSpec
SYMMETRY Symmetry
INVARIANTS
  PagesComplete
  NothingUnwanted
  NothingMissed
PROPERTY ImplementsTokenBucket
