CONSTANTS
  u1 = u1
  u2 = u2
  e1 = e1
  e2 = e2
  e3 = e3
  User = {u1, u2}
  Email = {e1, e2, e3}
  FirstEmail <- FirstAddresses
  MaxRequest = 2
  Handler = {h1, h2}
  Faults = TRUE
  None = None
SPECIFICATION FairSpec
INVARIANT OnlyNewestLinkWorks
PROPERTIES
  StaysForgotten
  AddressesForgotten
