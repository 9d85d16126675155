\* Three codes, three links of which two are for a single use, two creators and two clients.
SPECIFICATION LinkSpec
CONSTANTS
  l1 = l1
  l2 = l2
  l3 = l3
  Code = {c1, c2, c3}
  Link = {l1, l2, l3}
  Single <- MCSingle
  Creator = {r1, r2}
  Client = {p1, p2}
  Nothing = Nothing
  MaxLinks = 2
  MaxAttempts = 2
  MaxUses = 2
INVARIANTS
  SingleUse
  ActiveLimited
  RedeemableUntilUsed
SYMMETRY Symmetry
CHECK_DEADLOCK FALSE
