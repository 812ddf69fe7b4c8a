CONSTANTS
  u1 = u1
  u2 = u2
  a = a
  b = b
  sv1 = sv1
  sv2 = sv2
  Users = {u1, u2}
  Products = {a, b}
  Servers = {sv1}
  Places <- MCPlaces
  Sessions = {s1, s2}
  OwnerOf <- MCOwnerOf
  Quotes = {q1}
  Counted = {a}
  MaxPerUser <- MCMaxPerUser
  Prices = {1, 2}
  ListPrice <- MCListPrice
  Supply = 2
  Funds = 3
  MaxUnits <- MCMaxUnits
  Players = {u1, u2}
  QuoteServer = sv1
  MaxQuoted = 1
  MaxDrafts = 1
  MaxChanges = 1
  CampaignRows <- MCCampaignRows
  VoucherRows <- MCVoucherRows
  NoLimit = NoLimit
SPECIFICATION Spec
VIEW Matters
SYMMETRY Interchangeable
INVARIANTS NothingOversold WithinLimits RedeemedWithinLimits PaidAsShown
CHECK_DEADLOCK FALSE
