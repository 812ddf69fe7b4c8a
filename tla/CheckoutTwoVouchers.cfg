CONSTANTS
  u1 = u1
  u2 = u2
  a = a
  b = b
  sv1 = sv1
  sv2 = sv2
  Users = {u1, u2}
  Products = {a, b}
  Servers = {sv1}
  Places <- MCPlaces
  Sessions = {s1}
  OwnerOf <- MCOwnerOf
  Quotes = {}
  Counted = {a}
  MaxPerUser <- MCMaxPerUser
  Prices = {1, 2}
  ListPrice <- MCListPrice
  Supply = 2
  Funds = 3
  MaxUnits <- MCMaxUnits
  Players = {u1, u2}
  QuoteServer = sv1
  MaxQuoted = 1
  MaxDrafts = 1
  MaxChanges = 0
  CampaignRows <- MCOpenCampaign
  VoucherRows <- MCTwoVouchers
  NoLimit = NoLimit
SPECIFICATION Spec
VIEW Matters
SYMMETRY Interchangeable
INVARIANT ShownCanBeRedeemed
CHECK_DEADLOCK FALSE
