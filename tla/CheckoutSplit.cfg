CONSTANTS
  u1 = u1
  u2 = u2
  a = a
  b = b
  sv1 = sv1
  sv2 = sv2
  Users = {u1, u2}
  Products = {a, b}
  Servers = {sv1, sv2}
  Places <- MCSplitPlaces
  Sessions = {s1}
  OwnerOf <- MCOwnerOf
  Quotes = {}
  Counted = {a}
  MaxPerUser <- MCMaxPerUser
  Prices = {1, 2}
  ListPrice <- MCListPrice
  Supply = 2
  Funds = 6
  MaxUnits <- MCRoomyUnits
  Players = {u1, u2}
  QuoteServer = sv1
  MaxQuoted = 1
  MaxDrafts = 1
  MaxChanges = 0
  CampaignRows <- MCCampaignRows
  VoucherRows <- MCVoucherRows
  NoLimit = NoLimit
SPECIFICATION Spec
VIEW Matters
SYMMETRY Interchangeable
INVARIANT StockHolds
CHECK_DEADLOCK FALSE
