SPECIFICATION FairSpec
CONSTANTS
    u1 = u1 u2 = u2 u3 = u3 l1 = l1 l2 = l2
    Users = {u1, u2, u3}
    Listings = {l1, l2}
    SellerOf <- Sellers
    Price <- Prices
    Wealth = 40
    MaxAttempts = 2
INVARIANTS SettledByDelivery ClearingHoldsEscrow RefundedIsNotGiven CancelledIsUnsold
PROPERTIES EventuallySettled
CHECK_DEADLOCK FALSE
