SPECIFICATION ListingSpec
CONSTANTS
    Dinos = {d1}
    Locks = {l1, l2}
    Prices = {low, high}
    Handlers = {h1, h2}
    Linked = {d1}
    Possible = {"hasty"}
INVARIANT ListedOnce
