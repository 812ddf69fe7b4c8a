SPECIFICATION ListingSpec
CONSTANTS
    Dinos = {d1, d2}
    Locks = {l1, l2}
    Prices = {low, high}
    Handlers = {h1, h2}
    Linked = {d1}
    Possible = {"late", "rollback", "away", "hasty"}
SYMMETRY Interchangeable
INVARIANTS OnceAndGone Traceable CancelledIsNotListed
