SPECIFICATION Spec
CONSTANTS
    Offers = {o1, o2}
    NoOffer = NoOffer
    Windows <- Apart
    Horizon = 3
    MaxUnits = 2
    Statuses = {"active","cancelled","draft","scheduled"}
    MayResize = TRUE
    MayMove = TRUE
    Checkouts = {u1}
    Restockers = {u1}
    Managers = {u1}
    Crons = {u1}
INVARIANTS OnePurchasable NeverOversold
PROPERTIES FinishedStaysFinished
