CONSTANTS
    alice = alice
    bob = bob
    single = single
    renewal = renewal
    cart = cart
    key1 = key1
    key2 = key2
    key3 = key3
    Accounts = {1}
    MaxSlots = 1
    Orders = {1, 2}
    Checkouts = {single, renewal}
    Carts = {}
    CheckoutOf <- RenewalCheckoutOf
    Buyers = {alice, bob}
    BuyerOf <- RenewalBuyerOf
    Keys = {key1, key2}
    KeyOf <- RenewalKeyOf
    Workers = {w1}
    Sweeper = sweeper
    Attempts = 2
    SlotTerm = 1
    ReservationTtl = 1
    ReconcileWindow = 1
    MaxTime = 2
    MaxFaults = 1
    None = None

SPECIFICATION Spec
INVARIANT TypeOK KeyOnlyOnPaidSlot
PROPERTY ClosedStays ImplementsSale
