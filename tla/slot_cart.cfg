CONSTANTS
    alice = alice
    bob = bob
    single = single
    renewal = renewal
    cart = cart
    key1 = key1
    key2 = key2
    key3 = key3
    Accounts = {1}
    MaxSlots = 1
    Orders = {1, 2}
    Checkouts = {cart}
    Carts = {cart}
    CheckoutOf <- CartCheckoutOf
    Buyers = {alice, bob}
    BuyerOf <- CartBuyerOf
    Keys = {key1, key2}
    KeyOf <- CartKeyOf
    Workers = {w1}
    Sweeper = sweeper
    Attempts = 2
    SlotTerm = 1
    ReservationTtl = 1
    ReconcileWindow = 1
    MaxTime = 1
    MaxFaults = 1
    None = None

SPECIFICATION FairSpec
INVARIANT SaleInv
PROPERTY TrackedPaymentSettles BackorderServed KeysCleared
