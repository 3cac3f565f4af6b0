CONSTANTS
    alice = alice
    bob = bob
    single = single
    renewal = renewal
    cart = cart
    key1 = key1
    key2 = key2
    key3 = key3
    Accounts = {1}
    MaxSlots = 1
    Orders = {1, 2, 3}
    Checkouts = {single, cart}
    Carts = {cart}
    CheckoutOf <- ContestCheckoutOf
    Buyers = {alice, bob}
    BuyerOf <- ContestBuyerOf
    Keys = {key1, key2, key3}
    KeyOf <- ContestKeyOf
    Workers = {w1}
    Sweeper = sweeper
    Attempts = 2
    SlotTerm = 1
    ReservationTtl = 1
    ReconcileWindow = 1
    MaxTime = 2
    MaxFaults = 0
    None = None

SPECIFICATION Spec
PROPERTY LiveSlotNotResold
