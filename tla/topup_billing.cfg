CONSTANTS
    ann = ann
    invoice1 = invoice1
    w1 = w1
    w2 = w2
    Users <- OneUser
    Keys = {key1, key2}
    OwnerOf <- OneOwnerOf
    Payments = {invoice1}
    PayerOf <- OnePayerOf
    Amount <- OneAmount
    Workers = {w1, w2}
    Serves <- BillingServes
    TrustBot = FALSE
    MaxClaims = 1
    MaxAge = 0
    MaxFaults = 0
    None = None

SYMMETRY KeySymmetry

SPECIFICATION Spec
INVARIANT TypeOK Books CreditedIsPaid BillingInv
PROPERTY CreditedKept ImplementsLedger
