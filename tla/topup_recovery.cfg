CONSTANTS
    ann = ann
    invoice1 = invoice1
    w1 = w1
    w2 = w2
    Users <- OneUser
    Keys = {key1}
    OwnerOf <- OneOwnerOf
    Payments = {invoice1}
    PayerOf <- OnePayerOf
    Amount <- OneAmount
    Workers = {w1}
    Serves <- RecoveryServes
    TrustBot = FALSE
    MaxClaims = 1
    MaxAge = 2
    MaxFaults = 1
    None = None

SPECIFICATION FairSpec
PROPERTY MissedWebhookRecovered OverdrawnPaused CacheConverges
