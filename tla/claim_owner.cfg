CONSTANTS
    Users = {ann}
    c1 = c1
    Codes = {c1, c2}
    Entries <- OneEntry
    Licenses = {lic}
    Sse = sse
    Prepaid = {lic}
    Opening <- OpeningOne
    QueueMax = 1
    WriteMax = 1
    MaxForgets = 1
    MaxErrors = 1
    btc = btc
    usdt = usdt
    Currencies = {btc, usdt}
    MaxMoves = 1
    CollectorsMax = 1
    ReportMax = 1
    MaxBroadcasts = 2
    Slots = {slot}
    b1 = b1
    Buyers = {b1, b2}
    MaxReplies = 3
    MaxSales = 1
    BonusMax = 1
    Exercises <- Slotted
    None = None

SPECIFICATION Spec
CHECK_DEADLOCK FALSE
PROPERTY OwnerResolved
