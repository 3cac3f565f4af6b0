CONSTANTS
    s1 = s1
    s2 = s2
    s3 = s3
    Sids = {s1, s2, s3}
    ann = ann
    bob = bob
    Names = {ann, bob}
    Unknown = unknown
    cl = cl
    Claimers = {cl}
    MaxUsernames = 1
    TabCap = 2
    AdminTabCap = 2
    Calls = {q1, q2}
    FanoutMax = 2
    ConcurrentMax = 1
    Claimer = cl
    v1 = v1
    v2 = v2
    Settings = {v1, v2}
    a1 = a1
    Admins = {a1, a2}
    MaxUpsets = 2
    upper = upper
    lower = lower
    Codes = {upper, lower}
    Lower <- Fold
    Window = 2
    MaxClock = 3
    MaxDrops = 2
    Buyers = {b1}
    Editors = {e1, e2}
    MaxChanges = 2
    Streams = {k1}
    QueueMax = 1
    Exercises <- AllExercises
    None = None

SPECIFICATION Spec
CHECK_DEADLOCK FALSE
INVARIANT TypeOK UserLimits OneTimer ClaimerOnline Readable VerifyTruthful RowKept SyncedIsRunning OncePerWindow NewestSent
PROPERTY OfflineMeansGone StreamReaped
