\* Requests one at a time; two workers, one of which may outlive its claim.
SPECIFICATION MCSpec
CONSTANTS
    Requests = {r1}
    Texts = {d1, d2}
    NoText = NoText
    Tokens = {a1, a2}
    NoToken = NoToken
    MaxAttempts = 2
    MaxBids = 1
    Platforms <- AllPlatforms
    w1 = w1
    w2 = w2
    Tasks = {t1}
    NoTask = NoTask
    Workers <- TwoWorkers
    NoWorker = NoWorker
    Slow <- OneWorker
    MaxReclaims = 3
INVARIANTS
    BidAsApproved
    ClaimIsHeld
    OneClickPerClaim
    OverlapOnlyBySlow
PROPERTIES
    ClosedForGood
    TasksSettle
