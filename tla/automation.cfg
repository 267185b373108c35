SPECIFICATION MCSpec
CONSTANTS
    p1 = p1
    p2 = p2
    r1 = r1
    r2 = r2
    x1 = x1
    x2 = x2
    Procs = {p1, p2}
    MaxTrips = 3
    MaxOutages = 1
    Platforms = {"fiverr", "freelancer", "upwork"}
    Requests = {r1, r2}
    Batches <- AllRequests
    OfferLimit = 1
    Proposals = {x1, x2}
    Quota = 2
    DailyCap = 3
    MaxAttempts = 2
    MaxWins = 3
    MaxSamples = 2
INVARIANTS OneTrial OffersCapped SamplesKept StoreKept
PROPERTIES CooldownHolds NeverShutForGood
CHECK_DEADLOCK FALSE
