\* One user, two workers, of which one may outlive its claim.
SPECIFICATION HandoffSpec
CONSTANTS
    u1 = u1
    w1 = w1
    w2 = w2
    a1 = a1
    a2 = a2
    Requests <- OneAndTwo
    Texts = {d1}
    NoText = NoText
    Tokens <- Approvals
    NoToken = NoToken
    MaxAttempts = 2
    Platforms = {"freelancer", "upwork", "fiverr"}
    Tasks <- Approvals
    NoTask = NoTask
    Workers <- TwoWorkers
    NoWorker = NoWorker
    Slow <- OneWorker
    MaxReclaims = 1
INVARIANTS
    ClicksArePaidFor
    OneTaskPerRow
PROPERTIES
    EachAsSpecified
    HonestOutcome
