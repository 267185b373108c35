\* A worker that keeps its deadline: a row may be left waiting for the browser.
SPECIFICATION HandoffSpec
CONSTANTS
    u1 = u1
    w1 = w1
    w2 = w2
    a1 = a1
    a2 = a2
    Requests <- OneEach
    Texts = {d1}
    NoText = NoText
    Tokens <- Approval
    NoToken = NoToken
    MaxAttempts = 2
    Platforms = {"upwork"}
    Tasks <- Approval
    NoTask = NoTask
    Workers <- OneWorker
    NoWorker = NoWorker
    Slow <- NoOne
    MaxReclaims = 3
PROPERTY FailureReachesItem
CHECK_DEADLOCK FALSE
