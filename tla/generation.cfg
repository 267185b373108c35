SPECIFICATION MCSpec
CONSTANTS
    w1 = w1
    w2 = w2
    o1 = o1
    o2 = o2
    Workers = {w1, w2}
    Writers = {w1, w2}
    Openings = {o1, o2}
    Skills = {"a", "b"}
    Worlds <- AllWorlds
    MaxRetries = 1
    MaxRows = 2
    MaxMessages = 1
    MaxAutos = 2
INVARIANTS OneLiveRow RetriesCounted RowsKeepTheirJob
INVARIANTS BidWithinBudget BulkOnlyTrusted OpeningsRotate
PROPERTIES DecisionStandsAlone FailedIsRetried
CHECK_DEADLOCK FALSE
