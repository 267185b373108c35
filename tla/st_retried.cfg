\* Workers that keep their deadline: a click may still be repeated.
SPECIFICATION PoolSpec
CONSTANTS
    w1 = w1
    w2 = w2
    Tasks = {t1}
    NoTask = NoTask
    Workers <- TwoWorkers
    NoWorker = NoWorker
    Slow <- NoOne
    MaxReclaims = 3
INVARIANT NeverRetried
CHECK_DEADLOCK FALSE
