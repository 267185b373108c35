SPECIFICATION FairSpec
CONSTANTS
    u1 = u1
    u2 = u2
    b1 = b1
    b2 = b2
    Users = {u1, u2}
    Beats = {b1, b2}
    Crews <- Pairs
    Platforms = {"freelancer", "upwork"}
    Fates = {"hired"}
    MaxMarks = 1
    MaxChildren <- FollowUps
INVARIANTS SyncCreditsOnce AsksOnce BidKept
PROPERTIES OutcomeFound
CHECK_DEADLOCK FALSE
