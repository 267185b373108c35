SPECIFICATION MCSpec
CONSTANTS
    p1 = p1
    p2 = p2
    x1 = x1
    x2 = x2
    Workers = {w1}
    Accounts = {1}
    Fetch = fetch
    Errands = {errand}
    MaxLogins = 2
    MaxEvents = 1
    Busy = FALSE
    Words = {"a", "b"}
    MaxDepth = 2
    Procs = {p1, p2}
    Postings = {x1, x2}
    Queries <- AllQueries
    Worlds <- AllWorlds
    MaxTyped = 1
    MaxMoves = 1
    AlertScore = 1
    SearchCap = 3
    MaxHeight = 5
INVARIANTS ReadAsWritten TermsFindMatches OfferedIffWanted OneOfAKind DeadBrowserGivenUp
PROPERTIES ArchivingStands SessionRecovers
CHECK_DEADLOCK FALSE
