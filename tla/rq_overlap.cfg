\* Two handlers overlap in every way, and die anywhere.
SPECIFICATION CrashSpec
CONSTANTS
    Requests = {r1, r2}
    Texts = {d1}
    NoText = NoText
    Tokens = {t1, t2}
    NoToken = NoToken
    MaxAttempts = 2
    MaxBids = 2
    Platforms = {"freelancer", "upwork", "fiverr"}
SYMMETRY Symmetric
INVARIANTS
    OneCallPerApproval
PROPERTIES
    LedgerSpec
