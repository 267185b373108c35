\* One request at a time: the browser types the text from before the edit.
SPECIFICATION Spec
CONSTANTS
    Requests = {r1}
    Texts = {d1, d2}
    NoText = NoText
    Tokens = {t1, t2}
    NoToken = NoToken
    MaxAttempts = 2
    MaxBids = 2
    Platforms = {"upwork"}
INVARIANT SentAsApproved
CHECK_DEADLOCK FALSE
