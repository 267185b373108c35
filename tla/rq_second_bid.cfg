\* One request at a time: an approval can pay for two bids, in one call (its POST
\* is repeated) or, also with MaxAttempts = 1, in two calls.
SPECIFICATION AdapterSpec
CONSTANTS
    Requests = {r1}
    Texts = {d1, d2}
    NoText = NoText
    Tokens = {t1, t2}
    NoToken = NoToken
    MaxAttempts = 2
    MaxBids = 2
    Platforms = {"freelancer"}
INVARIANT AtMostOncePerApproval
CHECK_DEADLOCK FALSE
