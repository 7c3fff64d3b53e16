SPECIFICATION FairSpec
CONSTANTS
    Messages = {m1, m2}
    Calls = {c1, c2}
    MaxToSend = 0
    NoMessage = NoMessage
INVARIANTS  QuietQueueIsUnwritten QuietMessageIsNotLost
PROPERTIES QuietMessageGoesOut
CHECK_DEADLOCK FALSE
