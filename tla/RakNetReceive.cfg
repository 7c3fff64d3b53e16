SPECIFICATION ReceiveSpec
CONSTANTS
    MaxSeq = 3
    Payloads <- MCPayloads
    Replying <- MCReplying
    Updates = {u1, u2}
INVARIANTS NoFalseNack GapNoticed  
CHECK_DEADLOCK FALSE
