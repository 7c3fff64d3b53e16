SPECIFICATION SplitSpec
CONSTANTS
    p1 = p1
    p2 = p2
    p3 = p3
    Packets = {p1, p2, p3}
    Size <- MCSize
    Reliable = {p1}
INVARIANTS OwnFragments OriginalWhenOrdered
CHECK_DEADLOCK FALSE
