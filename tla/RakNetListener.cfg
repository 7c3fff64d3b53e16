SPECIFICATION ListenerFairSpec
CONSTANTS
    Tokens = {a, b}
    MaxConn = 2
    MaxPackets = 6
    Removals = {r1, r2}
    OnlineMode = TRUE
 
PROPERTIES   KillCompletes
CHECK_DEADLOCK FALSE
