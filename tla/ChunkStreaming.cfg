SPECIFICATION FairSpec
CONSTANTS
    Cells <- MCCells
    Worlds = {w1, w2}
    Origin <- MCOrigin
    Blanked <- MCBlanked
    Radii = {0, 2}
    MaxDistance = 1
    MaxMoves = 3
INVARIANTS LoadingIsOnItsWay
PROPERTIES StandingPlayerSeesItsWorld FarChunksAreForgotten
CHECK_DEADLOCK FALSE
