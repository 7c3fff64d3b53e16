SPECIFICATION Spec
CONSTANTS
    here = here
    there = there
    near = near
    far = far
    air = air
    stone = stone
    Pos = {here, there}
    Chunk = {near, far}
    ChunkOf <- MCChunkOf
    Around <- MCAround
    Block = {air, stone}
    Air = air
    Replaceable = {}
    Placeable = {stone}
    Generated <- MCGenerated
    Preload = {near}
    CallIds = {k1, k2}
    SaveAt = 2
    Times = {}
    MaxTicks = 5
    MaxEdits = 0
    MaxCrashes = 0
INVARIANTS SavedEveryTwoMinutes
CHECK_DEADLOCK FALSE
