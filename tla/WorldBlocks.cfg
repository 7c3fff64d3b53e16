SPECIFICATION Spec
CONSTANTS
    here = here
    there = there
    near = near
    far = far
    air = air
    stone = stone
    Pos = {here, there}
    Chunk = {near, far}
    ChunkOf <- MCChunkOf
    Around <- MCAround
    Block = {air, stone}
    Air = air
    Replaceable = {}
    Placeable = {stone}
    Generated <- MCGenerated
    Preload = {near}
    CallIds = {k1, k2}
    SaveAt = 0
    Times = {0}
    MaxTicks = 1
    MaxEdits = 2
    MaxCrashes = 1
INVARIANTS OneDropPerBlock UnchangedIsOnDisk
 
SYMMETRY Symmetry
CHECK_DEADLOCK FALSE
