SPECIFICATION Spec
CONSTANTS
    ItemList <- Items
    BlockList <- Blocks
    LateItems <- MCLateItems
    LateBlocks <- MCLateBlocks
    CustomBlocks <- MCCustomBlocks
    MaxReloads = 1
    MaxCancelled = 1
INVARIANTS OneBlockPerId EntriesAreFound DropsAreRegistered
CHECK_DEADLOCK FALSE
