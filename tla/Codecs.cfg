SPECIFICATION MCSpec
CONSTANTS
    MaxNumber = 7
    MaxQueue = 5
    Blocks = 4096
    WordBits = 32
    MAX_SUBCHUNKS = 16
    PacketMessages <- MCPacketMessages
    Tags <- MCTags
    Trees <- MCTrees
    Chunks <- MCChunks
    CommandLists <- MCCommandLists
INVARIANTS ShortQueueArrives PacketsArrive WrittenTagsAreRead ChunksAreRead CommandsResolve
CHECK_DEADLOCK FALSE
