CONSTANTS
    Streams <- MCStreams
    ChunkSizes = {0, 1, 4, 11, 15, 30}
    MaxFrame = 15
    MaxHeaders = 10
SPECIFICATION FairSpec
INVARIANTS CursorInBounds BufferBounded TranslationAgrees
PROPERTIES AlwaysReturns
CHECK_DEADLOCK FALSE
