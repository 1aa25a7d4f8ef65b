SPECIFICATION Spec
CONSTANTS
    Byte = {0, 1}
    Replid = {r1, r2}
    OpenId = r1
    ResetId = r2
    SizeLimit = 3
    CompactMin = 4
    MaxChunk = 2
    MaxOffset = 9
INVARIANTS
    TypeOK
    SliceIsRestOfStream
    MemoryBounded
PROPERTY
    ImplementsStream
CHECK_DEADLOCK FALSE
