CONSTANTS
    MediaBytes = {x, y}
    MaxTotal = 3
    MaxChunk = 2
    MaxIndex = 1
    MaxInt64 = 5
    Slots = 3
    MaxReplaced = 1
SPECIFICATION MediaSpec
INVARIANTS
    AssembledIsWhole
