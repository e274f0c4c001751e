CONSTANTS
    Bytes = {x, y}
    MaxLength = 3
    BufferSize = 2
    MaxBodies = 2
    MaxChanges = 1
SPECIFICATION FairSpec
INVARIANTS
    StableSourceVerifies
    AnnouncedLengthHolds
PROPERTIES
    PreparationEnds
