CONSTANTS
    Bytes = {x, y}
    MaxLength = 2
    BufferSize = 2
    MaxBodies = 1
    MaxChanges = 1
SPECIFICATION Spec
INVARIANTS
    ChangedSourceNotSent
