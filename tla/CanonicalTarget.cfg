CONSTANTS
    MaxWritten = 4
SPECIFICATION Spec
INVARIANTS
    TargetTellsMeaning
    RepeatedKeyRefused
PROPERTY
    OneMeaningOneTarget
CHECK_DEADLOCK FALSE
