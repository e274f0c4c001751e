CONSTANTS
    ReplyReissueMaxGenerations = 2
    ReplyAdmissionRetention = 2
    ReplyReplayHorizonMargin = 1
    MaxCalls = 5
    MaxTime = 4
SPECIFICATION Spec
INVARIANTS
    HandedOffAtMostOnce
    FailedLadderIsSilent
