CONSTANTS
    ReplyRetryMax = 4
    Nil = Nil
    Second = 8
    FirstBackoff = 2
    MaxReplyRetryAfterDelay = 40
    MaxDuration = 127
    MaxInt64 = 40
SPECIFICATION FairSpec
INVARIANTS
    DefiniteErrorMeansUndelivered
    RetryableIsSafe
    RequestsBounded
    IdIsKept
    WaitIsInBounds
PROPERTIES
    OutcomeIsTruthful
    CallReturns
