CONSTANTS
    TypedMax = 3
    DrainMax = 1
    StrictMax = 3
    RedirectLimit = 3
    Closers = {g1, g2}
    Nil = Nil
SPECIFICATION FairSpec
INVARIANTS
    SuccessIsComplete
    CauseIsTruthful
    AcceptedStaysUnknown
    SignedStaysHome
    CloseIsFinal
PROPERTIES
    ExchangeEnds
