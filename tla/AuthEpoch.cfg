CONSTANTS
    Calls = {c1, c2}
    MaxBoot = 4
SPECIFICATION FairSpec
INVARIANTS
    SingleFlight
    NoLostWakeup
    OneDiscoveryPerBoot
PROPERTIES
    CurrentEpochKept
    ReplayIsNewer
    OutcomeIsTruthful
    EveryCallReturns
