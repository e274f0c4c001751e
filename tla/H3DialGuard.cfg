CONSTANTS
    Dials = {d1, d2}
    IPs = {a, b}
    MaxExpiries = 2
    MaxChanges = 2
SPECIFICATION FairSpec
INVARIANTS
    SingleRefresh
    DeniedByFreshAnswer
PROPERTIES
    DialDecided
