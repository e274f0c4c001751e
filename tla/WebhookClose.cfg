CONSTANTS
    Messages = {m1}
    Requests = {r1, r2}
    Closers = {c1, c2}
    FlawsMet = {"none", "json"}
SPECIFICATION FairSpec
INVARIANTS
    GraceRespected
PROPERTIES
    QuietAfterClose
    EverybodyReturns
