CONSTANTS
    Messages = {m1}
    Requests = {r1, r2, r3}
    Closers = {c1}
    FlawsMet = {"none", "method", "headers", "size", "signature", "mediaType", "json", "messageId"}
SPECIFICATION Spec
SYMMETRY RequestSymmetry
INVARIANTS
    DeliveredIsCommitted
    DeadOnlyIfFlawed
