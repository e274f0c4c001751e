CONSTANTS
    Window = 1
    MaxTime = 5
    MaxSkew = 2
    MaxSigned = 1
    Deliveries = {d1, d2}
SPECIFICATION Spec
SYMMETRY DeliverySymmetry
INVARIANTS
    AcceptedMeansSigned
    SignedIsAccepted
    AcceptedOnceInWindow
