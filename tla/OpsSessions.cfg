CONSTANTS
    Requests = {r1, r2, r3}
    Passwords = {"env", "other"}
    Bootstrap = {"env"}
    None = None
    TTL = 1
    MaxTime = 1
SYMMETRY MCSymmetry
SPECIFICATION Spec
INVARIANTS
    AccessWasDue
    RevokedStaysOut
PROPERTY LiveSessionsStay
CHECK_DEADLOCK FALSE
