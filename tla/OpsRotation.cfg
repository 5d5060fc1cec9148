CONSTANTS
    Requests = {r1, r2}
    Passwords = {"env", "other"}
    Bootstrap = {"env"}
    None = None
    TTL = 1
    MaxTime = 0
SPECIFICATION Spec
PROPERTY RotationLasts
CHECK_DEADLOCK FALSE
