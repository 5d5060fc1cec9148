CONSTANTS
    Golden = {g1, g2}
    Drafts = {}
    Late = {}
    Ids = {"x", "y"}
    Scopes = {"s", "t"}
    Bundles <- MCBundles
    SchemaValid <- MCBundles
    Linked = {}
    Oversized = {}
    None = None
    Malformed = Malformed
    FreshFor = 1
    Skew = 0
    ClockLead = 0
    MaxTime = 1
    MaxChanges = 2
SYMMETRY MCSymmetry
SPECIFICATION Spec
INVARIANTS
    AtomicUnderOneChange
    NeverPastAChallenge
CHECK_DEADLOCK FALSE
