CONSTANTS
    Golden = {g1, g2}
    Drafts = {}
    Late = {}
    Ids = {"x"}
    Scopes = {"s", "t"}
    Bundles <- MCAlone
    SchemaValid <- MCAlone
    Linked = {}
    Oversized = {}
    None = None
    Malformed = Malformed
    FreshFor = 1
    Skew = 0
    ClockLead = 0
    MaxTime = 1
    MaxChanges = 2
SYMMETRY MCSymmetry
SPECIFICATION Spec
INVARIANT ShownIsTested
CHECK_DEADLOCK FALSE
