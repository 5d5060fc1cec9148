CONSTANTS
    Golden = {g1, g2}
    Drafts = {d1, d2}
    Late = {}
    Ids = {"x"}
    Scopes = {"s"}
    Bundles <- MCBundles
    SchemaValid <- MCSchemaValid
    Linked = {}
    Oversized = {}
    None = None
    Malformed = Malformed
    FreshFor = 1
    Skew = 0
    ClockLead = 0
    MaxTime = 1
    RowIds = {"x", "recipe"}
    History <- MCHistory
SYMMETRY MCSymmetry
SPECIFICATION RegistrySpec
INVARIANT ProjectionsAligned
