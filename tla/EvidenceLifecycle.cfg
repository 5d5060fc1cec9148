CONSTANTS
    Golden = {g1, g2, g3}
    Drafts = {}
    Late = {g3}
    Ids = {"x", "y"}
    Scopes = {"s", "t"}
    Bundles <- MCBundles
    SchemaValid <- MCBundles
    Linked = {}
    Oversized = {}
    None = None
    Malformed = Malformed
    FreshFor = 1
    Skew = 0
    ClockLead = 1
    MaxTime = 1
SYMMETRY MCSymmetry
SPECIFICATION EvidenceSpec
INVARIANTS
    FollowsPolicy
    SupersessionLeadsToEvidence
    ChallengeOutlivesReruns
PROPERTY TimeOnlyDegrades
