CONSTANTS
    Far = 3
    None = None
    Nothing = Nothing
    Packages = {"numpy", "pandas", "other"}
    Known = {"numpy", "pandas"}
    Shelves <- MCShelves
    Requests <- MCRequests
    MaxChanges = 1
SPECIFICATION Spec
INVARIANTS
    OverlapExact
    StructureOverridesWords
    EvidenceIsScoped
PROPERTY EvidenceNotMissed
CHECK_DEADLOCK FALSE
