CONSTANTS
    Far = 3
    None = None
    Nothing = Nothing
    Packages = {"numpy", "pandas", "other"}
    Known = {"numpy", "pandas"}
    Shelves <- MCShelves
    Requests <- MCRequests
    MaxChanges = 0
SPECIFICATION Spec
INVARIANT SuppliedVersionObserved
CHECK_DEADLOCK FALSE
