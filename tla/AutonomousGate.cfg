CONSTANTS
    Pipelines = {p1, p2}
    Edits = {e1, e2}
    Inodes = {i1, i2, i3, i4, i5}
    None = None
    Empty = Empty
    Torn = Torn
    MaxRuns = 3
SYMMETRY MCSymmetry
SPECIFICATION Spec
PROPERTY GateFailureLeavesNothing
