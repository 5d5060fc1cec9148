CONSTANTS
    Jobs = {j1, j2}
    Contents = {c1, c2}
    Sources = {s1, s2}
    Validators = {v1, v2}
    NumMutations = 2
    Fix = Fix
    Litter = Litter
    None = None
    MaxEdits = 2
    MaxStuck = 1
\* Every job ends, and then nothing is left to do.
CHECK_DEADLOCK FALSE
SYMMETRY MCSymmetry
SPECIFICATION Spec
INVARIANTS
    ArtifactNamesWhatRan
    ContractWasExecuted
    GateAcceptedIt
    UndisturbedIsExact
    EndedJobsLeaveNothing
