CONSTANTS
    Publishers = {p1, p2}
    Artifacts = {a1, a2, a3}
    NoArtifact = NoArtifact
    Malformed = Malformed
    Hosts <- MCHosts
SPECIFICATION Spec
SYMMETRY MCSymmetry
INVARIANTS
    TypeOK
    HistoryRetained
PROPERTIES
    ArchiveImmutable
    PointerFailsClosed
    OrphanFailsClosed
    ImplementsHistory
