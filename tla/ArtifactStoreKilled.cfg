CONSTANTS
    Publishers = {p1, p2}
    Artifacts = {a1, a2}
    NoArtifact = NoArtifact
    Malformed = Malformed
    Hosts <- MCScheduledHosts
SPECIFICATION Spec
INVARIANT Transactional
