-------------------------- MODULE MCArtifactStore --------------------------
(* Small instances of ArtifactStore for TLC. *)
EXTENDS ArtifactStore, TLC

Deployment(locked, faults) == [serialised |-> locked, faults |-> faults]

\* Publishers started by hand, without the lock, that can be killed, on a disk
\* that works, on one that fails, and on a host that is also starved; and the
\* scheduler's serialised ones on a disk that fails.
MCHosts == {Deployment(FALSE, {"kill"}),
            Deployment(TRUE, {"kill", "io"}),
            Deployment(FALSE, {"kill", "io"}),
            Deployment(FALSE, {"kill", "io", "starved"})}

\* The scheduler's own runs, which its per-target timeout kills.
MCScheduledHosts == {Deployment(TRUE, {"kill"})}

\* The two unreliable hosts, each with one fault: the scheduler's own runs,
\* short of file descriptors; runs by hand, on a disk that fails.
MCStarvedHosts == {Deployment(TRUE, {"starved"})}
MCUnlockedHosts == {Deployment(FALSE, {"io"})}

MCSymmetry == Permutations(Publishers) \cup Permutations(Artifacts)
=============================================================================
