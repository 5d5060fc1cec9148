-------------------------- MODULE EvidenceHistory --------------------------
(***************************************************************************)
(* What the run-artifact store of one bundle promises its readers,         *)
(* whatever files it keeps: a current run artifact, and an append-only set *)
(* of retained artifacts in which every artifact that leaves the current   *)
(* pointer, and every one that enters it, is found.                        *)
(* ArtifactStore implements this specification.                            *)
(***************************************************************************)
CONSTANTS
    Artifacts,  \* canonical run artifacts of the bundle, one per digest
    NoArtifact, \* the current pointer of a bundle that was never published
    Malformed   \* a current file that is no archivable artifact

VARIABLES retained, current

historyVars == <<retained, current>>

TypeOK ==
    /\ retained \subseteq Artifacts
    /\ current \in Artifacts \cup {NoArtifact, Malformed}

Init ==
    /\ retained \in SUBSET Artifacts
    /\ current \in Artifacts \cup {NoArtifact, Malformed}

\* An artifact is retained for good.
Retain(a) ==
    /\ retained' = retained \cup {a}
    /\ UNCHANGED current

\* The pointer moves from a retained artifact (or none) to a retained one.
Publish(a) ==
    /\ a \in retained
    /\ current \in retained \cup {NoArtifact}
    /\ current' = a
    /\ UNCHANGED retained

Next == \E a \in Artifacts : Retain(a) \/ Publish(a)

Spec == Init /\ [][Next]_historyVars
=============================================================================
