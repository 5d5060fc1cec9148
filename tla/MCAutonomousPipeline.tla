------------------------ MODULE MCAutonomousPipeline ------------------------
(* A small instance of AutonomousPipeline for TLC. *)
EXTENDS AutonomousPipeline, TLC

MCSymmetry ==
    Permutations(Pipelines) \cup Permutations(Edits) \cup Permutations(Inodes)
=============================================================================
