-------------------------- MODULE MCVerificationJob --------------------------
(* A small instance of VerificationJob for TLC. *)
EXTENDS VerificationJob, TLC

MCSymmetry == Permutations(Jobs) \cup Permutations(Contents)
              \cup Permutations(Sources) \cup Permutations(Validators)
=============================================================================
