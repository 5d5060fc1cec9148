------------------------ MODULE MCEvidenceLifecycle ------------------------
(* A small instance of EvidenceLifecycle for TLC. *)
EXTENDS EvidenceLifecycle, TLC

MCBundles == {[id |-> "x", scope |-> "s", edit |-> 0],
              [id |-> "y", scope |-> "s", edit |-> 0],
              [id |-> "y", scope |-> "t", edit |-> 1]}

MCSymmetry == Permutations(Golden \ Late)
=============================================================================
