------------------------- MODULE MCEvidenceRequest -------------------------
(* Two small instances of EvidenceRequest for TLC: a bundle, and a          *)
(* successor that is deployed with two scopes; and a bundle alone, which is *)
(* deployed with two scopes and two edits.                                  *)
EXTENDS EvidenceRequest, TLC

MCBundles == {[id |-> "x", scope |-> "s", edit |-> 0],
              [id |-> "y", scope |-> "s", edit |-> 0],
              [id |-> "y", scope |-> "t", edit |-> 0]}

MCAlone == [id : {"x"}, scope : {"s", "t"}, edit : {0, 1}]

MCSymmetry == Permutations(Golden)
=============================================================================
