----------------------------- MODULE MCRegistry -----------------------------
(* A small instance of Registry for TLC: one id, one edit of its file that   *)
(* passes the schema and one that does not, a recipe that stands for the same *)
(* bundle, and a draft past the first thousand.                              *)
EXTENDS Registry, TLC

MCBundles == {[id |-> "x", scope |-> "s", edit |-> e] : e \in {0, 1}}
MCSchemaValid == {b \in MCBundles : b.edit = 0}

\* One row at most, which claims to be verified.
MCClaims == [bundle : Bundles, tested : 0 .. MaxTime, status : {"VERIFIED"}]
MCHistory ==
    {t \in [RowIds -> MCClaims \cup {None}] :
        Cardinality({r \in RowIds : t[r] # None}) <= 1}

MCSymmetry == Permutations(Golden) \cup Permutations(Drafts \ Late)
=============================================================================
