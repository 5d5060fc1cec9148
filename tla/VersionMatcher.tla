--------------------------- MODULE VersionMatcher ---------------------------
(***************************************************************************)
(* app/core/version_matcher.py: does a requested version, or range, meet   *)
(* the range a bundle says it affects, and is it the very release a run    *)
(* observed?                                                               *)
(*                                                                         *)
(* A release is a triple, as the probes are; a clause keeps the segments   *)
(* it was written with, since ~= and .* depend on how many there are.      *)
(* Left out: releases of four segments, epochs, local and post releases,   *)
(* and clauses that name a prerelease.                                     *)
(***************************************************************************)
EXTENDS Integers, Sequences, FiniteSets

CONSTANTS
    Far,  \* the 99 of the probes below a boundary
    None  \* no version

ASSUME FarAssumption == Far \in Nat \ {0}

Releases == [1 .. 3 -> 0 .. (Far + 1)]
Versions == [release : Releases, pre : BOOLEAN]  \* pre: a prerelease of it

Operators == {"<", "<=", ">", ">=", "==", "!=", "~=", "==.*", "!=.*"}

\* The boundaries that are written with these numbers.
Boundaries(numbers) == UNION {[1 .. n -> numbers] : n \in 1 .. 3}

\* A clause that lies within the releases.
InnerClauses == [op : Operators, at : Boundaries(0 .. Far)]

Pad(at) == [i \in 1 .. 3 |-> IF i <= Len(at) THEN at[i] ELSE 0]

Below(r, s) ==
    \E i \in 1 .. 3 : r[i] < s[i] /\ \A j \in 1 .. (i - 1) : r[j] = s[j]

SharePrefix(r, at, n) == \A i \in 1 .. n : r[i] = at[i]

\* PEP 440: a final release against one clause [op, at].
Meets(r, c) ==
    CASE c.op = "<" -> Below(r, Pad(c.at))
      [] c.op = "<=" -> ~Below(Pad(c.at), r)
      [] c.op = ">" -> Below(Pad(c.at), r)
      [] c.op = ">=" -> ~Below(r, Pad(c.at))
      [] c.op = "==" -> r = Pad(c.at)
      [] c.op = "!=" -> r # Pad(c.at)
      [] c.op = "~=" -> ~Below(r, Pad(c.at)) /\ SharePrefix(r, c.at, Len(c.at) - 1)
      [] c.op = "==.*" -> SharePrefix(r, c.at, Len(c.at))
      [] c.op = "!=.*" -> ~SharePrefix(r, c.at, Len(c.at))

\* v in SpecifierSet(clauses): prereleases are in no set that names none.
In(v, clauses) == ~v.pre /\ \A c \in clauses : Meets(v.release, c)

Final(r) == [release |-> r, pre |-> FALSE]

\* Mutation: nothing is probed just below a boundary's last segment.
ProbesNotBelow(at) ==
    LET b == Pad(at)
    IN  {b, [b EXCEPT ![3] = @ + 1], <<b[1], b[2] + 1, 0>>, <<b[1] + 1, 0, 0>>}
        \cup (IF b[2] > 0 THEN {<<b[1], b[2] - 1, Far>>} ELSE {})
        \cup (IF b[1] > 0 THEN {<<b[1] - 1, Far, Far>>} ELSE {})

\* The releases tried around one boundary.
Probes(at) ==
    LET b == Pad(at)
    IN  {b, [b EXCEPT ![3] = @ + 1], <<b[1], b[2] + 1, 0>>, <<b[1] + 1, 0, 0>>}
        \cup (IF b[3] > 0 THEN {[b EXCEPT ![3] = @ - 1]} ELSE {})
        \cup (IF b[2] > 0 THEN {<<b[1], b[2] - 1, Far>>} ELSE {})
        \cup (IF b[1] > 0 THEN {<<b[1] - 1, Far, Far>>} ELSE {})

\* A request is an exact version, a range, or text that is neither.
ExactRequest(v) == [kind |-> "exact", version |-> v, clauses |-> {}]
RangeRequest(cs) == [kind |-> "range", version |-> None, clauses |-> cs]
MalformedRequest == [kind |-> "malformed", version |-> None, clauses |-> {}]

IsRequest(requested) ==
    \/ /\ requested.version \in Versions
       /\ requested = ExactRequest(requested.version)
    \/ /\ IsFiniteSet(requested.clauses) /\ requested.clauses \subseteq InnerClauses
       /\ requested = RangeRequest(requested.clauses)
    \/ requested = MalformedRequest

\* check_version_compatibility.
Compatible(requested, affected) ==
    \/ /\ requested.kind = "exact"
       /\ \/ In(requested.version, affected)
          \/ requested.version.pre /\ In(Final(requested.version.release), affected)
    \/ /\ requested.kind = "range"
       /\ \E c \in requested.clauses \cup affected : \E r \in Probes(c.at) :
             In(Final(r), requested.clauses) /\ In(Final(r), affected)

\* matches_exact_observed_version: ranges and prereleases inherit no run.
MatchesExactObserved(requested, observed) ==
    requested.kind = "exact" /\ observed # None /\ requested.version = observed

(***************************************************************************)
(* The reference: a release that both sides admit, wherever it lies.       *)
(***************************************************************************)
Overlap(requested, affected) ==
    LET admitted == IF requested.kind = "exact"
                    THEN {requested.version.release}
                    ELSE {r \in Releases : In(Final(r), requested.clauses)}
    IN  /\ requested.kind # "malformed"
        /\ \E r \in admitted : In(Final(r), affected)
=============================================================================
