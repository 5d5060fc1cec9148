---------------------------- MODULE FindSolution ----------------------------
(***************************************************************************)
(* The tool find_solution of app/mcp/server.py and the recipe search of    *)
(* app/api/recipes.py that it falls back on, from the request to the       *)
(* answer.                                                                 *)
(*                                                                         *)
(* The bundles are read at one moment and, if none of them is a candidate, *)
(* the registry snapshot at a later one: what a bundle's evidence is worth *)
(* (EvidenceLifecycle) may change before, between and after.  The bundle   *)
(* files themselves stand still here.  Registry tells how the two views    *)
(* come about; here a bundle is in the published view if it is golden or   *)
(* qualifies, and in the snapshot too if no other file claims its id.      *)
(***************************************************************************)
EXTENDS VersionMatcher, SignatureMatcher

CONSTANTS
    Packages,   \* package names, in lower case
    Known,      \* KNOWN_PACKAGES
    Shelves,    \* the sets of bundles that a repository may hold
    Requests,   \* the requests made of each shelf: the error text, the packages
                \* it mentions, the versions asked for, and whether the client
                \* writes the packages' names in lower case
    MaxChanges  \* bound on the changes of the bundles' standing

ASSUME ShelvesAssumption ==
    \A bundles \in Shelves : \A b \in bundles :
        b.package \in Packages /\ b.names \subseteq Known

ASSUME KnownAssumption == Known \subseteq Packages

\* An affected range is not empty, and no clause leaves the releases.
ASSUME VersionsAssumption ==
    \A bundles \in Shelves :
        /\ \A r \in Requests[bundles] : \A p \in DOMAIN r.versions :
              IsRequest(r.versions[p])
        /\ \A b \in bundles :
              /\ b.affected # {} /\ IsFiniteSet(b.affected)
              /\ b.affected \subseteq InnerClauses

\* Texts and variants are sequences.
ASSUME TextsAssumption ==
    \A bundles \in Shelves :
        /\ \A r \in Requests[bundles] :
              r.text \in Seq([word : AllWords(r.text), role : Roles])
        /\ \A b \in bundles :
              b.variants \in Seq({b.variants[i] : i \in DOMAIN b.variants})

\* What find_solution answers of a bundle.
PayloadRecords ==
    [bundle : UNION Shelves, similarity : 0 .. 100,
     status : {"VERIFIED_MATCH", "UNVERIFIED_MATCH", "VERSION_MISMATCH"},
     action : {"REPRODUCE_BEFORE_APPLY", "REVERIFY_BEFORE_CONSIDERING",
               "USE_SUPERSEDING_RECORD", "DO_NOT_APPLY",
               "REPRODUCE_BEFORE_CONSIDERING"},
     patch : BOOLEAN]

ASSUME PayloadsAssumption == None \notin PayloadRecords

Standings ==
    {"UNVERIFIED", "UNKNOWN", "DISPUTED", "SUPERSEDED", "STALE", "VERIFIED"}

VARIABLES
    shelf,    \* the bundles in the repository
    standing, \* evidence status of each bundle, derived from the files
    changes,  \* how often it changed
    phase,    \* of the request: "idle", "asked", "missed", "answered"
    request,
    answer    \* the answers of the candidates, best first: [top, related]

findVars == <<shelf, standing, changes, phase, request, answer>>

NoAnswer == [top |-> None, related |-> {}]

-----------------------------------------------------------------------------
(***************************************************************************)
(* The bundles.                                                            *)
(***************************************************************************)

\* A run artifact is valid only for a bundle that records the whole contract.
Possible(b) == IF b.contract THEN Standings ELSE {"UNVERIFIED"}

Published(b) == b.golden \/ standing[b] = "VERIFIED"

\* The names of the packages a request is about: words of the error text that
\* are known or an alias of a known one, and the keys of its packages.
Asked(r) == r.mentions \cup DOMAIN r.versions

Similar(r, b) == Match(r.text, b.fingerprint, b.variants)

\* Package filter and signature gate.  The package names of the request are
\* compared as the client wrote them, those of the error text in lower case.
Candidate(r, b) ==
    LET asked == r.mentions \cup (IF r.lower THEN DOMAIN r.versions ELSE {})
    IN  /\ Published(b) /\ b.contract
        /\ Asked(r) # {} => b.package \in asked
        /\ Similar(r, b) >= 70

\* The request names the very release that the bundle's run observed.
ExactRelease(r, b) ==
    /\ b.package \in DOMAIN r.versions
    /\ MatchesExactObserved(r.versions[b.package], b.observed[b.package])

\* evaluate_environment.
Environment(r, b) ==
    IF b.package \notin DOMAIN r.versions THEN "UNKNOWN"
    ELSE IF Compatible(r.versions[b.package], b.affected) THEN "MATCH"
    ELSE "MISMATCH"

Blocking == {"STALE", "DISPUTED", "SUPERSEDED", "UNKNOWN"}

\* What the client may do with a candidate that is not out of range.
Actionability(b, verified) ==
    CASE verified -> "REPRODUCE_BEFORE_APPLY"
      [] ~verified /\ standing[b] = "STALE" -> "REVERIFY_BEFORE_CONSIDERING"
      [] ~verified /\ standing[b] = "SUPERSEDED" -> "USE_SUPERSEDING_RECORD"
      [] ~verified /\ standing[b] \in {"DISPUTED", "UNKNOWN"} -> "DO_NOT_APPLY"
      [] ~verified /\ standing[b] \in {"VERIFIED", "UNVERIFIED"} ->
            "REPRODUCE_BEFORE_CONSIDERING"

\* The payload of a candidate.
Payload(r, b) ==
    LET verified == standing[b] = "VERIFIED" /\ ExactRelease(r, b)
    IN  IF Environment(r, b) = "MISMATCH"
        THEN [bundle |-> b, similarity |-> Similar(r, b),
              status |-> "VERSION_MISMATCH", action |-> "DO_NOT_APPLY",
              patch |-> FALSE]
        ELSE [bundle |-> b, similarity |-> Similar(r, b),
              status |-> IF verified THEN "VERIFIED_MATCH"
                         ELSE "UNVERIFIED_MATCH",
              action |-> Actionability(b, verified),
              patch |-> standing[b] \notin Blocking]

\* The most similar of some payloads.
MostSimilar(payloads) ==
    {p \in payloads : \A q \in payloads : p.similarity >= q.similarity}

\* Mutation: the answer is the best candidate and no other.
AnswersBestOnly(payloads) ==
    {[top |-> p, related |-> {}] : p \in MostSimilar(payloads)}

\* The best candidate with the others as related matches.  Bundles that are
\* equally similar come in the order of their ids, which is left open.
Answers(payloads) ==
    {[top |-> p, related |-> payloads \ {p}] : p \in MostSimilar(payloads)}

-----------------------------------------------------------------------------
(***************************************************************************)
(* The recipes.                                                            *)
(***************************************************************************)

\* Mutation: a request that names none of the recipe's packages matches too.
RecipeVersionsMatchVacuously(r, b) ==
    \A p \in DOMAIN r.versions \cap b.names :
        MatchesExactObserved(r.versions[p], b.observed[p])

\* recipe_matches_requested_evidence_versions: the packages that the recipe's
\* text names, in lower case, are those whose versions count.
RecipeVersionsMatch(r, b) ==
    LET relevant == DOMAIN r.versions \cap b.names
    IN  /\ relevant # {}
        /\ \A p \in relevant :
              MatchesExactObserved(r.versions[p], b.observed[p])

\* A recipe shows its bundle's primary signature only.
RecipeSimilarity(r, b) == Similarity(r.text, b.fingerprint.text, {})

\* The records search_recipes scores.
Scored(r) ==
    {b \in shelf :
        /\ b.unique /\ standing[b] = "VERIFIED"
        /\ Asked(r) # {} => Asked(r) \cap b.names # {}
        /\ DOMAIN r.versions # {} => RecipeVersionsMatch(r, b)
        /\ RecipeSimilarity(r, b) >= 70}

RecipeScore(r, b) == 10 * RecipeSimilarity(r, b) + 100

\* Mutation: what scores 60% of the best possible score is not good enough.
FoundStrict(r) ==
    {b \in Scored(r) : 10 * RecipeScore(r, b) > 9 * 1100}

\* What is left after the cut at 60% of the best score.
Found(r) ==
    {b \in Scored(r) : \A c \in Scored(r) :
        10 * RecipeScore(r, b) >= 6 * RecipeScore(r, c)}

\* The first of them, for a request that names a version.
RecipeAnswers(r) ==
    LET payloads ==
          {[bundle |-> b, similarity |-> RecipeSimilarity(r, b),
            status |-> "VERIFIED_MATCH", action |-> "REPRODUCE_BEFORE_APPLY",
            patch |-> TRUE] : b \in Found(r)}
    IN  IF payloads = {} \/ DOMAIN r.versions = {} THEN {NoAnswer}
        ELSE {[top |-> p, related |-> {}] : p \in MostSimilar(payloads)}

-----------------------------------------------------------------------------
(***************************************************************************)
(* One request.                                                            *)
(***************************************************************************)

Init ==
    /\ shelf \in Shelves
    /\ standing \in [shelf -> Standings]
    /\ \A b \in shelf : standing[b] \in Possible(b)
    /\ changes = 0
    /\ phase = "idle"
    /\ request = None
    /\ answer = NoAnswer

\* The call arrives and is logged.
Ask(r) ==
    /\ phase = "idle"
    /\ phase' = "asked"
    /\ request' = r
    /\ UNCHANGED <<shelf, standing, changes, answer>>

Candidates == {b \in shelf : Candidate(request, b)}

\* load_all_published_bundles and the loop over what it returns.
Scan ==
    /\ phase = "asked"
    /\ IF Candidates # {}
       THEN /\ answer' \in Answers({Payload(request, b) : b \in Candidates})
            /\ phase' = "answered"
       ELSE /\ phase' = "missed"
            /\ UNCHANGED answer
    /\ UNCHANGED <<shelf, standing, changes, request>>

\* search_recipes, over the snapshot of that moment.
SearchRecipes ==
    /\ phase = "missed"
    /\ answer' \in RecipeAnswers(request)
    /\ phase' = "answered"
    /\ UNCHANGED <<shelf, standing, changes, request>>

\* A file, a run, a record or the clock moves between the two reads.  (Before
\* the first, it makes another initial state.)
Change(b, s) ==
    /\ phase = "missed"
    /\ changes < MaxChanges
    /\ s \in Possible(b) \ {standing[b]}
    /\ standing' = [standing EXCEPT ![b] = s]
    /\ changes' = changes + 1
    /\ UNCHANGED <<shelf, phase, request, answer>>

Next ==
    \/ \E r \in Requests[shelf] : Ask(r)
    \/ Scan
    \/ SearchRecipes
    \/ \E b \in shelf, s \in Standings : Change(b, s)

Spec == Init /\ [][Next]_findVars

-----------------------------------------------------------------------------
Payloads == (IF answer.top = None THEN {} ELSE {answer.top}) \cup answer.related

(***************************************************************************)
(* The probes around the boundaries find every overlap there is and no     *)
(* other, for the versions and ranges of this request and these bundles    *)
(* (check_version_compatibility).                                          *)
(***************************************************************************)
OverlapExact ==
    request # None =>
        \A b \in shelf : b.package \in DOMAIN request.versions =>
            (Compatible(request.versions[b.package], b.affected)
             <=> Overlap(request.versions[b.package], b.affected))

(***************************************************************************)
(* "Exception Class Gate comes before every exact/regex/token path": a     *)
(* candidate never names another exception class than the request, and one *)
(* that is alike in its words only contradicts it in no structured field.  *)
(***************************************************************************)
StructureOverridesWords ==
    \A p \in Payloads :
        \E v \in {p.bundle.fingerprint}
                 \cup {p.bundle.variants[i] : i \in DOMAIN p.bundle.variants} :
            /\ ~Differ(request.text, v.text, "class")
            /\ p.similarity < 98 =>
                  \A role \in {"attribute", "import", "removed"} :
                      ~Differ(request.text, v.text, role)

(***************************************************************************)
(* Run-bound evidence is inherited by no other release, through the        *)
(* bundles and through the recipes alike: every VERIFIED_MATCH rests on a  *)
(* supplied version that its run observed, and contradicts no version      *)
(* supplied for its own package if the recipe's text names it.             *)
(***************************************************************************)
EvidenceIsScoped ==
    \A p \in Payloads : p.status = "VERIFIED_MATCH" =>
        /\ \E package \in DOMAIN request.versions :
              MatchesExactObserved(request.versions[package],
                                   p.bundle.observed[package])
        /\ p.bundle.package \in p.bundle.names \cap DOMAIN request.versions =>
              ExactRelease(request, p.bundle)

(***************************************************************************)
(* More than that does not hold: "Exact run-bound artifact validated and   *)
(* supplied package version equals the observed release"                   *)
(* (app/models/discovery.py), the version of the bundle's own package.     *)
(***************************************************************************)
SuppliedVersionObserved ==
    \A p \in Payloads :
        p.status = "VERIFIED_MATCH" => ExactRelease(request, p.bundle)

(***************************************************************************)
(* No evidence is missed: whatever else matches, however it ranks and      *)
(* whatever the thresholds cut off, a bundle with qualified evidence for   *)
(* the requested release, in its affected range, is in the answer; and the *)
(* recipes, asked about one package, find such evidence if there is any.   *)
(***************************************************************************)
EvidenceNotMissed ==
    /\ [][Scan =>
             \A b \in shelf :
                 /\ standing[b] = "VERIFIED" /\ request.lower
                 /\ ExactRelease(request, b)
                 /\ Environment(request, b) = "MATCH" /\ Similar(request, b) > 0
                 => \E p \in Payloads' :
                       p.bundle = b /\ p.status = "VERIFIED_MATCH"]_findVars
    /\ [][SearchRecipes =>
             \A b \in shelf :
                 /\ standing[b] = "VERIFIED" /\ b.unique
                 /\ DOMAIN request.versions = {b.package}
                 /\ b.package \in b.names /\ ExactRelease(request, b)
                 /\ RecipeSimilarity(request, b) > 0
                 => answer'.top # None]_findVars
=============================================================================
