------------------------- MODULE EvidenceLifecycle -------------------------
(***************************************************************************)
(* What a bundle's evidence is worth when it is read:                      *)
(* app/core/run_artifacts.py (load_valid_run_artifact) and                 *)
(* app/core/evidence_lifecycle.py (evaluate_evidence_lifecycle), over the  *)
(* four kinds of file they read and the people and programs that move      *)
(* those files under them.                                                 *)
(*                                                                         *)
(* Nothing is stored about a status: it is derived, at each request, from  *)
(*   bundles/golden/*.json, bundles/drafts/*.json    the bundle files,     *)
(*   evidence/runs/<bundleId>.json                   the current run,      *)
(*   evidence/lifecycle/<bundleId>.json              the lifecycle record, *)
(* and the clock.  A SHA-256 in a file stands for the thing it digests.    *)
(***************************************************************************)
EXTENDS Integers, FiniteSets

CONSTANTS
    Golden, Drafts, \* the paths of each directory
    Late,           \* those past the first thousand names of theirs
    Ids,            \* bundle ids
    Scopes,         \* package and runtime of a bundle
    Bundles,        \* the bundle files' contents: one value per byte string, and
                    \* one more for the same bytes behind a symbolic link
    SchemaValid,    \* the contents that CompatibilityBundle accepts
    Linked,         \* those behind a symbolic link
    Oversized,      \* those of more than two megabytes (MAX_BUNDLE_BYTES)
    None,           \* no file
    Malformed,      \* a lifecycle file that does not parse or that has a bad
                    \* field, such as a bundle that supersedes itself
    FreshFor,       \* FRESHNESS_MAX_AGE
    Skew,           \* the five minutes granted to timestamps ahead of the clock
    ClockLead,      \* bound: how far a verifier's or operator's clock may lead
    MaxTime         \* bound on the clock

Paths == Golden \cup Drafts

\* Bytes determine the id and the scope they declare.
BundleType == [id : Ids, scope : Scopes, edit : Nat]

ASSUME PathsAssumption ==
    Golden \cap Drafts = {} /\ IsFiniteSet(Golden) /\ IsFiniteSet(Drafts)

ASSUME BundlesAssumption ==
    Bundles \subseteq BundleType /\ SchemaValid \subseteq Bundles /\ None \notin Bundles

ASSUME TimesAssumption ==
    /\ FreshFor \in Nat /\ Skew \in Nat /\ ClockLead \in Nat /\ MaxTime \in Nat
    /\ FreshFor > 0

Times == 0 .. (MaxTime + ClockLead)
Runs == [bundle : Bundles, completed : Times]

ASSUME NoneAssumption == None \notin Runs

\* A record challenges one run; a supersession names the run that replaces it.
Records ==
    [run : Runs, state : {"DISPUTED"}, effective : Times, successor : {None}]
    \cup
    {r \in [run : Runs, state : {"SUPERSEDED"}, effective : Times, successor : Runs] :
        r.successor.bundle.id # r.run.bundle.id}

Statuses ==
    {"UNVERIFIED", "UNKNOWN", "DISPUTED", "SUPERSEDED", "STALE", "VERIFIED"}

VARIABLES
    files,   \* bundle file at each path
    runs,    \* current run artifact of each id
    records, \* lifecycle record of each id
    now      \* the server's clock

evidenceVars == <<files, runs, records, now>>

EvidenceTypeOK ==
    /\ files \in [Paths -> Bundles \cup {None}]
    /\ runs \in [Ids -> Runs \cup {None}]
    /\ records \in [Ids -> Records \cup {None, Malformed}]
    /\ now \in 0 .. MaxTime

-----------------------------------------------------------------------------
(***************************************************************************)
(* Reading.                                                                *)
(***************************************************************************)

\* What no run is accepted for, whatever its digest.
Unbound == Linked \cup Oversized

\* load_valid_run_artifact: the run of exactly these bytes, or None.
ValidRun(b) ==
    LET run == runs[b.id]
    IN  IF b \notin Unbound /\ run # None /\ run.bundle = b /\ run.completed <= now + Skew
        THEN run ELSE None

\* _load_lifecycle_record says VALID: the record is bound to this very run and
\* its date is neither before the run nor in the future.
Binds(record, run) ==
    /\ record # Malformed
    /\ record.run = run
    /\ record.effective <= now + Skew
    /\ record.effective >= run.completed

\* The files among paths whose JSON names the id.
Claiming(id, paths) == {p \in paths : files[p] # None /\ files[p].id = id}

\* _load_schema_valid_bundle_entries: the golden files that REST and MCP see.
Listed(id) == {p \in Claiming(id, Golden) : files[p] \in SchemaValid}

\* The golden files that _load_unique_successor looks at, of any schema.
SuccessorFiles(id) == {p \in Claiming(id, Golden) \ Late : files[p] \notin Linked}

\* Mutation: the first golden file with the id is taken, unique or not.
SuccessorIsDeployedAny(b, record) ==
    LET s == record.successor.bundle
    IN  /\ \E p \in SuccessorFiles(s.id) : files[p] = s
        /\ s.scope = b.scope
        /\ ValidRun(s) = record.successor
        /\ record.effective >= record.successor.completed

\* _load_unique_successor and the checks of _supersession_target_is_current
\* before the recursion: one of the files it looks at claims the id, with the
\* bytes, the scope and the run that the record names.
SuccessorIsDeployed(b, record) ==
    LET s == record.successor.bundle
        claiming == SuccessorFiles(s.id)
    IN  /\ Cardinality(claiming) = 1
        /\ \A p \in claiming : files[p] = s
        /\ s.scope = b.scope
        /\ ValidRun(s) = record.successor
        /\ record.effective >= record.successor.completed

\* Mutation: a record that is not bound to the current run is ignored.
VerdictIgnoringUnbound(run, record, standing) ==
    IF record # None /\ Binds(record, run)
    THEN IF standing THEN record.state ELSE "UNKNOWN"
    ELSE IF now >= run.completed + FreshFor THEN "STALE" ELSE "VERIFIED"

\* Mutation: the clock is asked before the record is.
VerdictFreshnessFirst(run, record, standing) ==
    IF now >= run.completed + FreshFor THEN "STALE"
    ELSE IF record = None THEN "VERIFIED"
    ELSE IF Binds(record, run) /\ standing THEN record.state ELSE "UNKNOWN"

\* The status of a valid run; standing: its record supersedes nothing, or its
\* successor is current.
Verdict(run, record, standing) ==
    IF record # None
    THEN IF Binds(record, run) /\ standing THEN record.state ELSE "UNKNOWN"
    ELSE IF now >= run.completed + FreshFor THEN "STALE" ELSE "VERIFIED"

\* evaluate_evidence_lifecycle, with the ids visited on the way.  (Its own test
\* for a run ahead of the clock repeats the one in ValidRun.)
Status ==
    LET status[at \in (SUBSET Ids) \X Bundles] ==
          LET visited == at[1]
              b == at[2]
              run == ValidRun(b)
              record == records[b.id]
              SuccessorIsCurrent ==
                  /\ SuccessorIsDeployed(b, record)
                  /\ status[<<visited \cup {b.id}, record.successor.bundle>>] = "VERIFIED"
          IN  IF run = None THEN "UNVERIFIED"
              ELSE IF b.id \in visited THEN "UNKNOWN"
              ELSE Verdict(run, record,
                           record.state = "SUPERSEDED" => SuccessorIsCurrent)
    IN  status

StatusOf(b) == Status[<<{}, b>>]
Qualified(b) == StatusOf(b) = "VERIFIED"

-----------------------------------------------------------------------------
(***************************************************************************)
(* What moves under the readers.                                           *)
(***************************************************************************)

EvidenceInit ==
    /\ files \in [Paths -> Bundles \cup {None}]
    /\ runs = [i \in Ids |-> None]
    /\ records = [i \in Ids |-> None]
    /\ now = 0

\* A deployment, or the miner, writes, edits or removes a bundle file.
Deploy(p, content) ==
    /\ files[p] # content
    /\ files' = [files EXCEPT ![p] = content]
    /\ UNCHANGED <<runs, records, now>>

\* A verification of the file at p passes and its artifact becomes current.  A
\* verifier's clock may lead the server's.
Verify(p, lead) ==
    /\ files[p] # None
    /\ runs' = [runs EXCEPT ![files[p].id] =
                   [bundle |-> files[p], completed |-> now + lead]]
    /\ UNCHANGED <<files, records, now>>

\* An operator files a record about the current run, or leaves a broken one.
\* The dates and the successor may be wrong.
FileRecord(id, record) ==
    /\ record # Malformed => record.run = runs[id]
    /\ records[id] # record
    /\ records' = [records EXCEPT ![id] = record]
    /\ UNCHANGED <<files, runs, now>>

WithdrawRecord(id) ==
    /\ records[id] # None
    /\ records' = [records EXCEPT ![id] = None]
    /\ UNCHANGED <<files, runs, now>>

\* The records an operator may write about id now.  The bounds: dates are of this
\* moment, or for a dispute from a clock ahead.
Filings(id) ==
    IF runs[id] = None THEN {Malformed}
    ELSE {Malformed}
         \cup [run : {runs[id]}, state : {"DISPUTED"},
               effective : {now, now + ClockLead}, successor : {None}]
         \cup [run : {runs[id]}, state : {"SUPERSEDED"}, effective : {now},
               successor : {runs[i] : i \in Ids \ {id}} \ {None}]

Tick ==
    /\ now < MaxTime
    /\ now' = now + 1
    /\ UNCHANGED <<files, runs, records>>

EvidenceNext ==
    \/ \E p \in Paths, content \in Bundles \cup {None} : Deploy(p, content)
    \/ \E p \in Paths, lead \in {0, ClockLead} : Verify(p, lead)
    \/ \E id \in Ids : \E record \in Filings(id) : FileRecord(id, record)
    \/ \E id \in Ids : WithdrawRecord(id)
    \/ Tick

EvidenceSpec == EvidenceInit /\ [][EvidenceNext]_evidenceVars

-----------------------------------------------------------------------------
(***************************************************************************)
(* The policy, as section 8 of docs/VERIFICATION_PIPELINE.md tables it,    *)
(* with no recursion and no order of tests: each status has its own        *)
(* condition.                                                              *)
(***************************************************************************)

Current(b) ==
    ValidRun(b) # None /\ records[b.id] = None /\ now < ValidRun(b).completed + FreshFor

Consistent(b) ==
    /\ Binds(records[b.id], ValidRun(b))
    /\ records[b.id].state = "SUPERSEDED" =>
          /\ SuccessorIsDeployed(b, records[b.id])
          /\ Current(records[b.id].successor.bundle)

PolicySays(b, status) ==
    LET run == ValidRun(b)
        record == records[b.id]
    IN  CASE status = "UNVERIFIED" -> run = None
          [] status = "VERIFIED" -> Current(b)
          [] status = "STALE" ->
               run # None /\ record = None /\ now >= run.completed + FreshFor
          [] status \in {"DISPUTED", "SUPERSEDED"} ->
               run # None /\ record # None /\ Consistent(b) /\ record.state = status
          [] status = "UNKNOWN" ->
               run # None /\ record # None /\ ~Consistent(b)

Deployed == {files[p] : p \in Paths} \ {None}

(***************************************************************************)
(* The order of the tests and the recursion over supersessions, with its   *)
(* visited set, give exactly the policy's one status, whatever chains and  *)
(* cycles of records are on disk (evaluate_evidence_lifecycle).            *)
(***************************************************************************)
FollowsPolicy ==
    \A b \in Deployed : {s \in Statuses : PolicySays(b, s)} = {StatusOf(b)}

(***************************************************************************)
(* A supersession always leads the reader to usable evidence: the named    *)
(* successor is itself qualified at this moment, and of the golden files   *)
(* that are no links and among the first thousand it is the only one with  *)
(* its id; so no bundles supersede each other in a cycle.                  *)
(***************************************************************************)
SupersessionLeadsToEvidence ==
    \A b \in Deployed :
        StatusOf(b) = "SUPERSEDED" =>
            LET s == records[b.id].successor.bundle
            IN  /\ s \in Deployed /\ s # b /\ s.scope = b.scope
                /\ Cardinality(SuccessorFiles(s.id)) = 1
                /\ Qualified(s)

(***************************************************************************)
(* A re-run does not launder a challenge: as long as a record lies beside  *)
(* the run, whatever runs, edits, redeployments or ticks came after it, no *)
(* bytes with its id are VERIFIED or STALE, which offers a re-verification *)
(* (_load_lifecycle_record is fail closed).                                *)
(***************************************************************************)
ChallengeOutlivesReruns ==
    \A b \in Bundles : records[b.id] # None => StatusOf(b) \notin {"VERIFIED", "STALE"}

(***************************************************************************)
(* Time alone only takes away: it settles no challenge, a supersession can *)
(* only lapse (its successor ages), and nothing becomes VERIFIED unless    *)
(* its run came from a clock ahead of the server's.                        *)
(***************************************************************************)
TimeOnlyDegrades ==
    [][now' # now =>
          \A b \in Bundles :
              /\ StatusOf(b) = "DISPUTED" => StatusOf(b)' = "DISPUTED"
              /\ StatusOf(b) = "SUPERSEDED" => StatusOf(b)' \in {"SUPERSEDED", "UNKNOWN"}
              /\ ~Qualified(b) /\ Qualified(b)' =>
                    runs[b.id].completed > now + Skew]_evidenceVars
=============================================================================
