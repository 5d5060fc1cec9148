------------------------------ MODULE Registry ------------------------------
(***************************************************************************)
(* The public views of the registry and the SQLite rows they fall back on: *)
(*   load_all_golden_bundles     GET /api/v1/bundles         (REST)        *)
(*   load_all_published_bundles  find_solution               (MCP)         *)
(*   _find_exact_bundle          GET /api/v1/bundles/<id>/evidence         *)
(*   build_registry_snapshot     recipe search, ops, pages                 *)
(*   _load_backing_bundle        the contract a SQLite row has to meet     *)
(*   init_db                     startup: quarantine, then resynchronise   *)
(* Each view scans the directories for itself, with its own idea of which  *)
(* files count (all JSON, or what the schema accepts; all paths, or the    *)
(* first thousand regular files of two megabytes at most), and treats an   *)
(* id that more than one of them claims in its own way.  Golden files      *)
(* declare the status VERIFIED here; one that declares less is shown as it *)
(* declares.                                                               *)
(***************************************************************************)
EXTENDS EvidenceLifecycle

CONSTANTS
    RowIds,  \* primary keys of the table: the bundle ids, and recipe ids rec_...
    History  \* bound: the tables that earlier releases may have left

VARIABLES
    backs,   \* the bundle id each row id stands for: its own for bundle_...,
             \* that of the bundle for rec_bundle_..., none for any other.
             \* Fixed from the start
    rows     \* the recipes table

registryVars == <<files, runs, records, now, backs, rows>>

RowStatuses == Statuses \cup {"DRAFT"}

\* The content a row projects, the time it says it was tested at, its status.
Rows == [bundle : Bundles, tested : Times \cup {None}, status : RowStatuses]

ASSUME RowsAssumption ==
    /\ Ids \subseteq RowIds /\ None \notin Ids /\ None \notin Rows
    /\ History \subseteq [RowIds -> Rows \cup {None}]

RegistryTypeOK ==
    /\ EvidenceTypeOK
    /\ backs \in [RowIds -> Ids \cup {None}]
    /\ rows \in [RowIds -> Rows \cup {None}]

-----------------------------------------------------------------------------
(***************************************************************************)
(* REST and MCP.                                                           *)
(***************************************************************************)

\* The content of the only path among paths, or None.
Only(paths) ==
    IF Cardinality(paths) = 1 THEN files[CHOOSE p \in paths : TRUE] ELSE None

\* load_all_golden_bundles: an id that two of its files claim is left out.
ListStatus(id) ==
    LET b == Only(Listed(id))
    IN  IF b = None THEN "ABSENT"
        ELSE IF StatusOf(b) \in {"VERIFIED", "STALE"} THEN StatusOf(b)
        ELSE "UNVERIFIED"

\* The drafts that load_all_published_bundles and _find_exact_bundle see.
ListedDrafts(id) == {p \in Claiming(id, Drafts) : files[p] \in SchemaValid}

\* load_all_published_bundles: golden first, then any draft that qualifies.
PublishedStatus(id) ==
    IF ListStatus(id) # "ABSENT" THEN ListStatus(id)
    ELSE IF \E p \in ListedDrafts(id) : Qualified(files[p]) THEN "VERIFIED"
    ELSE "ABSENT"

\* Mutation: only golden files are resolved.
ExactBundlesGolden(id) == {Only(Listed(id))} \ {None}

\* _find_exact_bundle: the unique golden file, otherwise the first draft with
\* the id in the order of the file names, which is left open.
ExactBundles(id) ==
    IF Only(Listed(id)) # None THEN {Only(Listed(id))}
    ELSE {files[p] : p \in ListedDrafts(id)}

-----------------------------------------------------------------------------
(***************************************************************************)
(* The rows.                                                               *)
(***************************************************************************)

\* The files that _load_backing_bundle and _draft_bundle_records look at.
Scanned(id, paths) == {p \in Claiming(id, paths) \ Late : files[p] \notin Unbound}

\* Mutation: drafts back no row.
BackingGolden(r) == IF backs[r] = None THEN None ELSE Only(Scanned(backs[r], Golden))

\* _load_backing_bundle: the only file of both directories that claims the id the
\* row stands for, of any schema.
Backing(r) == IF backs[r] = None THEN None ELSE Only(Scanned(backs[r], Paths))

BackingQualifies(r) == Backing(r) # None /\ Qualified(Backing(r))

\* Mutation: the lifecycle of the backing bundle is not consulted.
ContractHoldsUnqualified(row, r) ==
    /\ row.status = "VERIFIED"
    /\ Backing(r) # None
    /\ row.bundle = Backing(r)
    /\ row.tested # None

\* recipe_has_recorded_verification_contract: the row is an exact projection of
\* a qualified backing bundle and of its current run.
ContractHolds(row, r) ==
    /\ row.status = "VERIFIED"
    /\ BackingQualifies(r)
    /\ row.bundle = Backing(r)
    /\ row.tested = ValidRun(Backing(r)).completed

\* project_recipe_row: a row that claims VERIFIED without meeting the contract
\* shows its backing bundle's state, or DRAFT.
RowStatus(row, r) ==
    IF ContractHolds(row, r) THEN "VERIFIED"
    ELSE IF row.status = "VERIFIED"
    THEN LET b == Backing(r)
         IN  IF b # None /\ StatusOf(b) \in {"STALE", "DISPUTED", "SUPERSEDED"}
             THEN StatusOf(b) ELSE "DRAFT"
    ELSE IF row.status = "UNKNOWN" THEN "DRAFT" ELSE row.status

\* Mutation: the rows are shown as they are stored.
SnapshotStatusStored(r) ==
    IF ListStatus(r) # "ABSENT" THEN ListStatus(r)
    ELSE IF rows[r] # None THEN rows[r].status
    ELSE "ABSENT"

\* Mutation: the rows win over the golden files.
SnapshotStatusRowsFirst(r) ==
    IF rows[r] # None THEN rows[r].status
    ELSE ListStatus(r)

\* build_registry_snapshot: golden files, then rows, then unique draft files,
\* each only for ids that are not there yet.
SnapshotStatus(r) ==
    LET draft == Only({p \in Scanned(r, Drafts) : files[p] \in SchemaValid})
    IN  IF ListStatus(r) # "ABSENT" THEN ListStatus(r)
        ELSE IF rows[r] # None THEN RowStatus(rows[r], r)
        ELSE IF draft = None THEN "ABSENT"
        ELSE IF Qualified(draft) THEN "VERIFIED" ELSE "DRAFT"

\* _apply_fail_closed_migrations.
Quarantined(r) ==
    IF rows[r] # None /\ rows[r].status = "VERIFIED" /\ ~ContractHolds(rows[r], r)
    THEN [rows[r] EXCEPT !.tested = None, !.status = "DRAFT"]
    ELSE rows[r]

\* _load_golden_bundles: the golden file that names the id and no other does, of
\* any schema, link or not.
Curated(r) == Only(Claiming(r, Golden))

\* _golden_evidence: what init_db writes over whatever row the id has.
Synchronised(r) ==
    LET b == Curated(r)
    IN  IF b = None THEN Quarantined(r)
        ELSE [bundle |-> b,
              tested |-> IF ValidRun(b) = None THEN None ELSE ValidRun(b).completed,
              status |-> StatusOf(b)]

\* init_db: the application starts, or the harvester runs it beside the server.
\* A file that the schema rejects may lack what a row needs, and is skipped then.
\* A crash before the one commit leaves the old rows.
Startup ==
    /\ \E skipped \in SUBSET {r \in RowIds : Curated(r) \notin SchemaValid} :
          rows' = [r \in RowIds |->
                      IF r \in skipped THEN Quarantined(r) ELSE Synchronised(r)]
    /\ UNCHANGED <<evidenceVars, backs>>

\* store_recipe_draft: a submission, under an id that no bundle may have.
Submit(r, content) ==
    /\ r \in RowIds \ Ids /\ rows[r] = None
    /\ rows' = [rows EXCEPT ![r] = [bundle |-> content, tested |-> None, status |-> "DRAFT"]]
    /\ UNCHANGED <<evidenceVars, backs>>

\* The forms of the ids: bundle_... or draft_... for a bundle, and a recipe id
\* that may be rec_ before a bundle_....
Forms ==
    {f \in [RowIds -> Ids \cup {None}] :
        /\ \A id \in Ids : f[id] \in {id, None}
        /\ \A r \in RowIds : f[r] # None => f[f[r]] = f[r]}

RegistryInit ==
    /\ EvidenceInit
    /\ backs \in Forms
    /\ rows \in History

RegistryNext ==
    \/ EvidenceNext /\ UNCHANGED <<backs, rows>>
    \/ Startup
    \/ \E r \in RowIds, content \in Bundles : Submit(r, content)

RegistrySpec == RegistryInit /\ [][RegistryNext]_registryVars

-----------------------------------------------------------------------------
\* The bundle a record is about.
BundleOf(r) == IF r \in Ids THEN r ELSE backs[r]

\* Every scan counts the same files for the id: all that claim it pass the schema,
\* and none is a link, too large, or past the first thousand.
Ordinary(id) ==
    \A p \in Claiming(id, Paths) : files[p] \in SchemaValid \ Unbound /\ p \notin Late

(***************************************************************************)
(* No view outlives the evidence: what recipe search and the pages show as *)
(* VERIFIED has, at that moment, a file with qualified evidence for its    *)
(* exact bytes, however old the rows are and whatever they claim, and      *)
(* whichever files the scans count.                                        *)
(***************************************************************************)
SnapshotHasEvidence ==
    \A r \in RowIds :
        SnapshotStatus(r) = "VERIFIED" =>
            \E p \in Claiming(BundleOf(r), Paths) : Qualified(files[p])

(***************************************************************************)
(* The views agree where it matters: a record the registry snapshot shows  *)
(* as VERIFIED is one that MCP publishes as VERIFIED too, where the scans  *)
(* count the same files (a golden file that the schema rejects backs a row *)
(* and is not published).                                                  *)
(***************************************************************************)
SnapshotWithinPublished ==
    \A r \in RowIds :
        SnapshotStatus(r) = "VERIFIED" /\ Ordinary(BundleOf(r)) =>
            PublishedStatus(BundleOf(r)) = "VERIFIED"

(***************************************************************************)
(* A row that meets the contract is backed by what REST or MCP publishes,  *)
(* where the scans count the same files.                                   *)
(***************************************************************************)
ContractWithinPublished ==
    \A r \in RowIds :
        rows[r] # None /\ ContractHolds(rows[r], r) /\ Ordinary(BundleOf(r)) =>
            PublishedStatus(BundleOf(r)) = "VERIFIED"

(***************************************************************************)
(* The evidence link that comes with a VERIFIED record leads to a valid    *)
(* run, unless two draft files that pass the schema claim the id.          *)
(***************************************************************************)
AdvertisedEvidenceServed ==
    \A id \in Ids :
        /\ PublishedStatus(id) = "VERIFIED"
        /\ Cardinality(ListedDrafts(id)) <= 1
        => /\ ExactBundles(id) # {}
           /\ \A b \in ExactBundles(id) : ValidRun(b) # None

(***************************************************************************)
(* A write of rows promotes nothing: neither the quarantine and the        *)
(* synchronisation of init_db nor a submission turns a record VERIFIED in  *)
(* the snapshot, but for a qualified golden file that the schema rejects   *)
(* and that alone claims its id (init_db, store_recipe_draft).             *)
(***************************************************************************)
RowsPromoteNothing ==
    [][rows' # rows =>
          \A r \in RowIds :
              SnapshotStatus(r)' = "VERIFIED" =>
                  \/ SnapshotStatus(r) = "VERIFIED"
                  \/ Curated(r) \notin SchemaValid \cup {None} /\ Qualified(Curated(r))]_registryVars

(***************************************************************************)
(* The projections are aligned wherever files do not compete: an id of the *)
(* form bundle_... that one file claims at most, of both directories, and  *)
(* one that every scan counts, is published as VERIFIED exactly when a row *)
(* that stands for it can be (load_all_published_bundles against           *)
(* _load_backing_bundle).                                                  *)
(***************************************************************************)
AlignedUnlessAmbiguous ==
    \A r \in RowIds :
        /\ backs[r] # None
        /\ Cardinality(Claiming(backs[r], Paths)) <= 1 /\ Ordinary(backs[r])
        => (PublishedStatus(backs[r]) = "VERIFIED" <=> BackingQualifies(r))

(***************************************************************************)
(* Without those conditions they are not.                                  *)
(* "This also keeps REST, MCP, and SQLite projections aligned"             *)
(* (app/core/evidence_contract.py): an id of the form bundle_... has the   *)
(* same standing in each.                                                  *)
(***************************************************************************)
ProjectionsAligned ==
    \A id \in Ids :
        backs[id] # None => (PublishedStatus(id) = "VERIFIED" <=> BackingQualifies(id))
=============================================================================
