# Synapse-Mesh: models, checks and proofs

Synapse-Mesh keeps a registry of compatibility fixes ("bundles") and shows one
as VERIFIED only while a recorded run of a four-stage test proves that exact
file. This directory models the parts of the program that decide, publish and
serve such evidence, and those that feed and guard them, checks them with TLC on
small instances, and proves the main invariants with TLAPS for any size.

`tlc -config X.cfg MCX` runs a check; `tlapm XProofs.tla` checks a proof.
`PROJECT.json` lists the runs, the mutated definitions that each property is
known to reject, the source lines of every definition, and the hazards.

## 1. The system

| Component | State it keeps | Operations | What is hard |
|---|---|---|---|
| Run-artifact publication, `scripts/run_disposable_verification.py`, `scripts/run_scheduled_verifications.py` | `evidence/runs/<id>.json` (the current artifact), `archive/<id>/<digest>.json`, temporaries, the scheduler's lock file | archive the existing artifact, archive the new one, write a temporary, `os.replace` | publishers beside each other (only the scheduler locks), kill at a timeout, failing writes |
| Verification job, `scripts/run_disposable_verification.py`, `verification/worker/verify_bundle.py` | an image tag, two containers, a workspace; local variables | load the target, hash the sources, build, run, inspect, construct, ask the application's gate, publish; in the container: four stages | files and tags that move between two reads; commands that fail half-way; a kill; stages cut off by limits |
| Run-artifact gate and lifecycle, `app/core/run_artifacts.py`, `app/core/evidence_lifecycle.py` | none: derived at each request from the bundle files, run artifacts, lifecycle records and clock | `load_valid_run_artifact`, `evaluate_evidence_lifecycle` | four kinds of file that move independently, also under a request that reads one file twice; supersession chains and cycles; clock boundaries |
| Views, `app/api/bundles.py`, `app/core/registry_snapshot.py` | none | list, publish to MCP, resolve one bundle, snapshot for search and pages | six scans, each with its own rule for an id that several files claim, and for which files count |
| SQLite rows, `app/core/evidence_contract.py`, `app/database.py` | the `recipes` table | contract of a row, quarantine and resynchronisation in `init_db`, submissions | rows outlive the evidence they were written from |
| MCP over SSE, `app/mcp/server.py` | `sse_sessions`, a queue and a lock per session, a semaphore | open, stream, post, evict, dispatch | what is read before an `await` and used after it; limits; clients that leave |
| Search, `find_solution` in `app/mcp/server.py`, `app/api/recipes.py` | none | match bundles by version and error text, label the evidence, fall back on the snapshot | evidence that changes between two views; which version the evidence is about; ranking ties |
| Matchers, `app/core/version_matcher.py`, `signature_matcher.py` | none (pure) | version overlap by probes, exact release, signature score | boundary versions, prereleases; texts alike in words and different in structure |
| Autonomous pipeline, `app/core/autonomous_pipeline.py`, `scripts/run_autonomous_pipeline.py` | the same evidence directory, one temporary name per bundle | load, verify, archive, write, replace, self-gate | no lock; the miner rewrites the draft meanwhile; kill |
| Miner, harvester, `app/core/upstream_miner.py`, `scripts/github_harvester.py`, worker in `app/main.py`, `app/api/miner.py` | `bundles/drafts/*.json`, temporaries per pid, a leader lock | an hourly cycle by one elected worker; a cycle on request | take-over by a standby; cycles cut short by a failing write; seeds and feeds that claim one release |
| Operations console, `app/api/ops.py` | password hash and sessions in `system_config` | login, pinning, rotation, expiry, logout | requests of two to four transactions over one table |
| Sandboxes, `app/core/sandbox.py`, `kernel_sandbox.py` | a work directory, a process group | run a stage, time out, clean up | a child that outlives its timeout |
| Node verifier, CLI, sanitizer, models, pages, discovery, re-verification and seed scripts, deployment, benchmark | none shared | rendering, validation, local checks | nothing over time |

Interaction is through files and one database, hardly ever through calls: the
verifier hosts write artifacts, deployments and the miner write bundle files,
operators write lifecycle records, and the web application only reads, at every
request, what lies there at that moment. So the properties that matter relate
one file to another, and the interleavings that matter are between processes
that do not know of each other.

What makes each component correct:

- publication: no evidence that was ever current is lost; the archive is
  append-only; whatever fails, the current artifact is whole;
- verification job: the artifact names what ran, all of the contract ran, the
  application's gate agreed, and an ended job leaves no container but one that
  `docker rm` could not remove;
- lifecycle: the status is a function of the evidence and agrees with the policy
  table; challenges survive re-runs; supersession leads to usable evidence;
  time alone only takes away; an answer is true of a moment of its request;
- views and rows: no view shows as VERIFIED what the files do not prove now; the
  views agree where they count the same files; no write of rows promotes a record
  whose file the schema accepts;
- SSE: no side effect without room for its answer; slots are given back; every
  post is answered;
- search: overlap is exact; evidence is offered for the release it observed, and
  is not missed; structure outweighs words;
- pipeline: what is shown was tested, byte for byte, and archived;
- miner: no reader meets half a draft; seeds stay authoritative; one that is
  missing comes back;
- console: what is granted was due; a rotation ends every older session; no
  session that lives is swept away with the dead.

## 2. The modules

Each variable and each action says in its comment which code it stands for;
`PROJECT.json` gives the lines. An action is the code between two points at which
another process or handler can act: a system call on a shared file, a database
transaction, or an `await`.

**ArtifactStore** (implements **EvidenceHistory**). One bundle's evidence
directory and several publishers. `files` is the state of each archive file and
temporary (absent, partial, complete), `current` the pointer. A publisher goes
through `Begin` (main with `--publish` after its container run), `ReadExisting`
or `SkipExisting` (`_read_archivable_artifact`), then for each of three stages
(`existing`, `incoming`, `temp`) `Create`, `Flush`, `Sync` or the comparison
branches of `_write_exclusive`, and `Replace`. `Kill` strikes between any two
steps. `StepFails` is an error that no handler of `_write_exclusive` meets
(reading, comparing, renaming); `OpenFails` and `WriteFails` go to the handler that
unlinks, and `TakeBack` is its unlink, a step of its own, which takes whatever
file has the name by then; a publisher whose file loses its name so is `detached`
and writes where nobody reads. `Hosts` are the deployments considered: under the
scheduler's lock or not, and the faults that occur: `kill`, `io`, and `starved`,
where `os.open` fails before it looks at the path. A `Reliable` host is not starved
and has `io` only under the lock. What the code promises on no other host says so
in the property. `EvidenceHistory` is what the directory promises: a growing set of
retained artifacts and a pointer that only moves among them.

**VerificationJob**. What precedes `Begin`. `job` holds the local variables of
each invocation, `worker` and `gate` the programs in its two containers,
`containers` what the daemon still has, `tree`, `tag` and `api` what moves
outside: the checkout, the tag under which the verifier image is built, the tag
of the application. `Load`, `ReadBundle`, `HashSources`, `SendContext` and
`OpenGate` each read the checkout at their own moment; `Build`, `InspectImage` and
`CreateContainer` each use the tag at theirs. In the container, `RunPre`,
`ApplyPatch`, `RunPost` and `RunMutant` are the stages of `_execute_contract` on
the files of the workspace, `Refuse` all the checks that end it early. `Fail` is
any command or check that raises, `Unwind` the `finally` it passes, `Kill` the
scheduler's timeout. `Remove` is `docker rm --force` without a check of its result: the
container goes, or stays in `containers` and is `stuck` (at most `MaxStuck` times),
and the job goes on as if it had gone. An image *is* what was copied into it with its label, so
equal images are one.

**EvidenceLifecycle**. `files`, `runs`, `records` and `now` are the four kinds
of input. `ValidRun` is `load_valid_run_artifact` reduced to what it binds
(id, digest of the bytes, clock), `Binds` is `_load_lifecycle_record`,
`SuccessorIsDeployed` is `_load_unique_successor` with the checks of
`_supersession_target_is_current`, `Status` the recursive
`evaluate_evidence_lifecycle` with its visited set. The actions are those of the
people and programs outside: `Deploy`, `Verify`, `FileRecord`,
`WithdrawRecord`, `Tick`. `PolicySays` states the policy table without
recursion and without an order of tests. Which files count depends on who looks:
`Listed` are those the schema accepts (`SchemaValid`), of all paths, as REST and MCP
scan; `SuccessorFiles` leave out what is `Late` (past the first thousand names) and
`Linked`, and ask for no schema; a file that is `Linked` or `Oversized` (`Unbound`)
has no valid run.

**EvidenceRequest** (extends EvidenceLifecycle, whose actions are the `Others`).
The same status, derived as the code derives it: `Parse` takes a bundle that the
schema accepts out of a scan, `ReadBytes` reads the file again for its digest (and
refuses a link or too large a file), then `ReadRun`,
`LookForRecord`, `ReadRecord`, `FindSuccessor` (a second scan), `DigestSuccessor`
and `JudgeSuccessor`, which runs `ReadRun` and the record look-up for the successor.
`seen` remembers what the evidence was worth, which ids had no record and what the
judged file held at each moment of the request, and the properties compare the answer with it.

**Registry** (extends EvidenceLifecycle). `rows` is the `recipes` table and
`backs` the bundle id that each of its keys stands for: a `bundle_...` id for itself,
`rec_bundle_...` for the bundle it names, others (`draft_...` ids, `rec_` before anything
else) for none. Each view is an operator over the same directories, with its own
scan: `ListStatus`, `PublishedStatus` and `ExactBundles` count the files that the
schema accepts, on all paths (`Listed`, `ListedDrafts`); `ContractHolds` and `RowStatus`
rest on `Backing`, which takes any JSON object with the id among the first thousand
regular files (`Scanned`); `SnapshotStatus` uses the first for golden files, the rows
next, and for drafts both conditions; and `Curated`, what `init_db` synchronises from, is
any JSON object with the id, link or not. `Startup` is `init_db`: the quarantine and the
resynchronisation in one transaction, where a row for a file that the schema rejects may
be skipped, since such a file may lack what the row needs. `Submit` is
`store_recipe_draft`. Rows of earlier releases (`History`) are the initial states.
`Ordinary` says of an id that all scans count the same files for it.

**SseTransport**. `registered` are the keys of `sse_sessions`, `stream` each
generator, `queue`, `line` (the FIFO of an `asyncio.Lock`, its holder first) and
`free` the semaphore. A post goes `idle` -> `line` (waits for the lock) ->
`slot` (holds it, waits for the semaphore) -> `dispatch`, and leaves by
`Evict`, `SlotTimeout`, `RejectBody` or `Finish`. A free lock is taken without
giving the event loop a turn, hence `Post` and `PostEvict` beside `Enter` and `Evict`.

**FindSolution** (extends **VersionMatcher** and **SignatureMatcher**). The two
matchers are operators: a release is a triple, a range a set of clauses, and
`Compatible` tries the `Probes` that the code derives from the boundaries, while
`Overlap` is what they are compared with, a release that both sides admit, wherever
it lies; a text is a sequence of words, each with the role in which the regular
expressions would find it, and `Match` is the score with its gates and overrides.
The request is `Ask`, `Scan` (the published bundles) and, if there is no
candidate, `SearchRecipes` (the snapshot); `Change` moves the standing of a
bundle's evidence between the two.

**AutonomousPipeline**. Files have an identity (`Inodes`) because the processes
share one temporary name: a rename moves the file that another process still
has open. `Load`, `Pass` or `Reject`, `Archive`, `OpenTemp`, `WriteTemp`,
`Replace` or `ReplaceFails`, `SelfGate`, `Kill`; `Rewrite` is the miner.

**MinerWorker**. A process is an event loop: its worker and its mining endpoint
interleave where they await, so a process writes at most one list of candidates
at a time (`writing`, `step`, `todo`). The worker is `down`, `standby` (retries the lock),
gathers (`mine`), writes (`persist`), harvests, writes again and sleeps. `Unique`
is the de-duplication by which seeds come first. A failing write abandons the
rest of its list, `Down` kills or stops a process and frees the lock with its
handle.

**OpsSessions**. `hash` and `sessions` are the rows of `system_config`. A login goes
through the check of the password, the look at the stored hash, the pinning, the
selection of expired rows and the transaction that deletes them and inserts its
own; a request for a page asks for the cookie, then for the header; a change of
password asks for both and for the current one. Between two transactions of a
request any other acts. `witnessed`, `revoked` and `barred` are history.

The `MC...` modules give the constants for TLC, the `...Proofs` modules hold
the theorems. Definitions marked *Mutation* are not used by any specification:
each is a plausible bug, put in place of the definition after it to confirm that
a property notices.

## 3. The runs

| Run | Instance | Question |
|---|---|---|
| `store` | two publishers, three artifacts, four hosts: hand-started with kills; scheduled with kills and I/O errors; hand-started with both; that, with an `os.open` that starves | is evidence ever lost, truncated or overwritten, and on which host; does it implement the history |
| `job` | two jobs, two contents, two sets of sources, two application images, two mutations, two edits, one failing `docker rm` | does a published artifact name what ran and was accepted, and does a job clean up |
| `lifecycle` | three golden paths (one past the first thousand), two ids, two scopes, three contents, clock 0..1 with a lead of 1 | does the derived status follow the policy through any mix of edits, re-runs, records and ticks |
| `request` | two golden paths, two ids, two scopes, clock 0..1, two changes under the request | is an answer that was read in up to ten parts true of one moment; can it pass over a challenge |
| `registry` | two golden and two draft paths (one past the first thousand), one id and one recipe key, two contents of which the schema rejects one, clock 0..1, one row of an earlier release at most | does any view or row show more than the files prove; do they agree where the same files count and none compete |
| `sse` | two sessions, three posts, capacity, queue and slots of one | are room and slots accounted for; is every post answered |
| `find` | seven affected ranges against every pair of clauses over four boundaries and every release up to 2.1.2; six pairs or single bundles against thirteen error texts, with and without versions; one change between the reads | are the probes exact; is evidence scoped to its release, and never missed; does structure outweigh words |
| `pipeline` | two processes, two contents, five inodes, three passing runs | is what readers accept tested, archived and whole |
| `miner` | two processes, a seed, three entries of a feed and one of the harvester, one death, one failing write | are drafts whole, seeds authoritative, and does a missing seed return |
| `ops` | three requests, two passwords of which one is in the environment, sessions of one tick | is access due; does a rotation end every older session, and nothing else a live one |
| `sse_leak`, `ops_rotation` | as `sse`; two requests | two statements that the code does not keep (section 6) |

Every property is about a hazard listed in `PROJECT.json`. The type invariants are
checked by TLC where they carry something more than ranges (`store`),
and proved everywhere else, Registry's included. EvidenceRequest and FindSolution have
none of their own: what their variables range over is part of the invariants in
the proofs.

Why the bounds are enough. Two publishers give every interleaving of a pair, and
three artifacts give each its own beside the one that was current: a third
publisher meets the others only pairwise on a file. The four hosts are the two
reliable kinds, the disk that fails without the lock, and the one with all faults. In `job` two contents and two sets of
sources tell apart every pair of moments at which the checkout is read, and two
edits let a file change and change back; two mutations is the least a contract may
declare; one failing `docker rm` can strike either container of either job. Three golden paths let two
files claim the successor's id while the superseded bundle is deployed too;
two ids give a supersession cycle. With `FreshFor` = 1, clock values up to 1 and
a lead of 1 there are runs fresh, exactly at the boundary, stale and ahead of
the clock (`Skew` = 0: the tolerance only moves the edge between the last two,
and runs and records lie on both sides of it). In `request`, anything may happen
before it starts; two changes while it runs let a file or a record change and
change back, and a bundle and its successor move one after the other; all
its contents pass the schema, and no file is a link, too large or late. One
id is enough for the views since each resolves ids independently; two paths in
each directory give none, one and several claimants, in each and across; one content that
the schema rejects and one late draft make the scans disagree, and a recipe key is the
row that does not share its bundle's id. Links and large files are left to the
proofs. In
SseTransport a capacity of one puts every limit within a step's reach; three posts
are a holder, a waiter and one on another path. In `find` the boundaries have
one, two and three segments, at zero and above it, and `Far` (the 99 of the code's
probes) is 3, above every boundary as 99 is above those of the bundles; the error texts
share their words and differ in one field at a time. Five inodes are one
each for the pointer and the temporary name, one each for two open files, and one
free. In `miner` the feed knows the seed's release under the seed's id and under
another id, and one release more: the three ways in which two candidates can
relate. In `ops` three requests are a session, a change of password, and a
login or a later use of the session. Symmetry permutes publishers, jobs, sources, validators,
artifacts, paths, processes, requests, contents and inodes, none of which the specifications
tell apart; the runs with liveness use none.
Deadlock is checked except where everything may come to its end: in `job` every job
ends, and in `request`, `ops` and `find` the requests are answered.

Fairness, in two modules. SseTransport: `PostStep` of each post is weakly fair. The
event loop runs every handler that is ready, and a post waits for a slot one second at
most (`asyncio.wait_for`) and for SQLite five. Nothing is promised of a stream: its
generator looks at the clock and at the client between sends only, and a client that does
not read holds a send as long as it likes; nor has a client to open or post. Only
`sse_leak` adds `AttentiveClients`, streams that start and end, so that what fails there
is not a client's doing. MinerWorker: the `Work` of each process is weakly
fair, which is the event loop again, the end of the worker's sleeps, and the restart of a
process that went down (`restart: unless-stopped` in `docker-compose.yml`); endpoint
requests, deaths, failing writes and operators are not promised, and the
deaths and the failures are bounded, without which nothing could be expected of it. The other
modules state safety only.

## 4. What is proved

For every value of the constants, from the named assumptions in the modules.

- **ArtifactStoreProofs**: `TypeOK`, `HistoryRetained`, `ArchiveImmutable`,
  `PointerFailsClosed`, `OrphanFailsClosed`, and that the store implements
  `EvidenceHistory`. `HistoryRetained`, the refinement and the second half of
  `OrphanFailsClosed` speak of `Reliable` hosts; `PointerFailsClosed` holds on every host, and
  so does `ArchiveImmutable`, which names the one way out of retention, a starving
  `os.open` of the entry. `HistoryRetained` alone is not inductive: a publisher
  archives what it read before others moved the pointer. `IInv` adds what each
  program position implies about the publisher's own file (`JobInv`), that a file
  has one writer, thanks to `O_EXCL` (`WriterInv`), mutual exclusion where the
  lock is used (`LockInv`), and the key fact (`KnowledgeInv`): while a publisher
  archives the artifact it read, the pointer is still that artifact or has moved to
  a retained one.
- **VerificationJobProofs**: all five properties of the run `job`, and `TypeOK`. The
  invariant speaks of one job at a time (`LocalInv`): what it has not read it does
  not use (`HeldInv`), which containers it has at each place (`BoxInv`), the image
  it inspected is the one that ran (`ImageInv`), the verdict is about the artifact
  in hand (`GateInv`), and the mutations that ran are counted off against the list
  by cardinality (`RanInv`). A step of one job leaves the others' part alone
  (`Own`). `UndisturbedIsExact` needs more: an undisturbed job is the only active one, and
  checkout and tag are what it found and made of them (`ExactInv`).
- **EvidenceProofs**, four parts.
  *The files and the status*: `EvidenceTypeOK`, from the invariant that an artifact lies
  under its own bundle's id, so no record supersedes itself; and `FollowsPolicy`,
  `SupersessionLeadsToEvidence`, `ChallengeOutlivesReruns` and `TimeOnlyDegrades`.
  `Status` is recursive, over visited sets and bundles, and TLA+ only says that it is
  *some* function with that equation, if there is one. No induction is needed to
  show that there is: a call asks of the next one only whether it is VERIFIED, and a
  bundle with a record of its own never is, so the answer of a call can be said
  directly (`Direct`, `DirectIsStatus`), and whatever function was chosen agrees with it
  (`StatusUnfolds`). The properties follow for chains and cycles of any length.
  *The views*: `SnapshotHasEvidence` holds whatever the scans count; it is the lemma
  behind `SnapshotWithinPublished` and `ContractWithinPublished`, which ask that the id be
  `Ordinary`, as `AlignedUnlessAmbiguous` does. All four follow from how the views resolve
  claimants, for any lifecycle policy (the status stays opaque).
  `RowsPromoteNothing` also needs that a status moves only when the evidence does, and names
  its exception, a qualified golden file that the schema rejects; `RegistryTypeOK` and
  `AdvertisedEvidenceServed` are proved from `RegistryInv`, the shape of the files, the rows
  and the keys (`Forms`) together.
  *A request, whatever changes*: `NeverPastAChallenge`, from what each phase has parsed
  (`ParsedInv`) and which bytes and records a moment of the request held (`HeldInv`; the
  memory of the request only grows); and `ShownContractWasRun`, that what is shown is
  what was run, from what the reads of the bundle file leave known (`ShownInv`).
  *A request, when one thing changes*: `AtomicUnderOneChange`. The property says nothing of
  a request under way, so `AtomicInv` says what it is heading for: the answer that
  its remaining reads will give if nothing more changes was the status at some moment of
  it (`Promise`). Before the change, what it has read is what the files still hold
  (`RestRead`), so its heading is the present status (`StandingIsStatus`); the change makes
  the old heading a past moment's, or moves it to the new status
  (`ChangeKeepsPromise`); after it, each read follows the heading. The bundle files stand
  throughout (`FilesRead`), since no deployment is among the changes.
- **SseTransportProofs**: `TypeOK`, `RoomIsReserved`, `SlotsAccounted`. The
  strengthening is `HolderIsFirst`: a post past the lock is the first in its
  session's line, so nobody else adds to the queue between the look at it and
  `put_nowait`. The slot count is arithmetic on the finite set of dispatching posts.
- **OpsSessionsProofs**: `TypeOK`, `AccessWasDue`, `RevokedStaysOut`,
  `LiveSessionsStay`. A row belongs to a granted request, and a row that was revoked, or
  selected for deletion, never becomes live again (`RowsInv`): that is why the
  list of expired rows may be old when it is used.
- **FindSolutionProofs**: `EvidenceIsScoped`, whatever the matchers answer, from a
  lemma for each path: every payload of either is scoped. `StructureOverridesWords`
  from lemmas about the matcher: what `Similarity` does not refuse respects the
  structured fields, and `Match` is the similarity of one signature, which exists
  because positions have a least one (`LeastNatural`, by inclusion of finite
  intervals). `EvidenceNotMissed` from the arithmetic of the thresholds: a match is
  worth 77 hundredths at least, more than the 70 asked for, and any two are
  within the 60% cut. `OverlapExact` is a theorem about intervals: from a release that
  meets a clause, all releases downwards meet it until a left end, which is a probe or
  the first release (`LeftEnd`); and a clause that the first release meets is met by
  all up to a probe (`RightEnd`). A release that meets every clause can therefore be moved down to the
  greatest of the left ends, which meets them all, and, if that is the first release, up
  from there to the least of the right ends. `ProbesFindOverlaps` states this for
  releases without a bound; `OverlapExact` then needs that ranges are finite, lie within the
  releases (`VersionsAssumption`) and that an affected range is not empty, as the
  code asks before it compares.
- **AutonomousPipelineProofs**: `TypeOK`, `QualifiedBytesWereTested`,
  `ShownIsArchived`, `WholeWhenAlone`. The invariant says that any *whole*
  artifact in any file, under whichever name, is archived (`FilesInv`), and, with
  one process at a time, that the temporary is never the current file and is whole
  between close and rename (`AloneInv`).
- **MinerWorkerProofs**: `TypeOK`, `DraftsWhole`, `SeedsStayUnderMining`. The lists hold
  candidates with an id (`ListsInv`); a temporary is its process's own and holds the
  candidate when it is renamed (`HeldInv`); only the harvester's lists do not defer
  to the seeds (`DeferInv`). That the candidates of a list can be counted off
  (`EveryRankOccurs`, by an injection between finite sets of one size) types the
  lists, and makes the first candidate of a seed's release come from the seed.

What is only model-checked is liveness, out of the prover's reach: `PostsAnswered`
and `SeedsReturn`. All other properties of the runs that pass are
theorems. Beside type correctness, three state what no listed run checks:
`ProbesFindOverlaps`; `ContractIsPublished`; and `ContractWasRun`, whose instance is
`EvidenceShown.cfg` (one id in two edits and two scopes, so that a content may differ in
what the gate compares, in what it does not, or in both).

## 5. What is not modelled

- Loss of power: a directory is not fsynced in the code, so a rename or an unlink
  may be lost with it; the models' crashes kill a process, not the host's disk.
- Orphaned temporary files of ArtifactStore: their random names are never used again.
- In the pipeline, the stages and the sandboxes decide between `Pass` and
  `Reject`; the artifact's many consistency checks are left out of `ValidRun`, which
  keeps only what binds it to a file.
- In VerificationJob, the container's controls other than its image are fixed when
  it is created, and what the worker checks before its stages is one
  `Refuse`. A container that a killed job leaves
  behind stays in `containers` but its steps are not followed; a gate left so before
  `.ready` spins until somebody removes it. The reading of several files by one
  hash, or by one build, is one step.
- `UndisturbedIsExact` says only what holds: with an edit between the hash and
  the build, or a second job on the same tag, an artifact's source revision may
  differ from the sources that ran. It still names the image and its label.
- The inside of a tool call on the SSE transport, beyond that it ends.
- A row is a content, the time it says it was tested at, and a status; rows that do not
  parse, `access_logs` and the DDL are left out. Golden files are taken to declare VERIFIED; one that
  declares less is shown as it declares. `init_db` reads the files and commits its rows in
  one step. Files whose JSON has types that make a reader raise are left out: in `init_db`
  the start fails, and the rows stay as they are.
- `SnapshotWithinPublished`, `ContractWithinPublished` and `AlignedUnlessAmbiguous` say
  nothing of an id of which some file fails the schema, is a link, is larger than two
  megabytes, or is past the first thousand names: the scans do not agree about it
  (section 6, 5).
- In `lifecycle` and `registry` a request reads all files in one step;
  EvidenceRequest takes the reads of one bundle apart. There the scan of a
  directory stays one read, and the gate compares two contents by id and diffs
  (`SameContract`), with the scope left free. Deployments are excluded from
  `AtomicUnderOneChange`, since with one the answer can be SUPERSEDED on a successor that was
  parsed in another scope than it was digested in.
- In FindSolution: the filter on the runtime; `submit_solution`, whose
  `store_recipe_draft` is Registry's `Submit`; the rest of the recipe pages. Ties are left open (the code orders
  them by id). Releases are triples: with four segments the probes are not exact (they
  keep three, so that `>=1.0.0.5` and `<1.0.1` seem not to meet), which no
  bundle's range has. Package keys are case-sensitive on the bundle path and lower-cased on the
  recipe path, hence `request.lower` in `EvidenceNotMissed`.
- In MinerWorker: what the extraction makes of release notes, which is data here;
  the harvester may replace a seed's draft (it does not know of the seeds), and
  `SeedsStayUnderMining` says so.
- In OpsSessions: the hash functions, rate limits, and the pages, which are Registry's snapshot.
- `HistoryRetained` says nothing of a host that is not `Reliable`, because nothing holds
  there (section 6, 4).
- Eviction leaves the generator of the session alive, so more streams can be live
  than `MAX_SSE_SESSIONS`; no document bounds live streams, and no property does.
- The sandboxes serve the offline benchmark and the tests only; the other components of
  section 1 without a module are listed with the reason in `PROJECT.json`.

## 6. Where code and text disagree

In the first two TLC finds the quoted statement violated in a run of `PROJECT.json`:

1. `sse_leak` (`SseLeak.cfg`): "SSE session capacity reached; retry later"
   (`app/mcp/server.py`). A client that leaves before the generator's first step
   leaves its entry for good, and the capacity with it.
2. `ops_rotation` (`OpsRotation.cfg`): "A persisted hash is authoritative. Never
   fall back to an environment credential after password rotation"
   (`app/api/ops.py`). A first login that looked before the rotation stores its own
   password over the new one.

The others have a configuration beside them, to be run by hand:

3. `ArtifactStoreKilled.cfg`, `Transactional`: "Publication is transactional and
   fail closed" (`docs/INFRASTRUCTURE.md`). A publisher killed inside
   `_write_exclusive` leaves a truncated file under the digest's name; later runs of
   that digest stop on it. It fails closed (proved) but is not transactional.
4. `ArtifactStoreStarved.cfg` and `ArtifactStoreUnlocked.cfg`, `EvidenceKept`: the archive
   is "immutable". When `os.open` fails for lack of descriptors or memory, the handler
   unlinks a file it did not create. When a write fails without the scheduler's lock, the
   handler takes back a file that another publisher has already compared with its own and
   relies on.
5. `RegistryAmbiguous.cfg`, `ProjectionsAligned`: refusing an ambiguous id "keeps
   REST, MCP, and SQLite projections aligned" (`app/core/evidence_contract.py`). A file
   that the schema rejects (`bundles.py:61`, `:84`) but that has a valid run backs a row
   (`evidence_contract.py:35-48` reads any JSON object with the id), and REST and MCP do not
   have it, which is TLC's shortest trace. If it is a golden file, `init_db` even
   synchronises its row as VERIFIED (`database.py:20-42`), so that the snapshot shows it after a
   restart: the exception of `RowsPromoteNothing`. Nor do the filters of the contract's scan
   alone (first thousand names, no links, two megabytes) keep the views aligned, nor two
   drafts of one id, of which MCP publishes the first that qualifies while the row's
   contract refuses the id.
6. `SseClosed.cfg`, `OpenSessionsOnly`: "a rejected transport cannot still persist a
   tool side effect" (`app/mcp/server.py`). The session is looked up before the wait
   for its lock and not again after.
7. `AutonomousGate.cfg`, `GateFailureLeavesNothing`: an "application-gate failure
   leaves no new public evidence" (`docs/INFRASTRUCTURE.md`). The pipeline replaces
   the current artifact before it asks the gate.
8. `FindSolutionScope.cfg`, `SuppliedVersionObserved`: a VERIFIED_MATCH says that the
   "supplied package version equals the observed release" (`app/models/discovery.py`).
   The fallback on the recipes asks so only of the packages that the recipe's text
   names among the known ones, so a bundle of another package passes on the
   release of a package beside it.
9. `EvidenceShownBytes.cfg`, `ShownIsTested`: "VERIFIED also requires a run artifact bound
   to these exact file bytes" (`app/api/bundles.py`). When the file is replaced, between
   parse and digest, by bytes of the same contract, the answer shows the old content
   under the new one's run. That this takes a deployment, and that the contract is the
   one that ran even so, is `ShownContractWasRun`.

## 7. Plan

Done: ArtifactStore with EvidenceHistory, VerificationJob, EvidenceLifecycle,
EvidenceRequest, Registry (composing the lifecycle with views, rows and startup),
SseTransport, AutonomousPipeline, OpsSessions, MinerWorker, FindSolution with the
matchers, and the proofs of all their safety and action properties.

Left, the most important first:

1. The pipeline's four stages instead of `Pass` and `Reject`.
2. VerificationJob composed with ArtifactStore at `Publish`, so that one theorem
   leads from the sources that ran to the archive.
3. A request stated abstractly (it answers with the status of a moment), which
   EvidenceRequest refines as long as nothing but time moves.
4. The scans of directories file by file, with a file that moves during the scan.
