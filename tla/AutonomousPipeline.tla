-------------------------- MODULE AutonomousPipeline --------------------------
(***************************************************************************)
(* The machine path to evidence: app/core/autonomous_pipeline.py takes ONE *)
(* draft file through process_draft_bundle and write_artifact, while the   *)
(* miner (app/core/upstream_miner.py) rewrites that file whenever its      *)
(* sources change.  The pipeline is a command that takes no lock, so two   *)
(* may run on the same draft, and each can be killed.                      *)
(*                                                                         *)
(* write_artifact uses one temporary name per bundle, .<bundleId>.tmp, and *)
(* plain writes.  Two processes that open it share a file, and the rename  *)
(* moves the file they both hold: the model has files with an identity     *)
(* (inodes) under the two names.                                           *)
(***************************************************************************)
EXTENDS Naturals, FiniteSets

CONSTANTS
    Pipelines, \* processes of scripts/run_autonomous_pipeline.py
    Edits,     \* contents of the draft file: one value per byte string
    Inodes,    \* file identities; enough that one is always free
    None,      \* no file, no artifact
    Empty,     \* a file truncated and not written yet
    Torn,      \* a file with the bytes of two writers
    MaxRuns    \* bound on the runs that pass

ASSUME PipelineAssumption ==
    /\ IsFiniteSet(Pipelines) /\ IsFiniteSet(Inodes)
    /\ Cardinality(Inodes) > Cardinality(Pipelines) + 2
    /\ MaxRuns \in Nat

\* Each run has its own timestamps: no two artifacts are the same.
Artifacts == [bytes : Edits, run : 1 .. MaxRuns]

ASSUME MarkersAssumption ==
    Empty \notin Artifacts /\ Torn \notin Artifacts /\ None \notin Inodes

VARIABLES
    alone,   \* whether the operator starts one pipeline at a time; fixed
    draft,   \* bundles/drafts/<bundleId>.json
    content, \* what is in each inode
    temp,    \* the inode under .<bundleId>.tmp
    current, \* the inode under <bundleId>.json
    archive, \* the archive files that are whole
    pc, bytes, artifact, held, \* each process, what it read, made and has open
    verdict, \* how its last run ended
    passed   \* history: the runs whose four stages passed

jobVars == <<pc, bytes, artifact, held, verdict>>
diskVars == <<content, temp, current, archive>>
vars == <<alone, draft, diskVars, jobVars, passed>>

Steps == {"idle", "verify", "archive", "open", "write", "replace", "gate"}

TypeOK ==
    /\ alone \in BOOLEAN
    /\ draft \in Edits
    /\ content \in [Inodes -> Artifacts \cup {Empty, Torn}]
    /\ temp \in Inodes \cup {None}
    /\ current \in Inodes \cup {None}
    /\ archive \subseteq Artifacts
    /\ pc \in [Pipelines -> Steps]
    /\ bytes \in [Pipelines -> Edits \cup {None}]
    /\ artifact \in [Pipelines -> Artifacts \cup {None}]
    /\ held \in [Pipelines -> Inodes \cup {None}]
    /\ verdict \in [Pipelines -> {"none", "published", "rejected"}]
    /\ passed \subseteq Artifacts

Init ==
    /\ alone \in BOOLEAN
    /\ draft \in Edits
    /\ content = [i \in Inodes |-> Empty]
    /\ temp = None /\ current = None
    /\ archive = {}
    /\ pc = [p \in Pipelines |-> "idle"]
    /\ bytes = [p \in Pipelines |-> None]
    /\ artifact = [p \in Pipelines |-> None]
    /\ held = [p \in Pipelines |-> None]
    /\ verdict = [p \in Pipelines |-> "none"]
    /\ passed = {}

-----------------------------------------------------------------------------
\* The miner or the harvester replaces the draft, by a rename.
Rewrite(e) ==
    /\ e # draft
    /\ draft' = e
    /\ UNCHANGED <<alone, diskVars, jobVars, passed>>

\* The draft is read once: what is tested is what is digested later.
Load(p) ==
    /\ pc[p] = "idle"
    /\ alone => \A q \in Pipelines : pc[q] = "idle"
    /\ pc' = [pc EXCEPT ![p] = "verify"]
    /\ bytes' = [bytes EXCEPT ![p] = draft]
    /\ verdict' = [verdict EXCEPT ![p] = "none"]
    /\ UNCHANGED <<alone, draft, diskVars, artifact, held, passed>>

Stop(p, result) ==
    /\ pc' = [pc EXCEPT ![p] = "idle"]
    /\ bytes' = [bytes EXCEPT ![p] = None]
    /\ artifact' = [artifact EXCEPT ![p] = None]
    /\ held' = [held EXCEPT ![p] = None]
    /\ verdict' = [verdict EXCEPT ![p] = result]
    /\ UNCHANGED <<alone, draft, passed>>

\* Not eligible, pins not installed, no toolchain, or a stage fails.
Reject(p) ==
    /\ pc[p] = "verify"
    /\ Stop(p, "rejected")
    /\ UNCHANGED diskVars

\* Mutation: the artifact digests the draft file as it is after the stages ran.
PassRereads(p) ==
    /\ pc[p] = "verify"
    /\ Cardinality(passed) < MaxRuns
    /\ LET run == [bytes |-> bytes[p], run |-> Cardinality(passed) + 1]
       IN  /\ passed' = passed \cup {run}
           /\ artifact' = [artifact EXCEPT ![p] = [run EXCEPT !.bytes = draft]]
    /\ pc' = [pc EXCEPT ![p] = "archive"]
    /\ UNCHANGED <<alone, draft, diskVars, bytes, held, verdict>>

\* Mutation: the artifact is made before the run has its completion time.
PassUntimed(p) ==
    /\ pc[p] = "verify"
    /\ Cardinality(passed) < MaxRuns
    /\ passed' = passed \cup {[bytes |-> bytes[p], run |-> Cardinality(passed) + 1]}
    /\ artifact' = [artifact EXCEPT ![p] = [bytes |-> bytes[p], run |-> 0]]
    /\ pc' = [pc EXCEPT ![p] = "archive"]
    /\ UNCHANGED <<alone, draft, diskVars, bytes, held, verdict>>

\* The four stages pass: construct_run_artifact binds what was read.
Pass(p) ==
    /\ pc[p] = "verify"
    /\ Cardinality(passed) < MaxRuns
    /\ LET run == [bytes |-> bytes[p], run |-> Cardinality(passed) + 1]
       IN  /\ passed' = passed \cup {run}
           /\ artifact' = [artifact EXCEPT ![p] = run]
    /\ pc' = [pc EXCEPT ![p] = "archive"]
    /\ UNCHANGED <<alone, draft, diskVars, bytes, held, verdict>>

\* Mutation: the archive is skipped.
ArchiveNothing(p) ==
    /\ pc[p] = "archive"
    /\ pc' = [pc EXCEPT ![p] = "open"]
    /\ UNCHANGED <<alone, draft, diskVars, bytes, artifact, held, verdict, passed>>

\* archived_path.write_bytes: its name is the digest, so nobody else writes it.
Archive(p) ==
    /\ pc[p] = "archive"
    /\ archive' = archive \cup {artifact[p]}
    /\ pc' = [pc EXCEPT ![p] = "open"]
    /\ UNCHANGED <<alone, draft, content, temp, current, bytes, artifact, held, verdict, passed>>

\* Mutation: an existing temporary file is not truncated.
OpenTempAppends(p) ==
    /\ pc[p] = "open"
    /\ \E i \in Inodes :
          /\ IF temp # None THEN i = temp ELSE i # current /\ \A q \in Pipelines : held[q] # i
          /\ temp' = i
          /\ held' = [held EXCEPT ![p] = i]
          /\ content' = IF temp = None THEN [content EXCEPT ![i] = Empty] ELSE content
    /\ pc' = [pc EXCEPT ![p] = "write"]
    /\ UNCHANGED <<alone, draft, current, archive, bytes, artifact, verdict, passed>>

\* temp_path is opened for writing: the file there is truncated, whoever else
\* is writing it, or a new one is created.
OpenTemp(p) ==
    /\ pc[p] = "open"
    /\ \E i \in Inodes :
          /\ IF temp # None THEN i = temp ELSE i # current /\ \A q \in Pipelines : held[q] # i
          /\ temp' = i
          /\ held' = [held EXCEPT ![p] = i]
          /\ content' = [content EXCEPT ![i] = Empty]
    /\ pc' = [pc EXCEPT ![p] = "write"]
    /\ UNCHANGED <<alone, draft, current, archive, bytes, artifact, verdict, passed>>

\* The bytes are written and the file closed.  Over another writer's bytes they
\* leave a tail of it, unless they are at least as long.
WriteTemp(p) ==
    /\ pc[p] = "write"
    /\ \E c \in {artifact[p], Torn} :
          /\ content[held[p]] = Empty => c = artifact[p]
          /\ content' = [content EXCEPT ![held[p]] = c]
    /\ held' = [held EXCEPT ![p] = None]
    /\ pc' = [pc EXCEPT ![p] = "replace"]
    /\ UNCHANGED <<alone, draft, temp, current, archive, bytes, artifact, verdict, passed>>

\* os.replace(temp_path, artifact_path).
Replace(p) ==
    /\ pc[p] = "replace"
    /\ temp # None
    /\ current' = temp
    /\ temp' = None
    /\ pc' = [pc EXCEPT ![p] = "gate"]
    /\ UNCHANGED <<alone, draft, content, archive, bytes, artifact, held, verdict, passed>>

\* FileNotFoundError: another process has moved the temporary file away.
ReplaceFails(p) ==
    /\ pc[p] = "replace"
    /\ temp = None
    /\ Stop(p, "none")
    /\ UNCHANGED diskVars

\* What load_valid_run_artifact says of the draft file and the current artifact.
Qualifies ==
    /\ current # None
    /\ content[current] \in Artifacts
    /\ content[current].bytes = draft

\* Step 6: the published artifact is put to the application's own gate.
SelfGate(p) ==
    /\ pc[p] = "gate"
    /\ Stop(p, IF Qualifies THEN "published" ELSE "rejected")
    /\ UNCHANGED diskVars

\* A process dies, and in the middle of a write leaves a part of its bytes.
Kill(p) ==
    /\ pc[p] # "idle"
    /\ content' \in {content} \cup {[content EXCEPT ![i] = Torn] : i \in {held[p]} \ {None}}
    /\ Stop(p, "none")
    /\ UNCHANGED <<temp, current, archive>>

Next ==
    \/ \E e \in Edits : Rewrite(e)
    \/ \E p \in Pipelines :
          \/ Load(p) \/ Reject(p) \/ Pass(p) \/ Archive(p) \/ OpenTemp(p)
          \/ WriteTemp(p) \/ Replace(p) \/ ReplaceFails(p) \/ SelfGate(p) \/ Kill(p)

Spec == Init /\ [][Next]_vars

-----------------------------------------------------------------------------
(***************************************************************************)
(* No draft is shown as verified on another draft's run: whenever the      *)
(* readers' gate accepts, a run passed on exactly the bytes that the file  *)
(* has now, although the miner rewrites it during a run and the publishers *)
(* write into each other's files.                                          *)
(***************************************************************************)
QualifiedBytesWereTested == Qualifies => \E run \in passed : run.bytes = draft

(***************************************************************************)
(* Evidence that readers can see is in the archive, whichever process      *)
(* moved whose temporary file to the current name.                         *)
(***************************************************************************)
ShownIsArchived ==
    current # None /\ content[current] \in Artifacts => content[current] \in archive

(***************************************************************************)
(* One pipeline at a time never leaves a half-written current artifact,    *)
(* however often it is killed and started again over the temporary file of *)
(* the run before.                                                         *)
(***************************************************************************)
WholeWhenAlone == alone /\ current # None => content[current] \in Artifacts

(***************************************************************************)
(* "... or application-gate failure leaves no new public evidence"         *)
(* (docs/INFRASTRUCTURE.md): a run that its gate rejects has not replaced  *)
(* the current artifact.                                                   *)
(***************************************************************************)
GateFailureLeavesNothing ==
    [][\A p \in Pipelines :
          pc[p] = "gate" /\ verdict[p]' = "rejected" /\ current # None =>
              content[current] # artifact[p]]_vars
=============================================================================
