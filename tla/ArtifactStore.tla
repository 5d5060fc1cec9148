--------------------------- MODULE ArtifactStore ---------------------------
(***************************************************************************)
(* The publication half of scripts/run_disposable_verification.py:         *)
(* _write_artifact, _archive_artifact and _write_exclusive, run by several *)
(* publisher processes on the evidence/runs directory of ONE bundle.       *)
(*                                                                         *)
(* The directory holds the current pointer <bundleId>.json, the archive    *)
(* archive/<bundleId>/<digest>.json and each publisher's temporary file.   *)
(* A file name that is a digest determines the whole content of the file,  *)
(* so a file is absent, partial (created, its bytes not all written) or    *)
(* complete.                                                               *)
(*                                                                         *)
(* Several processes can publish at once: only the scheduler takes the     *)
(* lock (scripts/run_scheduled_verifications.py), a run started by hand    *)
(* takes none.  A process can be killed between any two steps (the         *)
(* scheduler's per-target timeout, the systemd unit's stop, a host         *)
(* restart).                                                               *)
(***************************************************************************)
EXTENDS FiniteSets

CONSTANTS
    Publishers, \* processes of run_disposable_verification.py --publish
    Artifacts,  \* canonical run artifacts of the bundle, one per digest
    NoArtifact, \* "no current file" / "nothing read"
    Malformed,  \* a current file that is not an archivable artifact
    Hosts       \* the deployments considered; see HostType

(***************************************************************************)
(* A deployment: whether every publisher runs under the scheduler's lock,  *)
(* and which faults it shows.  "kill": a publisher dies between two steps. *)
(* "io": a read, write, flush, fsync or rename fails with OSError, or      *)
(* os.open fails to create a file that is not there.                       *)
(* "starved": os.open fails before it looks at the path (EMFILE, ENFILE,   *)
(* ENOMEM), whatever is there.                                             *)
(***************************************************************************)
FaultKinds == {"kill", "io", "starved"}
HostType == [serialised : BOOLEAN, faults : SUBSET FaultKinds]

ASSUME ConstantsAssumption ==
    /\ Publishers \cap Artifacts = {}
    /\ NoArtifact \notin Artifacts \cup Publishers
    /\ Malformed \notin Artifacts \cup Publishers
    /\ NoArtifact # Malformed
    /\ Hosts \subseteq HostType

VARIABLES
    host,     \* the deployment the store lives on, fixed from the start
    files,    \* archive files (by digest) and temporaries (by publisher)
    current,  \* the content of the current pointer
    pc,       \* where each publisher is in _write_artifact
    stage,    \* which of its three exclusive writes it is at
    existing, \* the artifact it read from the current pointer
    incoming, \* the artifact it publishes
    detached, \* publishers writing a file that lost its name since they created it
    shown     \* history: the artifacts some publication installed or replaced

storeVars == <<files, current, shown>>
vars == <<host, files, current, pc, stage, existing, incoming, detached, shown>>

Names == Artifacts \cup Publishers
FileStates == {"absent", "partial", "complete"}
Stages == {"existing", "incoming", "temp"}
Steps == {"idle", "read", "open", "created", "flushed", "failing", "replace"}
Pointers == Artifacts \cup {NoArtifact, Malformed}

TypeOK ==
    /\ host \in Hosts
    /\ files \in [Names -> FileStates]
    /\ current \in Pointers
    /\ pc \in [Publishers -> Steps]
    /\ stage \in [Publishers -> Stages]
    /\ existing \in [Publishers -> Artifacts \cup {NoArtifact}]
    /\ incoming \in [Publishers -> Artifacts \cup {NoArtifact}]
    /\ detached \subseteq Publishers
    /\ shown \subseteq Artifacts

\* The path that publisher p's _write_exclusive is working on.
Path(p) ==
    CASE stage[p] = "existing" -> existing[p]
      [] stage[p] = "incoming" -> incoming[p]
      [] stage[p] = "temp" -> p

\* p created the file at its path and has not returned from the write.
Writing(p) == pc[p] \in {"created", "flushed"}

(***************************************************************************)
(* Any archive of whole files, and any current file, may be there before   *)
(* the first run: the repository ships a current artifact with an empty    *)
(* archive, and a host keeps what earlier releases left.                   *)
(***************************************************************************)
Init ==
    /\ host \in Hosts
    /\ \E kept \in SUBSET Artifacts :
          files = [n \in Names |-> IF n \in kept THEN "complete" ELSE "absent"]
    /\ current \in Pointers
    /\ pc = [p \in Publishers |-> "idle"]
    /\ stage = [p \in Publishers |-> "existing"]
    /\ existing = [p \in Publishers |-> NoArtifact]
    /\ incoming = [p \in Publishers |-> NoArtifact]
    /\ detached = {}
    /\ shown = {}

-----------------------------------------------------------------------------
\* The publisher's job ends, in success or failure, and forgets what it knew.
Forget(p) ==
    /\ pc' = [pc EXCEPT ![p] = "idle"]
    /\ stage' = [stage EXCEPT ![p] = "existing"]
    /\ existing' = [existing EXCEPT ![p] = NoArtifact]
    /\ incoming' = [incoming EXCEPT ![p] = NoArtifact]
    /\ UNCHANGED host

Stop(p) == Forget(p) /\ detached' = detached \ {p}

\* Mutation: the scheduler without its lock.
BeginUnlocked(p, a) ==
    /\ pc[p] = "idle"
    /\ pc' = [pc EXCEPT ![p] = "read"]
    /\ incoming' = [incoming EXCEPT ![p] = a]
    /\ UNCHANGED <<host, storeVars, stage, existing, detached>>

\* _write_artifact is entered with an artifact the application gate accepted.
\* Under the scheduler's lock no other publisher is running.
Begin(p, a) ==
    /\ pc[p] = "idle"
    /\ host.serialised => \A q \in Publishers : pc[q] = "idle"
    /\ pc' = [pc EXCEPT ![p] = "read"]
    /\ incoming' = [incoming EXCEPT ![p] = a]
    /\ UNCHANGED <<host, storeVars, stage, existing, detached>>

\* Mutation: the incoming artifact is archived, the existing one is not.
SkipAnyExisting(p) ==
    /\ pc[p] = "read"
    /\ current # Malformed
    /\ pc' = [pc EXCEPT ![p] = "open"]
    /\ stage' = [stage EXCEPT ![p] = "incoming"]
    /\ UNCHANGED <<host, storeVars, existing, incoming, detached>>

\* There is no current file: go on to archive the incoming artifact.
SkipExisting(p) ==
    /\ pc[p] = "read"
    /\ current = NoArtifact
    /\ pc' = [pc EXCEPT ![p] = "open"]
    /\ stage' = [stage EXCEPT ![p] = "incoming"]
    /\ UNCHANGED <<host, storeVars, existing, incoming, detached>>

\* Mutation: the existing file is taken as it is, without validation.
ReadExistingUnchecked(p) ==
    /\ pc[p] = "read"
    /\ current # NoArtifact
    /\ pc' = [pc EXCEPT ![p] = "open"]
    /\ stage' = [stage EXCEPT ![p] = "existing"]
    /\ existing' = [existing EXCEPT ![p] = current]
    /\ UNCHANGED <<host, storeVars, incoming, detached>>

\* The current file is read and validated: it is archived first.
ReadExisting(p) ==
    /\ pc[p] = "read"
    /\ current \in Artifacts
    /\ pc' = [pc EXCEPT ![p] = "open"]
    /\ stage' = [stage EXCEPT ![p] = "existing"]
    /\ existing' = [existing EXCEPT ![p] = current]
    /\ UNCHANGED <<host, storeVars, incoming, detached>>

\* _read_archivable_artifact rejects what it finds: JobFailure.
RefuseMalformed(p) ==
    /\ pc[p] = "read"
    /\ current = Malformed
    /\ Stop(p)
    /\ UNCHANGED storeVars

\* _write_exclusive returned: the next write, or the replacement.
Advance(p) ==
    /\ pc' = [pc EXCEPT ![p] = IF stage[p] = "temp" THEN "replace" ELSE "open"]
    /\ stage' = [stage EXCEPT ![p] =
                    IF stage[p] = "existing" THEN "incoming" ELSE "temp"]
    /\ detached' = detached \ {p}
    /\ UNCHANGED <<host, existing, incoming>>

\* os.open(O_CREAT | O_EXCL) creates the file, empty.
Create(p) ==
    /\ pc[p] = "open"
    /\ files[Path(p)] = "absent"
    /\ files' = [files EXCEPT ![Path(p)] = "partial"]
    /\ pc' = [pc EXCEPT ![p] = "created"]
    /\ UNCHANGED <<host, current, stage, existing, incoming, detached, shown>>

\* FileExistsError, and the bytes there are the bytes to write.
AcceptIdentical(p) ==
    /\ pc[p] = "open"
    /\ files[Path(p)] = "complete"
    /\ Advance(p)
    /\ UNCHANGED storeVars

\* Mutation: only a longer file is a mismatch, a truncated one passes.
AcceptPrefix(p) ==
    /\ pc[p] = "open"
    /\ files[Path(p)] = "partial"
    /\ Advance(p)
    /\ UNCHANGED storeVars

\* FileExistsError, and the bytes there differ: JobFailure.
RefuseMismatch(p) ==
    /\ pc[p] = "open"
    /\ files[Path(p)] = "partial"
    /\ Stop(p)
    /\ UNCHANGED storeVars

\* Mutation: the stream is closed before its buffer is flushed.
FlushNothing(p) ==
    /\ pc[p] = "created"
    /\ pc' = [pc EXCEPT ![p] = "flushed"]
    /\ UNCHANGED <<host, files, current, stage, existing, incoming, detached, shown>>

\* write and flush: from here every reader of the path sees the whole content,
\* unless the file lost its name, when the bytes go where nobody reads them.
Flush(p) ==
    /\ pc[p] = "created"
    /\ files' = IF p \in detached
                THEN files ELSE [files EXCEPT ![Path(p)] = "complete"]
    /\ pc' = [pc EXCEPT ![p] = "flushed"]
    /\ UNCHANGED <<host, current, stage, existing, incoming, detached, shown>>

\* fsync and close.
Sync(p) ==
    /\ pc[p] = "flushed"
    /\ Advance(p)
    /\ UNCHANGED storeVars

\* os.replace(temporary, output_path).
Replace(p) ==
    /\ pc[p] = "replace"
    /\ current' = IF files[p] = "complete" THEN incoming[p] ELSE Malformed
    /\ files' = [files EXCEPT ![p] = "absent"]
    /\ shown' = shown \cup ({current, incoming[p]} \cap Artifacts)
    /\ Stop(p)

-----------------------------------------------------------------------------
\* Mutation: the comparison's handler, too, unlinks the path it failed to read.
StepFailsUnlinksAny(p) ==
    /\ host.faults \cap {"io", "starved"} # {}
    /\ pc[p] \in {"read", "open", "replace"}
    /\ files' = [n \in Names |->
                    IF n = p \/ (pc[p] = "open" /\ n = Path(p))
                    THEN "absent" ELSE files[n]]
    /\ Stop(p)
    /\ UNCHANGED <<current, shown>>

\* An OSError while reading the current file, while opening or comparing a file
\* that is there, or in os.replace: JobFailure, and no file but the temporary
\* is unlinked.
StepFails(p) ==
    /\ host.faults \cap {"io", "starved"} # {}
    /\ pc[p] \in {"read", "open", "replace"}
    /\ files' = [files EXCEPT ![p] = "absent"]
    /\ Stop(p)
    /\ UNCHANGED <<current, shown>>

\* os.open fails, but not by FileExistsError: on to the handler that unlinks.
OpenFails(p) ==
    /\ pc[p] = "open"
    /\ \/ "starved" \in host.faults
       \/ "io" \in host.faults /\ files[Path(p)] = "absent"
    /\ pc' = [pc EXCEPT ![p] = "failing"]
    /\ UNCHANGED <<host, storeVars, stage, existing, incoming, detached>>

\* fchmod, write, flush or fsync fails: on to the handler that unlinks.
WriteFails(p) ==
    /\ "io" \in host.faults
    /\ Writing(p)
    /\ pc' = [pc EXCEPT ![p] = "failing"]
    /\ UNCHANGED <<host, storeVars, stage, existing, incoming, detached>>

\* The handler unlinks the path, whoever's file is there by now; an unlink that
\* fails itself is ignored.  _write_artifact's own handler drops the temporary.
TakeBack(p) ==
    /\ pc[p] = "failing"
    /\ \E unlinked \in SUBSET {Path(p)} :
          /\ files' = [n \in Names |->
                          IF n \in unlinked \cup {p} THEN "absent" ELSE files[n]]
          /\ detached' = (detached \ {p}) \cup
                {q \in Publishers : Writing(q) /\ Path(q) \in unlinked}
    /\ Forget(p)
    /\ UNCHANGED <<current, shown>>

\* The process dies.  Archive files stay as they are; a temporary it leaves has
\* a random name that no later run opens, so the model forgets it.
Kill(p) ==
    /\ "kill" \in host.faults
    /\ pc[p] # "idle"
    /\ files' = [files EXCEPT ![p] = "absent"]
    /\ Stop(p)
    /\ UNCHANGED <<current, shown>>

WriteStep(p) ==
    \/ SkipExisting(p) \/ ReadExisting(p) \/ RefuseMalformed(p)
    \/ Create(p) \/ AcceptIdentical(p) \/ RefuseMismatch(p)
    \/ Flush(p) \/ Sync(p) \/ Replace(p)

FaultStep(p) ==
    \/ StepFails(p) \/ OpenFails(p) \/ WriteFails(p) \/ TakeBack(p)
    \/ Kill(p)

Next ==
    \E p \in Publishers :
        \/ \E a \in Artifacts : Begin(p, a)
        \/ WriteStep(p)
        \/ FaultStep(p)

Spec == Init /\ [][Next]_vars

-----------------------------------------------------------------------------
(***************************************************************************)
(* Safety.                                                                 *)
(***************************************************************************)

\* p may still unlink the file at its path: it is in the handler that does, or
\* an error can take it there.
Threatens(p) == pc[p] = "failing" \/ ("io" \in host.faults /\ Writing(p))

\* An archive file that is all there and that no job on its way can take back.
Retained(a) ==
    /\ files[a] = "complete"
    /\ \A p \in Publishers : Threatens(p) => Path(p) # a

\* A truncated archive file whose writer is gone.
Orphaned(a) ==
    /\ files[a] = "partial"
    /\ \A p \in Publishers : Writing(p) \/ pc[p] = "failing" => Path(p) # a

\* What the code needs of a host to keep its evidence: descriptors and memory
\* for os.open and, where a write can fail, the scheduler's lock.
Reliable ==
    /\ "starved" \notin host.faults
    /\ "io" \in host.faults => host.serialised

\* Every artifact a publication ever installed as current, or took out of the
\* current pointer, is whole in the archive from then on.
EvidenceKept == \A a \in shown : files[a] = "complete"

(***************************************************************************)
(* No evidence is lost on a reliable host, although publishers interleave, *)
(* each on what it read earlier from a pointer that others move            *)
(* (_write_artifact archives before os.replace).                           *)
(***************************************************************************)
HistoryRetained == Reliable => EvidenceKept

(***************************************************************************)
(* The archive is append-only, on every host and for every interleaving of *)
(* jobs, kills and errors: a retained entry is never truncated, rewritten  *)
(* or unlinked (O_EXCL and the byte comparison of _write_exclusive), with  *)
(* one way out: the handler of an os.open of that very entry, failing on a *)
(* host short of descriptors or memory.                                    *)
(***************************************************************************)
ArchiveImmutable ==
    [][\A a \in Artifacts :
          Retained(a) /\ ~Retained(a)' =>
              /\ "starved" \in host.faults
              /\ \E p \in Publishers : OpenFails(p) /\ Path(p) = a]_vars

(***************************************************************************)
(* Publication fails closed on the pointer itself: a malformed current     *)
(* file is never replaced, and what replaces a good one is whole, however  *)
(* the writer of the temporary was interrupted.                            *)
(***************************************************************************)
PointerFailsClosed ==
    [][current' # current => current # Malformed /\ current' # Malformed]_vars

(***************************************************************************)
(* Publication fails closed on the archive: unless os.open starves, a      *)
(* truncated entry left by a dead writer is never accepted, completed or   *)
(* removed; and on a reliable host the pointer stays where it is while     *)
(* that is the entry of the current artifact.                              *)
(***************************************************************************)
OrphanFailsClosed ==
    [][\A a \in Artifacts :
          Orphaned(a) =>
              /\ "starved" \notin host.faults => Orphaned(a)'
              /\ Reliable /\ current = a => current' = a]_vars

(***************************************************************************)
(* The reading that publication is transactional: when no publisher is     *)
(* running, no half-written file is under an archive name.                 *)
(***************************************************************************)
Transactional ==
    (\A p \in Publishers : pc[p] = "idle") =>
        \A a \in Artifacts : files[a] # "partial"

-----------------------------------------------------------------------------
(***************************************************************************)
(* The store implements EvidenceHistory on a reliable host.  An unreliable *)
(* one promises nothing, which is written as a history that stays empty:   *)
(* the host never changes, so this says Reliable => History!Spec.          *)
(***************************************************************************)
RetainedSet == IF Reliable THEN {a \in Artifacts : Retained(a)} ELSE {}
PromisedCurrent == IF Reliable THEN current ELSE NoArtifact

History == INSTANCE EvidenceHistory
             WITH retained <- RetainedSet, current <- PromisedCurrent

\* The files, the lock-free publishers and their crashes, seen through
\* RetainedSet and the pointer, behave as the append-only history.
ImplementsHistory == History!Spec
=============================================================================
