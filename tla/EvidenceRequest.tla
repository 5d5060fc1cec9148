-------------------------- MODULE EvidenceRequest --------------------------
(***************************************************************************)
(* One request for a curated bundle, read by read.  EvidenceLifecycle      *)
(* derives a status in one step; the code takes up to ten reads of five    *)
(* files for it (load_all_golden_bundles, load_valid_run_artifact,         *)
(* _load_lifecycle_record, _supersession_target_is_current), and any of    *)
(* them may be replaced between two reads.                                 *)
(*                                                                         *)
(* The scan of a directory is one read here; a file that appears, moves or *)
(* goes during a scan is a change before or after it.                      *)
(***************************************************************************)
EXTENDS EvidenceLifecycle

CONSTANT MaxChanges \* bound on the changes while the request runs

ASSUME MaxChangesAssumption == MaxChanges \in Nat
ASSUME StatusAssumption == None \notin Statuses

VARIABLES
    phase,
    shown,   \* the bundle as it was parsed: what the answer shows
    target,  \* the file that is judged: the bundle's, or its successor's
    parsed,  \* ... as it was parsed
    bytes,   \* ... as its digest was taken
    run,     \* the run accepted for the bundle
    record,  \* its record, once a successor is judged
    asked,   \* the time of the evaluation
    status,  \* the answer
    changes, \* what others changed while the request ran, in number ...
    deploys, \* ... and whether a bundle file was among it
    seen     \* history: the moments of the request, each with what the shown
             \* content's evidence was worth, the ids without a record, and
             \* what the target's file held

requestVars == <<phase, shown, target, parsed, bytes, run, record, asked, status>>
vars == <<evidenceVars, requestVars, changes, deploys, seen>>

Phases == {"idle", "bytes", "run", "record", "bound", "successor", "digest", "answered"}

\* The parts of two contents that the gate compares with a run: the id, the
\* diffs, the pins and the expected exit codes.  A bound: contents of one id and
\* edit differ in the scope and in nothing the gate looks at.
SameContract(b, c) == b.id = c.id /\ b.edit = c.edit

\* What a moment of the request is remembered by.
Moment ==
    [worth |-> StatusOf(shown), clear |-> {i \in Ids : records[i] = None},
     content |-> files[target]]

Init ==
    /\ EvidenceInit
    /\ phase = "idle"
    /\ shown = None /\ target = None /\ parsed = None /\ bytes = None
    /\ run = None /\ record = None /\ asked = 0 /\ status = None
    /\ changes = 0 /\ deploys = FALSE
    /\ seen = {}

-----------------------------------------------------------------------------
JudgesSuccessor == record # None

Answer(s) ==
    /\ status' = s
    /\ phase' = "answered"

\* No valid run for the bundle; no current one for its successor.
NoRun ==
    /\ Answer(IF JudgesSuccessor THEN "UNKNOWN" ELSE "UNVERIFIED")
    /\ UNCHANGED <<shown, target, parsed, bytes, run, record, asked>>

\* load_all_golden_bundles parses the golden files, drops those of another schema
\* and counts the ids of the rest.
Parse(p) ==
    /\ phase = "idle"
    /\ p \in Golden /\ files[p] \in SchemaValid
    /\ Cardinality(Listed(files[p].id)) = 1
    /\ shown' = files[p] /\ parsed' = files[p]
    /\ target' = p
    /\ phase' = "bytes"
    /\ UNCHANGED <<bytes, run, record, asked, status>>

\* load_valid_run_artifact takes the bytes of the file, which may be gone, or a
\* link or too large by now.
ReadBytes ==
    /\ phase = "bytes"
    /\ \/ /\ files[target] \notin {None} \cup Unbound
          /\ bytes' = files[target]
          /\ phase' = "run"
          /\ UNCHANGED <<shown, target, parsed, run, record, asked, status>>
       \/ files[target] \in {None} \cup Unbound /\ NoRun

\* Mutation: the digest is not compared with the bytes.
AcceptsAnyBytes(r) ==
    /\ r # None
    /\ SameContract(parsed, r.bundle)
    /\ r.completed <= now + Skew

\* What it asks of the artifact: the digest of the bytes, the contract of what
\* was parsed, a date that is not in the future.
Accepts(r) ==
    /\ r # None /\ r.bundle = bytes
    /\ SameContract(parsed, r.bundle)
    /\ r.completed <= now + Skew

\* A successor's run has to be the one the record names as well.
Named(r) ==
    JudgesSuccessor => r = record.successor /\ record.effective >= r.completed

ReadRun ==
    /\ phase = "run"
    /\ LET r == runs[parsed.id]
       IN  \/ /\ Accepts(r) /\ Named(r)
              /\ run' = IF JudgesSuccessor THEN run ELSE r
              /\ phase' = "record"
              /\ UNCHANGED <<shown, target, parsed, bytes, record, asked, status>>
           \/ ~(Accepts(r) /\ Named(r)) /\ NoRun

\* evaluate_evidence_lifecycle takes the time and looks for a record.  Without one
\* the age of the run decides.  (A successor is judged at its bundle's time.)
LookForRecord ==
    /\ phase = "record" /\ ~JudgesSuccessor
    /\ asked' = now
    /\ IF records[parsed.id] # None
       THEN phase' = "bound" /\ UNCHANGED status
       ELSE Answer(IF now >= run.completed + FreshFor THEN "STALE" ELSE "VERIFIED")
    /\ UNCHANGED <<shown, target, parsed, bytes, run, record>>

\* Mutation: a record that does not bind to this run is passed over.
ReadRecordLeniently ==
    /\ phase = "bound"
    /\ LET r == records[parsed.id]
           bound == r \notin {None, Malformed} /\ r.run = run
       IN  \/ /\ ~bound
              /\ Answer(IF asked >= run.completed + FreshFor THEN "STALE" ELSE "VERIFIED")
              /\ UNCHANGED record
           \/ bound /\ r.state = "DISPUTED" /\ Answer("DISPUTED") /\ UNCHANGED record
           \/ /\ bound /\ r.state = "SUPERSEDED"
              /\ record' = r
              /\ phase' = "successor"
              /\ UNCHANGED status
    /\ UNCHANGED <<shown, target, parsed, bytes, run, asked>>

\* It reads the record it found; one that has gone meanwhile counts as invalid.
ReadRecord ==
    /\ phase = "bound"
    /\ LET r == records[parsed.id]
           bound == /\ r \notin {None, Malformed} /\ r.run = run
                    /\ r.effective <= asked + Skew /\ r.effective >= run.completed
       IN  \/ ~bound /\ Answer("UNKNOWN") /\ UNCHANGED record
           \/ bound /\ r.state = "DISPUTED" /\ Answer("DISPUTED") /\ UNCHANGED record
           \/ /\ bound /\ r.state = "SUPERSEDED"
              /\ record' = r
              /\ phase' = "successor"
              /\ UNCHANGED status
    /\ UNCHANGED <<shown, target, parsed, bytes, run, asked>>

\* _load_unique_successor parses the golden files.
FindSuccessor ==
    /\ phase = "successor"
    /\ LET claiming == SuccessorFiles(record.successor.bundle.id)
       IN  \/ /\ Cardinality(claiming) = 1
              /\ target' \in claiming
              /\ parsed' = files[target']
              /\ phase' = "digest"
              /\ UNCHANGED <<shown, bytes, run, record, asked, status>>
           \/ Cardinality(claiming) # 1 /\ NoRun

\* _supersession_target_is_current takes the digest of the successor's file and
\* the scope of what was parsed.
DigestSuccessor ==
    /\ phase = "digest"
    /\ \/ /\ files[target] = record.successor.bundle /\ parsed.scope = shown.scope
          /\ phase' = "bytes"
          /\ UNCHANGED <<shown, target, parsed, bytes, run, record, asked, status>>
       \/ ~(files[target] = record.successor.bundle /\ parsed.scope = shown.scope) /\ NoRun

\* The successor has to be VERIFIED: with a record of its own, whatever it says,
\* it is not.
JudgeSuccessor ==
    /\ phase = "record" /\ JudgesSuccessor
    /\ LET s == record.successor
           current == /\ records[parsed.id] = None
                      /\ s.completed <= asked + Skew
                      /\ asked < s.completed + FreshFor
       IN  Answer(IF current THEN "SUPERSEDED" ELSE "UNKNOWN")
    /\ UNCHANGED <<shown, target, parsed, bytes, run, record, asked>>

Read ==
    \/ \E p \in Golden : Parse(p)
    \/ ReadBytes \/ ReadRun \/ LookForRecord \/ ReadRecord
    \/ FindSuccessor \/ DigestSuccessor \/ JudgeSuccessor

\* What others do: freely before the request, MaxChanges times while it runs.
Others ==
    /\ phase # "answered"
    /\ EvidenceNext
    /\ IF phase = "idle" THEN UNCHANGED <<changes, deploys>>
       ELSE /\ changes < MaxChanges
            /\ changes' = changes + 1
            /\ deploys' = (deploys \/ files' # files)
    /\ UNCHANGED requestVars

Next ==
    /\ \/ Read /\ UNCHANGED <<evidenceVars, changes, deploys>>
       \/ Others
    /\ seen' = IF phase' = "idle" THEN {} ELSE seen \cup {Moment'}

Spec == Init /\ [][Next]_vars

-----------------------------------------------------------------------------
(***************************************************************************)
(* A request is as good as one read at one moment, as long as no more than *)
(* one thing changes under it, a run, a record or the clock: its answer is *)
(* the status before the change or the status after it, although up to ten *)
(* reads lie on both sides of it.  If it is neither, it is UNKNOWN and      *)
(* offers nothing (a record that is withdrawn as it is read).              *)
(***************************************************************************)
AtomicUnderOneChange ==
    status \notin {None, "UNKNOWN"} /\ changes <= 1 /\ ~deploys =>
        \E o \in seen : status = o.worth

(***************************************************************************)
(* However much is replaced under a request: an answer that offers         *)
(* evidence rests on a run of bytes the file held and on a moment of the   *)
(* request at which the bundle was not challenged; an answer that sends    *)
(* the reader on to a successor, on bytes the successor's file held and on *)
(* a moment at which the successor was not challenged.                     *)
(***************************************************************************)
NeverPastAChallenge ==
    /\ status \in {"VERIFIED", "STALE"} =>
          /\ \E o \in seen : o.content = run.bundle
          /\ \E o \in seen : shown.id \in o.clear
    /\ status = "SUPERSEDED" =>
          /\ \E o \in seen : o.content = record.successor.bundle
          /\ \E o \in seen : record.successor.bundle.id \in o.clear

(***************************************************************************)
(* An answer that rests on a run shows the contract that was run, whatever *)
(* is replaced under the request; and the content that was run, unless a   *)
(* bundle file is replaced (load_valid_run_artifact compares the contract  *)
(* with what was parsed, and the digest with what it reads again).         *)
(***************************************************************************)
ShownContractWasRun ==
    status \notin {None, "UNVERIFIED"} =>
        /\ SameContract(shown, run.bundle)
        /\ ~deploys => run.bundle = shown

(***************************************************************************)
(* More than that does not hold: "VERIFIED also requires a run artifact    *)
(* bound to these exact file bytes" (load_all_golden_bundles).  When the   *)
(* file is replaced between the parse and the digest by bytes of the same  *)
(* contract, the answer shows the old content under the new one's run.     *)
(***************************************************************************)
ShownIsTested == status = "VERIFIED" => run.bundle = shown
=============================================================================
