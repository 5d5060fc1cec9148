---------------------------- MODULE VerificationJob ----------------------------
(***************************************************************************)
(* One invocation of scripts/run_disposable_verification.py, from the      *)
(* registry of targets to the artifact it publishes, with the program that *)
(* runs inside its container (verification/worker/verify_bundle.py).       *)
(*                                                                         *)
(* Everything a job relies on is shared and moves under it: the files of   *)
(* the checkout are edited while it reads them one after the other, other  *)
(* jobs build under the same image tag, the application's image tag is     *)
(* deployed again, and the scheduler's timeout kills the job wherever it   *)
(* is, which its containers survive.                                       *)
(*                                                                         *)
(* An image is identified by what was copied into it and by its label.     *)
(* How the artifact then reaches the evidence directory is ArtifactStore.  *)
(***************************************************************************)
EXTENDS Naturals, FiniteSets

CONSTANTS
    Jobs,         \* invocations of the script, each for the same target
    Contents,     \* byte strings of the bundle file
    Sources,      \* the other inputs of the image: Dockerfile, lock, worker
    Validators,   \* application images that synapse-mesh-api:latest may name
    NumMutations, \* length of the list verification.mutations
    Fix,          \* patch.unifiedDiff
    Litter,       \* files that the reproduction script leaves in the workspace
    None,         \* not read yet, no image
    MaxEdits,     \* bound on the edits of the checkout and of the tags
    MaxStuck      \* bound on the removals of containers that fail

ASSUME JobAssumption ==
    /\ NumMutations \in Nat \ {0, 1} \* _require_contract_shape
    /\ MaxEdits \in Nat /\ MaxStuck \in Nat

Mutations == 1 .. NumMutations

\* What _source_revision hashes; pin is the target's bundleSha256.
Trees == [pin : Contents, bundle : Contents, sources : Sources]
Images == [bundle : Contents, sources : Sources, revision : Trees]
Artifacts == [bundle : Contents, revision : Trees, image : Images,
              validator : Validators]

ASSUME MarkersAssumption ==
    /\ Fix # Litter /\ {Fix, Litter} \cap Mutations = {}
    /\ None \notin Contents \cup Trees \cup Images \cup Validators

VARIABLES
    tree,       \* the checkout as it lies on disk
    tag,        \* the image that the target's imageTag names
    api,        \* the image that synapse-mesh-api:latest names
    job,        \* the local variables of each invocation
    worker,     \* the program in its verification container
    gate,       \* its application-gate container
    containers, \* the containers that the daemon still has
    stuck,      \* history: the containers whose docker rm failed
    published,  \* history: the artifacts handed to _write_artifact
    disturbed,  \* history: jobs beside an edit or another job
    edits       \* number of edits so far

outside == <<tree, api, disturbed, edits>>
boxes == <<worker, gate, containers, stuck>>
vars == <<tree, tag, api, job, worker, gate, containers, stuck, published, disturbed, edits>>

Boxes == Jobs \X {"worker", "gate"}
Ended == {"done", "failed", "killed"}
Places == {"load", "bundle", "revision", "send", "build", "inspect", "create",
           "attach", "remove", "construct", "open", "fill", "wait", "discard",
           "publish"} \cup Ended
Results == {"as declared", "otherwise", "infrastructure"}
Files == SUBSET (Mutations \cup {Fix, Litter})
Runs == [stage : {"pre", "post", "mutant"}, files : Files, result : Results]

Locals == [pc : Places, sound : BOOLEAN,
           pin : Contents \cup {None}, revision : Trees \cup {None},
           context : Images \cup {None}, image : Images \cup {None},
           report : Contents \cup {None}, validator : Validators \cup {None}]
Programs == [image : Images \cup {None}, files : Files,
             at : {"absent", "pre", "patch", "post", "mutants", "passed", "failed"},
             ran : SUBSET Runs]
Gates == [image : Validators \cup {None}, bundle : Contents \cup {None},
          at : {"absent", "waiting", "ready", "accepted", "refused"}]

TypeOK ==
    /\ tree \in Trees /\ tag \in Images \cup {None} /\ api \in Validators
    /\ job \in [Jobs -> Locals]
    /\ worker \in [Jobs -> Programs]
    /\ gate \in [Jobs -> Gates]
    /\ containers \subseteq Boxes /\ stuck \subseteq Boxes
    /\ published \subseteq [job : Jobs, artifact : Artifacts]
    /\ disturbed \subseteq Jobs /\ edits \in 0 .. MaxEdits

NoLocals == [pc |-> "load", sound |-> TRUE, pin |-> None, revision |-> None,
             context |-> None, image |-> None, report |-> None, validator |-> None]
NoWorker == [image |-> None, files |-> {}, at |-> "absent", ran |-> {}]
NoGate == [image |-> None, bundle |-> None, at |-> "absent"]

Init ==
    /\ tree \in {t \in Trees : t.pin = t.bundle}
    /\ tag = None /\ api \in Validators
    /\ job = [j \in Jobs |-> NoLocals]
    /\ worker = [j \in Jobs |-> NoWorker] /\ gate = [j \in Jobs |-> NoGate]
    /\ containers = {} /\ stuck = {} /\ published = {} /\ disturbed = {} /\ edits = 0

At(j, place) == job[j].pc = place
Active == {j \in Jobs : job[j].pc \notin Ended \cup {"load"}}

\* The process is gone and its variables with it; what ran inside its
\* containers is remembered only for an artifact that was published.
Exit(j, how) ==
    /\ job' = [job EXCEPT ![j] = [NoLocals EXCEPT !.pc = how]]
    /\ worker' = [worker EXCEPT ![j] = NoWorker]
    /\ gate' = [gate EXCEPT ![j] = NoGate]

\* The job goes on to a place, or leaves by an exception.
GoIf(j, holds, locals) ==
    IF holds THEN job' = [job EXCEPT ![j] = locals] /\ UNCHANGED <<worker, gate>>
    ELSE Exit(j, "failed")

-----------------------------------------------------------------------------
(* The job: target, source revision and image.                             *)

\* _load_target reads the registry of targets.
Load(j) ==
    /\ At(j, "load")
    /\ job' = [job EXCEPT ![j].pc = "bundle", ![j].pin = tree.pin]
    /\ disturbed' = disturbed \cup IF Active = {} THEN {} ELSE Active \cup {j}
    /\ UNCHANGED <<tree, tag, api, boxes, published, edits>>

\* Then the bundle file, whose bytes must be the pinned ones.
ReadBundle(j) ==
    /\ At(j, "bundle")
    /\ GoIf(j, tree.bundle = job[j].pin, [job[j] EXCEPT !.pc = "revision"])
    /\ UNCHANGED <<outside, tag, containers, stuck, published>>

\* Mutation: the revision of the last build is taken for the present one.
HashSourcesOnce(j) ==
    /\ At(j, "revision")
    /\ job' = [job EXCEPT ![j].pc = "send",
                          ![j].revision = IF tag = None THEN tree ELSE tag.revision]
    /\ UNCHANGED <<outside, tag, boxes, published>>

\* _source_revision hashes all inputs as they are now.
HashSources(j) ==
    /\ At(j, "revision")
    /\ job' = [job EXCEPT ![j].pc = "send", ![j].revision = tree]
    /\ UNCHANGED <<outside, tag, boxes, published>>

\* docker build reads its context, again from the checkout.
SendContext(j) ==
    /\ At(j, "send")
    /\ job' = [job EXCEPT ![j].pc = "build",
                          ![j].context = [bundle |-> tree.bundle,
                                          sources |-> tree.sources,
                                          revision |-> job[j].revision]]
    /\ UNCHANGED <<outside, tag, boxes, published>>

\* The build ends and moves the tag.
Build(j) ==
    /\ At(j, "build")
    /\ tag' = job[j].context
    /\ job' = [job EXCEPT ![j].pc = "inspect", ![j].context = None]
    /\ UNCHANGED <<outside, boxes, published>>

\* docker image inspect <tag>: by now it may be another job's image.
InspectImage(j) ==
    /\ At(j, "inspect")
    /\ GoIf(j, tag.revision = job[j].revision,
            [job[j] EXCEPT !.pc = "create", !.image = tag])
    /\ UNCHANGED <<outside, tag, containers, stuck, published>>

-----------------------------------------------------------------------------
(* The job: container, gate and publication.                               *)

\* docker create and docker start, by tag.
CreateContainer(j) ==
    /\ At(j, "create")
    /\ worker' = [worker EXCEPT ![j].image = tag, ![j].at = "pre"]
    /\ containers' = containers \cup {<<j, "worker">>}
    /\ job' = [job EXCEPT ![j].pc = "attach"]
    /\ UNCHANGED <<outside, tag, gate, stuck, published>>

\* Mutation: the image of the stopped container is not compared.
ControlsHoldAnyImage(j) == worker[j].at = "passed"

\* The worker passed, and _inspect_controls finds in the stopped container the
\* image that _build_image inspected.  Its other controls are fixed at creation.
ControlsHold(j) == worker[j].at = "passed" /\ worker[j].image = job[j].image

\* The attached container has stopped: its report, then its inspection.
Collect(j) ==
    /\ At(j, "attach")
    /\ worker[j].at \in {"passed", "failed"}
    /\ job' = [job EXCEPT ![j].pc = "remove", ![j].sound = ControlsHold(j),
                          ![j].report = worker[j].image.bundle]
    /\ UNCHANGED <<outside, tag, boxes, published>>

\* docker rm --force in a finally clause, whose exit status nobody looks at: a
\* container that it fails to remove stays, and the job goes on as if it were
\* gone, unless the command could not even be started.
Remove(j, box, locals) ==
    \/ /\ containers' = containers \ {<<j, box>>}
       /\ GoIf(j, job[j].sound, locals)
       /\ UNCHANGED stuck
    \/ /\ Cardinality(stuck) < MaxStuck
       /\ stuck' = stuck \cup {<<j, box>>}
       /\ GoIf(j, job[j].sound, locals) \/ Exit(j, "failed")
       /\ UNCHANGED containers

\* The finally of _run_container.
RemoveContainer(j) ==
    /\ At(j, "remove")
    /\ Remove(j, "worker", [job[j] EXCEPT !.pc = "construct"])
    /\ UNCHANGED <<outside, tag, published>>

\* Mutation: the artifact is made without the validator's digest.
ConstructUnvalidated(j) ==
    /\ At(j, "construct")
    /\ GoIf(j, job[j].report = job[j].pin, [job[j] EXCEPT !.pc = "open"])
    /\ UNCHANGED <<outside, tag, containers, stuck, published>>

\* The validator's digest, then the artifact.
Construct(j) ==
    /\ At(j, "construct")
    /\ GoIf(j, job[j].report = job[j].pin,
            [job[j] EXCEPT !.pc = "open", !.validator = api])
    /\ UNCHANGED <<outside, tag, containers, stuck, published>>

ArtifactOf(j) == [bundle |-> job[j].report, revision |-> job[j].revision,
                  image |-> job[j].image, validator |-> job[j].validator]

\* Mutation: the gate is started by tag.
OpenGateByTag(j) ==
    /\ At(j, "open")
    /\ gate' = [gate EXCEPT ![j] = [image |-> api, bundle |-> tree.bundle,
                                    at |-> "waiting"]]
    /\ containers' = containers \cup {<<j, "gate">>}
    /\ job' = [job EXCEPT ![j].pc = "fill"]
    /\ UNCHANGED <<outside, tag, worker, stuck, published>>

\* _validate_with_application_gate reads the bundle again and starts its
\* container, by digest; the container waits for the file .ready.
OpenGate(j) ==
    /\ At(j, "open")
    /\ gate' = [gate EXCEPT ![j] = [image |-> job[j].validator,
                                    bundle |-> tree.bundle, at |-> "waiting"]]
    /\ containers' = containers \cup {<<j, "gate">>}
    /\ job' = [job EXCEPT ![j].pc = "fill"]
    /\ UNCHANGED <<outside, tag, worker, stuck, published>>

\* Bundle and artifact are copied in, then .ready is touched.
FillGate(j) ==
    /\ At(j, "fill")
    /\ gate' = [gate EXCEPT ![j].at = "ready"]
    /\ job' = [job EXCEPT ![j].pc = "wait"]
    /\ UNCHANGED <<outside, tag, worker, containers, stuck, published>>

AwaitGate(j) ==
    /\ At(j, "wait")
    /\ gate[j].at \in {"accepted", "refused"}
    /\ job' = [job EXCEPT ![j].pc = "discard", ![j].sound = gate[j].at = "accepted"]
    /\ UNCHANGED <<outside, tag, boxes, published>>

\* The finally of the gate.
DiscardGate(j) ==
    /\ At(j, "discard")
    /\ Remove(j, "gate", [job[j] EXCEPT !.pc = "publish"])
    /\ UNCHANGED <<outside, tag, published>>

\* With --publish the artifact goes to _write_artifact.
Publish(j) ==
    /\ At(j, "publish")
    /\ published' = published \cup {[job |-> j, artifact |-> ArtifactOf(j)]}
    /\ job' = [job EXCEPT ![j] = [NoLocals EXCEPT !.pc = "done"]]
    /\ UNCHANGED <<outside, tag, boxes>>

\* Without it the job ends here.
Preview(j) ==
    /\ At(j, "publish")
    /\ Exit(j, "done")
    /\ UNCHANGED <<outside, tag, containers, stuck, published>>

\* Mutation: nothing encloses the attached run.
UnwindAtOnce(j) == IF job[j].pc \in {"fill", "wait"} THEN "discard" ELSE "failed"

\* A command or a check fails: the exception leaves through the finally of
\* the container that exists.
Unwind(j) == CASE At(j, "attach") -> "remove"
               [] job[j].pc \in {"fill", "wait"} -> "discard"
               [] OTHER -> "failed"

Fail(j) ==
    /\ j \in Active /\ job[j].pc \notin {"remove", "discard"}
    /\ GoIf(j, Unwind(j) # "failed",
            [job[j] EXCEPT !.pc = Unwind(j), !.sound = FALSE])
    /\ UNCHANGED <<outside, tag, containers, stuck, published>>

\* The scheduler's timeout, or an operator: no finally runs, and nobody reads
\* what goes on in the containers left behind.
Kill(j) ==
    /\ j \in Active
    /\ Exit(j, "killed")
    /\ UNCHANGED <<outside, tag, containers, stuck, published>>

-----------------------------------------------------------------------------
(* The worker in its container.  A stage that does not end as the bundle   *)
(* declares, or that an infrastructure failure cuts short, fails the run.  *)

\* Only a run that goes on is remembered.
Broken(j) == worker' = [worker EXCEPT ![j].at = "failed", ![j].files = {}, ![j].ran = {}]
Entry(stage, files, result) == [stage |-> stage, files |-> files, result |-> result]

\* Mutation: a mutation is rejected by any end of its run but exit code zero.
RanLoosely(j, stage, files, result, next) ==
    IF result = "as declared" \/ (stage = "mutant" /\ result = "infrastructure")
    THEN worker' = [worker EXCEPT ![j].ran = @ \cup {Entry(stage, files, result)},
                                  ![j].files = files, ![j].at = next]
    ELSE Broken(j)

\* _run_bounded on the files of the workspace, and what _execute_contract
\* makes of its end.
Ran(j, stage, files, result, next) ==
    IF result = "as declared"
    THEN worker' = [worker EXCEPT ![j].ran = @ \cup {Entry(stage, files, result)},
                                  ![j].files = files, ![j].at = next]
    ELSE Broken(j)

RunPre(j) ==
    /\ worker[j].at = "pre"
    /\ \E result \in Results : Ran(j, "pre", {}, result, "patch")

\* The workspace is not made anew: what the reproduction left is still there.
ApplyPatch(j) ==
    /\ worker[j].at = "patch"
    /\ \E left \in SUBSET {Litter} :
           worker' = [worker EXCEPT ![j].files = left \cup {Fix}, ![j].at = "post"]

RunPost(j) ==
    /\ worker[j].at = "post"
    /\ \E result \in Results : Ran(j, "post", worker[j].files, result, "mutants")

\* The next mutation of the list.
NextMutant(j) == 1 + Cardinality({r \in worker[j].ran : r.stage = "mutant"})

\* Each mutation on a workspace made anew.
RunMutant(j) ==
    LET m == NextMutant(j) IN
    /\ worker[j].at = "mutants"
    /\ \E result \in Results :
           Ran(j, "mutant", {m}, result, IF m = NumMutations THEN "passed" ELSE "mutants")

\* The contract's shape, the toolchain, a diff that does not apply, an
\* exception, or the container's limits.
Refuse(j) ==
    /\ worker[j].at \in {"pre", "patch", "post", "mutants"}
    /\ Broken(j)

WorkerStep(j) ==
    /\ RunPre(j) \/ ApplyPatch(j) \/ RunPost(j) \/ RunMutant(j) \/ Refuse(j)
    /\ UNCHANGED <<outside, tag, job, gate, containers, stuck, published>>

-----------------------------------------------------------------------------
(* The gate in its container: load_valid_run_artifact of the application,  *)
(* which compares the bytes it was given with the artifact's digest and    *)
(* may refuse for other reasons.                                           *)

GateStep(j) ==
    /\ gate[j].at = "ready"
    /\ \E verdict \in {"accepted", "refused"} :
           /\ verdict = "accepted" => gate[j].bundle = job[j].report
           /\ gate' = [gate EXCEPT ![j].at = verdict]
    /\ UNCHANGED <<outside, tag, job, worker, containers, stuck, published>>

(* The rest of the host: a file of the checkout is replaced, or the        *)
(* application is deployed again.                                          *)

EditTree ==
    /\ edits < MaxEdits
    /\ edits' = edits + 1
    /\ disturbed' = disturbed \cup Active
    /\ \/ \E c \in Contents : tree' = [tree EXCEPT !.pin = c]
       \/ \E c \in Contents : tree' = [tree EXCEPT !.bundle = c]
       \/ \E s \in Sources : tree' = [tree EXCEPT !.sources = s]
    /\ UNCHANGED <<tag, api, job, boxes, published>>

DeployApplication ==
    /\ edits < MaxEdits
    /\ edits' = edits + 1
    /\ api' \in Validators
    /\ UNCHANGED <<tree, tag, job, boxes, published, disturbed>>

JobStep(j) ==
    \/ ReadBundle(j) \/ HashSources(j) \/ SendContext(j) \/ Build(j)
    \/ InspectImage(j) \/ CreateContainer(j) \/ Collect(j) \/ RemoveContainer(j)
    \/ Construct(j) \/ OpenGate(j) \/ FillGate(j) \/ AwaitGate(j)
    \/ DiscardGate(j) \/ Publish(j) \/ Preview(j)

Next ==
    \/ \E j \in Jobs : Load(j) \/ JobStep(j) \/ Fail(j) \/ Kill(j)
                       \/ WorkerStep(j) \/ GateStep(j)
    \/ EditTree \/ DeployApplication

Spec == Init /\ [][Next]_vars
-----------------------------------------------------------------------------
(* Properties.                                                             *)

\* The image, the source revision and the bundle that a published artifact
\* names are those of the image in which the stages ran, whoever else built
\* under the same tag in the meantime.
ArtifactNamesWhatRan ==
    \A p \in published :
        /\ p.artifact.image = worker[p.job].image
        /\ p.artifact.revision = worker[p.job].image.revision
        /\ p.artifact.bundle = worker[p.job].image.bundle

\* The contract was executed in full before anything is published: the error
\* reproduced on the untouched workspace, the suite passed with the patch and
\* no mutation in it, and each declared mutation was rejected by the suite
\* itself in a workspace that held this mutation and nothing else.
ContractWasExecuted ==
    \A p \in published :
        LET ran == worker[p.job].ran IN
        /\ [stage |-> "pre", files |-> {}, result |-> "as declared"] \in ran
        /\ \E r \in ran : /\ r.stage = "post" /\ r.result = "as declared"
                          /\ Fix \in r.files /\ r.files \cap Mutations = {}
        /\ \A m \in Mutations :
               [stage |-> "mutant", files |-> {m}, result |-> "as declared"] \in ran

\* Nothing is published that the application's own gate did not accept, for
\* the bundle the artifact names and in the image the artifact names.
GateAcceptedIt ==
    \A p \in published :
        gate[p.job] = [image |-> p.artifact.validator,
                       bundle |-> p.artifact.bundle, at |-> "accepted"]

\* The revision is a hash of the checkout, taken before the build reads the
\* checkout again.  A job beside which nothing was edited and no other job
\* ran has executed exactly the sources that its artifact's revision hashes.
UndisturbedIsExact ==
    \A p \in published : p.job \notin disturbed =>
        /\ worker[p.job].image.sources = p.artifact.revision.sources
        /\ p.artifact.bundle = p.artifact.revision.pin

\* However a job ends, unless it is killed, each of its containers is gone or
\* was the object of a docker rm that failed: no exception leaves by a way
\* around the finally clauses, and no gate is left waiting for its .ready.
EndedJobsLeaveNothing ==
    \A j \in Jobs : job[j].pc \in {"done", "failed"} =>
        {<<j, "worker">>, <<j, "gate">>} \cap containers \subseteq stuck
=============================================================================
