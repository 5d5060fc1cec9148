----------------------- MODULE VerificationJobProofs -----------------------
(***************************************************************************)
(* Proofs about VerificationJob for any number of jobs, contents, sources, *)
(* application images, mutations, edits and failing removals.              *)
(***************************************************************************)
EXTENDS VerificationJob, FiniteSetTheorems, TLAPS

NotYet == {"load", "bundle", "revision", "send", "build", "inspect", "create"}
Collected == {"construct", "open", "fill", "wait", "discard", "publish"}

\* What the job holds, by its place: nothing it uses is unread.
HeldInv(j) ==
    /\ At(j, "send") => job[j].revision # None
    /\ At(j, "build") => job[j].context # None
    /\ job[j].pc \in {"inspect", "create"} => tag # None
    /\ At(j, "attach") => worker[j].image # None
    /\ job[j].pc \in Collected \ {"construct"} => job[j].validator # None

\* A container that the daemon has, and whose docker rm did not fail.
Loose(j, box) == <<j, box>> \in containers /\ <<j, box>> \notin stuck

\* Which containers there are, and what is remembered of them, by the place.
BoxInv(j) ==
    /\ job[j].pc \in NotYet \cup {"failed", "killed"} => worker[j] = NoWorker
    /\ job[j].pc \in NotYet \cup {"failed", "killed", "attach", "remove", "construct", "open"} =>
          gate[j] = NoGate
    /\ Loose(j, "worker") => job[j].pc \in {"attach", "remove", "killed"}
    /\ Loose(j, "gate") => job[j].pc \in {"fill", "wait", "discard", "killed"}

\* The image is the inspected one wherever it could have been another.
RanIn(j) ==
    /\ worker[j].at = "passed"
    /\ worker[j].image = job[j].image
    /\ job[j].report = worker[j].image.bundle

ImageInv(j) ==
    /\ job[j].pc \in Collected \cup {"create", "attach", "remove"} =>
          job[j].image # None /\ job[j].image.revision = job[j].revision
    /\ At(j, "remove") /\ job[j].sound => RanIn(j)
    /\ job[j].pc \in Collected => RanIn(j)

\* The gate's verdict is about the artifact in hand.
GateInv(j) ==
    /\ At(j, "fill") => gate[j].at = "waiting"
    /\ At(j, "wait") => gate[j].at \in {"ready", "accepted", "refused"}
    /\ job[j].pc \in {"fill", "wait", "discard", "publish"} =>
          /\ gate[j].image = job[j].validator
          /\ gate[j].at = "accepted" => gate[j].bundle = job[j].report
    /\ At(j, "discard") /\ job[j].sound => gate[j].at = "accepted"
    /\ At(j, "publish") => gate[j].at = "accepted"

\* What ran in a workspace that goes on; the mutations come in their order.
MutantsRan(j) == {r \in worker[j].ran : r.stage = "mutant"}
FirstMutants(k) == {Entry("mutant", {m}, "as declared") : m \in 1 .. k}

RanInv(j) ==
    /\ worker[j].at \in {"patch", "post", "mutants", "passed"} =>
          Entry("pre", {}, "as declared") \in worker[j].ran
    /\ worker[j].at = "post" => Fix \in worker[j].files /\ worker[j].files \cap Mutations = {}
    /\ worker[j].at \in {"mutants", "passed"} =>
          \E r \in worker[j].ran : /\ r.stage = "post" /\ r.result = "as declared"
                                   /\ Fix \in r.files /\ r.files \cap Mutations = {}
    /\ worker[j].at \in {"absent", "pre", "patch", "post", "failed"} => MutantsRan(j) = {}
    /\ worker[j].at = "mutants" =>
          \E k \in 0 .. NumMutations - 1 :
              /\ MutantsRan(j) = FirstMutants(k)
              /\ IsFiniteSet(MutantsRan(j)) /\ Cardinality(MutantsRan(j)) = k
    /\ worker[j].at = "passed" => MutantsRan(j) = FirstMutants(NumMutations)

LocalInv(j) == HeldInv(j) /\ BoxInv(j) /\ ImageInv(j) /\ GateInv(j) /\ RanInv(j)

\* An artifact that was handed over is about what its job's containers did.
PublishedInv ==
    \A p \in published :
        /\ At(p.job, "done")
        /\ p.artifact.image = worker[p.job].image
        /\ p.artifact.revision = worker[p.job].image.revision
        /\ p.artifact.bundle = worker[p.job].image.bundle
        /\ worker[p.job].at = "passed"
        /\ gate[p.job] = [image |-> p.artifact.validator, bundle |-> p.artifact.bundle,
                          at |-> "accepted"]

IInv == TypeOK /\ (\A j \in Jobs : LocalInv(j)) /\ PublishedInv

LEMMA InitInv == Init => IInv
<1>. SUFFICES ASSUME Init PROVE IInv OBVIOUS
<1>1. TypeOK
  BY JobAssumption
  DEF Init, TypeOK, Locals, Programs, Gates, NoLocals, NoWorker, NoGate, Places, Trees, Files
<1>2. ASSUME NEW j \in Jobs PROVE LocalInv(j)
  BY <1>2
  DEF Init, LocalInv, HeldInv, BoxInv, ImageInv, GateInv, RanInv, MutantsRan, Loose, At, NoLocals,
      NoWorker, NoGate, Collected, NotYet
<1>. QED BY <1>1, <1>2 DEF Init, IInv, PublishedInv

(***************************************************************************)
(* Everything about a job is in its own variables and containers, but for  *)
(* the tag, which is never taken away.                                     *)
(***************************************************************************)
LEMMA OthersKeep ==
    ASSUME TypeOK, NEW j \in Jobs, LocalInv(j),
           job'[j] = job[j], worker'[j] = worker[j], gate'[j] = gate[j],
           tag # None => tag' # None,
           \A x : Loose(j, x)' => Loose(j, x)
    PROVE  LocalInv(j)'
<1>1. HeldInv(j)' BY DEF LocalInv, HeldInv, At
<1>2. BoxInv(j)' BY DEF LocalInv, BoxInv, At, NoWorker, NoGate
<1>3. ImageInv(j)' BY DEF LocalInv, ImageInv, RanIn, At
<1>4. GateInv(j)' BY DEF LocalInv, GateInv, At
<1>5. MutantsRan(j)' = MutantsRan(j) BY DEF MutantsRan
<1>6. RanInv(j)' BY <1>5 DEF LocalInv, RanInv
<1>. QED BY <1>1, <1>2, <1>3, <1>4, <1>6 DEF LocalInv

\* A job's step touches its own part of the containers and of the variables.
Own(j) ==
    /\ \A k \in Jobs \ {j} :
          job'[k] = job[k] /\ worker'[k] = worker[k] /\ gate'[k] = gate[k]
    /\ \A k \in Jobs \ {j} : \A x : Loose(k, x)' => Loose(k, x)
    /\ tag # None => tag' # None

LEMMA StepIsOwn ==
    ASSUME TypeOK, NEW j \in Jobs, LocalInv(j),
           Load(j) \/ JobStep(j) \/ Fail(j) \/ Kill(j) \/ WorkerStep(j) \/ GateStep(j)
    PROVE  Own(j)
<1>. USE DEF TypeOK, Locals, Programs, Gates, Own, Loose, At, outside, boxes
<1>1. CASE Load(j) BY <1>1 DEF Load
<1>2. CASE ReadBundle(j) BY <1>2 DEF ReadBundle, GoIf, Exit
<1>3. CASE HashSources(j) \/ SendContext(j) BY <1>3 DEF HashSources, SendContext
<1>4. CASE Build(j) BY <1>4 DEF Build, LocalInv, HeldInv
<1>5. CASE InspectImage(j) BY <1>5 DEF InspectImage, GoIf, Exit
<1>6. CASE CreateContainer(j) BY <1>6 DEF CreateContainer
<1>7. CASE Collect(j) BY <1>7 DEF Collect
<1>8. CASE RemoveContainer(j) BY <1>8 DEF RemoveContainer, Remove, GoIf, Exit
<1>9. CASE Construct(j) BY <1>9 DEF Construct, GoIf, Exit
<1>10. CASE OpenGate(j) BY <1>10 DEF OpenGate
<1>11. CASE FillGate(j) \/ AwaitGate(j) BY <1>11 DEF FillGate, AwaitGate
<1>12. CASE DiscardGate(j) BY <1>12 DEF DiscardGate, Remove, GoIf, Exit
<1>13. CASE Publish(j) \/ Preview(j) BY <1>13 DEF Publish, Preview, Exit
<1>14. CASE Fail(j) BY <1>14 DEF Fail, GoIf, Exit
<1>15. CASE Kill(j) BY <1>15 DEF Kill, Exit
<1>16. CASE WorkerStep(j)
  BY <1>16
  DEF WorkerStep, RunPre, ApplyPatch, RunPost, RunMutant, Refuse, Ran, Broken
<1>17. CASE GateStep(j) BY <1>17 DEF GateStep
<1>. QED
  BY <1>1, <1>2, <1>3, <1>4, <1>5, <1>6, <1>7, <1>8, <1>9, <1>10, <1>11, <1>12, <1>13,
     <1>14, <1>15, <1>16, <1>17
  DEF JobStep

(***************************************************************************)
(* Type correctness.                                                       *)
(***************************************************************************)
LEMMA ExitTyped ==
    ASSUME TypeOK, NEW j \in Jobs, NEW how \in Ended, Exit(j, how)
    PROVE  job' \in [Jobs -> Locals] /\ worker' \in [Jobs -> Programs] /\ gate' \in [Jobs -> Gates]
<1>1. [NoLocals EXCEPT !.pc = how] \in Locals
  BY DEF NoLocals, Locals, Places
<1>2. NoWorker \in Programs /\ NoGate \in Gates
  BY DEF NoWorker, Programs, Files, NoGate, Gates
<1>. QED BY <1>1, <1>2 DEF Exit, TypeOK

LEMMA GoIfTyped ==
    ASSUME TypeOK, NEW j \in Jobs, NEW holds \in BOOLEAN, NEW locals,
           holds => locals \in Locals, GoIf(j, holds, locals)
    PROVE  job' \in [Jobs -> Locals] /\ worker' \in [Jobs -> Programs] /\ gate' \in [Jobs -> Gates]
<1>1. CASE holds BY <1>1 DEF GoIf, TypeOK
<1>2. CASE ~holds
  <2>1. Exit(j, "failed") BY <1>2 DEF GoIf
  <2>. QED BY <2>1, ExitTyped DEF Ended
<1>. QED BY <1>1, <1>2

LEMMA JobTyped ==
    ASSUME TypeOK, \A k \in Jobs : LocalInv(k), NEW j \in Jobs, Load(j) \/ JobStep(j)
    PROVE  TypeOK'
<1>. USE DEF At, outside, boxes, Loose, Boxes
<1>0. job[j] \in Locals /\ worker[j] \in Programs /\ gate[j] \in Gates BY DEF TypeOK
<1>1. CASE Load(j)
  <2>1. job'[j] \in Locals BY <1>0, <1>1 DEF Load, Locals, Places, TypeOK, Trees
  <2>. QED BY <1>1, <2>1 DEF Load, Active, TypeOK
<1>2. CASE ReadBundle(j)
  <2>1. [job[j] EXCEPT !.pc = "revision"] \in Locals BY <1>0 DEF Locals, Places
  <2>. QED BY <1>2, <2>1, GoIfTyped DEF ReadBundle, TypeOK
<1>3. CASE HashSources(j)
  <2>1. job'[j] \in Locals BY <1>0, <1>3 DEF HashSources, Locals, Places, TypeOK
  <2>. QED BY <1>3, <2>1 DEF HashSources, TypeOK
<1>4. CASE SendContext(j)
  <2>1. [bundle |-> tree.bundle, sources |-> tree.sources, revision |-> job[j].revision] \in Images
    BY <1>0, <1>4 DEF SendContext, LocalInv, HeldInv, Images, Trees, TypeOK, Locals
  <2>2. job'[j] \in Locals BY <1>0, <1>4, <2>1 DEF SendContext, Locals, Places, TypeOK
  <2>. QED BY <1>4, <2>2 DEF SendContext, TypeOK
<1>5. CASE Build(j)
  <2>1. job[j].context \in Images BY <1>0, <1>5 DEF Build, LocalInv, HeldInv, Locals
  <2>2. job'[j] \in Locals BY <1>0, <1>5 DEF Build, Locals, Places, TypeOK
  <2>. QED BY <1>5, <2>1, <2>2 DEF Build, TypeOK
<1>6. CASE InspectImage(j)
  <2>1. [job[j] EXCEPT !.pc = "create", !.image = tag] \in Locals
    BY <1>0 DEF Locals, Places, TypeOK
  <2>. QED BY <1>6, <2>1, GoIfTyped DEF InspectImage, TypeOK
<1>7. CASE CreateContainer(j)
  <2>1. job'[j] \in Locals BY <1>0, <1>7 DEF CreateContainer, Locals, Places, TypeOK
  <2>2. worker'[j] \in Programs BY <1>0, <1>7 DEF CreateContainer, Programs, TypeOK
  <2>. QED BY <1>7, <2>1, <2>2 DEF CreateContainer, TypeOK
<1>8. CASE Collect(j)
  <2>1. worker[j].image.bundle \in Contents
    BY <1>0, <1>8 DEF Collect, LocalInv, HeldInv, Images, Programs
  <2>2. job'[j] \in Locals
    <3>1. ControlsHold(j) \in BOOLEAN BY DEF ControlsHold
    <3>2. [job[j] EXCEPT !.pc = "remove", !.sound = ControlsHold(j),
                         !.report = worker[j].image.bundle] \in Locals
      BY <1>0, <2>1, <3>1 DEF Locals, Places
    <3>. QED BY <1>8, <3>2 DEF Collect, TypeOK
  <2>. QED BY <1>8, <2>2 DEF Collect, TypeOK
<1>9. CASE RemoveContainer(j)
  <2>1. [job[j] EXCEPT !.pc = "construct"] \in Locals BY <1>0 DEF Locals, Places
  <2>2. job[j].sound \in BOOLEAN BY <1>0 DEF Locals
  <2>3. CASE GoIf(j, job[j].sound, [job[j] EXCEPT !.pc = "construct"])
    BY <1>9, <2>1, <2>2, <2>3, GoIfTyped DEF RemoveContainer, Remove, Boxes, TypeOK
  <2>4. CASE Exit(j, "failed")
    BY <1>9, <2>4, ExitTyped DEF RemoveContainer, Remove, Boxes, Ended, TypeOK
  <2>. QED BY <1>9, <2>3, <2>4 DEF RemoveContainer, Remove
<1>10. CASE Construct(j)
  <2>1. [job[j] EXCEPT !.pc = "open", !.validator = api] \in Locals
    BY <1>0 DEF Locals, Places, TypeOK
  <2>. QED BY <1>10, <2>1, GoIfTyped DEF Construct, TypeOK
<1>11. CASE OpenGate(j)
  <2>1. job'[j] \in Locals BY <1>0, <1>11 DEF OpenGate, Locals, Places, TypeOK
  <2>2. gate'[j] \in Gates BY <1>0, <1>11 DEF OpenGate, Gates, Locals, Trees, TypeOK
  <2>. QED BY <1>11, <2>1, <2>2 DEF OpenGate, TypeOK
<1>12. CASE FillGate(j)
  <2>1. job'[j] \in Locals BY <1>0, <1>12 DEF FillGate, Locals, Places, TypeOK
  <2>2. gate'[j] \in Gates BY <1>0, <1>12 DEF FillGate, Gates, TypeOK
  <2>. QED BY <1>12, <2>1, <2>2 DEF FillGate, TypeOK
<1>13. CASE AwaitGate(j)
  <2>. DEFINE accepted == gate[j].at = "accepted"
  <2>0. accepted \in BOOLEAN OBVIOUS
  <2>. HIDE DEF accepted
  <2>1. [job[j] EXCEPT !.pc = "discard", !.sound = accepted] \in Locals
    BY <1>0, <2>0 DEF Locals, Places
  <2>2. job' = [job EXCEPT ![j] = [job[j] EXCEPT !.pc = "discard", !.sound = accepted]]
    BY <1>13 DEF AwaitGate, accepted, TypeOK
  <2>. QED BY <1>13, <2>1, <2>2 DEF AwaitGate, TypeOK
<1>14. CASE DiscardGate(j)
  <2>1. [job[j] EXCEPT !.pc = "publish"] \in Locals BY <1>0 DEF Locals, Places
  <2>2. job[j].sound \in BOOLEAN BY <1>0 DEF Locals
  <2>3. CASE GoIf(j, job[j].sound, [job[j] EXCEPT !.pc = "publish"])
    BY <1>14, <2>1, <2>2, <2>3, GoIfTyped DEF DiscardGate, Remove, Boxes, TypeOK
  <2>4. CASE Exit(j, "failed")
    BY <1>14, <2>4, ExitTyped DEF DiscardGate, Remove, Boxes, Ended, TypeOK
  <2>. QED BY <1>14, <2>3, <2>4 DEF DiscardGate, Remove
<1>15. CASE Publish(j)
  <2>1. job[j].image \in Images /\ job[j].image.revision = job[j].revision
    BY <1>0, <1>15 DEF Publish, LocalInv, ImageInv, Collected, Locals
  <2>2. job[j].report = job[j].image.bundle /\ job[j].validator \in Validators
    BY <1>0, <1>15 DEF Publish, LocalInv, HeldInv, ImageInv, RanIn, Collected, Locals
  <2>3. ArtifactOf(j) \in Artifacts BY <2>1, <2>2 DEF ArtifactOf, Artifacts, Images
  <2>4. job'[j] \in Locals BY <1>15 DEF Publish, NoLocals, Locals, Places, Ended, TypeOK
  <2>. QED BY <1>15, <2>3, <2>4 DEF Publish, TypeOK
<1>16. CASE Preview(j)
  BY <1>16, ExitTyped DEF Preview, Ended, TypeOK
<1>. QED
  BY <1>1, <1>2, <1>3, <1>4, <1>5, <1>6, <1>7, <1>8, <1>9, <1>10, <1>11, <1>12, <1>13,
     <1>14, <1>15, <1>16
  DEF JobStep

LEMMA NextMutantInOrder ==
    ASSUME NEW j \in Jobs, LocalInv(j), worker[j].at = "mutants"
    PROVE  /\ NextMutant(j) \in Mutations
           /\ MutantsRan(j) = FirstMutants(NextMutant(j) - 1)
           /\ IsFiniteSet(MutantsRan(j)) /\ Cardinality(MutantsRan(j)) = NextMutant(j) - 1
<1>1. PICK k \in 0 .. NumMutations - 1 :
        /\ MutantsRan(j) = FirstMutants(k)
        /\ IsFiniteSet(MutantsRan(j)) /\ Cardinality(MutantsRan(j)) = k
  BY DEF LocalInv, RanInv
<1>2. NextMutant(j) = 1 + k BY <1>1 DEF NextMutant, MutantsRan
<1>3. k = NextMutant(j) - 1 BY <1>2
<1>4. NextMutant(j) \in Mutations BY <1>2, JobAssumption DEF Mutations
<1>. QED BY <1>1, <1>3, <1>4

LEMMA RanTyped ==
    ASSUME TypeOK, NEW j \in Jobs, NEW stage \in {"pre", "post", "mutant"}, NEW files \in Files,
           NEW result \in Results, NEW next \in {"patch", "mutants", "passed"},
           Ran(j, stage, files, result, next)
    PROVE  worker'[j] \in Programs
<1>0. worker[j] \in Programs BY DEF TypeOK
<1>1. CASE result = "as declared"
  <2>1. Entry(stage, files, result) \in Runs BY DEF Entry, Runs
  <2>2. worker[j].ran \cup {Entry(stage, files, result)} \in SUBSET Runs
    BY <1>0, <2>1 DEF Programs
  <2>3. worker'[j] = [worker[j] EXCEPT !.ran = worker[j].ran \cup {Entry(stage, files, result)},
                                       !.files = files, !.at = next]
    BY <1>1 DEF Ran, TypeOK
  <2>. QED BY <1>0, <2>2, <2>3 DEF Programs
<1>2. CASE result # "as declared"
  <2>1. worker'[j] = [worker[j] EXCEPT !.at = "failed", !.files = {}, !.ran = {}]
    BY <1>2 DEF Ran, Broken, TypeOK
  <2>. QED BY <1>0, <2>1 DEF Programs, Files
<1>. QED BY <1>1, <1>2

LEMMA TypeKept ==
    ASSUME TypeOK, \A j \in Jobs : LocalInv(j), Next PROVE TypeOK'
<1>. USE DEF At, outside, boxes, Loose, Boxes
<1>1. ASSUME NEW j \in Jobs, Kill(j) PROVE TypeOK'
  BY <1>1, ExitTyped DEF Kill, Ended, TypeOK
<1>2. ASSUME NEW j \in Jobs, Fail(j) PROVE TypeOK'
  <2>1. Unwind(j) \in Places BY DEF Unwind, Places, Ended
  <2>2. [job[j] EXCEPT !.pc = Unwind(j), !.sound = FALSE] \in Locals
    BY <2>1 DEF Locals, TypeOK
  <2>. QED BY <1>2, <2>2, GoIfTyped DEF Fail, TypeOK
<1>3. ASSUME NEW j \in Jobs, WorkerStep(j) PROVE TypeOK'
  <2>0. worker[j] \in Programs /\ {} \in Files BY DEF TypeOK, Files
  <2>1. worker'[j] \in Programs
    <3>1. CASE RunPre(j) BY <2>0, <3>1, RanTyped DEF RunPre
    <3>2. CASE ApplyPatch(j) BY <2>0, <3>2 DEF ApplyPatch, Programs, Files, TypeOK
    <3>3. CASE RunPost(j)
      <4>1. worker[j].files \in Files BY <2>0 DEF Programs
      <4>. QED BY <3>3, <4>1, RanTyped DEF RunPost
    <3>4. CASE RunMutant(j)
      <4>1. NextMutant(j) \in Mutations BY <3>4, NextMutantInOrder DEF RunMutant
      <4>2. {NextMutant(j)} \in Files BY <4>1 DEF Files
      <4>. QED BY <3>4, <4>2, RanTyped DEF RunMutant
    <3>5. CASE Refuse(j) BY <2>0, <3>5 DEF Refuse, Broken, Programs, Files, TypeOK
    <3>. QED BY <1>3, <3>1, <3>2, <3>3, <3>4, <3>5 DEF WorkerStep
  <2>2. worker' = [worker EXCEPT ![j] = worker'[j]]
    BY <1>3
    DEF WorkerStep, RunPre, ApplyPatch, RunPost, RunMutant, Refuse, Ran, Broken, TypeOK
  <2>3. worker' \in [Jobs -> Programs] BY <2>1, <2>2 DEF TypeOK
  <2>. QED BY <1>3, <2>3 DEF WorkerStep, TypeOK
<1>4. ASSUME NEW j \in Jobs, GateStep(j) PROVE TypeOK'
  <2>1. gate'[j] \in Gates BY <1>4 DEF GateStep, Gates, TypeOK
  <2>. QED BY <1>4, <2>1 DEF GateStep, TypeOK
<1>5. CASE EditTree
  <2>1. tree' \in Trees BY <1>5 DEF EditTree, Trees, TypeOK
  <2>. QED BY <1>5, <2>1, JobAssumption DEF EditTree, Active, TypeOK
<1>6. CASE DeployApplication BY <1>6, JobAssumption DEF DeployApplication, TypeOK
<1>. QED
  BY <1>1, <1>2, <1>3, <1>4, <1>5, <1>6, JobTyped DEF Next

(***************************************************************************)
(* The steps of a job keep its own invariant.                              *)
(***************************************************************************)
LEMMA ExitLeavesNothing ==
    ASSUME TypeOK, NEW j \in Jobs, NEW how \in Ended, Exit(j, how),
           \A x \in {"worker", "gate"} : how # "killed" => ~Loose(j, x)'
    PROVE  LocalInv(j)'
<1>1. job'[j] = [NoLocals EXCEPT !.pc = how] /\ worker'[j] = NoWorker /\ gate'[j] = NoGate
  BY DEF Exit, TypeOK
<1>2. job'[j].pc = how BY <1>1 DEF NoLocals
<1>3. HeldInv(j)' BY <1>2 DEF HeldInv, At, Ended, Collected
<1>4. BoxInv(j)' BY <1>1, <1>2 DEF BoxInv, At, Ended, NotYet
<1>5. ImageInv(j)' BY <1>2 DEF ImageInv, At, Ended, Collected
<1>6. GateInv(j)' BY <1>2 DEF GateInv, At, Ended
<1>7. RanInv(j)' BY <1>1 DEF RanInv, MutantsRan, NoWorker
<1>. QED BY <1>3, <1>4, <1>5, <1>6, <1>7 DEF LocalInv

\* As long as the worker is left alone, so is what ran in it.
LEMMA RanStays ==
    ASSUME NEW j \in Jobs, LocalInv(j), worker'[j] = worker[j] PROVE RanInv(j)'
<1>1. MutantsRan(j)' = MutantsRan(j) BY DEF MutantsRan
<1>. QED BY <1>1 DEF LocalInv, RanInv

LEMMA GoIfKeeps ==
    ASSUME TypeOK, NEW j \in Jobs, LocalInv(j), NEW holds \in BOOLEAN, NEW locals,
           GoIf(j, holds, locals),
           \A x \in {"worker", "gate"} : ~Loose(j, x)',
           holds /\ job'[j] = locals /\ worker'[j] = worker[j] /\ gate'[j] = gate[j] =>
               HeldInv(j)' /\ BoxInv(j)' /\ ImageInv(j)' /\ GateInv(j)'
    PROVE  LocalInv(j)'
<1>1. CASE holds
  <2>1. job'[j] = locals /\ worker'[j] = worker[j] /\ gate'[j] = gate[j]
    BY <1>1 DEF GoIf, TypeOK
  <2>. QED BY <1>1, <2>1, RanStays DEF LocalInv
<1>2. CASE ~holds
  <2>1. Exit(j, "failed") BY <1>2 DEF GoIf
  <2>. QED BY <2>1, ExitLeavesNothing DEF Ended
<1>. QED BY <1>1, <1>2

\* The finally clauses: what docker rm did not take away is remembered.
LEMMA RemoveKeeps ==
    ASSUME TypeOK, NEW j \in Jobs, LocalInv(j), NEW box \in {"worker", "gate"}, NEW locals,
           Remove(j, box, locals),
           \A x \in {"worker", "gate"} \ {box} : ~Loose(j, x),
           /\ job[j].sound
           /\ job'[j] = locals /\ worker'[j] = worker[j] /\ gate'[j] = gate[j]
           /\ \A x \in {"worker", "gate"} : ~Loose(j, x)'
           => HeldInv(j)' /\ BoxInv(j)' /\ ImageInv(j)' /\ GateInv(j)'
    PROVE  LocalInv(j)'
<1>1. \A x \in {"worker", "gate"} : ~Loose(j, x)' BY DEF Remove, Loose
<1>2. CASE GoIf(j, job[j].sound, locals)
  <2>1. job[j].sound \in BOOLEAN BY DEF TypeOK, Locals
  <2>. QED BY <1>1, <1>2, <2>1, GoIfKeeps
<1>3. CASE Exit(j, "failed") BY <1>1, <1>3, ExitLeavesNothing DEF Ended
<1>. QED BY <1>2, <1>3 DEF Remove

LEMMA JobKeeps ==
    ASSUME TypeOK, NEW j \in Jobs, LocalInv(j), Load(j) \/ JobStep(j)
    PROVE  LocalInv(j)'
<1>. USE DEF At, outside, boxes, Loose, Boxes
<1>0. job[j] \in Locals /\ worker[j] \in Programs /\ gate[j] \in Gates BY DEF TypeOK
<1>. DEFINE Kept == HeldInv(j)' /\ BoxInv(j)' /\ ImageInv(j)' /\ GateInv(j)'
<1>1. CASE Load(j) \/ HashSources(j)
  <2>1. Kept
    BY <1>0, <1>1, MarkersAssumption
    DEF Load, HashSources, LocalInv, HeldInv, BoxInv, ImageInv, GateInv, NotYet, Collected,
        TypeOK, Locals
  <2>. QED BY <1>1, <2>1, RanStays DEF Load, HashSources, LocalInv
<1>2. CASE ReadBundle(j)
  <2>1. \A x \in {"worker", "gate"} : ~Loose(j, x)'
    BY <1>2 DEF ReadBundle, LocalInv, BoxInv
  <2>2. ASSUME job'[j] = [job[j] EXCEPT !.pc = "revision"],
               worker'[j] = worker[j], gate'[j] = gate[j]
        PROVE  Kept
    BY <1>0, <1>2, <2>1, <2>2
    DEF ReadBundle, LocalInv, HeldInv, BoxInv, ImageInv, GateInv, NotYet, Collected, Locals
  <2>. QED BY <1>2, <2>1, <2>2, GoIfKeeps DEF ReadBundle
<1>3. CASE SendContext(j)
  <2>1. job'[j].context # None
    BY <1>0, <1>3, MarkersAssumption DEF SendContext, TypeOK, Locals, LocalInv, HeldInv, Images, Trees
  <2>2. Kept
    BY <1>0, <1>3, <2>1
    DEF SendContext, LocalInv, HeldInv, BoxInv, ImageInv, GateInv, NotYet, Collected, TypeOK, Locals
  <2>. QED BY <1>3, <2>2, RanStays DEF SendContext, LocalInv
<1>4. CASE Build(j)
  <2>1. Kept
    BY <1>0, <1>4
    DEF Build, LocalInv, HeldInv, BoxInv, ImageInv, GateInv, NotYet, Collected, TypeOK, Locals
  <2>. QED BY <1>4, <2>1, RanStays DEF Build, LocalInv
<1>5. CASE InspectImage(j)
  <2>1. \A x \in {"worker", "gate"} : ~Loose(j, x)'
    BY <1>5 DEF InspectImage, LocalInv, BoxInv
  <2>2. ASSUME tag.revision = job[j].revision,
               job'[j] = [job[j] EXCEPT !.pc = "create", !.image = tag],
               worker'[j] = worker[j], gate'[j] = gate[j]
        PROVE  Kept
    BY <1>0, <1>5, <2>1, <2>2
    DEF InspectImage, LocalInv, HeldInv, BoxInv, ImageInv, GateInv, NotYet, Collected, Locals
  <2>. QED BY <1>5, <2>1, <2>2, GoIfKeeps DEF InspectImage
<1>6. CASE CreateContainer(j)
  <2>1. Kept
    BY <1>0, <1>6
    DEF CreateContainer, LocalInv, HeldInv, BoxInv, ImageInv, GateInv, NotYet, Collected,
        TypeOK, Locals, Programs, NoWorker
  <2>2. worker'[j].at = "pre" /\ worker'[j].ran = {}
    BY <1>0, <1>6 DEF CreateContainer, LocalInv, BoxInv, NotYet, TypeOK, Programs, NoWorker
  <2>3. RanInv(j)' BY <2>2 DEF RanInv, MutantsRan
  <2>. QED BY <2>1, <2>3 DEF LocalInv
<1>7. CASE Collect(j)
  <2>1. /\ job'[j].pc = "remove"
        /\ job'[j].sound => worker[j].at = "passed" /\ worker[j].image = job[j].image
        /\ job'[j].report = worker[j].image.bundle
        /\ job'[j].image = job[j].image /\ job'[j].revision = job[j].revision
    BY <1>0, <1>7 DEF Collect, ControlsHold, TypeOK, Locals
  <2>2. Kept
    BY <1>0, <1>7, <2>1
    DEF Collect, LocalInv, HeldInv, BoxInv, ImageInv, RanIn, GateInv, NotYet, Collected
  <2>. QED BY <1>7, <2>2, RanStays DEF Collect, LocalInv
<1>8. CASE RemoveContainer(j)
  <2>1. \A x \in {"worker", "gate"} \ {"worker"} : ~Loose(j, x)
    BY <1>8 DEF RemoveContainer, LocalInv, BoxInv
  <2>2. ASSUME job[j].sound, job'[j] = [job[j] EXCEPT !.pc = "construct"],
               worker'[j] = worker[j], gate'[j] = gate[j],
               \A x \in {"worker", "gate"} : ~Loose(j, x)'
        PROVE  Kept
    BY <1>0, <1>8, <2>2
    DEF RemoveContainer, LocalInv, HeldInv, BoxInv, ImageInv, RanIn, GateInv, NotYet, Collected,
        Locals
  <2>. QED BY <1>8, <2>1, <2>2, RemoveKeeps DEF RemoveContainer
<1>9. CASE Construct(j)
  <2>1. \A x \in {"worker", "gate"} : ~Loose(j, x)'
    BY <1>9 DEF Construct, LocalInv, BoxInv
  <2>2. ASSUME job'[j] = [job[j] EXCEPT !.pc = "open", !.validator = api],
               worker'[j] = worker[j], gate'[j] = gate[j]
        PROVE  Kept
    <3>1. api # None BY MarkersAssumption DEF TypeOK
    <3>. QED
      BY <1>0, <1>9, <2>1, <2>2, <3>1
      DEF Construct, LocalInv, HeldInv, BoxInv, ImageInv, RanIn, GateInv, NotYet, Collected, Locals
  <2>. QED BY <1>9, <2>1, <2>2, GoIfKeeps DEF Construct
<1>10. CASE OpenGate(j)
  <2>1. /\ job'[j].pc = "fill" /\ job'[j].validator = job[j].validator
        /\ job'[j].image = job[j].image /\ job'[j].revision = job[j].revision
        /\ job'[j].report = job[j].report
        /\ gate'[j].image = job[j].validator /\ gate'[j].at = "waiting"
    BY <1>0, <1>10 DEF OpenGate, TypeOK, Locals
  <2>2. Kept
    BY <1>0, <1>10, <2>1
    DEF OpenGate, LocalInv, HeldInv, BoxInv, ImageInv, RanIn, GateInv, NotYet, Collected
  <2>. QED BY <1>10, <2>2, RanStays DEF OpenGate, LocalInv
<1>11. CASE FillGate(j)
  <2>1. /\ job'[j] = [job[j] EXCEPT !.pc = "wait"]
        /\ gate'[j] = [gate[j] EXCEPT !.at = "ready"]
    BY <1>11 DEF FillGate, TypeOK
  <2>2. Kept
    BY <1>0, <1>11, <2>1
    DEF FillGate, LocalInv, HeldInv, BoxInv, ImageInv, RanIn, GateInv, NotYet, Collected,
        Locals, Gates
  <2>. QED BY <1>11, <2>2, RanStays DEF FillGate, LocalInv
<1>12. CASE AwaitGate(j)
  <2>1. /\ job'[j].pc = "discard" /\ job'[j].validator = job[j].validator
        /\ job'[j].image = job[j].image /\ job'[j].revision = job[j].revision
        /\ job'[j].report = job[j].report
        /\ job'[j].sound => gate[j].at = "accepted"
    BY <1>0, <1>12 DEF AwaitGate, TypeOK, Locals
  <2>2. Kept
    BY <1>0, <1>12, <2>1
    DEF AwaitGate, LocalInv, HeldInv, BoxInv, ImageInv, RanIn, GateInv, NotYet, Collected
  <2>. QED BY <1>12, <2>2, RanStays DEF AwaitGate, LocalInv
<1>13. CASE DiscardGate(j)
  <2>1. \A x \in {"worker", "gate"} \ {"gate"} : ~Loose(j, x)
    BY <1>13 DEF DiscardGate, LocalInv, BoxInv
  <2>2. ASSUME job[j].sound, job'[j] = [job[j] EXCEPT !.pc = "publish"],
               worker'[j] = worker[j], gate'[j] = gate[j],
               \A x \in {"worker", "gate"} : ~Loose(j, x)'
        PROVE  Kept
    BY <1>0, <1>13, <2>2
    DEF DiscardGate, LocalInv, HeldInv, BoxInv, ImageInv, RanIn, GateInv, NotYet, Collected,
        Locals
  <2>. QED BY <1>13, <2>1, <2>2, RemoveKeeps DEF DiscardGate
<1>14. CASE Publish(j)
  <2>1. job'[j].pc = "done" BY <1>14 DEF Publish, NoLocals, TypeOK
  <2>2. Kept
    BY <1>0, <1>14, <2>1
    DEF Publish, LocalInv, HeldInv, BoxInv, ImageInv, GateInv, NotYet, Collected
  <2>. QED BY <1>14, <2>2, RanStays DEF Publish, LocalInv
<1>15. CASE Preview(j)
  BY <1>15, ExitLeavesNothing DEF Preview, Ended, LocalInv, BoxInv
<1>. QED
  BY <1>1, <1>2, <1>3, <1>4, <1>5, <1>6, <1>7, <1>8, <1>9, <1>10, <1>11, <1>12, <1>13,
     <1>14, <1>15
  DEF JobStep

LEMMA FailKeeps ==
    ASSUME TypeOK, NEW j \in Jobs, LocalInv(j), Fail(j) PROVE LocalInv(j)'
<1>. USE DEF At, outside, boxes, Loose, Boxes
<1>0. job[j] \in Locals /\ worker[j] \in Programs /\ gate[j] \in Gates BY DEF TypeOK
<1>1. CASE job[j].pc \in {"attach", "fill", "wait"}
  <2>1. /\ job'[j] = [job[j] EXCEPT !.pc = Unwind(j), !.sound = FALSE]
        /\ Unwind(j) = IF job[j].pc = "attach" THEN "remove" ELSE "discard"
        /\ worker'[j] = worker[j] /\ gate'[j] = gate[j]
        /\ containers' = containers /\ stuck' = stuck
    BY <1>1 DEF Fail, Unwind, GoIf, TypeOK
  <2>2. /\ job'[j].pc = IF job[j].pc = "attach" THEN "remove" ELSE "discard"
        /\ job'[j].sound = FALSE /\ job'[j].validator = job[j].validator
        /\ job'[j].image = job[j].image /\ job'[j].revision = job[j].revision
        /\ job'[j].report = job[j].report
    BY <1>0, <2>1 DEF Locals
  <2>3. HeldInv(j)' /\ BoxInv(j)' /\ ImageInv(j)' /\ GateInv(j)'
    BY <1>1, <2>1, <2>2
    DEF LocalInv, HeldInv, BoxInv, ImageInv, RanIn, GateInv, NotYet, Collected
  <2>. QED BY <2>1, <2>3, RanStays DEF LocalInv
<1>2. CASE job[j].pc \notin {"attach", "fill", "wait"}
  <2>1. Exit(j, "failed") BY <1>2 DEF Fail, Unwind, GoIf
  <2>2. \A x \in {"worker", "gate"} : ~Loose(j, x)'
    BY <1>2 DEF Fail, Active, Ended, LocalInv, BoxInv
  <2>. QED BY <2>1, <2>2, ExitLeavesNothing DEF Ended
<1>. QED BY <1>1, <1>2

LEMMA GateKeeps ==
    ASSUME TypeOK, NEW j \in Jobs, LocalInv(j), GateStep(j) PROVE LocalInv(j)'
<1>. USE DEF At, outside, boxes, Loose, Boxes
<1>1. /\ gate'[j].at \in {"accepted", "refused"} /\ gate'[j].image = gate[j].image
      /\ gate'[j].at = "accepted" => gate'[j].bundle = job[j].report
      /\ gate[j].at = "ready"
      /\ job'[j] = job[j] /\ worker'[j] = worker[j] /\ tag' = tag
      /\ containers' = containers /\ stuck' = stuck
  BY DEF GateStep, TypeOK, Gates
<1>2. HeldInv(j)' BY <1>1 DEF LocalInv, HeldInv
<1>3. BoxInv(j)' BY <1>1 DEF LocalInv, BoxInv, NoGate
<1>4. ImageInv(j)' BY <1>1 DEF LocalInv, ImageInv, RanIn
<1>5. GateInv(j)' BY <1>1 DEF LocalInv, GateInv
<1>. QED BY <1>1, <1>2, <1>3, <1>4, <1>5, RanStays DEF LocalInv

(***************************************************************************)
(* A stage of the worker is remembered with the files it ran on.           *)
(***************************************************************************)
LEMMA RanEffect ==
    ASSUME TypeOK, NEW j \in Jobs, NEW stage, NEW files, NEW result, NEW next,
           Ran(j, stage, files, result, next)
    PROVE  \/ /\ worker'[j].at = next /\ worker'[j].image = worker[j].image
              /\ worker'[j].files = files
              /\ worker'[j].ran = worker[j].ran \cup {Entry(stage, files, "as declared")}
           \/ /\ worker'[j].at = "failed" /\ worker'[j].image = worker[j].image
              /\ worker'[j].ran = {}
<1>1. CASE result = "as declared"
  <2>1. worker'[j] = [worker[j] EXCEPT !.ran = worker[j].ran \cup {Entry(stage, files, result)},
                                       !.files = files, !.at = next]
    BY <1>1 DEF Ran, TypeOK
  <2>2. worker[j] \in Programs BY DEF TypeOK
  <2>. QED BY <1>1, <2>1, <2>2 DEF Programs
<1>2. CASE result # "as declared"
  <2>1. worker'[j] = [worker[j] EXCEPT !.at = "failed", !.files = {}, !.ran = {}]
    BY <1>2 DEF Ran, Broken, TypeOK
  <2>. QED BY <2>1 DEF TypeOK, Programs
<1>. QED BY <1>1, <1>2

LEMMA WorkerRan ==
    ASSUME TypeOK, NEW j \in Jobs, LocalInv(j), WorkerStep(j)
    PROVE  RanInv(j)' /\ worker'[j].image = worker[j].image /\ worker'[j].at # "absent"
                      /\ worker[j].at \notin {"absent", "passed"}
<1>0. worker[j] \in Programs BY DEF TypeOK
<1>1. CASE RunPre(j)
  <2>1. PICK result \in Results : Ran(j, "pre", {}, result, "patch") BY <1>1 DEF RunPre
  <2>2. CASE worker'[j].at = "failed" /\ worker'[j].ran = {}
    BY <1>1, <2>1, <2>2, RanEffect DEF RunPre, RanInv, MutantsRan
  <2>3. CASE /\ worker'[j].at = "patch"
             /\ worker'[j].ran = worker[j].ran \cup {Entry("pre", {}, "as declared")}
    <3>1. MutantsRan(j)' = MutantsRan(j)
      <4>1. Entry("pre", {}, "as declared").stage # "mutant" BY DEF Entry
      <4>. QED BY <2>3, <4>1 DEF MutantsRan
    <3>. QED BY <1>1, <2>1, <2>3, <3>1, RanEffect DEF RunPre, RanInv, LocalInv
  <2>. QED BY <2>1, <2>2, <2>3, RanEffect
<1>2. CASE ApplyPatch(j)
  <2>1. PICK left \in SUBSET {Litter} :
          worker' = [worker EXCEPT ![j].files = left \cup {Fix}, ![j].at = "post"]
    BY <1>2 DEF ApplyPatch
  <2>2. /\ worker'[j].files = left \cup {Fix} /\ worker'[j].at = "post"
        /\ worker'[j].ran = worker[j].ran /\ worker'[j].image = worker[j].image
    BY <1>0, <2>1 DEF TypeOK, Programs
  <2>3. Fix \in worker'[j].files /\ worker'[j].files \cap Mutations = {}
    BY <2>2, MarkersAssumption
  <2>4. MutantsRan(j)' = MutantsRan(j) BY <2>2 DEF MutantsRan
  <2>. QED BY <1>2, <2>2, <2>3, <2>4 DEF ApplyPatch, RanInv, LocalInv
<1>3. CASE RunPost(j)
  <2>1. PICK result \in Results : Ran(j, "post", worker[j].files, result, "mutants")
    BY <1>3 DEF RunPost
  <2>2. CASE worker'[j].at = "failed" /\ worker'[j].ran = {}
    BY <1>3, <2>1, <2>2, RanEffect DEF RunPost, RanInv, MutantsRan
  <2>3. CASE /\ worker'[j].at = "mutants"
             /\ worker'[j].ran = worker[j].ran \cup {Entry("post", worker[j].files, "as declared")}
    <3>. DEFINE e == Entry("post", worker[j].files, "as declared")
    <3>0. /\ e.stage = "post" /\ e.result = "as declared" /\ e.files = worker[j].files
          /\ worker'[j].ran = worker[j].ran \cup {e}
      BY <2>3 DEF Entry
    <3>. HIDE DEF e
    <3>1. MutantsRan(j)' = {}
      BY <1>3, <3>0 DEF MutantsRan, RunPost, LocalInv, RanInv
    <3>2. FirstMutants(0) = {} BY DEF FirstMutants
    <3>3. 0 \in 0 .. NumMutations - 1 BY JobAssumption
    <3>4. \E k \in 0 .. NumMutations - 1 :
            /\ MutantsRan(j)' = FirstMutants(k)
            /\ IsFiniteSet(MutantsRan(j)') /\ Cardinality(MutantsRan(j)') = k
      BY <3>1, <3>2, <3>3, FS_EmptySet
    <3>5. Entry("pre", {}, "as declared") \in worker'[j].ran
      BY <1>3, <2>3 DEF RunPost, LocalInv, RanInv
    <3>6. \E r \in worker'[j].ran : /\ r.stage = "post" /\ r.result = "as declared"
                                    /\ Fix \in r.files /\ r.files \cap Mutations = {}
      BY <1>3, <3>0 DEF RunPost, LocalInv, RanInv
    <3>. QED BY <1>3, <2>1, <2>3, <3>4, <3>5, <3>6, RanEffect DEF RunPost, RanInv
  <2>. QED BY <2>1, <2>2, <2>3, RanEffect
<1>4. CASE RunMutant(j)
  <2>. DEFINE m == NextMutant(j)
  <2>0. /\ m \in Mutations /\ MutantsRan(j) = FirstMutants(m - 1)
        /\ IsFiniteSet(MutantsRan(j)) /\ Cardinality(MutantsRan(j)) = m - 1
    BY <1>4, NextMutantInOrder DEF RunMutant
  <2>1. PICK result \in Results :
          Ran(j, "mutant", {m}, result, IF m = NumMutations THEN "passed" ELSE "mutants")
    BY <1>4 DEF RunMutant
  <2>. HIDE DEF m
  <2>2. CASE worker'[j].at = "failed" /\ worker'[j].ran = {}
    BY <1>4, <2>1, <2>2, RanEffect DEF RunMutant, RanInv, MutantsRan
  <2>3. CASE /\ worker'[j].at = IF m = NumMutations THEN "passed" ELSE "mutants"
             /\ worker'[j].ran = worker[j].ran \cup {Entry("mutant", {m}, "as declared")}
    <3>. DEFINE e == Entry("mutant", {m}, "as declared")
    <3>1. MutantsRan(j)' = MutantsRan(j) \cup {e}
      <4>1. e.stage = "mutant" BY DEF Entry
      <4>. HIDE DEF e
      <4>2. worker'[j].ran = worker[j].ran \cup {e} BY <2>3 DEF e
      <4>. QED BY <4>1, <4>2 DEF MutantsRan
    <3>2. m \in Nat /\ 1 <= m /\ m <= NumMutations BY <2>0, JobAssumption DEF Mutations
    <3>3. FirstMutants(m - 1) \cup {e} = FirstMutants(m)
      <4>1. 1 .. m = (1 .. (m - 1)) \cup {m} BY <3>2
      <4>. QED BY <4>1 DEF FirstMutants
    <3>4. e \notin FirstMutants(m - 1)
      <4>1. ASSUME NEW n \in 1 .. (m - 1), Entry("mutant", {n}, "as declared") = e PROVE FALSE
        <5>1. {n} = {m} BY <4>1 DEF Entry
        <5>. QED BY <5>1, <3>2
      <4>. QED BY <4>1 DEF FirstMutants
    <3>5. IsFiniteSet(MutantsRan(j)') /\ Cardinality(MutantsRan(j)') = m
      <4>. HIDE DEF e
      <4>1. /\ IsFiniteSet(MutantsRan(j) \cup {e})
            /\ Cardinality(MutantsRan(j) \cup {e}) = Cardinality(MutantsRan(j)) + 1
        BY <2>0, <3>4, FS_AddElement
      <4>. QED BY <2>0, <3>1, <3>2, <4>1
    <3>6. MutantsRan(j)' = FirstMutants(m) BY <2>0, <3>1, <3>3
    <3>7. worker[j].ran \subseteq worker'[j].ran BY <2>3
    <3>. HIDE DEF e
    <3>8. CASE m = NumMutations
      BY <1>4, <2>1, <2>3, <3>6, <3>7, <3>8, RanEffect DEF RunMutant, RanInv, LocalInv
    <3>9. CASE m # NumMutations
      <4>1. m \in 0 .. NumMutations - 1 BY <3>2, <3>9, JobAssumption
      <4>2. \E k \in 0 .. NumMutations - 1 :
              /\ MutantsRan(j)' = FirstMutants(k)
              /\ IsFiniteSet(MutantsRan(j)') /\ Cardinality(MutantsRan(j)') = k
        BY <4>1, <3>5, <3>6
      <4>. QED
        BY <1>4, <2>1, <2>3, <3>7, <3>9, <4>2, RanEffect DEF RunMutant, RanInv, LocalInv
    <3>. QED BY <3>8, <3>9
  <2>. QED BY <2>1, <2>2, <2>3, RanEffect
<1>5. CASE Refuse(j)
  <2>1. /\ worker'[j].at = "failed" /\ worker'[j].image = worker[j].image /\ worker'[j].ran = {}
    BY <1>0, <1>5 DEF Refuse, Broken, TypeOK, Programs
  <2>. QED BY <1>5, <2>1 DEF Refuse, RanInv, MutantsRan
<1>. QED BY <1>1, <1>2, <1>3, <1>4, <1>5 DEF WorkerStep

LEMMA WorkerKeeps ==
    ASSUME TypeOK, NEW j \in Jobs, LocalInv(j), WorkerStep(j) PROVE LocalInv(j)'
<1>. USE DEF At, outside, boxes, Loose, Boxes
<1>1. /\ RanInv(j)' /\ worker'[j].image = worker[j].image /\ worker'[j].at # "absent"
      /\ worker[j].at \notin {"absent", "passed"}
  BY WorkerRan
<1>2. /\ job'[j] = job[j] /\ gate'[j] = gate[j] /\ tag' = tag
      /\ containers' = containers /\ stuck' = stuck
  BY DEF WorkerStep
<1>3. worker[j] # NoWorker BY <1>1 DEF NoWorker
<1>4. HeldInv(j)' BY <1>1, <1>2 DEF LocalInv, HeldInv
<1>5. BoxInv(j)' BY <1>1, <1>2, <1>3 DEF LocalInv, BoxInv, NoGate
<1>6. ImageInv(j)' BY <1>1, <1>2 DEF LocalInv, ImageInv, RanIn
<1>7. GateInv(j)' BY <1>2 DEF LocalInv, GateInv
<1>. QED BY <1>1, <1>4, <1>5, <1>6, <1>7 DEF LocalInv

LEMMA LocalKept ==
    ASSUME TypeOK, \A j \in Jobs : LocalInv(j), Next PROVE \A j \in Jobs : LocalInv(j)'
<1>1. CASE EditTree \/ DeployApplication
  BY <1>1, OthersKeep DEF EditTree, DeployApplication, boxes, Loose
<1>2. ASSUME NEW j \in Jobs,
             Load(j) \/ JobStep(j) \/ Fail(j) \/ Kill(j) \/ WorkerStep(j) \/ GateStep(j)
      PROVE  \A k \in Jobs : LocalInv(k)'
  <2>1. Own(j) BY <1>2, StepIsOwn
  <2>2. \A k \in Jobs \ {j} : LocalInv(k)' BY <2>1, OthersKeep DEF Own
  <2>3. ASSUME Kill(j) PROVE LocalInv(j)' BY <2>3, ExitLeavesNothing DEF Kill, Ended
  <2>4. LocalInv(j)' BY <1>2, <2>3, JobKeeps, FailKeeps, WorkerKeeps, GateKeeps
  <2>. QED BY <2>2, <2>4
<1>. QED BY <1>1, <1>2 DEF Next

(***************************************************************************)
(* Published artifacts.                                                    *)
(***************************************************************************)
\* A job that has published is over, and so are its programs.
LEMMA PublishedStays ==
    ASSUME IInv, Next, NEW p \in published
    PROVE  /\ p.job \in Jobs /\ job'[p.job].pc = "done"
           /\ worker'[p.job] = worker[p.job] /\ gate'[p.job] = gate[p.job]
<1>. USE DEF IInv, At, outside, boxes
<1>1. /\ p.job \in Jobs /\ job[p.job].pc = "done"
      /\ worker[p.job].at = "passed" /\ gate[p.job].at = "accepted"
  <2>1. p.job \in Jobs BY DEF TypeOK
  <2>2. gate[p.job] = [image |-> p.artifact.validator, bundle |-> p.artifact.bundle,
                       at |-> "accepted"]
    BY DEF PublishedInv
  <2>3. gate[p.job].at = "accepted" BY <2>2
  <2>. QED BY <2>1, <2>3 DEF PublishedInv
<1>2. ASSUME NEW j \in Jobs,
             Load(j) \/ JobStep(j) \/ Fail(j) \/ Kill(j) \/ WorkerStep(j) \/ GateStep(j)
      PROVE  j # p.job
  <2>1. CASE WorkerStep(j) BY <1>1, <2>1, WorkerRan
  <2>. QED
    BY <1>1, <1>2, <2>1
    DEF Load, JobStep, ReadBundle, HashSources, SendContext, Build, InspectImage,
        CreateContainer, Collect, RemoveContainer, Construct, OpenGate, FillGate, AwaitGate,
        DiscardGate, Publish, Preview, Fail, Kill, Active, Ended, GateStep
<1>3. CASE EditTree \/ DeployApplication
  BY <1>1, <1>3 DEF EditTree, DeployApplication
<1>. QED BY <1>1, <1>2, <1>3, StepIsOwn DEF Next, Own

LEMMA PublishedKept == ASSUME IInv, Next PROVE PublishedInv'
<1>. USE DEF IInv, At, outside, boxes
<1>1. \A p \in published :
        /\ p.job \in Jobs /\ job'[p.job].pc = "done"
        /\ worker'[p.job] = worker[p.job] /\ gate'[p.job] = gate[p.job]
  BY PublishedStays
<1>2. CASE published' = published
  BY <1>1, <1>2 DEF PublishedInv
<1>3. ASSUME NEW j \in Jobs, Publish(j) PROVE PublishedInv'
  <2>. DEFINE new == [job |-> j, artifact |-> ArtifactOf(j)]
  <2>1. published' = published \cup {new} BY <1>3 DEF Publish
  <2>2. /\ RanIn(j) /\ job[j].image.revision = job[j].revision
        /\ gate[j].image = job[j].validator /\ gate[j].bundle = job[j].report
        /\ gate[j].at = "accepted"
    BY <1>3 DEF Publish, LocalInv, ImageInv, GateInv, Collected
  <2>3. gate[j] = [image |-> gate[j].image, bundle |-> gate[j].bundle, at |-> gate[j].at]
    BY DEF TypeOK, Gates
  <2>4. /\ job'[j].pc = "done" /\ worker' = worker /\ gate' = gate
    BY <1>3 DEF Publish, TypeOK, NoLocals
  <2>5. /\ new.job = j
        /\ new.artifact.image = worker[j].image
        /\ new.artifact.revision = worker[j].image.revision
        /\ new.artifact.bundle = worker[j].image.bundle
        /\ worker[j].at = "passed"
        /\ gate[j] = [image |-> new.artifact.validator, bundle |-> new.artifact.bundle,
                      at |-> "accepted"]
    BY <2>2, <2>3 DEF ArtifactOf, RanIn
  <2>. HIDE DEF new
  <2>. QED BY <1>1, <2>1, <2>4, <2>5 DEF PublishedInv
<1>. QED
  BY <1>2, <1>3
  DEF Next, Load, JobStep, ReadBundle, HashSources, SendContext, Build, InspectImage,
      CreateContainer, Collect, RemoveContainer, Construct, OpenGate, FillGate, AwaitGate,
      DiscardGate, Preview, Fail, Kill, GateStep, WorkerStep, EditTree, DeployApplication

(***************************************************************************)
(* Jobs that nothing happened beside.  While one runs, no other does, and  *)
(* the checkout and the tag are what the job made of them; so its reads at *)
(* different moments agree.                                                *)
(***************************************************************************)
Hashed == {"send", "build", "inspect", "create", "attach", "remove"} \cup Collected
Exact(i) == i.sources = tree.sources /\ i.revision = tree

ExactFor(j) ==
    /\ job[j].pin = tree.pin
    /\ job[j].pc \in Hashed => job[j].revision = tree
    /\ At(j, "build") => Exact(job[j].context)
    /\ job[j].pc \in {"inspect", "create"} => Exact(tag)
    /\ At(j, "attach") => Exact(worker[j].image)
    /\ At(j, "remove") /\ job[j].sound => Exact(worker[j].image)
    /\ job[j].pc \in Collected => Exact(worker[j].image)
    /\ job[j].pc \in Collected \ {"construct"} => job[j].report = job[j].pin

ExactInv ==
    /\ \A j \in Active \ disturbed : Active = {j} /\ ExactFor(j)
    /\ UndisturbedIsExact

LEMMA ExactStep ==
    ASSUME TypeOK, NEW j \in Jobs, LocalInv(j), ExactFor(j), JobStep(j) \/ Fail(j),
           j \in Active'
    PROVE  ExactFor(j)'
<1>. USE DEF At, outside, boxes, Active, Ended, ExactFor, Exact, Hashed, Collected
<1>0. job[j] \in Locals /\ worker[j] \in Programs BY DEF TypeOK
<1>1. CASE ReadBundle(j) \/ InspectImage(j) \/ RemoveContainer(j) \/ Construct(j) \/ DiscardGate(j)
  <2>1. job'[j].pc # "failed" BY <1>1
  <2>2. worker' = worker
    BY <1>1, <2>1
    DEF ReadBundle, InspectImage, RemoveContainer, Construct, DiscardGate, Remove, GoIf, Exit,
        NoLocals, TypeOK
  <2>3. CASE ReadBundle(j)
    BY <1>0, <2>1, <2>2, <2>3 DEF ReadBundle, GoIf, Exit, NoLocals, TypeOK, Locals
  <2>4. CASE InspectImage(j)
    <3>1. job'[j] = [job[j] EXCEPT !.pc = "create", !.image = tag]
      BY <2>1, <2>4 DEF InspectImage, GoIf, Exit, NoLocals, TypeOK
    <3>2. /\ job'[j].pc = "create" /\ job'[j].pin = job[j].pin
          /\ job'[j].revision = job[j].revision
      BY <1>0, <3>1 DEF Locals
    <3>. QED BY <2>4, <3>2 DEF InspectImage
  <2>5. CASE RemoveContainer(j)
    BY <1>0, <2>1, <2>2, <2>5 DEF RemoveContainer, Remove, GoIf, Exit, NoLocals, TypeOK, Locals
  <2>6. CASE Construct(j)
    <3>1. /\ job'[j] = [job[j] EXCEPT !.pc = "open", !.validator = api]
          /\ job[j].report = job[j].pin
      BY <2>1, <2>6 DEF Construct, GoIf, Exit, NoLocals, TypeOK
    <3>2. /\ job'[j].pc = "open" /\ job'[j].pin = job[j].pin
          /\ job'[j].revision = job[j].revision /\ job'[j].report = job[j].report
      BY <1>0, <3>1 DEF Locals
    <3>. QED BY <2>2, <2>6, <3>1, <3>2 DEF Construct
  <2>7. CASE DiscardGate(j)
    BY <1>0, <2>1, <2>2, <2>7 DEF DiscardGate, Remove, GoIf, Exit, NoLocals, TypeOK, Locals
  <2>. QED BY <1>1, <2>3, <2>4, <2>5, <2>6, <2>7
<1>2. CASE HashSources(j) BY <1>0, <1>2 DEF HashSources, TypeOK, Locals
<1>3. CASE SendContext(j) BY <1>0, <1>3 DEF SendContext, TypeOK, Locals
<1>4. CASE Build(j) BY <1>0, <1>4 DEF Build, TypeOK, Locals
<1>5. CASE CreateContainer(j) BY <1>0, <1>5 DEF CreateContainer, TypeOK, Locals, Programs
<1>6. CASE Collect(j) BY <1>0, <1>6 DEF Collect, TypeOK, Locals
<1>7. CASE OpenGate(j) \/ FillGate(j) \/ AwaitGate(j)
  BY <1>0, <1>7 DEF OpenGate, FillGate, AwaitGate, TypeOK, Locals
<1>8. CASE Publish(j) \/ Preview(j)
  BY <1>8 DEF Publish, Preview, Exit, NoLocals, TypeOK
<1>9. CASE Fail(j)
  <2>1. job'[j].pc # "failed" BY <1>9
  <2>2. /\ job[j].pc \in {"attach", "fill", "wait"} /\ worker' = worker
        /\ job'[j] = [job[j] EXCEPT !.pc = Unwind(j), !.sound = FALSE]
        /\ Unwind(j) = IF job[j].pc = "attach" THEN "remove" ELSE "discard"
    BY <1>9, <2>1 DEF Fail, Unwind, GoIf, Exit, NoLocals, TypeOK
  <2>3. /\ job'[j].pc = Unwind(j) /\ job'[j].sound = FALSE /\ job'[j].pin = job[j].pin
        /\ job'[j].revision = job[j].revision /\ job'[j].report = job[j].report
    BY <1>0, <2>2 DEF Locals
  <2>4. tree' = tree BY <1>9 DEF Fail
  <2>. QED BY <2>2, <2>3, <2>4
<1>. QED BY <1>1, <1>2, <1>3, <1>4, <1>5, <1>6, <1>7, <1>8, <1>9 DEF JobStep

\* A job whose variables and checkout stay.
LEMMA ExactStays ==
    ASSUME NEW j \in Jobs, ExactFor(j), job'[j] = job[j], worker'[j].image = worker[j].image,
           tree' = tree, tag' = tag
    PROVE  ExactFor(j)'
BY DEF ExactFor, Exact, At

LEMMA ExactKept == ASSUME IInv, ExactInv, Next PROVE ExactInv'
<1>. USE DEF At, outside, boxes, Loose, Boxes
<1>1. \A j \in Active' \ disturbed' : Active' = {j} /\ ExactFor(j)'
  <2>1. ASSUME NEW k \in Jobs, Load(k)
        PROVE  \A j \in Active' \ disturbed' : Active' = {j} /\ ExactFor(j)'
    <3>1. Active' = Active \cup {k} BY <2>1 DEF Load, Active, Ended, IInv, TypeOK, Locals
    <3>2. CASE Active # {}
      <4>1. Active' \ disturbed' = {} BY <2>1, <3>1, <3>2 DEF Load
      <4>. QED BY <4>1
    <3>3. CASE Active = {}
      <4>1. Active' = {k} BY <3>1, <3>3
      <4>2. job'[k].pin = tree.pin /\ job'[k].pc = "bundle" /\ tree' = tree
        BY <2>1 DEF Load, IInv, TypeOK, Locals
      <4>3. ExactFor(k)' BY <4>2 DEF ExactFor, Hashed, Collected
      <4>. QED BY <4>1, <4>3
    <3>. QED BY <3>2, <3>3
  <2>2. ASSUME NEW k \in Jobs,
               JobStep(k) \/ Fail(k) \/ Kill(k) \/ WorkerStep(k) \/ GateStep(k),
               NEW j \in Active' \ disturbed'
        PROVE  Active' = {j} /\ ExactFor(j)'
    <3>1. Own(k) BY <2>2, StepIsOwn DEF IInv
    <3>2. disturbed' = disturbed /\ tree' = tree
      BY <2>2
      DEF JobStep, ReadBundle, HashSources, SendContext, Build, InspectImage, CreateContainer,
          Collect, RemoveContainer, Construct, OpenGate, FillGate, AwaitGate, DiscardGate,
          Publish, Preview, Fail, Kill, WorkerStep, GateStep
    <3>3. CASE WorkerStep(k) \/ GateStep(k)
      <4>1. job' = job /\ tag' = tag BY <3>3 DEF WorkerStep, GateStep
      <4>2. worker'[j].image = worker[j].image
        <5>1. j \in Jobs /\ (j # k => worker'[j] = worker[j])
          BY <2>2, <3>1 DEF Own, Active
        <5>2. GateStep(k) => worker' = worker BY DEF GateStep
        <5>. QED BY <3>3, <5>1, <5>2, WorkerRan DEF IInv
      <4>3. Active' = Active /\ j \in Jobs BY <4>1 DEF Active
      <4>. QED BY <3>2, <4>1, <4>2, <4>3, ExactStays DEF ExactInv
    <3>4. CASE JobStep(k) \/ Fail(k) \/ Kill(k)
      <4>1. k \in Active
        BY <3>4
        DEF JobStep, ReadBundle, HashSources, SendContext, Build, InspectImage, CreateContainer,
            Collect, RemoveContainer, Construct, OpenGate, FillGate, AwaitGate, DiscardGate,
            Publish, Preview, Fail, Kill, Active, Ended
      <4>2. Active' \subseteq Active BY <3>1, <4>1 DEF Own, Active
      <4>3. Active = {j} /\ ExactFor(j) BY <3>2, <4>2 DEF ExactInv
      <4>4. j = k /\ Active' = {j} BY <4>1, <4>2, <4>3
      <4>5. ~Kill(k)
        BY <4>4 DEF Kill, Exit, Active, Ended, NoLocals, IInv, TypeOK
      <4>. QED BY <3>4, <4>3, <4>4, <4>5, ExactStep DEF IInv
    <3>. QED BY <2>2, <3>3, <3>4
  <2>3. CASE EditTree
    <3>1. Active' \ disturbed' = {} BY <2>3 DEF EditTree, Active
    <3>. QED BY <3>1
  <2>4. CASE DeployApplication
    <3>1. /\ Active' = Active /\ disturbed' = disturbed /\ job' = job /\ worker' = worker
          /\ tree' = tree /\ tag' = tag
      BY <2>4 DEF DeployApplication, Active
    <3>. QED BY <3>1, ExactStays DEF ExactInv, Active
  <2>. QED BY <2>1, <2>2, <2>3, <2>4 DEF Next
<1>2. UndisturbedIsExact'
  <2>1. disturbed \subseteq disturbed'
    BY DEF Next, Load, JobStep, ReadBundle, HashSources, SendContext, Build, InspectImage,
           CreateContainer, Collect, RemoveContainer, Construct, OpenGate, FillGate, AwaitGate,
           DiscardGate, Publish, Preview, Fail, Kill, WorkerStep, GateStep, EditTree,
           DeployApplication
  <2>2. \A p \in published : worker'[p.job] = worker[p.job] BY PublishedStays
  <2>3. CASE published' = published BY <2>1, <2>2, <2>3 DEF ExactInv, UndisturbedIsExact
  <2>4. ASSUME NEW j \in Jobs, Publish(j) PROVE UndisturbedIsExact'
    <3>. DEFINE new == [job |-> j, artifact |-> ArtifactOf(j)]
    <3>1. published' = published \cup {new} /\ worker' = worker BY <2>4 DEF Publish
    <3>2. ASSUME j \notin disturbed
          PROVE  /\ worker[j].image.sources = job[j].revision.sources
                 /\ job[j].report = job[j].revision.pin
      <4>1. j \in Active BY <2>4 DEF Publish, Active, Ended
      <4>2. ExactFor(j) BY <3>2, <4>1 DEF ExactInv
      <4>. QED BY <2>4, <4>2 DEF Publish, ExactFor, Exact, Hashed, Collected
    <3>3. new.job = j /\ new.artifact.revision = job[j].revision
          /\ new.artifact.bundle = job[j].report
      BY DEF ArtifactOf
    <3>. HIDE DEF new
    <3>. QED BY <2>1, <2>2, <3>1, <3>2, <3>3 DEF ExactInv, UndisturbedIsExact
  <2>. QED
    BY <2>3, <2>4
    DEF Next, Load, JobStep, ReadBundle, HashSources, SendContext, Build, InspectImage,
        CreateContainer, Collect, RemoveContainer, Construct, OpenGate, FillGate, AwaitGate,
        DiscardGate, Preview, Fail, Kill, GateStep, WorkerStep, EditTree, DeployApplication
<1>. QED BY <1>1, <1>2 DEF ExactInv

LEMMA Inductive == IInv /\ [Next]_vars => IInv'
<1>1. ASSUME IInv, Next PROVE IInv'
  BY <1>1, TypeKept, LocalKept, PublishedKept DEF IInv
<1>2. ASSUME IInv, UNCHANGED vars PROVE IInv'
  <2>1. TypeOK' BY <1>2 DEF IInv, TypeOK, vars
  <2>2. \A j \in Jobs : LocalInv(j)'
    BY <1>2, OthersKeep DEF IInv, vars, Loose
  <2>3. PublishedInv' BY <1>2 DEF IInv, PublishedInv, At, vars
  <2>. QED BY <2>1, <2>2, <2>3 DEF IInv
<1>. QED BY <1>1, <1>2

LEMMA Invariant == Spec => []IInv
  BY InitInv, Inductive, PTL DEF Spec

(***************************************************************************)
(* Every variable stays in its range: nothing unread gets into an artifact *)
(* (_construct_artifact).                                                  *)
(***************************************************************************)
THEOREM TypeCorrect == Spec => []TypeOK
<1>1. IInv => TypeOK BY DEF IInv
<1>. QED BY <1>1, Invariant, PTL

(***************************************************************************)
(* What an artifact names is what ran, whatever else was built under the   *)
(* tag (_inspect_controls compares the stopped container's image).         *)
(***************************************************************************)
THEOREM NamesWhatRan == Spec => []ArtifactNamesWhatRan
<1>1. IInv => ArtifactNamesWhatRan BY DEF IInv, PublishedInv, ArtifactNamesWhatRan
<1>. QED BY <1>1, Invariant, PTL

(***************************************************************************)
(* A published run has executed the whole contract, however many mutations *)
(* it declares (_execute_contract).                                        *)
(***************************************************************************)
THEOREM ContractExecuted == Spec => []ContractWasExecuted
<1>1. IInv => ContractWasExecuted
  <2>. SUFFICES ASSUME IInv, NEW p \in published
                PROVE  LET ran == worker[p.job].ran IN
                       /\ [stage |-> "pre", files |-> {}, result |-> "as declared"] \in ran
                       /\ \E r \in ran : /\ r.stage = "post" /\ r.result = "as declared"
                                         /\ Fix \in r.files /\ r.files \cap Mutations = {}
                       /\ \A m \in Mutations :
                             [stage |-> "mutant", files |-> {m}, result |-> "as declared"] \in ran
    BY DEF ContractWasExecuted
  <2>1. worker[p.job].at = "passed" /\ RanInv(p.job)
    BY DEF IInv, PublishedInv, LocalInv, TypeOK
  <2>2. \A m \in Mutations : Entry("mutant", {m}, "as declared") \in MutantsRan(p.job)
    BY <2>1 DEF RanInv, FirstMutants, Mutations
  <2>. QED BY <2>1, <2>2 DEF RanInv, MutantsRan, Entry
<1>. QED BY <1>1, Invariant, PTL

(***************************************************************************)
(* Nothing is published without the verdict of the application's gate on   *)
(* this artifact (_validate_with_application_gate).                        *)
(***************************************************************************)
THEOREM GateAccepted == Spec => []GateAcceptedIt
<1>1. IInv => GateAcceptedIt BY DEF IInv, PublishedInv, GateAcceptedIt
<1>. QED BY <1>1, Invariant, PTL

(***************************************************************************)
(* However a job ends that is not killed, its containers were removed, but *)
(* for one whose docker rm failed (the finally clauses of _run_container   *)
(* and of the gate, which do not look at that command's exit status).      *)
(***************************************************************************)
THEOREM NothingIsLeft == Spec => []EndedJobsLeaveNothing
<1>1. IInv => EndedJobsLeaveNothing
  BY DEF IInv, LocalInv, BoxInv, Loose, EndedJobsLeaveNothing
<1>. QED BY <1>1, Invariant, PTL

(***************************************************************************)
(* A job beside which nothing was edited and no other job ran has executed *)
(* the sources that its artifact's revision hashes, although it reads the  *)
(* checkout twice and the tag twice (_source_revision, _build_image).      *)
(***************************************************************************)
THEOREM UndisturbedExact == Spec => []UndisturbedIsExact
<1>1. Init => ExactInv
  BY DEF Init, ExactInv, Active, NoLocals, UndisturbedIsExact
<1>2. IInv /\ ExactInv /\ [Next]_vars => ExactInv'
  <2>1. ASSUME IInv, ExactInv, UNCHANGED vars PROVE ExactInv'
    <3>1. Active' = Active BY <2>1 DEF Active, vars
    <3>2. \A j \in Active \ disturbed : ExactFor(j)'
      BY <2>1, ExactStays DEF ExactInv, Active, vars
    <3>3. UndisturbedIsExact' BY <2>1 DEF ExactInv, UndisturbedIsExact, vars
    <3>. QED BY <2>1, <3>1, <3>2, <3>3 DEF ExactInv, vars
  <2>. QED BY <2>1, ExactKept
<1>3. ExactInv => UndisturbedIsExact BY DEF ExactInv
<1>. QED BY <1>1, <1>2, <1>3, Invariant, PTL DEF Spec
=============================================================================
