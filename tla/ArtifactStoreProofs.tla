------------------------ MODULE ArtifactStoreProofs ------------------------
(***************************************************************************)
(* Proofs about ArtifactStore, for any publishers, artifacts and           *)
(* deployments: locked or not, with any of the faults of FaultKinds.       *)
(***************************************************************************)
EXTENDS ArtifactStore, TLAPS

(***************************************************************************)
(* The inductive invariant.  What a publisher's program counter says about *)
(* its own job and about the file it writes, as long as the file has its   *)
(* name:                                                                   *)
(***************************************************************************)
Opening(p) == pc[p] \in {"open", "created", "flushed", "failing"}

JobInv(p) ==
    /\ pc[p] # "idle" => incoming[p] \in Artifacts
    /\ pc[p] \in {"idle", "read"} => stage[p] = "existing"
    /\ Opening(p) /\ stage[p] = "existing" => existing[p] \in Artifacts
    /\ pc[p] = "created" /\ p \notin detached => files[Path(p)] = "partial"
    /\ pc[p] = "flushed" /\ p \notin detached => files[Path(p)] = "complete"
    /\ pc[p] = "replace" => stage[p] = "temp" /\ files[p] = "complete"
    /\ p \in detached =>
          pc[p] \in {"created", "flushed", "failing"} /\ stage[p] # "temp"
    /\ pc[p] = "failing" => host.faults \cap {"io", "starved"} # {}

\* A job that has looked at the pointer found no malformed one, nor will it.
PointerInv(p) == pc[p] \notin {"idle", "read"} => current # Malformed

\* A named file has one writer (O_EXCL), and under the lock there is one job.
WriterInv ==
    \A p, q \in Publishers :
        /\ Writing(p) /\ p \notin detached
        /\ Writing(q) /\ q \notin detached
        /\ Path(p) = Path(q)
        => p = q

LockInv ==
    host.serialised =>
        \A p, q \in Publishers : pc[p] # "idle" /\ pc[q] # "idle" => p = q

\* On a reliable host no file loses its name under its writer.
NameInv == Reliable => detached = {}

(***************************************************************************)
(* What a publisher knows of the archive.  While it archives the artifact  *)
(* it read, the pointer is still that artifact or has moved to a retained  *)
(* one; after that, whatever the pointer is, it is retained.               *)
(***************************************************************************)
KnowledgeInv(p) ==
    /\ stage[p] = "existing" /\ Opening(p)
          => current \in Artifacts /\ (current = existing[p] \/ Retained(current))
    /\ stage[p] # "existing"
          => current = NoArtifact \/ (current \in Artifacts /\ Retained(current))
    /\ stage[p] = "temp" => incoming[p] \in Artifacts /\ Retained(incoming[p])

ShownInv == \A a \in shown : Retained(a)

IInv ==
    /\ TypeOK
    /\ \A p \in Publishers : JobInv(p)
    /\ \A p \in Publishers : PointerInv(p)
    /\ WriterInv
    /\ LockInv
    /\ NameInv
    /\ Reliable => \A p \in Publishers : KnowledgeInv(p)
    /\ Reliable => ShownInv

-----------------------------------------------------------------------------
\* The constants' values are told apart (ConstantsAssumption, unfolded once).
LEMMA Distinct ==
    /\ Publishers \cap Artifacts = {}
    /\ NoArtifact \notin Artifacts /\ Malformed \notin Artifacts
    /\ NoArtifact \notin Publishers /\ Malformed \notin Publishers
    /\ NoArtifact # Malformed
  BY ConstantsAssumption

\* A publisher in the middle of an exclusive write works on an archive entry
\* or on its own temporary, so no two of them meet except in the archive.
LEMMA PathRange ==
    ASSUME TypeOK, NEW p \in Publishers, JobInv(p), Opening(p)
    PROVE  /\ Path(p) \in Names
           /\ stage[p] = "existing" => Path(p) = existing[p] /\ Path(p) \in Artifacts
           /\ stage[p] = "incoming" => Path(p) = incoming[p] /\ Path(p) \in Artifacts
           /\ stage[p] = "temp" => Path(p) = p
           /\ Path(p) \in Artifacts \cup {p}
  BY DEF TypeOK, JobInv, Opening, Path, Names, Stages

\* A store stays on its host.
LEMMA HostIsFixed == [Next]_vars => host' = host
  BY DEF Next, WriteStep, FaultStep, vars, Begin, SkipExisting, ReadExisting,
         RefuseMalformed, Create, AcceptIdentical, RefuseMismatch, Flush, Sync, Replace,
         StepFails, OpenFails, WriteFails, TakeBack, Kill, Advance, Stop, Forget

(***************************************************************************)
(* The initial state satisfies the invariant.                              *)
(***************************************************************************)
LEMMA InitInv == Init => IInv
<1> SUFFICES ASSUME Init PROVE IInv
  OBVIOUS
<1>1. TypeOK
  BY DEF Init, TypeOK, Names, FileStates, Pointers, Steps, Stages
<1>2. \A p \in Publishers : JobInv(p) /\ PointerInv(p) /\ KnowledgeInv(p)
  BY DEF Init, JobInv, PointerInv, KnowledgeInv, Opening
<1>3. WriterInv /\ LockInv /\ NameInv /\ ShownInv
  BY DEF Init, WriterInv, Writing, LockInv, NameInv, ShownInv
<1> QED
  BY <1>1, <1>2, <1>3 DEF IInv

(***************************************************************************)
(* Every step keeps every variable in its type.                            *)
(***************************************************************************)
LEMMA TypeStep == IInv /\ [Next]_vars => TypeOK'
<1> SUFFICES ASSUME IInv, [Next]_vars PROVE TypeOK'
  OBVIOUS
<1>. USE DEF TypeOK, Names, FileStates, Stages, Steps, Pointers
<1>1. CASE UNCHANGED vars
  BY <1>1 DEF IInv, vars
<1>2. ASSUME NEW p \in Publishers, NEW a \in Artifacts, Begin(p, a)
      PROVE  TypeOK'
  BY <1>2 DEF IInv, Begin, storeVars
<1>3. ASSUME NEW p \in Publishers, WriteStep(p)
      PROVE  TypeOK'
  <2>1. CASE SkipExisting(p)
    BY <2>1 DEF IInv, SkipExisting, storeVars
  <2>2. CASE ReadExisting(p)
    BY <2>2 DEF IInv, ReadExisting, storeVars
  <2>3. CASE RefuseMalformed(p)
    BY <2>3 DEF IInv, RefuseMalformed, Stop, Forget, storeVars
  <2>4. CASE Create(p)
    BY <2>4 DEF IInv, Create
  <2>5. CASE AcceptIdentical(p)
    BY <2>5 DEF IInv, AcceptIdentical, Advance, storeVars
  <2>6. CASE RefuseMismatch(p)
    BY <2>6 DEF IInv, RefuseMismatch, Stop, Forget, storeVars
  <2>7. CASE Flush(p)
    BY <2>7 DEF IInv, Flush
  <2>8. CASE Sync(p)
    BY <2>8 DEF IInv, Sync, Advance, storeVars
  <2>9. CASE Replace(p)
    BY <2>9 DEF IInv, JobInv, Replace, Stop, Forget
  <2> QED
    BY <1>3, <2>1, <2>2, <2>3, <2>4, <2>5, <2>6, <2>7, <2>8, <2>9 DEF WriteStep
<1>4. ASSUME NEW p \in Publishers, FaultStep(p)
      PROVE  TypeOK'
  <2>1. CASE StepFails(p) \/ Kill(p)
    BY <2>1 DEF IInv, StepFails, Kill, Stop, Forget
  <2>2. CASE OpenFails(p) \/ WriteFails(p)
    BY <2>2 DEF IInv, OpenFails, WriteFails, storeVars
  <2>3. CASE TakeBack(p)
    BY <2>3 DEF IInv, TakeBack, Forget
  <2> QED
    BY <1>4, <2>1, <2>2, <2>3 DEF FaultStep
<1> QED
  BY <1>1, <1>2, <1>3, <1>4 DEF Next

(***************************************************************************)
(* Two publishers never meet on a file that one of them writes: steps of p *)
(* leave alone what q's program counter promises.                          *)
(***************************************************************************)
LEMMA JobStep == IInv /\ [Next]_vars => \A q \in Publishers : JobInv(q)'
<1> SUFFICES ASSUME IInv, [Next]_vars, NEW q \in Publishers PROVE JobInv(q)'
  OBVIOUS
<1>0. /\ TypeOK
      /\ \A r \in Publishers : JobInv(r)
      /\ WriterInv
      /\ JobInv(q)
  BY DEF IInv
<1>. USE <1>0, Distinct DEF TypeOK, Names, FileStates, Stages, Steps, Pointers
<1>1. CASE UNCHANGED vars
  BY <1>1 DEF vars, JobInv, Opening, Path
<1>2. ASSUME NEW p \in Publishers, NEW a \in Artifacts, Begin(p, a)
      PROVE  JobInv(q)'
  BY <1>2 DEF Begin, storeVars, JobInv, Opening, Path
<1>3. ASSUME NEW p \in Publishers, WriteStep(p)
      PROVE  JobInv(q)'
  <2>1. CASE SkipExisting(p)
    BY <2>1 DEF SkipExisting, storeVars, JobInv, Opening, Path
  <2>2. CASE ReadExisting(p)
    BY <2>2 DEF ReadExisting, storeVars, JobInv, Opening, Path
  <2>3. CASE RefuseMalformed(p)
    BY <2>3 DEF RefuseMalformed, Stop, Forget, storeVars, JobInv, Opening, Path
  <2>4. CASE Create(p)
    BY <2>4 DEF Create, JobInv, Opening, Path
  <2>5. CASE AcceptIdentical(p)
    BY <2>5 DEF AcceptIdentical, Advance, storeVars, JobInv, Opening, Path
  <2>6. CASE RefuseMismatch(p)
    BY <2>6 DEF RefuseMismatch, Stop, Forget, storeVars, JobInv, Opening, Path
  <2>7. CASE Flush(p)
    BY <2>7 DEF Flush, WriterInv, Writing, JobInv, Opening, Path
  <2>8. CASE Sync(p)
    BY <2>8 DEF Sync, Advance, storeVars, JobInv, Opening, Path
  <2>9. CASE Replace(p)
    BY <2>9 DEF Replace, Stop, Forget, JobInv, Opening, Path
  <2> QED
    BY <1>3, <2>1, <2>2, <2>3, <2>4, <2>5, <2>6, <2>7, <2>8, <2>9 DEF WriteStep
<1>4. ASSUME NEW p \in Publishers, FaultStep(p)
      PROVE  JobInv(q)'
  <2>1. CASE StepFails(p) \/ Kill(p)
    BY <2>1 DEF StepFails, Kill, Stop, Forget, JobInv, Opening, Path
  <2>2. CASE OpenFails(p) \/ WriteFails(p)
    BY <2>2 DEF OpenFails, WriteFails, Writing, storeVars, JobInv, Opening, Path
  <2>3. CASE TakeBack(p)
    <3>1. CASE q = p
      BY <2>3, <3>1 DEF TakeBack, Forget, JobInv, Opening, Writing
    <3>2. CASE q # p
      <4>1. PICK unlinked \in SUBSET {Path(p)} :
               /\ files' = [n \in Names |->
                              IF n \in unlinked \cup {p} THEN "absent" ELSE files[n]]
               /\ detached' = (detached \ {p}) \cup
                     {r \in Publishers : Writing(r) /\ Path(r) \in unlinked}
        BY <2>3 DEF TakeBack
      <4>2. /\ pc'[q] = pc[q] /\ stage'[q] = stage[q] /\ existing'[q] = existing[q]
            /\ incoming'[q] = incoming[q] /\ host' = host /\ Path(q)' = Path(q)
        BY <2>3, <3>2 DEF TakeBack, Forget, Path
      <4>3. Path(p) \in Artifacts \cup {p}
        BY <2>3, PathRange DEF TakeBack, Opening
      <4>4. ASSUME Writing(q), q \notin detached'
            PROVE  q \notin detached /\ files'[Path(q)] = files[Path(q)]
        <5>1. /\ Path(q) \in Names /\ Path(q) \in Artifacts \cup {q}
          BY <4>4, PathRange DEF Writing, Opening
        <5>2. q \notin detached /\ Path(q) \notin unlinked
          BY <3>2, <4>1, <4>4
        <5> QED
          BY <3>2, <4>1, <5>1, <5>2
      <4>5. files'[q] = files[q]
        BY <3>2, <4>1, <4>3
      <4>6. ASSUME q \in detached'
            PROVE  pc[q] \in {"created", "flushed", "failing"} /\ stage[q] # "temp"
        <5>1. CASE q \in detached
          BY <5>1 DEF JobInv
        <5>2. CASE q \notin detached
          <6>1. Writing(q) /\ Path(q) = Path(p)
            BY <4>1, <4>6, <5>2
          <6> QED
            BY <3>2, <4>3, <6>1 DEF Writing, Path
        <5> QED
          BY <5>1, <5>2
      <4> QED
        BY <4>2, <4>4, <4>5, <4>6 DEF JobInv, Opening, Writing
    <3> QED
      BY <3>1, <3>2
  <2> QED
    BY <1>4, <2>1, <2>2, <2>3 DEF FaultStep
<1> QED
  BY <1>1, <1>2, <1>3, <1>4 DEF Next

\* What replaces the pointer is a whole temporary.
LEMMA PointerStep == IInv /\ [Next]_vars => \A q \in Publishers : PointerInv(q)'
<1> SUFFICES ASSUME IInv, [Next]_vars, NEW q \in Publishers PROVE PointerInv(q)'
  OBVIOUS
<1>0. /\ TypeOK
      /\ \A r \in Publishers : JobInv(r)
      /\ PointerInv(q)
  BY DEF IInv
<1>. USE <1>0, Distinct DEF TypeOK, PointerInv
<1>1. CASE UNCHANGED vars
  BY <1>1 DEF vars
<1>2. ASSUME NEW p \in Publishers, NEW a \in Artifacts, Begin(p, a)
      PROVE  PointerInv(q)'
  BY <1>2 DEF Begin, storeVars
<1>3. ASSUME NEW p \in Publishers, Replace(p)
      PROVE  PointerInv(q)'
  BY <1>3 DEF Replace, Stop, Forget, JobInv
<1>4. ASSUME NEW p \in Publishers, WriteStep(p), ~Replace(p)
      PROVE  PointerInv(q)'
  BY <1>4 DEF WriteStep, SkipExisting, ReadExisting, RefuseMalformed, Create,
              AcceptIdentical, RefuseMismatch, Flush, Sync, Advance, Stop, Forget,
              storeVars
<1>5. ASSUME NEW p \in Publishers, FaultStep(p)
      PROVE  PointerInv(q)'
  BY <1>5 DEF FaultStep, StepFails, OpenFails, WriteFails, TakeBack, Kill, Stop,
              Forget, Writing, storeVars
<1> QED
  BY <1>1, <1>2, <1>3, <1>4, <1>5 DEF Next

(***************************************************************************)
(* O_EXCL gives a file one writer: a second one finds it there.            *)
(***************************************************************************)
LEMMA WriterStep == IInv /\ [Next]_vars => WriterInv'
<1> SUFFICES ASSUME IInv, [Next]_vars,
                    NEW q \in Publishers, NEW r \in Publishers,
                    Writing(q)', q \notin detached', Writing(r)', r \notin detached',
                    Path(q)' = Path(r)'
             PROVE  q = r
  BY DEF WriterInv
<1>0. /\ TypeOK
      /\ \A s \in Publishers : JobInv(s)
      /\ WriterInv
  BY DEF IInv
<1>. USE <1>0 DEF TypeOK, Names, FileStates, Stages, Steps
<1>1. CASE UNCHANGED vars
  BY <1>1 DEF vars, WriterInv, Writing, Path
<1>2. ASSUME NEW p \in Publishers, Create(p)
      PROVE  q = r
  BY <1>2 DEF Create, WriterInv, Writing, JobInv, Path
<1>3. ASSUME NEW p \in Publishers, Flush(p)
      PROVE  q = r
  BY <1>3 DEF Flush, WriterInv, Writing, Path
<1>4. ASSUME NEW p \in Publishers, NEW a \in Artifacts, Begin(p, a)
      PROVE  q = r
  BY <1>4 DEF Begin, WriterInv, Writing, Path
<1>5. ASSUME NEW p \in Publishers, SkipExisting(p) \/ ReadExisting(p)
      PROVE  q = r
  BY <1>5 DEF SkipExisting, ReadExisting, WriterInv, Writing, Path
<1>6. ASSUME NEW p \in Publishers, AcceptIdentical(p) \/ Sync(p)
      PROVE  q = r
  BY <1>6 DEF AcceptIdentical, Sync, Advance, WriterInv, Writing, Path
<1>7. ASSUME NEW p \in Publishers,
             RefuseMalformed(p) \/ RefuseMismatch(p) \/ Replace(p)
             \/ StepFails(p) \/ Kill(p)
      PROVE  q = r
  BY <1>7 DEF RefuseMalformed, RefuseMismatch, Replace, StepFails, Kill, Stop, Forget,
              WriterInv, Writing, Path
<1>8. ASSUME NEW p \in Publishers, OpenFails(p) \/ WriteFails(p) \/ TakeBack(p)
      PROVE  q = r
  BY <1>8 DEF OpenFails, WriteFails, TakeBack, Forget, WriterInv, Writing, Path
<1> QED
  BY <1>1, <1>2, <1>3, <1>4, <1>5, <1>6, <1>7, <1>8 DEF Next, WriteStep, FaultStep

\* The scheduler's lock admits one job at a time.
LEMMA LockStep == IInv /\ [Next]_vars => LockInv'
<1> SUFFICES ASSUME IInv, [Next]_vars, host'.serialised,
                    NEW q \in Publishers, NEW r \in Publishers,
                    pc'[q] # "idle", pc'[r] # "idle"
             PROVE  q = r
  BY DEF LockInv
<1>0. TypeOK /\ LockInv
  BY DEF IInv
<1>. USE <1>0 DEF TypeOK, LockInv
<1>1. CASE UNCHANGED vars
  BY <1>1 DEF vars
<1>2. ASSUME NEW p \in Publishers, NEW a \in Artifacts, Begin(p, a)
      PROVE  q = r
  BY <1>2 DEF Begin
<1>3. ASSUME NEW p \in Publishers, WriteStep(p)
      PROVE  q = r
  BY <1>3 DEF WriteStep, SkipExisting, ReadExisting, RefuseMalformed, Create,
              AcceptIdentical, RefuseMismatch, Flush, Sync, Replace, Advance, Stop, Forget
<1>4. ASSUME NEW p \in Publishers, FaultStep(p)
      PROVE  q = r
  BY <1>4 DEF FaultStep, StepFails, OpenFails, WriteFails, TakeBack, Kill, Writing, Stop,
              Forget
<1> QED
  BY <1>1, <1>2, <1>3, <1>4 DEF Next

\* Only a handler that unlinks takes a name away, and on a reliable host nobody
\* else is running then.
LEMMA NameStep == IInv /\ [Next]_vars => NameInv'
<1> SUFFICES ASSUME IInv, [Next]_vars, Reliable' PROVE detached' = {}
  BY DEF NameInv
<1>1. host' = host
  BY HostIsFixed
<1>2. Reliable /\ detached = {}
  BY <1>1 DEF IInv, NameInv, Reliable
<1>3. ASSUME NEW p \in Publishers, TakeBack(p)
      PROVE  detached' = {}
  <2>1. host.serialised
    BY <1>2, <1>3 DEF IInv, JobInv, TakeBack, Reliable
  <2>2. \A q \in Publishers : ~Writing(q)
    BY <1>3, <2>1 DEF IInv, LockInv, TakeBack, Writing
  <2> QED
    BY <1>2, <1>3, <2>2 DEF TakeBack
<1>4. CASE ~ \E p \in Publishers : TakeBack(p)
  BY <1>2, <1>4 DEF Next, WriteStep, FaultStep, vars, Begin, SkipExisting, ReadExisting,
         RefuseMalformed, Create, AcceptIdentical, RefuseMismatch, Flush, Sync, Replace,
         StepFails, OpenFails, WriteFails, Kill, Advance, Stop, Forget
<1> QED
  BY <1>3, <1>4

(***************************************************************************)
(* A retained entry stays retained, whatever any publisher does and        *)
(* wherever it is interrupted, unless an os.open of it starves.            *)
(***************************************************************************)
Starves(p, a) == "starved" \in host.faults /\ OpenFails(p) /\ Path(p) = a

LEMMA RetainedStep ==
    ASSUME IInv, [Next]_vars, NEW a \in Artifacts, Retained(a),
           \A p \in Publishers : ~Starves(p, a)
    PROVE  Retained(a)'
<1>0. /\ TypeOK
      /\ \A q \in Publishers : JobInv(q)
  BY DEF IInv
<1>. USE <1>0, Distinct
     DEF TypeOK, Names, FileStates, Stages, Steps, Retained, Threatens, Writing
<1>1. CASE UNCHANGED vars
  BY <1>1 DEF vars, Path
<1>2. ASSUME NEW p \in Publishers, NEW b \in Artifacts, Begin(p, b)
      PROVE  Retained(a)'
  BY <1>2 DEF Begin, storeVars, Path
<1>3. ASSUME NEW p \in Publishers,
             SkipExisting(p) \/ ReadExisting(p) \/ AcceptIdentical(p) \/ Sync(p)
      PROVE  Retained(a)'
  BY <1>3 DEF SkipExisting, ReadExisting, AcceptIdentical, Sync, Advance,
              storeVars, Path
<1>4. ASSUME NEW p \in Publishers, RefuseMalformed(p) \/ RefuseMismatch(p)
      PROVE  Retained(a)'
  BY <1>4 DEF RefuseMalformed, RefuseMismatch, Stop, Forget, storeVars, Path
<1>5. ASSUME NEW p \in Publishers, Create(p)
      PROVE  Retained(a)'
  BY <1>5 DEF Create, Path, JobInv
<1>6. ASSUME NEW p \in Publishers, Flush(p)
      PROVE  Retained(a)'
  BY <1>6 DEF Flush, Path, JobInv
<1>7. ASSUME NEW p \in Publishers, Replace(p) \/ StepFails(p) \/ Kill(p)
      PROVE  Retained(a)'
  BY <1>7 DEF Replace, StepFails, Kill, Stop, Forget, Path
<1>8. ASSUME NEW p \in Publishers, OpenFails(p)
      PROVE  Retained(a)'
  BY <1>8 DEF OpenFails, Starves, storeVars, Path
<1>9. ASSUME NEW p \in Publishers, WriteFails(p)
      PROVE  Retained(a)'
  BY <1>9 DEF WriteFails, storeVars, Path
<1>10. ASSUME NEW p \in Publishers, TakeBack(p)
       PROVE  Retained(a)'
  <2>1. Path(p) # a /\ p # a
    BY <1>10 DEF TakeBack
  <2>2. files'[a] = files[a]
    BY <1>10, <2>1 DEF TakeBack
  <2> QED
    BY <1>10, <2>2 DEF TakeBack, Forget, Path
<1> QED
  BY <1>1, <1>2, <1>3, <1>4, <1>5, <1>6, <1>7, <1>8, <1>9, <1>10
     DEF Next, WriteStep, FaultStep

\* On a reliable host os.open does not starve.
LEMMA ReliablyRetained ==
    ASSUME IInv, [Next]_vars, Reliable, NEW a \in Artifacts, Retained(a)
    PROVE  Retained(a)'
  BY RetainedStep DEF Starves, Reliable

(***************************************************************************)
(* When an exclusive write of an archive entry returns, the entry is       *)
(* retained: p wrote it and is past fsync, or p found it complete and,     *)
(* where fsync can fail, nobody else is running.                           *)
(***************************************************************************)
LEMMA WriteReturns ==
    ASSUME IInv, Reliable, NEW p \in Publishers, AcceptIdentical(p) \/ Sync(p),
           NEW b \in Artifacts, b = Path(p)
    PROVE  Retained(b)'
<1>0. /\ TypeOK /\ WriterInv /\ LockInv /\ detached = {}
      /\ \A q \in Publishers : JobInv(q)
  BY DEF IInv, NameInv
<1>. USE <1>0, Distinct DEF TypeOK, Names, FileStates, Stages, Steps
<1>1. pc[p] \in {"open", "flushed"}
  BY DEF AcceptIdentical, Sync
<1>2. files[b] = "complete" /\ stage[p] # "temp"
  BY <1>1, PathRange DEF AcceptIdentical, Sync, JobInv, Opening
<1>3. /\ files' = files /\ host' = host
      /\ pc'[p] = "open"
      /\ \A q \in Publishers \ {p} : pc'[q] = pc[q]
  BY <1>2 DEF AcceptIdentical, Sync, Advance, storeVars
<1>4. ASSUME NEW q \in Publishers, Threatens(q)'
      PROVE  FALSE
  <2>1. q # p /\ Threatens(q)
    BY <1>3, <1>4 DEF Threatens, Writing
  <2>2. pc[p] # "idle" /\ pc[q] # "idle"
    BY <1>1, <2>1 DEF Threatens, Writing
  <2>3. host.serialised
    BY <2>1 DEF Reliable, Threatens, JobInv
  <2> QED
    BY <2>1, <2>2, <2>3 DEF LockInv
<1> QED
  BY <1>2, <1>3, <1>4 DEF Retained

(***************************************************************************)
(* What publishers know survives the steps of the others.  The pointer     *)
(* moves only in Replace, from a retained artifact to one its publisher    *)
(* has retained, which is all the others rely on.                          *)
(***************************************************************************)
LEMMA KnowledgeStep ==
    IInv /\ Reliable /\ [Next]_vars => \A q \in Publishers : KnowledgeInv(q)'
<1> SUFFICES ASSUME IInv, Reliable, [Next]_vars, NEW q \in Publishers
             PROVE  KnowledgeInv(q)'
  OBVIOUS
<1>0. /\ TypeOK
      /\ \A r \in Publishers : JobInv(r) /\ KnowledgeInv(r)
      /\ JobInv(q) /\ KnowledgeInv(q)
  BY DEF IInv
<1>1. \A a \in Artifacts : Retained(a) => Retained(a)'
  BY ReliablyRetained
<1>. USE <1>0, Distinct DEF TypeOK, Stages, Steps, Pointers
<1>2. ASSUME current' = current, pc'[q] = pc[q], stage'[q] = stage[q],
             existing'[q] = existing[q], incoming'[q] = incoming[q]
      PROVE  KnowledgeInv(q)'
  BY <1>1, <1>2 DEF KnowledgeInv, Opening
<1>3. CASE UNCHANGED vars
  BY <1>2, <1>3 DEF vars
<1>4. ASSUME NEW p \in Publishers, NEW a \in Artifacts, Begin(p, a)
      PROVE  KnowledgeInv(q)'
  BY <1>2, <1>4 DEF Begin, storeVars, KnowledgeInv, Opening, JobInv
<1>5. ASSUME NEW p \in Publishers, WriteStep(p)
      PROVE  KnowledgeInv(q)'
  <2>1. CASE SkipExisting(p)
    BY <1>2, <2>1 DEF SkipExisting, storeVars, KnowledgeInv, Opening
  <2>2. CASE ReadExisting(p)
    BY <1>2, <2>2 DEF ReadExisting, storeVars, KnowledgeInv, Opening
  <2>3. CASE RefuseMalformed(p) \/ RefuseMismatch(p)
    BY <1>2, <2>3 DEF RefuseMalformed, RefuseMismatch, Stop, Forget, storeVars, KnowledgeInv,
                       Opening
  <2>4. CASE Create(p)
    BY <1>1, <2>4 DEF Create, KnowledgeInv, Opening
  <2>5. CASE Flush(p)
    BY <1>1, <2>5 DEF Flush, KnowledgeInv, Opening
  <2>6. CASE AcceptIdentical(p) \/ Sync(p)
    <3>1. CASE q # p
      BY <1>2, <2>6, <3>1 DEF AcceptIdentical, Sync, Advance, storeVars
    <3>2. CASE q = p
      <4>1. pc[p] \in {"open", "flushed"} /\ incoming[p] \in Artifacts
        BY <2>6 DEF AcceptIdentical, Sync, JobInv
      <4>2. CASE stage[p] = "existing"
        <5>1. Path(p) = existing[p] /\ existing[p] \in Artifacts
          BY <4>1, <4>2, PathRange DEF Opening
        <5>2. \A b \in Artifacts : b = existing[p] => Retained(b)'
          BY <2>6, <5>1, WriteReturns
        <5>3. current \in Artifacts /\ Retained(current)'
          BY <1>1, <2>6, <3>2, <4>1, <4>2, <5>2
             DEF KnowledgeInv, Opening, AcceptIdentical, Sync, storeVars
        <5> QED
          BY <2>6, <3>2, <4>2, <5>3
             DEF AcceptIdentical, Sync, Advance, storeVars, KnowledgeInv, Opening
      <4>3. CASE stage[p] = "incoming"
        <5>1. Path(p) = incoming[p]
          BY <4>1, <4>3, PathRange DEF Opening
        <5>2. \A b \in Artifacts : b = incoming[p] => Retained(b)'
          BY <2>6, <5>1, WriteReturns
        <5> QED
          BY <1>1, <2>6, <3>2, <4>1, <4>3, <5>2
             DEF AcceptIdentical, Sync, Advance, storeVars, KnowledgeInv, Opening
      <4>4. CASE stage[p] = "temp"
        BY <1>1, <2>6, <3>2, <4>4
           DEF AcceptIdentical, Sync, Advance, storeVars, KnowledgeInv, Opening
      <4> QED
        BY <4>2, <4>3, <4>4
    <3> QED
      BY <3>1, <3>2
  <2>7. CASE Replace(p)
    <3>1. /\ current' = incoming[p] /\ incoming[p] \in Artifacts
          /\ Retained(incoming[p])
      BY <2>7 DEF Replace, JobInv, KnowledgeInv
    <3>2. current' \in Artifacts /\ Retained(current)'
      <4>1. \A b \in Artifacts : b = incoming[p] => Retained(b)'
        BY <1>1, <3>1
      <4> QED
        BY <3>1, <4>1 DEF Retained
    <3>3. CASE q = p
      BY <2>7, <3>3 DEF Replace, Stop, Forget, KnowledgeInv, Opening
    <3>4. CASE q # p
      BY <1>1, <2>7, <3>2, <3>4 DEF Replace, Stop, Forget, KnowledgeInv, Opening
    <3> QED
      BY <3>3, <3>4
  <2> QED
    BY <1>5, <2>1, <2>2, <2>3, <2>4, <2>5, <2>6, <2>7 DEF WriteStep
<1>6. ASSUME NEW p \in Publishers, FaultStep(p)
      PROVE  KnowledgeInv(q)'
  <2>1. CASE StepFails(p) \/ Kill(p)
    BY <1>2, <2>1 DEF StepFails, Kill, Stop, Forget, KnowledgeInv, Opening
  <2>2. CASE OpenFails(p) \/ WriteFails(p)
    BY <1>1, <2>2
       DEF OpenFails, WriteFails, Writing, storeVars, KnowledgeInv, Opening
  <2>3. CASE TakeBack(p)
    BY <1>2, <2>3 DEF TakeBack, Forget, KnowledgeInv, Opening
  <2> QED
    BY <1>6, <2>1, <2>2, <2>3 DEF FaultStep
<1> QED
  BY <1>3, <1>4, <1>5, <1>6 DEF Next

LEMMA ShownStep == IInv /\ Reliable /\ [Next]_vars => ShownInv'
<1> SUFFICES ASSUME IInv, Reliable, [Next]_vars, NEW a \in shown' PROVE Retained(a)'
  BY DEF ShownInv
<1>0. /\ TypeOK /\ ShownInv
      /\ \A p \in Publishers : JobInv(p) /\ KnowledgeInv(p)
  BY DEF IInv
<1>1. a \in Artifacts
  BY TypeStep DEF TypeOK
<1>2. CASE a \in shown
  BY <1>0, <1>1, <1>2, ReliablyRetained DEF ShownInv
<1>3. CASE a \notin shown
  <2>1. PICK p \in Publishers : Replace(p)
    BY <1>3 DEF Next, WriteStep, vars, storeVars, Begin, SkipExisting, ReadExisting,
                RefuseMalformed, Create, AcceptIdentical, RefuseMismatch, Flush, Sync,
                FaultStep, StepFails, OpenFails, WriteFails, TakeBack, Kill
  <2>2. a = current \/ a = incoming[p]
    BY <1>3, <2>1 DEF Replace
  <2>3. Retained(a)
    BY <1>0, <1>1, <2>1, <2>2, Distinct DEF Replace, JobInv, KnowledgeInv
  <2> QED
    BY <1>1, <2>3, ReliablyRetained
<1> QED
  BY <1>2, <1>3

THEOREM InductiveInvariant == Spec => []IInv
<1>1. IInv /\ [Next]_vars => IInv'
  <2> SUFFICES ASSUME IInv, [Next]_vars PROVE IInv'
    OBVIOUS
  <2>1. Reliable' => Reliable
    BY HostIsFixed DEF Reliable
  <2>2. /\ TypeOK' /\ \A q \in Publishers : JobInv(q)' /\ PointerInv(q)'
        /\ WriterInv' /\ LockInv' /\ NameInv'
    BY TypeStep, JobStep, PointerStep, WriterStep, LockStep, NameStep
  <2>3. Reliable' => \A q \in Publishers : KnowledgeInv(q)'
    BY <2>1, KnowledgeStep
  <2>4. Reliable' => ShownInv'
    BY <2>1, ShownStep
  <2> QED
    BY <2>2, <2>3, <2>4 DEF IInv
<1> QED
  BY InitInv, <1>1, PTL DEF Spec

-----------------------------------------------------------------------------
(***************************************************************************)
(* The results.                                                            *)
(***************************************************************************)

\* The variables of the store keep their types.
THEOREM TypeCorrect == Spec => []TypeOK
<1>1. IInv => TypeOK
  BY DEF IInv
<1> QED
  BY <1>1, InductiveInvariant, PTL

(***************************************************************************)
(* On a host with descriptors and memory, where a write fails only under   *)
(* the scheduler's lock, whatever was ever current is whole in the archive *)
(* for any number of publishers, killed between any two steps.             *)
(***************************************************************************)
THEOREM HistoryIsRetained == Spec => []HistoryRetained
<1>1. IInv => HistoryRetained
  BY DEF IInv, ShownInv, HistoryRetained, EvidenceKept, Retained
<1> QED
  BY <1>1, InductiveInvariant, PTL

\* On every host, the only step that ends an entry's retention is a starving
\* os.open of that entry.
THEOREM ArchiveIsImmutable == Spec => ArchiveImmutable
<1>1. IInv /\ [Next]_vars
        => [\A a \in Artifacts :
               Retained(a) /\ ~Retained(a)' =>
                   /\ "starved" \in host.faults
                   /\ \E p \in Publishers : OpenFails(p) /\ Path(p) = a]_vars
  BY RetainedStep DEF Starves
<1> QED
  BY <1>1, InductiveInvariant, PTL DEF Spec, ArchiveImmutable

\* The pointer moves only through os.replace.
LEMMA PointerMoves ==
    ASSUME [Next]_vars, current' # current
    PROVE  \E p \in Publishers : Replace(p)
  BY DEF Next, WriteStep, vars, storeVars, Begin, SkipExisting, ReadExisting,
         RefuseMalformed, Create, AcceptIdentical, RefuseMismatch, Flush, Sync,
         FaultStep, StepFails, OpenFails, WriteFails, TakeBack, Kill

\* On a reliable host it moves from a retained artifact, or from nothing, to the
\* retained artifact its publisher validated.
LEMMA ReplaceMoves ==
    ASSUME IInv, Reliable, NEW p \in Publishers, Replace(p)
    PROVE  /\ current = NoArtifact \/ (current \in Artifacts /\ Retained(current))
           /\ current' = incoming[p]
           /\ incoming[p] \in Artifacts /\ Retained(incoming[p])
  BY DEF IInv, JobInv, KnowledgeInv, Replace

\* A malformed current file is never replaced, nor a good one by a torn one, on
\* any host.
THEOREM PointerIsFailClosed == Spec => PointerFailsClosed
<1>1. ASSUME IInv, [Next]_vars, current' # current
      PROVE  current # Malformed /\ current' # Malformed
  <2>1. PICK p \in Publishers : Replace(p)
    BY <1>1, PointerMoves
  <2>2. JobInv(p) /\ PointerInv(p)
    BY <1>1 DEF IInv
  <2> QED
    BY <2>1, <2>2, Distinct DEF Replace, JobInv, PointerInv
<1>2. IInv /\ [Next]_vars
        => [current' # current => current # Malformed /\ current' # Malformed]_vars
  BY <1>1
<1> QED
  BY <1>2, InductiveInvariant, PTL DEF Spec, PointerFailsClosed

\* A truncated entry whose writer is gone stays what it is where os.open does
\* not starve: O_EXCL finds it there.
LEMMA OrphanStep ==
    ASSUME IInv, [Next]_vars, "starved" \notin host.faults,
           NEW a \in Artifacts, Orphaned(a)
    PROVE  Orphaned(a)'
<1>0. /\ TypeOK
      /\ \A q \in Publishers : JobInv(q)
  BY DEF IInv
<1>. USE <1>0, Distinct DEF TypeOK, Names, FileStates, Stages, Steps, Orphaned, Writing
<1>1. CASE UNCHANGED vars
  BY <1>1 DEF vars, Path
<1>2. ASSUME NEW p \in Publishers, NEW b \in Artifacts, Begin(p, b)
      PROVE  Orphaned(a)'
  BY <1>2 DEF Begin, storeVars, Path
<1>3. ASSUME NEW p \in Publishers,
             SkipExisting(p) \/ ReadExisting(p) \/ AcceptIdentical(p) \/ Sync(p)
      PROVE  Orphaned(a)'
  BY <1>3 DEF SkipExisting, ReadExisting, AcceptIdentical, Sync, Advance,
              storeVars, Path
<1>4. ASSUME NEW p \in Publishers, RefuseMalformed(p) \/ RefuseMismatch(p)
      PROVE  Orphaned(a)'
  BY <1>4 DEF RefuseMalformed, RefuseMismatch, Stop, Forget, storeVars, Path
<1>5. ASSUME NEW p \in Publishers, Create(p)
      PROVE  Orphaned(a)'
  BY <1>5 DEF Create, Path, JobInv
<1>6. ASSUME NEW p \in Publishers, Flush(p)
      PROVE  Orphaned(a)'
  BY <1>6 DEF Flush, Path, JobInv
<1>7. ASSUME NEW p \in Publishers, Replace(p) \/ StepFails(p) \/ Kill(p)
      PROVE  Orphaned(a)'
  BY <1>7 DEF Replace, StepFails, Kill, Stop, Forget, Path
<1>8. ASSUME NEW p \in Publishers, OpenFails(p) \/ WriteFails(p)
      PROVE  Orphaned(a)'
  BY <1>8 DEF OpenFails, WriteFails, storeVars, Path
<1>9. ASSUME NEW p \in Publishers, TakeBack(p)
      PROVE  Orphaned(a)'
  <2>1. files'[a] = files[a]
    BY <1>9 DEF TakeBack
  <2> QED
    BY <1>9, <2>1 DEF TakeBack, Forget, Path
<1> QED
  BY <1>1, <1>2, <1>3, <1>4, <1>5, <1>6, <1>7, <1>8, <1>9 DEF Next, WriteStep, FaultStep

(***************************************************************************)
(* Where os.open does not starve a truncated archive entry is never        *)
(* accepted or removed, and on a reliable host nothing replaces the        *)
(* current artifact while that is its entry.                               *)
(***************************************************************************)
THEOREM OrphansFailClosed == Spec => OrphanFailsClosed
<1>1. ASSUME IInv, [Next]_vars, Reliable, NEW a \in Artifacts, Orphaned(a), current = a
      PROVE  current' = a
  <2>1. ~ Retained(current)
    BY <1>1 DEF Orphaned, Retained
  <2> QED
    BY <1>1, <2>1, PointerMoves, ReplaceMoves, Distinct
<1>2. IInv /\ [Next]_vars
        => [\A a \in Artifacts :
               Orphaned(a) =>
                   /\ "starved" \notin host.faults => Orphaned(a)'
                   /\ Reliable /\ current = a => current' = a]_vars
  BY <1>1, OrphanStep
<1> QED
  BY <1>2, InductiveInvariant, PTL DEF Spec, OrphanFailsClosed

-----------------------------------------------------------------------------
(***************************************************************************)
(* The refinement.  A step retains at most the entry its publisher writes  *)
(* or gives up writing.                                                    *)
(***************************************************************************)
LEMMA RetainsOne ==
    ASSUME IInv, NEW p \in Publishers, WriteStep(p) \/ FaultStep(p),
           NEW a \in Artifacts, Retained(a)', ~ Retained(a)
    PROVE  Opening(p) /\ Path(p) = a
<1>0. TypeOK /\ JobInv(p)
  BY DEF IInv
<1>. USE <1>0, Distinct
     DEF TypeOK, Names, FileStates, Stages, Steps, Retained, Threatens, Writing, Opening
<1>1. CASE SkipExisting(p) \/ ReadExisting(p)
  BY <1>1 DEF SkipExisting, ReadExisting, storeVars, Path
<1>2. CASE RefuseMalformed(p) \/ RefuseMismatch(p)
  BY <1>2 DEF RefuseMalformed, RefuseMismatch, Stop, Forget, storeVars, Path
<1>3. CASE Create(p)
  BY <1>3 DEF Create, Path
<1>4. CASE AcceptIdentical(p) \/ Sync(p)
  BY <1>4 DEF AcceptIdentical, Sync, Advance, storeVars, Path
<1>5. CASE Flush(p)
  BY <1>5 DEF Flush, Path
<1>6. CASE Replace(p)
  BY <1>6 DEF Replace, Stop, Forget, Path, JobInv
<1>7. CASE StepFails(p) \/ Kill(p)
  BY <1>7 DEF StepFails, Kill, Stop, Forget, Path
<1>8. CASE OpenFails(p) \/ WriteFails(p)
  BY <1>8 DEF OpenFails, WriteFails, storeVars, Path
<1>9. CASE TakeBack(p)
  BY <1>9 DEF TakeBack, Forget, Path
<1> QED
  BY <1>1, <1>2, <1>3, <1>4, <1>5, <1>6, <1>7, <1>8, <1>9 DEF WriteStep, FaultStep

(***************************************************************************)
(* The publishers' files, errors and crashes implement the append-only     *)
(* history on a reliable host: every step is a Retain, a Publish or a      *)
(* stutter of EvidenceHistory.                                             *)
(***************************************************************************)
THEOREM StoreImplementsHistory == Spec => ImplementsHistory
<1>1. Init => History!Init
  BY DEF Init, Pointers, History!Init, RetainedSet, PromisedCurrent
<1>2. ASSUME IInv, [Next]_vars, ~Reliable
      PROVE  UNCHANGED <<RetainedSet, PromisedCurrent>>
  BY <1>2, HostIsFixed DEF RetainedSet, PromisedCurrent, Reliable
<1>3. ASSUME IInv, [Next]_vars, Reliable
      PROVE  [History!Next]_<<RetainedSet, PromisedCurrent>>
  <2>0. Reliable' /\ PromisedCurrent = current /\ PromisedCurrent' = current'
    BY <1>3, HostIsFixed DEF Reliable, PromisedCurrent
  <2>1. RetainedSet \subseteq RetainedSet'
    BY <1>3, <2>0, ReliablyRetained DEF RetainedSet
  <2>2. CASE UNCHANGED vars
    BY <2>2 DEF vars, RetainedSet, PromisedCurrent, Reliable, Retained, Threatens,
                Writing, Path
  <2>3. ASSUME NEW p \in Publishers, NEW a \in Artifacts, Begin(p, a)
        PROVE  UNCHANGED <<RetainedSet, PromisedCurrent>>
    <3>1. \A b \in Artifacts : Retained(b)' => Retained(b)
      BY <1>3, <2>3 DEF Begin, storeVars, Retained, Threatens, Writing, Path, IInv, TypeOK
    <3> QED
      BY <1>3, <2>0, <2>1, <2>3, <3>1 DEF Begin, storeVars, RetainedSet
  <2>4. ASSUME NEW p \in Publishers, Replace(p)
        PROVE  History!Publish(incoming[p])
    <3>1. RetainedSet' = RetainedSet
      <4>1. ~Opening(p)
        BY <2>4 DEF Replace, Opening
      <4>2. \A a \in Artifacts : Retained(a)' => Retained(a)
        BY <1>3, <2>4, <4>1, RetainsOne DEF WriteStep
      <4> QED
        BY <1>3, <2>0, <2>1, <4>2 DEF RetainedSet
    <3> QED
      BY <1>3, <2>0, <2>4, <3>1, ReplaceMoves DEF History!Publish, RetainedSet
  <2>5. ASSUME NEW p \in Publishers, WriteStep(p) \/ FaultStep(p), ~ Replace(p)
        PROVE  \/ UNCHANGED <<RetainedSet, PromisedCurrent>>
               \/ \E a \in Artifacts : History!Retain(a)
    <3>1. current' = current
      BY <2>5 DEF WriteStep, SkipExisting, ReadExisting, RefuseMalformed, Create,
                  AcceptIdentical, RefuseMismatch, Flush, Sync, FaultStep, StepFails,
                  OpenFails, WriteFails, TakeBack, Kill, storeVars
    <3>2. CASE \E a \in Artifacts : Retained(a)' /\ ~ Retained(a)
      <4>1. PICK a \in Artifacts : Retained(a)' /\ ~ Retained(a)
        BY <3>2
      <4>2. \A b \in Artifacts : Retained(b)' /\ ~ Retained(b) => b = a
        BY <1>3, <2>5, <4>1, RetainsOne
      <4>3. RetainedSet' = RetainedSet \cup {a}
        BY <1>3, <2>0, <2>1, <4>1, <4>2 DEF RetainedSet
      <4> QED
        BY <2>0, <3>1, <4>3 DEF History!Retain
    <3>3. CASE ~ \E a \in Artifacts : Retained(a)' /\ ~ Retained(a)
      BY <1>3, <2>0, <2>1, <3>1, <3>3 DEF RetainedSet
    <3> QED
      BY <3>2, <3>3
  <2> QED
    BY <1>3, <2>2, <2>3, <2>4, <2>5, ReplaceMoves DEF Next, WriteStep, History!Next
<1>4. IInv /\ [Next]_vars => [History!Next]_<<RetainedSet, PromisedCurrent>>
  BY <1>2, <1>3
<1> QED
  BY <1>1, <1>4, InductiveInvariant, PTL
     DEF Spec, ImplementsHistory, History!Spec, History!historyVars
=============================================================================
