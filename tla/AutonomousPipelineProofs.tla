---------------------- MODULE AutonomousPipelineProofs ----------------------
(***************************************************************************)
(* Proofs about AutonomousPipeline, for any number of processes, contents  *)
(* of the draft, files and runs.                                           *)
(***************************************************************************)
EXTENDS AutonomousPipeline, FiniteSetTheorems, TLAPS

\* The runs are numbered below the bound.
PassedInv == IsFiniteSet(passed) /\ Cardinality(passed) \in 0 .. MaxRuns

(***************************************************************************)
(* What a process carries: what it read, then a passed run, which it has   *)
(* archived before it opens the temporary file; that file is open only     *)
(* while it is written.                                                    *)
(***************************************************************************)
JobInv(p) ==
    /\ pc[p] = "verify" => bytes[p] \in Edits
    /\ pc[p] \in {"archive", "open", "write", "replace", "gate"} => artifact[p] \in passed
    /\ pc[p] \in {"open", "write", "replace", "gate"} => artifact[p] \in archive
    /\ IF pc[p] = "write" THEN held[p] \in Inodes ELSE held[p] = None

\* Whatever file holds a whole artifact, it is archived, and archived is only
\* what passed.
FilesInv ==
    /\ \A i \in Inodes : content[i] \in Artifacts => content[i] \in archive
    /\ archive \subseteq passed

(***************************************************************************)
(* One process at a time: the temporary file is its own and never the      *)
(* current one, and between the close and the rename it is whole.          *)
(***************************************************************************)
AloneInv ==
    alone =>
        /\ \A p, q \in Pipelines : pc[p] # "idle" /\ pc[q] # "idle" => p = q
        /\ temp # None => temp # current
        /\ current # None => content[current] \in Artifacts
        /\ \A p \in Pipelines :
              /\ pc[p] = "write" => held[p] = temp /\ content[temp] = Empty
              /\ pc[p] = "replace" => temp # None /\ content[temp] = artifact[p]

IInv ==
    /\ TypeOK
    /\ PassedInv
    /\ \A p \in Pipelines : JobInv(p)
    /\ FilesInv
    /\ AloneInv

\* The markers are no artifacts (MarkersAssumption), and the bound is a number.
LEMMA Markers ==
    /\ Empty \notin Artifacts /\ Torn \notin Artifacts /\ None \notin Inodes
    /\ MaxRuns \in Nat
  BY MarkersAssumption, PipelineAssumption

LEMMA InitInv == Init => IInv
<1> SUFFICES ASSUME Init PROVE IInv
  OBVIOUS
<1>1. TypeOK
  BY DEF Init, TypeOK, Steps
<1>2. PassedInv
  <2>1. passed = {}
    BY DEF Init
  <2> QED
    BY <2>1, Markers, FS_EmptySet DEF PassedInv
<1>3. \A p \in Pipelines : JobInv(p)
  BY DEF Init, JobInv
<1>4. FilesInv
  BY Markers DEF Init, FilesInv
<1>5. AloneInv
  BY DEF Init, AloneInv
<1> QED
  BY <1>1, <1>2, <1>3, <1>4, <1>5 DEF IInv

\* A run that passes has a number of its own, within the bound.
LEMMA PassMakesRun ==
    ASSUME IInv, NEW p \in Pipelines, Pass(p)
    PROVE  /\ artifact'[p] \in Artifacts
           /\ artifact' = [artifact EXCEPT ![p] = artifact'[p]]
           /\ passed' = passed \cup {artifact'[p]}
           /\ PassedInv'
<1> DEFINE run == [bytes |-> bytes[p], run |-> Cardinality(passed) + 1]
<1>0. TypeOK /\ PassedInv /\ JobInv(p)
  BY DEF IInv
<1>1. run \in Artifacts
  <2>1. bytes[p] \in Edits
    BY <1>0 DEF Pass, JobInv
  <2>2. Cardinality(passed) + 1 \in 1 .. MaxRuns
    BY <1>0, Markers DEF Pass, PassedInv
  <2> QED
    BY <2>1, <2>2 DEF Artifacts
<1>2. passed' = passed \cup {run} /\ artifact' = [artifact EXCEPT ![p] = run]
  BY DEF Pass
<1>3. artifact'[p] = run
  BY <1>0, <1>2 DEF TypeOK
<1>4. IsFiniteSet(passed')
  BY <1>0, <1>2, FS_AddElement DEF PassedInv
<1>5. Cardinality(passed') \in 0 .. MaxRuns
  <2>1. CASE run \in passed
    <3>1. passed' = passed
      BY <1>2, <2>1
    <3> QED
      BY <1>0, <3>1 DEF PassedInv
  <2>2. CASE run \notin passed
    <3>1. Cardinality(passed') = Cardinality(passed) + 1
      BY <1>0, <1>2, <2>2, FS_AddElement DEF PassedInv
    <3> QED
      BY <1>0, <3>1, Markers DEF Pass, PassedInv
  <2> QED
    BY <2>1, <2>2
<1> QED
  BY <1>1, <1>2, <1>3, <1>4, <1>5 DEF PassedInv

-----------------------------------------------------------------------------
LEMMA TypeStep == IInv /\ [Next]_vars => TypeOK'
<1> SUFFICES ASSUME IInv, [Next]_vars PROVE TypeOK'
  OBVIOUS
<1>0. TypeOK /\ \A p \in Pipelines : JobInv(p)
  BY DEF IInv
<1>. USE <1>0 DEF TypeOK, Steps
<1>1. CASE UNCHANGED vars
  BY <1>1 DEF vars, diskVars, jobVars
<1>2. ASSUME NEW e \in Edits, Rewrite(e)
      PROVE  TypeOK'
  BY <1>2 DEF Rewrite, diskVars, jobVars
<1>3. ASSUME NEW p \in Pipelines, Load(p)
      PROVE  TypeOK'
  BY <1>3 DEF Load, diskVars
<1>4. ASSUME NEW p \in Pipelines, Pass(p)
      PROVE  TypeOK'
  <2>1. /\ artifact' \in [Pipelines -> Artifacts \cup {None}]
        /\ passed' \subseteq Artifacts
    BY <1>4, PassMakesRun
  <2> QED
    BY <1>4, <2>1 DEF Pass, diskVars
<1>5. ASSUME NEW p \in Pipelines, Archive(p)
      PROVE  TypeOK'
  <2>1. artifact[p] \in Artifacts
    BY <1>5 DEF Archive, JobInv
  <2> QED
    BY <1>5, <2>1 DEF Archive
<1>6. ASSUME NEW p \in Pipelines, OpenTemp(p)
      PROVE  TypeOK'
  <2>1. PICK i \in Inodes :
          /\ temp' = i
          /\ held' = [held EXCEPT ![p] = i]
          /\ content' = [content EXCEPT ![i] = Empty]
    BY <1>6 DEF OpenTemp
  <2> QED
    BY <1>6, <2>1 DEF OpenTemp
<1>7. ASSUME NEW p \in Pipelines, WriteTemp(p)
      PROVE  TypeOK'
  <2>1. artifact[p] \in Artifacts /\ held[p] \in Inodes
    BY <1>7 DEF WriteTemp, JobInv
  <2>2. PICK c \in {artifact[p], Torn} : content' = [content EXCEPT ![held[p]] = c]
    BY <1>7 DEF WriteTemp
  <2> QED
    BY <1>7, <2>1, <2>2 DEF WriteTemp
<1>8. ASSUME NEW p \in Pipelines, Replace(p)
      PROVE  TypeOK'
  BY <1>8 DEF Replace
<1>9. ASSUME NEW p \in Pipelines, Reject(p) \/ ReplaceFails(p) \/ SelfGate(p)
      PROVE  TypeOK'
  BY <1>9 DEF Reject, ReplaceFails, SelfGate, Stop, diskVars
<1>10. ASSUME NEW p \in Pipelines, Kill(p)
       PROVE  TypeOK'
  <2>1. content' \in [Inodes -> Artifacts \cup {Empty, Torn}]
    BY <1>10 DEF Kill
  <2> QED
    BY <1>10, <2>1 DEF Kill, Stop
<1> QED
  BY <1>1, <1>2, <1>3, <1>4, <1>5, <1>6, <1>7, <1>8, <1>9, <1>10 DEF Next

\* Only Pass adds to the runs.
LEMMA PassedStep == IInv /\ [Next]_vars => PassedInv'
<1> SUFFICES ASSUME IInv, [Next]_vars PROVE PassedInv'
  OBVIOUS
<1>1. ASSUME NEW p \in Pipelines, Pass(p)
      PROVE  PassedInv'
  BY <1>1, PassMakesRun
<1>2. CASE passed' = passed
  BY <1>2 DEF IInv, PassedInv
<1>3. CASE UNCHANGED vars
  BY <1>2, <1>3 DEF vars
<1>4. ASSUME NEW e \in Edits, Rewrite(e)
      PROVE  PassedInv'
  BY <1>2, <1>4 DEF Rewrite
<1>5. ASSUME NEW p \in Pipelines,
             Load(p) \/ Reject(p) \/ Archive(p) \/ OpenTemp(p) \/ WriteTemp(p)
             \/ Replace(p) \/ ReplaceFails(p) \/ SelfGate(p) \/ Kill(p)
      PROVE  PassedInv'
  BY <1>2, <1>5 DEF Load, Reject, Archive, OpenTemp, WriteTemp, Replace, ReplaceFails,
                    SelfGate, Kill, Stop
<1> QED
  BY <1>1, <1>3, <1>4, <1>5 DEF Next

(***************************************************************************)
(* A process's job is its own: what another one does to the disk takes     *)
(* nothing out of the archive and leaves its variables alone.              *)
(***************************************************************************)
LEMMA JobStep == IInv /\ [Next]_vars => \A q \in Pipelines : JobInv(q)'
<1> SUFFICES ASSUME IInv, [Next]_vars, NEW q \in Pipelines PROVE JobInv(q)'
  OBVIOUS
<1>0. TypeOK /\ JobInv(q)
  BY DEF IInv
<1>. USE <1>0 DEF TypeOK
<1>1. CASE UNCHANGED vars
  BY <1>1 DEF vars, diskVars, jobVars, JobInv
<1>2. ASSUME NEW e \in Edits, Rewrite(e)
      PROVE  JobInv(q)'
  BY <1>2 DEF Rewrite, diskVars, jobVars, JobInv
<1>3. ASSUME NEW p \in Pipelines, Load(p)
      PROVE  JobInv(q)'
  BY <1>3 DEF Load, diskVars, JobInv
<1>4. ASSUME NEW p \in Pipelines, Pass(p)
      PROVE  JobInv(q)'
  <2>1. /\ artifact' = [artifact EXCEPT ![p] = artifact'[p]]
        /\ passed' = passed \cup {artifact'[p]}
    BY <1>4, PassMakesRun
  <2>2. CASE q = p
    BY <1>4, <2>1, <2>2 DEF Pass, diskVars, JobInv
  <2>3. CASE q # p
    BY <1>4, <2>1, <2>3 DEF Pass, diskVars, JobInv
  <2> QED
    BY <2>2, <2>3
<1>5. ASSUME NEW p \in Pipelines, Archive(p)
      PROVE  JobInv(q)'
  BY <1>5 DEF Archive, JobInv
<1>6. ASSUME NEW p \in Pipelines, OpenTemp(p)
      PROVE  JobInv(q)'
  <2>1. PICK i \in Inodes : held' = [held EXCEPT ![p] = i]
    BY <1>6 DEF OpenTemp
  <2> QED
    BY <1>6, <2>1 DEF OpenTemp, JobInv
<1>7. ASSUME NEW p \in Pipelines, WriteTemp(p) \/ Replace(p)
      PROVE  JobInv(q)'
  BY <1>7 DEF WriteTemp, Replace, JobInv
<1>8. ASSUME NEW p \in Pipelines, Reject(p) \/ ReplaceFails(p) \/ SelfGate(p) \/ Kill(p)
      PROVE  JobInv(q)'
  BY <1>8 DEF Reject, ReplaceFails, SelfGate, Kill, Stop, diskVars, JobInv
<1> QED
  BY <1>1, <1>2, <1>3, <1>4, <1>5, <1>6, <1>7, <1>8 DEF Next

(***************************************************************************)
(* Nothing whole is on disk under any name that is not archived: a writer  *)
(* archives before it writes, and what two writers mix is no artifact.     *)
(***************************************************************************)
LEMMA FilesStep == IInv /\ [Next]_vars => FilesInv'
<1> SUFFICES ASSUME IInv, [Next]_vars PROVE FilesInv'
  OBVIOUS
<1>0. TypeOK /\ FilesInv /\ \A p \in Pipelines : JobInv(p)
  BY DEF IInv
<1>. USE <1>0, Markers DEF TypeOK, FilesInv
<1>1. CASE UNCHANGED vars
  BY <1>1 DEF vars, diskVars
<1>2. ASSUME NEW e \in Edits, Rewrite(e)
      PROVE  FilesInv'
  BY <1>2 DEF Rewrite, diskVars
<1>3. ASSUME NEW p \in Pipelines, Load(p) \/ Pass(p)
      PROVE  FilesInv'
  BY <1>3 DEF Load, Pass, diskVars
<1>4. ASSUME NEW p \in Pipelines, Archive(p)
      PROVE  FilesInv'
  BY <1>4 DEF Archive, JobInv
<1>5. ASSUME NEW p \in Pipelines, OpenTemp(p)
      PROVE  FilesInv'
  <2>1. PICK i \in Inodes : content' = [content EXCEPT ![i] = Empty]
    BY <1>5 DEF OpenTemp
  <2> QED
    BY <1>5, <2>1 DEF OpenTemp
<1>6. ASSUME NEW p \in Pipelines, WriteTemp(p)
      PROVE  FilesInv'
  <2>1. artifact[p] \in archive
    BY <1>6 DEF WriteTemp, JobInv
  <2>2. PICK c \in {artifact[p], Torn} : content' = [content EXCEPT ![held[p]] = c]
    BY <1>6 DEF WriteTemp
  <2> QED
    BY <1>6, <2>1, <2>2 DEF WriteTemp
<1>7. ASSUME NEW p \in Pipelines, Replace(p)
      PROVE  FilesInv'
  BY <1>7 DEF Replace
<1>8. ASSUME NEW p \in Pipelines, Reject(p) \/ ReplaceFails(p) \/ SelfGate(p)
      PROVE  FilesInv'
  BY <1>8 DEF Reject, ReplaceFails, SelfGate, Stop, diskVars
<1>9. ASSUME NEW p \in Pipelines, Kill(p)
      PROVE  FilesInv'
  <2>1. \A i \in Inodes : content'[i] \in {content[i], Torn}
    BY <1>9 DEF Kill
  <2> QED
    BY <1>9, <2>1 DEF Kill, Stop
<1> QED
  BY <1>1, <1>2, <1>3, <1>4, <1>5, <1>6, <1>7, <1>8, <1>9 DEF Next

(***************************************************************************)
(* One process at a time: whoever acts is the only one that is not idle.   *)
(***************************************************************************)
LEMMA AloneStep == IInv /\ [Next]_vars => AloneInv'
<1> SUFFICES ASSUME IInv, [Next]_vars, alone' PROVE AloneInv'
  BY DEF AloneInv
<1>0. TypeOK /\ AloneInv /\ alone /\ \A p \in Pipelines : JobInv(p)
  <2>1. alone' = alone
    BY DEF Next, Rewrite, Load, Reject, Pass, Archive, OpenTemp, WriteTemp, Replace,
           ReplaceFails, SelfGate, Kill, Stop, vars
  <2> QED
    BY <2>1 DEF IInv
<1>. USE <1>0, Markers DEF TypeOK, AloneInv
<1>1. CASE UNCHANGED vars
  BY <1>1 DEF vars, diskVars, jobVars
<1>2. ASSUME NEW e \in Edits, Rewrite(e)
      PROVE  AloneInv'
  BY <1>2 DEF Rewrite, diskVars, jobVars
<1>3. ASSUME NEW p \in Pipelines, Load(p)
      PROVE  AloneInv'
  BY <1>3 DEF Load, diskVars
<1>4. ASSUME NEW p \in Pipelines, Pass(p)
      PROVE  AloneInv'
  BY <1>4 DEF Pass, diskVars
<1>5. ASSUME NEW p \in Pipelines, Archive(p)
      PROVE  AloneInv'
  BY <1>5 DEF Archive
<1>6. ASSUME NEW p \in Pipelines, OpenTemp(p)
      PROVE  AloneInv'
  <2>1. PICK i \in Inodes :
          /\ i # current
          /\ temp' = i
          /\ held' = [held EXCEPT ![p] = i]
          /\ content' = [content EXCEPT ![i] = Empty]
    BY <1>6 DEF OpenTemp
  <2> QED
    BY <1>6, <2>1 DEF OpenTemp
<1>7. ASSUME NEW p \in Pipelines, WriteTemp(p)
      PROVE  AloneInv'
  <2>1. held[p] = temp /\ temp \in Inodes /\ content[temp] = Empty /\ temp # current
    BY <1>7 DEF WriteTemp, JobInv
  <2>2. content' = [content EXCEPT ![temp] = artifact[p]]
    BY <1>7, <2>1 DEF WriteTemp
  <2>3. \A q \in Pipelines : pc'[q] # "idle" => q = p
    BY <1>7 DEF WriteTemp
  <2> QED
    BY <1>7, <2>1, <2>2, <2>3 DEF WriteTemp
<1>8. ASSUME NEW p \in Pipelines, Replace(p)
      PROVE  AloneInv'
  <2>1. temp \in Inodes /\ content[temp] \in Artifacts
    BY <1>8 DEF Replace, JobInv, IInv
  <2>2. \A q \in Pipelines : pc'[q] # "idle" => q = p
    BY <1>8 DEF Replace
  <2> QED
    BY <1>8, <2>1, <2>2 DEF Replace
<1>9. ASSUME NEW p \in Pipelines, Reject(p) \/ ReplaceFails(p) \/ SelfGate(p)
      PROVE  AloneInv'
  BY <1>9 DEF Reject, ReplaceFails, SelfGate, Stop, diskVars
<1>10. ASSUME NEW p \in Pipelines, Kill(p)
       PROVE  AloneInv'
  <2>1. \A i \in Inodes : content'[i] # content[i] => i = held[p] /\ held[p] # None
    BY <1>10 DEF Kill
  <2>2. held[p] # None => held[p] = temp
    BY <1>10 DEF JobInv
  <2>3. current # None => current \in Inodes /\ content'[current] = content[current]
    BY <2>1, <2>2
  <2>4. \A q \in Pipelines : pc'[q] = "idle"
    BY <1>10 DEF Kill, Stop
  <2> QED
    BY <1>10, <2>3, <2>4 DEF Kill, Stop
<1> QED
  BY <1>1, <1>2, <1>3, <1>4, <1>5, <1>6, <1>7, <1>8, <1>9, <1>10 DEF Next

-----------------------------------------------------------------------------
LEMMA InductiveInvariant == Spec => []IInv
<1>1. IInv /\ [Next]_vars => IInv'
  BY TypeStep, PassedStep, JobStep, FilesStep, AloneStep DEF IInv
<1> QED
  BY InitInv, <1>1, PTL DEF Spec

(***************************************************************************)
(* Type correctness: the runs' numbers stay within the bound.              *)
(***************************************************************************)
THEOREM TypeCorrect == Spec => []TypeOK
<1>1. IInv => TypeOK
  BY DEF IInv
<1> QED
  BY <1>1, InductiveInvariant, PTL

(***************************************************************************)
(* Whatever the readers' gate accepts is the draft that a run passed on,   *)
(* for any number of processes that share the temporary file.              *)
(***************************************************************************)
THEOREM QualifiedWereTested == Spec => []QualifiedBytesWereTested
<1>1. IInv => QualifiedBytesWereTested
  BY DEF IInv, TypeOK, FilesInv, QualifiedBytesWereTested, Qualifies
<1> QED
  BY <1>1, InductiveInvariant, PTL

(***************************************************************************)
(* What readers can see as the current artifact is in the archive.         *)
(***************************************************************************)
THEOREM ShownAreArchived == Spec => []ShownIsArchived
<1>1. IInv => ShownIsArchived
  BY DEF IInv, TypeOK, FilesInv, ShownIsArchived
<1> QED
  BY <1>1, InductiveInvariant, PTL

(***************************************************************************)
(* One process at a time never shows a part of an artifact, killed and     *)
(* restarted as it may be.                                                 *)
(***************************************************************************)
THEOREM AloneIsWhole == Spec => []WholeWhenAlone
<1>1. IInv => WholeWhenAlone
  BY DEF IInv, AloneInv, WholeWhenAlone
<1> QED
  BY <1>1, InductiveInvariant, PTL
=============================================================================
