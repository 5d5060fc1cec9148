--------------------------- MODULE EvidenceProofs ---------------------------
(***************************************************************************)
(* Proofs about EvidenceLifecycle, Registry and EvidenceRequest for any    *)
(* directories, ids, contents, times, rows and changes: what the files can *)
(* hold, what the status says of them, how the views of them relate, and   *)
(* what a request may answer.                                              *)
(*                                                                         *)
(* The status is recursive, but a supersession is decided by the first     *)
(* call it makes (StatusUnfolds).  How the views relate follows from how   *)
(* each resolves an id that several files claim, for any lifecycle policy: *)
(* there StatusOf stays opaque.                                            *)
(***************************************************************************)
EXTENDS Registry, EvidenceRequest, FiniteSetTheorems, TLAPS

-----------------------------------------------------------------------------
(***************************************************************************)
(* The files.                                                              *)
(***************************************************************************)

\* An artifact lies under the id of the bundle it is about.
RunsKeyed == \A id \in Ids : runs[id] # None => runs[id].bundle.id = id

IInv == EvidenceTypeOK /\ RunsKeyed

LEMMA InitInv == EvidenceInit => IInv
  BY TimesAssumption DEF EvidenceInit, IInv, EvidenceTypeOK, RunsKeyed

\* The clocks that the bounds allow are times.
LEMMA TimesInRange ==
    ASSUME now \in 0 .. MaxTime, NEW lead \in {0, ClockLead}
    PROVE  now + lead \in Times
  BY TimesAssumption DEF Times

(***************************************************************************)
(* An operator's record has the shape of one: above all a supersession     *)
(* never names its own id, since artifacts are keyed by theirs.            *)
(***************************************************************************)
LEMMA FilingsAreRecords ==
    ASSUME IInv, NEW id \in Ids
    PROVE  Filings(id) \subseteq Records \cup {Malformed}
<1> SUFFICES ASSUME runs[id] # None, NEW r \in Filings(id), r # Malformed
             PROVE  r \in Records
  BY DEF Filings
<1>0. /\ runs[id] \in Runs /\ runs[id].bundle.id = id
      /\ now + 0 \in Times /\ now + ClockLead \in Times /\ now \in Times
  BY TimesInRange, TimesAssumption DEF IInv, EvidenceTypeOK, RunsKeyed, Times
<1>1. CASE r \in [run : {runs[id]}, state : {"DISPUTED"},
                  effective : {now, now + ClockLead}, successor : {None}]
  <2>1. r \in [run : Runs, state : {"DISPUTED"}, effective : Times, successor : {None}]
    BY <1>0, <1>1
  <2> QED
    BY <2>1 DEF Records
<1>2. CASE r \in [run : {runs[id]}, state : {"SUPERSEDED"}, effective : {now},
                  successor : {runs[i] : i \in Ids \ {id}} \ {None}]
  <2>1. PICK i \in Ids \ {id} : r.successor = runs[i] /\ runs[i] # None
    BY <1>2
  <2>2. r.successor \in Runs /\ r.successor.bundle.id = i
    BY <2>1 DEF IInv, EvidenceTypeOK, RunsKeyed
  <2>3. r.run.bundle.id = id
    BY <1>0, <1>2
  <2>4. r \in [run : Runs, state : {"SUPERSEDED"}, effective : Times, successor : Runs]
    BY <1>0, <1>2, <2>2
  <2> QED
    BY <2>1, <2>2, <2>3, <2>4 DEF Records
<1> QED
  BY <1>1, <1>2 DEF Filings

LEMMA InvStep == IInv /\ [EvidenceNext]_evidenceVars => IInv'
<1> SUFFICES ASSUME IInv, [EvidenceNext]_evidenceVars PROVE IInv'
  OBVIOUS
<1>. USE DEF IInv, EvidenceTypeOK, RunsKeyed
<1>1. CASE UNCHANGED evidenceVars
  BY <1>1 DEF evidenceVars
<1>2. ASSUME NEW p \in Paths, NEW content \in Bundles \cup {None}, Deploy(p, content)
      PROVE  IInv'
  BY <1>2 DEF Deploy
<1>3. ASSUME NEW p \in Paths, NEW lead \in {0, ClockLead}, Verify(p, lead)
      PROVE  IInv'
  <2>1. files[p] \in Bundles /\ files[p].id \in Ids
    BY <1>3, BundlesAssumption DEF Verify, BundleType
  <2>2. [bundle |-> files[p], completed |-> now + lead] \in Runs
    BY <2>1, TimesInRange DEF Runs
  <2> QED
    BY <1>3, <2>1, <2>2 DEF Verify
<1>4. ASSUME NEW id \in Ids, NEW filing \in Filings(id), FileRecord(id, filing)
      PROVE  IInv'
  <2>1. filing \in Records \cup {Malformed}
    BY FilingsAreRecords
  <2> QED
    BY <1>4, <2>1 DEF FileRecord
<1>5. ASSUME NEW id \in Ids, WithdrawRecord(id)
      PROVE  IInv'
  BY <1>5 DEF WithdrawRecord
<1>6. CASE Tick
  BY <1>6, TimesAssumption DEF Tick
<1> QED
  BY <1>1, <1>2, <1>3, <1>4, <1>5, <1>6 DEF EvidenceNext

(***************************************************************************)
(* Type correctness of the evidence files: every record names runs, and no *)
(* supersession its own bundle.                                            *)
(***************************************************************************)
THEOREM EvidenceTypeCorrect == EvidenceSpec => []EvidenceTypeOK
<1>1. IInv => EvidenceTypeOK
  BY DEF IInv
<1> QED
  BY InitInv, InvStep, <1>1, PTL DEF EvidenceSpec

-----------------------------------------------------------------------------
(***************************************************************************)
(* The status.  A recursive function is some function that satisfies its   *)
(* equation, if there is one.  There is: a call asks of the next one only  *)
(* whether it is VERIFIED, which a bundle with a record never is, so the   *)
(* first supersession already decides.                                     *)
(***************************************************************************)
Stops == (SUBSET Ids) \X Bundles

\* One call of evaluate_evidence_lifecycle, given what the calls it makes answer.
Call(f, at) ==
    LET visited == at[1]
        b == at[2]
        SuccessorIsCurrent ==
            /\ SuccessorIsDeployed(b, records[b.id])
            /\ f[<<visited \cup {b.id}, records[b.id].successor.bundle>>] = "VERIFIED"
    IN  IF ValidRun(b) = None THEN "UNVERIFIED"
        ELSE IF b.id \in visited THEN "UNKNOWN"
        ELSE Verdict(ValidRun(b), records[b.id],
                     records[b.id].state = "SUPERSEDED" => SuccessorIsCurrent)

IsStatus(f) == f = [at \in Stops |-> Call(f, at)]

LEMMA StatusChosen == Status = CHOOSE f : IsStatus(f)
  BY DEF Status, IsStatus, Call, Stops

\* When a call answers VERIFIED.
CurrentAt(visited, b) == b.id \notin visited /\ Current(b)

\* The calls' answers, said directly.
Direct ==
    [at \in Stops |->
        LET visited == at[1]
            b == at[2]
        IN  IF ValidRun(b) = None THEN "UNVERIFIED"
            ELSE IF b.id \in visited THEN "UNKNOWN"
            ELSE Verdict(ValidRun(b), records[b.id],
                   records[b.id].state = "SUPERSEDED" =>
                      /\ SuccessorIsDeployed(b, records[b.id])
                      /\ CurrentAt(visited \cup {b.id}, records[b.id].successor.bundle))]

LEMMA EvidenceShape ==
    ASSUME IInv, NEW b \in Bundles
    PROVE  /\ b.id \in Ids
           /\ records[b.id] \in Records \cup {None, Malformed}
           /\ records[b.id] \in Records => records[b.id].state \in {"DISPUTED", "SUPERSEDED"}
           /\ ValidRun(b) \in Runs \cup {None}
           /\ ValidRun(b) # None =>
                 /\ ValidRun(b) = runs[b.id] /\ ValidRun(b).bundle = b
                 /\ ValidRun(b).completed \in Int
           /\ now \in Int /\ FreshFor \in Int /\ Skew \in Int
<1>1. b.id \in Ids BY BundlesAssumption DEF BundleType
<1>2. runs[b.id] \in Runs \cup {None} BY <1>1 DEF IInv, EvidenceTypeOK
<1>3. ValidRun(b) \in Runs \cup {None} BY <1>2 DEF ValidRun
<1>4. records[b.id] \in Records => records[b.id].state \in {"DISPUTED", "SUPERSEDED"}
  BY DEF Records
<1>5. ValidRun(b) # None => ValidRun(b).completed \in Int BY <1>3 DEF Runs, Times
<1>6. ValidRun(b) # None => ValidRun(b) = runs[b.id] /\ ValidRun(b).bundle = b
  BY DEF ValidRun
<1>. QED BY <1>1, <1>3, <1>4, <1>5, <1>6, TimesAssumption DEF IInv, EvidenceTypeOK

\* A supersession that binds names another bundle.
LEMMA SuccessorIsAnother ==
    ASSUME IInv, NEW b \in Bundles, records[b.id] \in Records,
           records[b.id].state = "SUPERSEDED"
    PROVE  /\ records[b.id].successor \in Runs
           /\ records[b.id].successor.bundle \in Bundles
           /\ ValidRun(b) # None /\ Binds(records[b.id], ValidRun(b)) =>
                 records[b.id].successor.bundle.id # b.id
<1>1. /\ records[b.id].successor \in Runs
      /\ records[b.id].successor.bundle.id # records[b.id].run.bundle.id
  BY DEF Records
<1>2. records[b.id].successor.bundle \in Bundles BY <1>1 DEF Runs
<1>3. ValidRun(b) # None => ValidRun(b).bundle = b BY EvidenceShape
<1>. QED BY <1>1, <1>2, <1>3 DEF Binds

(***************************************************************************)
(* Whoever answers a call, VERIFIED means no record and a fresh run.       *)
(***************************************************************************)
LEMMA VerifiedMeansCurrent ==
    ASSUME IInv, NEW f, NEW at \in Stops, f[at] = Call(f, at) \/ f = Direct
    PROVE  f[at] = "VERIFIED" <=> CurrentAt(at[1], at[2])
<1>. DEFINE b == at[2]
<1>1. b \in Bundles BY DEF Stops
<1>2. /\ records[b.id] \in Records => records[b.id].state # "VERIFIED"
      /\ records[b.id] \in Records \cup {None, Malformed}
      /\ ValidRun(b) # None => ValidRun(b).completed \in Int
      /\ now \in Int /\ FreshFor \in Int
  BY <1>1, EvidenceShape
<1>3. CASE f[at] = Call(f, at)
  BY <1>2, <1>3 DEF Call, Verdict, CurrentAt, Current, Binds
<1>4. CASE f = Direct
  BY <1>2, <1>4 DEF Direct, Verdict, CurrentAt, Current, Binds
<1>. QED BY <1>3, <1>4

LEMMA DirectIsStatus == ASSUME IInv PROVE IsStatus(Direct)
<1>1. ASSUME NEW at \in Stops PROVE Direct[at] = Call(Direct, at)
  <2>. DEFINE visited == at[1]
              b == at[2]
              filed == records[b.id]
              next == <<visited \cup {b.id}, filed.successor.bundle>>
  <2>1. visited \in SUBSET Ids /\ b \in Bundles /\ b.id \in Ids
    BY BundlesAssumption DEF Stops, BundleType
  <2>2. filed \in Records \cup {None, Malformed}
    BY <2>1 DEF IInv, EvidenceTypeOK
  <2>3. CASE filed \in Records /\ filed.state = "SUPERSEDED"
    <3>1. next \in Stops BY <2>1, <2>3, SuccessorIsAnother DEF Stops
    <3>2. Direct[next] = "VERIFIED" <=> CurrentAt(visited \cup {b.id}, filed.successor.bundle)
      BY <3>1, VerifiedMeansCurrent
    <3>. QED BY <2>1, <3>2 DEF Direct, Call
  <2>4. CASE filed \in Records /\ filed.state # "SUPERSEDED"
    BY <2>1, <2>4 DEF Direct, Call
  <2>5. CASE filed \in {None, Malformed}
    BY <2>1, <2>5 DEF Direct, Call, Verdict, Binds
  <2>. QED BY <2>2, <2>3, <2>4, <2>5
<1>. QED BY <1>1 DEF IsStatus, Direct

LEMMA StatusIsCalls ==
    ASSUME IInv, NEW at \in Stops PROVE Status[at] = Call(Status, at)
<1>1. IsStatus(Status)
  <2>1. \E f : IsStatus(f) BY DirectIsStatus
  <2>. QED BY <2>1, StatusChosen
<1>. QED BY <1>1 DEF IsStatus

\* The status of b, without recursion.
StatusIs(b) ==
    IF ValidRun(b) = None THEN "UNVERIFIED"
    ELSE IF records[b.id] = None
    THEN IF now >= ValidRun(b).completed + FreshFor THEN "STALE" ELSE "VERIFIED"
    ELSE IF Consistent(b) THEN records[b.id].state ELSE "UNKNOWN"

LEMMA StatusUnfolds == ASSUME IInv, NEW b \in Bundles PROVE StatusOf(b) = StatusIs(b)
<1>. DEFINE filed == records[b.id]
            s == filed.successor.bundle
<1>1. b.id \in Ids /\ <<{}, b>> \in Stops /\ filed \in Records \cup {None, Malformed}
  BY EvidenceShape DEF Stops
<1>2. Status[<<{}, b>>] = Call(Status, <<{}, b>>)
  BY <1>1, StatusIsCalls
<1>3. CASE filed \in Records /\ filed # None /\ filed.state = "SUPERSEDED"
           /\ ValidRun(b) # None
  <2>1. s \in Bundles /\ (Binds(filed, ValidRun(b)) => s.id # b.id)
    BY <1>3, SuccessorIsAnother
  <2>2. <<{b.id}, s>> \in Stops BY <1>1, <2>1 DEF Stops
  <2>3. Status[<<{b.id}, s>>] = "VERIFIED" <=> CurrentAt({b.id}, s)
    BY <2>2, StatusIsCalls, VerifiedMeansCurrent
  <2>. QED BY <1>2, <1>3, <2>1, <2>3
       DEF StatusOf, StatusIs, Call, Verdict, Consistent, CurrentAt
<1>4. CASE filed \in Records /\ filed.state # "SUPERSEDED"
  BY <1>2, <1>4 DEF StatusOf, StatusIs, Call, Verdict, Consistent
<1>5. CASE filed \in {None, Malformed}
  BY <1>2, <1>5 DEF StatusOf, StatusIs, Call, Verdict, Consistent, Binds
<1>6. CASE ValidRun(b) = None
  BY <1>2, <1>6 DEF StatusOf, StatusIs, Call
<1>7. CASE filed = None
  BY <1>2, <1>7 DEF StatusOf, StatusIs, Call, Verdict
<1>. QED BY <1>1, <1>3, <1>4, <1>5, <1>6, <1>7

LEMMA QualifiedIsCurrent == ASSUME IInv, NEW b \in Bundles PROVE Qualified(b) <=> Current(b)
  BY StatusUnfolds, EvidenceShape DEF Qualified, StatusIs, Current, Consistent, Binds

LEMMA DeployedAreBundles == ASSUME IInv PROVE Deployed \subseteq Bundles
  BY DEF IInv, EvidenceTypeOK, Deployed

(***************************************************************************)
(* The order of the tests and the recursion give exactly the policy's one  *)
(* status, for any number of ids, chains and cycles of supersessions.      *)
(***************************************************************************)
THEOREM PolicyFollowed == EvidenceSpec => []FollowsPolicy
<1>1. ASSUME IInv, NEW b \in Bundles
      PROVE  {s \in Statuses : PolicySays(b, s)} = {StatusOf(b)}
  <2>1. StatusOf(b) = StatusIs(b) BY <1>1, StatusUnfolds
  <2>2. /\ ValidRun(b) # None => ValidRun(b).completed \in Int
        /\ now \in Int /\ FreshFor \in Int
        /\ records[b.id] # None /\ Consistent(b) =>
              records[b.id].state \in {"DISPUTED", "SUPERSEDED"}
    <3>1. /\ ValidRun(b) # None => ValidRun(b).completed \in Int
          /\ now \in Int /\ FreshFor \in Int
          /\ records[b.id] \in Records \cup {None, Malformed}
          /\ records[b.id] \in Records => records[b.id].state \in {"DISPUTED", "SUPERSEDED"}
      BY <1>1, EvidenceShape
    <3>. QED BY <3>1 DEF Consistent, Binds
  <2>3. ASSUME NEW s \in Statuses PROVE PolicySays(b, s) <=> s = StatusIs(b)
    <3>1. CASE ValidRun(b) = None
      BY <3>1, <2>2 DEF PolicySays, StatusIs, Current, Statuses
    <3>2. CASE ValidRun(b) # None /\ records[b.id] = None
      <4>1. Current(b) <=> ~ (now >= ValidRun(b).completed + FreshFor)
        BY <3>2, <2>2 DEF Current
      <4>2. StatusIs(b) = IF Current(b) THEN "VERIFIED" ELSE "STALE"
        BY <3>2, <4>1 DEF StatusIs
      <4>. QED BY <3>2, <4>1, <4>2 DEF PolicySays, Statuses
    <3>3. CASE ValidRun(b) # None /\ records[b.id] # None /\ Consistent(b)
      BY <3>3, <2>2 DEF PolicySays, StatusIs, Current, Statuses
    <3>4. CASE ValidRun(b) # None /\ records[b.id] # None /\ ~Consistent(b)
      BY <3>4, <2>2 DEF PolicySays, StatusIs, Current, Statuses
    <3>. QED BY <3>1, <3>2, <3>3, <3>4
  <2>4. StatusIs(b) \in Statuses BY <2>2 DEF StatusIs, Statuses
  <2>. QED BY <2>1, <2>3, <2>4
<1>2. IInv => FollowsPolicy BY <1>1, DeployedAreBundles DEF FollowsPolicy
<1>. QED BY <1>2, InitInv, InvStep, PTL DEF EvidenceSpec

LEMMA SuccessorFilesAreFinite == ASSUME NEW id PROVE IsFiniteSet(SuccessorFiles(id))
  BY PathsAssumption, FS_Subset DEF SuccessorFiles, Claiming

(***************************************************************************)
(* A supersession leads to usable evidence: a deployed bundle of the same  *)
(* scope that is itself qualified, and of the golden files that            *)
(* _load_unique_successor looks at the only one with its id.               *)
(***************************************************************************)
THEOREM SupersessionLeads == EvidenceSpec => []SupersessionLeadsToEvidence
<1>1. ASSUME IInv, NEW b \in Deployed, StatusOf(b) = "SUPERSEDED"
      PROVE  LET s == records[b.id].successor.bundle
             IN  /\ s \in Deployed /\ s # b /\ s.scope = b.scope
                 /\ Cardinality(SuccessorFiles(s.id)) = 1
                 /\ Qualified(s)
  <2>. DEFINE filed == records[b.id]
              s == filed.successor.bundle
  <2>1. b \in Bundles BY <1>1, DeployedAreBundles
  <2>2. /\ ValidRun(b) # None /\ filed # None /\ Consistent(b)
        /\ filed.state = "SUPERSEDED"
    BY <1>1, <2>1, StatusUnfolds DEF StatusIs
  <2>3. filed \in Records BY <1>1, <2>1, <2>2, EvidenceShape DEF Consistent, Binds
  <2>4. SuccessorIsDeployed(b, filed) /\ Current(s) BY <2>2 DEF Consistent
  <2>5. s \in Bundles /\ s.id # b.id
    BY <1>1, <2>1, <2>2, <2>3, SuccessorIsAnother DEF Consistent
  <2>6. PICK p : SuccessorFiles(s.id) = {p}
    BY <2>4, SuccessorFilesAreFinite, FS_Singleton DEF SuccessorIsDeployed
  <2>7. p \in Golden /\ files[p] = s
    BY <2>4, <2>6 DEF SuccessorIsDeployed, SuccessorFiles, Claiming
  <2>8. s \in Deployed BY <2>5, <2>7, BundlesAssumption DEF Deployed, Paths
  <2>9. Qualified(s) BY <1>1, <2>4, <2>5, QualifiedIsCurrent
  <2>. QED BY <2>4, <2>5, <2>8, <2>9 DEF SuccessorIsDeployed
<1>2. IInv => SupersessionLeadsToEvidence BY <1>1 DEF SupersessionLeadsToEvidence
<1>. QED BY <1>2, InitInv, InvStep, PTL DEF EvidenceSpec

(***************************************************************************)
(* A record that lies beside a run is not laundered by whatever follows.   *)
(***************************************************************************)
THEOREM ChallengeOutlives == EvidenceSpec => []ChallengeOutlivesReruns
<1>1. ASSUME IInv, NEW b \in Bundles, records[b.id] # None
      PROVE  StatusOf(b) \notin {"VERIFIED", "STALE"}
  BY <1>1, StatusUnfolds, EvidenceShape DEF StatusIs, Consistent, Binds
<1>2. IInv => ChallengeOutlivesReruns BY <1>1 DEF ChallengeOutlivesReruns
<1>. QED BY <1>2, InitInv, InvStep, PTL DEF EvidenceSpec

(***************************************************************************)
(* Time alone settles no challenge, and verifies only runs from a clock    *)
(* that was ahead of the server's.                                         *)
(***************************************************************************)
THEOREM TimeDegrades == EvidenceSpec => TimeOnlyDegrades
<1>0. (IInv => \A b \in Bundles : StatusOf(b) = StatusIs(b))'
  <2>1. IInv => \A b \in Bundles : StatusOf(b) = StatusIs(b) BY StatusUnfolds
  <2>. QED BY <2>1, PTL
<1>1. ASSUME IInv, IInv', now' # now, [EvidenceNext]_evidenceVars, NEW b \in Bundles
      PROVE  /\ StatusOf(b) = "DISPUTED" => StatusOf(b)' = "DISPUTED"
             /\ StatusOf(b) = "SUPERSEDED" => StatusOf(b)' \in {"SUPERSEDED", "UNKNOWN"}
             /\ ~Qualified(b) /\ Qualified(b)' => runs[b.id].completed > now + Skew
  <2>1. now' = now + 1 /\ UNCHANGED <<files, runs, records>>
    BY <1>1 DEF EvidenceNext, evidenceVars, Deploy, Verify, FileRecord, WithdrawRecord, Tick
  <2>2. StatusOf(b) = StatusIs(b) /\ StatusOf(b)' = StatusIs(b)'
    BY <1>0, <1>1, StatusUnfolds
  <2>. DEFINE filed == records[b.id]
  <2>3. /\ b.id \in Ids
        /\ runs[b.id] # None => runs[b.id].completed \in Int
        /\ filed \in Records => /\ filed.effective \in Int
                                /\ filed.state \in {"DISPUTED", "SUPERSEDED"}
        /\ filed \in Records \cup {None, Malformed}
        /\ now \in Int /\ Skew \in Int /\ FreshFor \in Int
    <3>1. /\ b.id \in Ids
          /\ filed \in Records => filed.state \in {"DISPUTED", "SUPERSEDED"}
          /\ filed \in Records \cup {None, Malformed}
          /\ now \in Int /\ Skew \in Int /\ FreshFor \in Int
      BY <1>1, EvidenceShape
    <3>2. runs[b.id] # None => runs[b.id].completed \in Int
      BY <1>1, <3>1 DEF IInv, EvidenceTypeOK, Runs, Times
    <3>3. filed \in Records => filed.effective \in Int
      BY DEF Records, Times
    <3>. QED BY <3>1, <3>2, <3>3
  <2>4. ValidRun(b) # None => ValidRun(b)' = ValidRun(b)
    BY <2>1, <2>3 DEF ValidRun
  <2>5. ASSUME ValidRun(b) # None, filed # None
        PROVE  /\ Binds(filed, ValidRun(b)) => Binds(filed, ValidRun(b))'
               /\ StatusIs(b)' \in {"UNKNOWN", filed.state}
    BY <2>1, <2>3, <2>4, <2>5 DEF Binds, StatusIs
  <2>6. CASE StatusIs(b) = "DISPUTED"
    <3>1. /\ ValidRun(b) # None /\ filed # None /\ filed.state = "DISPUTED"
          /\ Binds(filed, ValidRun(b))
      BY <2>3, <2>6 DEF StatusIs, Consistent, Binds
    <3>2. Consistent(b)' BY <2>1, <2>5, <3>1 DEF Consistent
    <3>3. StatusIs(b)' = "DISPUTED" BY <2>1, <2>4, <3>1, <3>2 DEF StatusIs
    <3>. QED BY <2>2, <2>6, <3>3 DEF Qualified
  <2>7. CASE StatusIs(b) = "SUPERSEDED"
    <3>1. ValidRun(b) # None /\ filed # None /\ filed.state = "SUPERSEDED"
      BY <2>3, <2>7 DEF StatusIs, Consistent, Binds
    <3>. QED BY <2>2, <2>5, <2>7, <3>1 DEF Qualified
  <2>8. CASE StatusIs(b) \notin {"DISPUTED", "SUPERSEDED"}
    <3>1. ASSUME ~Qualified(b), Qualified(b)', ~ (runs[b.id].completed > now + Skew)
          PROVE  FALSE
      <4>1. StatusIs(b)' = "VERIFIED" BY <2>2, <3>1 DEF Qualified
      <4>2. Current(b)'
        <5>1. filed # None => Consistent(b)' /\ filed.state = "VERIFIED"
          BY <2>1, <4>1 DEF StatusIs
        <5>2. filed = None BY <2>1, <2>3, <5>1 DEF Consistent, Binds
        <5>3. ValidRun(b)' # None BY <4>1 DEF StatusIs
        <5>4. ValidRun(b)' = runs[b.id] /\ runs[b.id] # None
          BY <2>1, <5>3 DEF ValidRun
        <5>5. ~ (now' >= ValidRun(b)'.completed + FreshFor)
          BY <2>1, <4>1, <5>2, <5>3 DEF StatusIs
        <5>. QED BY <2>1, <2>3, <5>2, <5>3, <5>4, <5>5 DEF Current
      <4>3. runs[b.id] # None /\ runs[b.id].bundle = b /\ ValidRun(b)' = runs[b.id]
            /\ filed = None /\ b \notin Unbound
        BY <2>1, <4>2 DEF Current, ValidRun
      <4>4. ValidRun(b) = runs[b.id] BY <2>3, <3>1, <4>3 DEF ValidRun
      <4>5. now < runs[b.id].completed + FreshFor
        BY <2>1, <2>3, <4>2, <4>3 DEF Current
      <4>6. StatusIs(b) = "VERIFIED" BY <2>3, <4>3, <4>4, <4>5 DEF StatusIs
      <4>. QED BY <2>2, <3>1, <4>6 DEF Qualified
    <3>. QED BY <2>2, <2>8, <3>1
  <2>. QED BY <2>6, <2>7, <2>8
<1>2. IInv /\ IInv' /\ [EvidenceNext]_evidenceVars =>
        [now' # now =>
            \A b \in Bundles :
              /\ StatusOf(b) = "DISPUTED" => StatusOf(b)' = "DISPUTED"
              /\ StatusOf(b) = "SUPERSEDED" => StatusOf(b)' \in {"SUPERSEDED", "UNKNOWN"}
              /\ ~Qualified(b) /\ Qualified(b)' =>
                    runs[b.id].completed > now + Skew]_evidenceVars
  BY <1>1
<1>. QED BY <1>2, InitInv, InvStep, PTL DEF EvidenceSpec, TimeOnlyDegrades

-----------------------------------------------------------------------------
(***************************************************************************)
(* The views.                                                              *)
(***************************************************************************)

\* Whatever the scans pick out, they pick out of the two directories.
LEMMA ScansAreOfPaths ==
    ASSUME NEW id
    PROVE  /\ Claiming(id, Golden) \subseteq Paths /\ Claiming(id, Drafts) \subseteq Paths
           /\ Claiming(id, Paths) \subseteq Paths
           /\ Listed(id) \subseteq Claiming(id, Golden)
           /\ ListedDrafts(id) \subseteq Claiming(id, Drafts)
           /\ Scanned(id, Paths) \subseteq Claiming(id, Paths)
           /\ Scanned(id, Drafts) \subseteq Claiming(id, Drafts)
           /\ Claiming(id, Golden) \subseteq Claiming(id, Paths)
           /\ Claiming(id, Drafts) \subseteq Claiming(id, Paths)
  BY DEF Claiming, Listed, ListedDrafts, Scanned, Paths

LEMMA PathsAreFinite == ASSUME NEW ps \in SUBSET Paths PROVE IsFiniteSet(ps)
<1>1. IsFiniteSet(Paths) BY PathsAssumption, FS_Union DEF Paths
<1>. QED BY <1>1, FS_Subset

\* What is resolved is the content of the only path there is.
LEMMA OnlyPath ==
    ASSUME NEW ps \in SUBSET Paths, Only(ps) # None
    PROVE  \E p \in ps : ps = {p} /\ Only(ps) = files[p]
<1>1. Cardinality(ps) = 1 BY DEF Only
<1>2. PICK p : ps = {p} BY <1>1, PathsAreFinite, FS_Singleton
<1>. QED BY <1>1, <1>2 DEF Only

LEMMA OnlyOfOne == ASSUME NEW p PROVE Only({p}) = files[p]
<1>1. Cardinality({p}) = 1 BY FS_Singleton
<1>. QED BY <1>1 DEF Only

LEMMA OnlyOfNone == Only({}) = None
<1>1. Cardinality({}) = 0 BY FS_EmptySet
<1>. QED BY <1>1 DEF Only

\* A path among at most one is that one.
LEMMA SolePath ==
    ASSUME NEW ps \in SUBSET Paths, Cardinality(ps) <= 1, NEW p \in ps PROVE ps = {p}
<1>1. IsFiniteSet(ps) BY PathsAreFinite
<1>2. Cardinality(ps) \in Nat /\ Cardinality(ps) # 0
  BY <1>1, FS_CardinalityType, FS_EmptySet
<1>3. Cardinality(ps) = 1 BY <1>2
<1>. QED BY <1>1, <1>3, FS_Singleton

\* A file that claims an id holds a bundle with that id.
LEMMA ClaimantsAreBundles ==
    ASSUME IInv, NEW id, NEW p \in Claiming(id, Paths)
    PROVE  files[p] \in Bundles /\ files[p] # None /\ files[p].id = id /\ id \in Ids
<1>1. p \in Paths /\ files[p] # None /\ files[p].id = id BY DEF Claiming
<1>2. files[p] \in Bundles BY <1>1 DEF IInv, EvidenceTypeOK
<1>. QED BY <1>1, <1>2, BundlesAssumption DEF BundleType

(***************************************************************************)
(* A backing bundle that qualifies is published where the scans count the  *)
(* same files: it is the only file of both directories, so neither the     *)
(* golden list nor the drafts lose it.                                     *)
(***************************************************************************)
LEMMA BackingIsPublished ==
    ASSUME NEW r, BackingQualifies(r), Ordinary(backs[r])
    PROVE  PublishedStatus(backs[r]) = "VERIFIED"
<1>. DEFINE id == backs[r]
            ps == Scanned(id, Paths)
<1>1. Only(ps) # None /\ Qualified(Only(ps)) BY DEF BackingQualifies, Backing
<1>2. PICK p \in ps : ps = {p} /\ Only(ps) = files[p] BY <1>1, OnlyPath, ScansAreOfPaths
<1>3. Claiming(id, Paths) = {p} /\ files[p] \in SchemaValid /\ Qualified(files[p])
      /\ files[p] # None
  BY <1>1, <1>2 DEF Ordinary, Scanned, Claiming
<1>4. CASE p \in Golden
  <2>1. Listed(id) = {p} BY <1>3, <1>4 DEF Listed, Claiming, Paths
  <2>2. Only(Listed(id)) = files[p] BY <2>1, OnlyOfOne
  <2>. QED BY <1>3, <2>2 DEF PublishedStatus, ListStatus, Qualified
<1>5. CASE p \notin Golden
  <2>1. Listed(id) = {} /\ p \in ListedDrafts(id)
    BY <1>3, <1>5, PathsAssumption DEF Listed, ListedDrafts, Claiming, Paths
  <2>2. Only(Listed(id)) = None BY <2>1, OnlyOfNone
  <2>. QED BY <1>3, <2>1, <2>2 DEF PublishedStatus, ListStatus
<1>. QED BY <1>4, <1>5

\* A row shows VERIFIED only when its contract holds.
LEMMA RowNeedsContract ==
    ASSUME NEW r, NEW row, RowStatus(row, r) = "VERIFIED"
    PROVE  ContractHolds(row, r)
  BY DEF RowStatus

\* The list shows VERIFIED only a file that passes the schema and qualifies.
LEMMA ListedIsClaimant ==
    ASSUME NEW id, ListStatus(id) = "VERIFIED"
    PROVE  \E p \in Listed(id) : Listed(id) = {p} /\ Qualified(files[p])
<1>1. Only(Listed(id)) # None /\ StatusOf(Only(Listed(id))) = "VERIFIED"
  BY DEF ListStatus
<1>2. PICK p \in Listed(id) : Listed(id) = {p} /\ Only(Listed(id)) = files[p]
  BY <1>1, OnlyPath, ScansAreOfPaths
<1>. QED BY <1>1, <1>2 DEF Qualified

\* The unique draft of the snapshot.
DraftsShown(r) == {p \in Scanned(r, Drafts) : files[p] \in SchemaValid}

LEMMA ShownDraft ==
    ASSUME NEW r, ListStatus(r) = "ABSENT", rows[r] = None, SnapshotStatus(r) = "VERIFIED"
    PROVE  \E p \in ListedDrafts(r) : Qualified(files[p])
<1>1. Only(DraftsShown(r)) # None /\ Qualified(Only(DraftsShown(r)))
  BY DEF SnapshotStatus, DraftsShown
<1>2. DraftsShown(r) \in SUBSET Paths BY ScansAreOfPaths DEF DraftsShown
<1>3. PICK p \in DraftsShown(r) : Only(DraftsShown(r)) = files[p] BY <1>1, <1>2, OnlyPath
<1>. QED BY <1>1, <1>3 DEF DraftsShown, Scanned, ListedDrafts

-----------------------------------------------------------------------------
(***************************************************************************)
(* The rows.                                                               *)
(***************************************************************************)

RegistryInv == IInv /\ RegistryTypeOK /\ backs \in Forms

\* A row has the fields of one.
LEMMA RowShape ==
    ASSUME RegistryInv, NEW r \in RowIds, rows[r] # None
    PROVE  /\ rows[r] \in Rows /\ rows[r].bundle \in Bundles
           /\ rows[r] = [bundle |-> rows[r].bundle, tested |-> rows[r].tested,
                         status |-> rows[r].status]
  BY DEF RegistryInv, RegistryTypeOK, Rows

\* A quarantined row is still a row.
LEMMA QuarantineKeepsRow ==
    ASSUME RegistryInv, NEW r \in RowIds, rows[r] # None
    PROVE  Quarantined(r) # None /\ Quarantined(r) \in Rows
<1>. DEFINE row == [bundle |-> rows[r].bundle, tested |-> None, status |-> "DRAFT"]
<1>1. row \in Rows BY RowShape DEF Rows, RowStatuses
<1>2. rows[r] = [bundle |-> rows[r].bundle, tested |-> rows[r].tested,
                 status |-> rows[r].status]
  BY RowShape
<1>3. Quarantined(r) \in {rows[r], row} BY <1>2 DEF Quarantined
<1>. QED BY <1>1, <1>3, RowShape, RowsAssumption

LEMMA RegistryInvInit == RegistryInit => RegistryInv
<1> SUFFICES ASSUME RegistryInit PROVE RegistryInv
  OBVIOUS
<1>1. IInv BY InitInv DEF RegistryInit
<1>2. rows \in [RowIds -> Rows \cup {None}] BY RowsAssumption DEF RegistryInit
<1>3. backs \in Forms /\ backs \in [RowIds -> Ids \cup {None}]
  BY DEF RegistryInit, Forms
<1>. QED BY <1>1, <1>2, <1>3 DEF RegistryInv, RegistryTypeOK, IInv

LEMMA StatusInRange == ASSUME IInv, NEW b \in Bundles PROVE StatusOf(b) \in Statuses
<1>1. StatusIs(b) \in Statuses
  <2>1. records[b.id] # None /\ Consistent(b) =>
            records[b.id].state \in {"DISPUTED", "SUPERSEDED"}
    <3>1. /\ records[b.id] \in Records \cup {None, Malformed}
          /\ records[b.id] \in Records => records[b.id].state \in {"DISPUTED", "SUPERSEDED"}
      BY EvidenceShape
    <3>. QED BY <3>1 DEF Consistent, Binds
  <2>. QED BY <2>1 DEF StatusIs, Statuses
<1>. QED BY <1>1, StatusUnfolds

\* What startup and submissions write are rows.
LEMMA WrittenAreRows ==
    ASSUME RegistryInv, NEW r \in RowIds
    PROVE  /\ Quarantined(r) \in Rows \cup {None}
           /\ Synchronised(r) \in Rows \cup {None}
<1>1. Quarantined(r) \in Rows \cup {None}
  <2>1. CASE rows[r] = None BY <2>1 DEF Quarantined
  <2>2. CASE rows[r] # None BY <2>2, QuarantineKeepsRow
  <2>. QED BY <2>1, <2>2
<1>2. CASE Curated(r) = None BY <1>1, <1>2 DEF Synchronised
<1>3. CASE Curated(r) # None
  <2>. DEFINE b == Curated(r)
  <2>1. b \in Bundles
    <3>1. PICK p \in Claiming(r, Golden) : b = files[p]
      BY <1>3, OnlyPath, ScansAreOfPaths DEF Curated
    <3>. QED BY <3>1, ClaimantsAreBundles, ScansAreOfPaths DEF RegistryInv
  <2>2. Synchronised(r) =
           [bundle |-> b,
            tested |-> IF ValidRun(b) = None THEN None ELSE ValidRun(b).completed,
            status |-> StatusOf(b)]
    BY <1>3 DEF Synchronised
  <2>. HIDE DEF b
  <2>3. ValidRun(b) \in Runs \cup {None} /\ StatusOf(b) \in Statuses
    BY <2>1, EvidenceShape, StatusInRange DEF RegistryInv
  <2>4. ValidRun(b) # None => ValidRun(b).completed \in Times BY <2>3 DEF Runs
  <2>. QED BY <1>1, <2>1, <2>2, <2>3, <2>4 DEF Rows, RowStatuses
<1>. QED BY <1>1, <1>2, <1>3

LEMMA RegistryInvStep == RegistryInv /\ [RegistryNext]_registryVars => RegistryInv'
<1> SUFFICES ASSUME RegistryInv, [RegistryNext]_registryVars PROVE RegistryInv'
  OBVIOUS
<1>. USE DEF RegistryInv
<1>1. IInv'
  BY InvStep DEF RegistryNext, Startup, Submit, registryVars, evidenceVars
<1>2. backs' = backs BY DEF RegistryNext, Startup, Submit, registryVars
<1>3. rows' \in [RowIds -> Rows \cup {None}]
  <2>1. CASE UNCHANGED rows BY <2>1 DEF RegistryTypeOK
  <2>2. CASE Startup BY <2>2, WrittenAreRows DEF Startup
  <2>3. ASSUME NEW r \in RowIds, NEW content \in Bundles, Submit(r, content)
        PROVE  rows' \in [RowIds -> Rows \cup {None}]
    <3>1. [bundle |-> content, tested |-> None, status |-> "DRAFT"] \in Rows
      BY DEF Rows, RowStatuses
    <3>. QED BY <2>3, <3>1 DEF Submit, RegistryTypeOK
  <2>. QED BY <2>1, <2>2, <2>3 DEF RegistryNext, registryVars
<1>. QED BY <1>1, <1>2, <1>3 DEF RegistryTypeOK, IInv

(***************************************************************************)
(* Type correctness of the rows: what quarantine, synchronisation and      *)
(* submissions write is a row with a known status, about a bundle.         *)
(***************************************************************************)
THEOREM RegistryTypeCorrect == RegistrySpec => []RegistryTypeOK
<1>1. RegistryInv => RegistryTypeOK BY DEF RegistryInv
<1>. QED BY <1>1, RegistryInvInit, RegistryInvStep, PTL DEF RegistrySpec

\* A row that is backed is about the bundle it stands for.
LEMMA BackedRow ==
    ASSUME RegistryInv, NEW r \in RowIds, backs[r] # None
    PROVE  BundleOf(r) = backs[r]
  BY DEF RegistryInv, Forms, BundleOf

\* What a row stands for and what qualifies behind it.
LEMMA ContractHasEvidence ==
    ASSUME RegistryInv, NEW r \in RowIds, BackingQualifies(r)
    PROVE  /\ BundleOf(r) = backs[r]
           /\ \E p \in Claiming(backs[r], Paths) : Qualified(files[p])
<1>1. backs[r] # None /\ Only(Scanned(backs[r], Paths)) # None
      /\ Qualified(Only(Scanned(backs[r], Paths)))
  BY DEF BackingQualifies, Backing
<1>2. PICK p \in Scanned(backs[r], Paths) : Only(Scanned(backs[r], Paths)) = files[p]
  BY <1>1, OnlyPath, ScansAreOfPaths
<1>. QED BY <1>1, <1>2, BackedRow, ScansAreOfPaths

(***************************************************************************)
(* A record shown as VERIFIED has qualified evidence for the bytes of a    *)
(* file, whatever rows the table started with and was given, and whatever  *)
(* the scans count.                                                        *)
(***************************************************************************)
THEOREM SnapshotIsBacked == RegistrySpec => []SnapshotHasEvidence
<1>1. ASSUME RegistryInv, NEW r \in RowIds, SnapshotStatus(r) = "VERIFIED"
      PROVE  \E p \in Claiming(BundleOf(r), Paths) : Qualified(files[p])
  <2>1. ASSUME NEW p \in Claiming(r, Paths) PROVE BundleOf(r) = r
    BY <1>1, ClaimantsAreBundles DEF BundleOf, RegistryInv
  <2>2. CASE ListStatus(r) # "ABSENT"
    <3>1. ListStatus(r) = "VERIFIED" BY <1>1, <2>2 DEF SnapshotStatus
    <3>2. PICK p \in Listed(r) : Qualified(files[p]) BY <3>1, ListedIsClaimant
    <3>. QED BY <2>1, <3>2, ScansAreOfPaths
  <2>3. CASE ListStatus(r) = "ABSENT" /\ rows[r] # None
    <3>1. ContractHolds(rows[r], r) BY <1>1, <2>3, RowNeedsContract DEF SnapshotStatus
    <3>. QED BY <1>1, <3>1, ContractHasEvidence DEF ContractHolds
  <2>4. CASE ListStatus(r) = "ABSENT" /\ rows[r] = None
    <3>1. PICK p \in ListedDrafts(r) : Qualified(files[p]) BY <1>1, <2>4, ShownDraft
    <3>. QED BY <2>1, <3>1, ScansAreOfPaths
  <2>. QED BY <2>2, <2>3, <2>4
<1>2. RegistryInv => SnapshotHasEvidence BY <1>1 DEF SnapshotHasEvidence
<1>. QED BY <1>2, RegistryInvInit, RegistryInvStep, PTL DEF RegistrySpec

(***************************************************************************)
(* What the registry snapshot shows as VERIFIED, MCP publishes as such,    *)
(* where every scan counts the same files for the id.                      *)
(***************************************************************************)
THEOREM SnapshotIsPublished == RegistrySpec => []SnapshotWithinPublished
<1>1. ASSUME RegistryInv, NEW r \in RowIds, SnapshotStatus(r) = "VERIFIED",
             Ordinary(BundleOf(r))
      PROVE  PublishedStatus(BundleOf(r)) = "VERIFIED"
  <2>1. ASSUME NEW p \in Claiming(r, Paths) PROVE BundleOf(r) = r
    BY <1>1, ClaimantsAreBundles DEF BundleOf, RegistryInv
  <2>2. CASE ListStatus(r) # "ABSENT"
    <3>1. ListStatus(r) = "VERIFIED" BY <1>1, <2>2 DEF SnapshotStatus
    <3>2. BundleOf(r) = r BY <2>1, <3>1, ListedIsClaimant, ScansAreOfPaths
    <3>. QED BY <3>1, <3>2 DEF PublishedStatus
  <2>3. CASE ListStatus(r) = "ABSENT" /\ rows[r] # None
    <3>1. ContractHolds(rows[r], r) BY <1>1, <2>3, RowNeedsContract DEF SnapshotStatus
    <3>2. BackingQualifies(r) BY <3>1 DEF ContractHolds
    <3>. QED BY <1>1, <3>2, ContractHasEvidence, BackingIsPublished
  <2>4. CASE ListStatus(r) = "ABSENT" /\ rows[r] = None
    <3>1. PICK p \in ListedDrafts(r) : Qualified(files[p]) BY <1>1, <2>4, ShownDraft
    <3>2. BundleOf(r) = r BY <2>1, <3>1, ScansAreOfPaths
    <3>. QED BY <2>4, <3>1, <3>2 DEF PublishedStatus
  <2>. QED BY <2>2, <2>3, <2>4
<1>2. RegistryInv => SnapshotWithinPublished BY <1>1 DEF SnapshotWithinPublished
<1>. QED BY <1>2, RegistryInvInit, RegistryInvStep, PTL DEF RegistrySpec

(***************************************************************************)
(* A row that meets the contract is backed by what REST or MCP publishes,  *)
(* where every scan counts the same files for the id.                      *)
(***************************************************************************)
THEOREM ContractIsPublished == RegistrySpec => []ContractWithinPublished
<1>1. ASSUME RegistryInv, NEW r \in RowIds, ContractHolds(rows[r], r), Ordinary(BundleOf(r))
      PROVE  PublishedStatus(BundleOf(r)) = "VERIFIED"
  <2>1. BackingQualifies(r) BY <1>1 DEF ContractHolds
  <2>. QED BY <1>1, <2>1, ContractHasEvidence, BackingIsPublished
<1>2. RegistryInv => ContractWithinPublished BY <1>1 DEF ContractWithinPublished
<1>. QED BY <1>2, RegistryInvInit, RegistryInvStep, PTL DEF RegistrySpec

(***************************************************************************)
(* Rows and MCP agree about every id that no two files claim, where every  *)
(* scan counts the file.                                                   *)
(***************************************************************************)
THEOREM AlignedWhereUnambiguous == RegistrySpec => []AlignedUnlessAmbiguous
<1>1. ASSUME RegistryInv, NEW r \in RowIds, backs[r] # None,
             Cardinality(Claiming(backs[r], Paths)) <= 1, Ordinary(backs[r]),
             PublishedStatus(backs[r]) = "VERIFIED"
      PROVE  BackingQualifies(r)
  <2>. DEFINE id == backs[r]
  <2>1. PICK p \in Claiming(id, Paths) : Qualified(files[p])
    <3>1. CASE ListStatus(id) # "ABSENT"
      <4>1. ListStatus(id) = "VERIFIED" BY <1>1, <3>1 DEF PublishedStatus
      <4>. QED BY <4>1, ListedIsClaimant, ScansAreOfPaths
    <3>2. CASE ListStatus(id) = "ABSENT"
      <4>1. PICK p \in ListedDrafts(id) : Qualified(files[p])
        BY <1>1, <3>2 DEF PublishedStatus
      <4>. QED BY <4>1, ScansAreOfPaths
    <3>. QED BY <3>1, <3>2
  <2>2. Claiming(id, Paths) = {p} BY <1>1, <2>1, SolePath, ScansAreOfPaths
  <2>3. Scanned(id, Paths) = {p} BY <1>1, <2>2 DEF Scanned, Ordinary
  <2>4. Backing(r) = files[p] BY <1>1, <2>3, OnlyOfOne DEF Backing
  <2>5. files[p] # None BY <1>1, ClaimantsAreBundles DEF RegistryInv
  <2>. QED BY <2>1, <2>4, <2>5 DEF BackingQualifies
<1>2. RegistryInv => AlignedUnlessAmbiguous
  BY <1>1, BackingIsPublished DEF AlignedUnlessAmbiguous
<1>. QED BY <1>2, RegistryInvInit, RegistryInvStep, PTL DEF RegistrySpec

(***************************************************************************)
(* The evidence link that comes with a VERIFIED record leads to a valid    *)
(* run, unless two draft files that pass the schema claim the id.          *)
(***************************************************************************)
THEOREM AdvertisedIsServed == RegistrySpec => []AdvertisedEvidenceServed
<1>1. ASSUME IInv, NEW id \in Ids, PublishedStatus(id) = "VERIFIED",
             Cardinality(ListedDrafts(id)) <= 1
      PROVE  /\ ExactBundles(id) # {}
             /\ \A b \in ExactBundles(id) : ValidRun(b) # None
  <2>0. ASSUME NEW p \in Claiming(id, Paths), Qualified(files[p])
        PROVE  ValidRun(files[p]) # None
    BY <1>1, <2>0, ClaimantsAreBundles, QualifiedIsCurrent DEF Current
  <2>1. CASE Only(Listed(id)) # None
    <3>1. PICK p \in Listed(id) : Only(Listed(id)) = files[p]
      BY <2>1, OnlyPath, ScansAreOfPaths
    <3>2. StatusOf(files[p]) = "VERIFIED"
      BY <1>1, <2>1, <3>1 DEF PublishedStatus, ListStatus
    <3>3. ValidRun(files[p]) # None BY <2>0, <3>1, <3>2, ScansAreOfPaths DEF Qualified
    <3>. QED BY <2>1, <3>1, <3>3 DEF ExactBundles
  <2>2. CASE Only(Listed(id)) = None
    <3>1. ExactBundles(id) = {files[p] : p \in ListedDrafts(id)} BY <2>2 DEF ExactBundles
    <3>2. PICK p \in ListedDrafts(id) : Qualified(files[p])
      BY <1>1, <2>2 DEF PublishedStatus, ListStatus
    <3>3. ListedDrafts(id) = {p} BY <1>1, <3>2, SolePath, ScansAreOfPaths
    <3>4. ValidRun(files[p]) # None BY <2>0, <3>2, ScansAreOfPaths
    <3>. QED BY <3>1, <3>3, <3>4
  <2>. QED BY <2>1, <2>2
<1>2. RegistryInv => AdvertisedEvidenceServed
  BY <1>1 DEF RegistryInv, AdvertisedEvidenceServed
<1>. QED BY <1>2, RegistryInvInit, RegistryInvStep, PTL DEF RegistrySpec

-----------------------------------------------------------------------------
(***************************************************************************)
(* A write of rows.                                                        *)
(***************************************************************************)

\* A status is a function of the evidence: it moves only when that does.
LEMMA StatusFollowsEvidence ==
    ASSUME UNCHANGED evidenceVars
    PROVE  Status' = Status /\ \A b : ValidRun(b)' = ValidRun(b)
<1>1. files' = files /\ runs' = runs /\ records' = records /\ now' = now
  BY DEF evidenceVars
<1>2. \A b : ValidRun(b)' = ValidRun(b)
  BY <1>1 DEF ValidRun
<1> QED
  BY <1>1, <1>2
     DEF Status, Verdict, Binds, SuccessorIsDeployed, SuccessorFiles, ValidRun, Claiming

\* So does what the views make of the files.
LEMMA ViewsFollowEvidence ==
    ASSUME UNCHANGED evidenceVars, backs' = backs, NEW r
    PROVE  /\ ListStatus(r)' = ListStatus(r)
           /\ Only(DraftsShown(r))' = Only(DraftsShown(r))
           /\ Backing(r)' = Backing(r)
           /\ BackingQualifies(r)' = BackingQualifies(r)
           /\ \A b : StatusOf(b)' = StatusOf(b) /\ ValidRun(b)' = ValidRun(b)
<1>1. files' = files BY DEF evidenceVars
<1>2. \A b : StatusOf(b)' = StatusOf(b) BY StatusFollowsEvidence DEF StatusOf
<1>3. Only(Listed(r))' = Only(Listed(r)) BY <1>1 DEF Only, Listed, Claiming
<1>4. Only(DraftsShown(r))' = Only(DraftsShown(r))
  BY <1>1 DEF Only, DraftsShown, Scanned, Claiming, Unbound
<1>5. Backing(r)' = Backing(r) BY <1>1 DEF Backing, Only, Scanned, Claiming, Unbound
<1>6. ListStatus(r)' = ListStatus(r) BY <1>2, <1>3 DEF ListStatus
<1>7. BackingQualifies(r)' = BackingQualifies(r)
  BY <1>2, <1>5 DEF BackingQualifies, Qualified
<1>. QED BY <1>2, <1>4, <1>5, <1>6, <1>7, StatusFollowsEvidence

\* A record whose row is not written is shown as before.
LEMMA UnwrittenIsShownAsBefore ==
    ASSUME UNCHANGED evidenceVars, backs' = backs, NEW r, rows'[r] = rows[r]
    PROVE  SnapshotStatus(r)' = SnapshotStatus(r)
<1>. DEFINE b == Backing(r)
            draft == Only(DraftsShown(r))
<1>1. /\ ListStatus(r)' = ListStatus(r) /\ draft' = draft /\ b' = b
      /\ BackingQualifies(r)' = BackingQualifies(r)
      /\ \A c : StatusOf(c)' = StatusOf(c) /\ ValidRun(c)' = ValidRun(c)
  BY ViewsFollowEvidence
<1>2. ContractHolds(rows[r], r)' = ContractHolds(rows[r], r)
  BY <1>1 DEF ContractHolds
<1>3. RowStatus(rows[r], r)' = RowStatus(rows[r], r) BY <1>1, <1>2 DEF RowStatus
<1>4. Qualified(draft)' = Qualified(draft) BY <1>1 DEF Qualified
<1>5. SnapshotStatus(r) =
         IF ListStatus(r) # "ABSENT" THEN ListStatus(r)
         ELSE IF rows[r] # None THEN RowStatus(rows[r], r)
         ELSE IF draft = None THEN "ABSENT"
         ELSE IF Qualified(draft) THEN "VERIFIED" ELSE "DRAFT"
  BY DEF SnapshotStatus, DraftsShown
<1>6. SnapshotStatus(r)' =
         IF ListStatus(r)' # "ABSENT" THEN ListStatus(r)'
         ELSE IF rows'[r] # None THEN RowStatus(rows[r], r)'
         ELSE IF draft' = None THEN "ABSENT"
         ELSE IF Qualified(draft)' THEN "VERIFIED" ELSE "DRAFT"
  BY DEF SnapshotStatus, DraftsShown
<1>. QED BY <1>1, <1>3, <1>4, <1>5, <1>6

\* What the list leaves out and a row shows as VERIFIED after a write, the row
\* claims to be.
LEMMA ShownByRow ==
    ASSUME UNCHANGED evidenceVars, backs' = backs, NEW r, ListStatus(r) = "ABSENT",
           rows'[r] # None, SnapshotStatus(r)' = "VERIFIED"
    PROVE  /\ rows'[r].status = "VERIFIED" /\ BackingQualifies(r)
           /\ rows'[r].bundle = Backing(r) /\ rows'[r].tested = ValidRun(Backing(r)).completed
<1>1. /\ ListStatus(r)' = ListStatus(r) /\ Backing(r)' = Backing(r)
      /\ BackingQualifies(r)' = BackingQualifies(r)
      /\ \A b : ValidRun(b)' = ValidRun(b)
  BY ViewsFollowEvidence
<1>2. RowStatus(rows[r], r)' = "VERIFIED" BY <1>1 DEF SnapshotStatus
<1>3. ContractHolds(rows[r], r)' BY <1>2 DEF RowStatus
<1>. QED BY <1>1, <1>3 DEF ContractHolds

(***************************************************************************)
(* Neither a restart nor a submission promotes a record in the snapshot,   *)
(* but for a qualified golden file that the schema rejects.                *)
(***************************************************************************)
THEOREM RowWritesAreFailClosed == RegistrySpec => RowsPromoteNothing
<1>1. ASSUME RegistryInv, RegistryNext, rows' # rows,
             NEW r \in RowIds, SnapshotStatus(r)' = "VERIFIED",
             ~ (Curated(r) \notin SchemaValid \cup {None} /\ Qualified(Curated(r)))
      PROVE  SnapshotStatus(r) = "VERIFIED"
  <2>1. UNCHANGED evidenceVars /\ backs' = backs
    BY <1>1 DEF RegistryNext, Startup, Submit
  <2>2. ListStatus(r)' = ListStatus(r) BY <2>1, ViewsFollowEvidence
  <2>3. CASE ListStatus(r) # "ABSENT" BY <1>1, <2>2, <2>3 DEF SnapshotStatus
  <2>4. CASE rows'[r] = rows[r] BY <1>1, <2>1, <2>4, UnwrittenIsShownAsBefore
  <2>5. ASSUME ListStatus(r) = "ABSENT", rows'[r] # rows[r], Startup PROVE FALSE
    <3>1. rows'[r] \in {Quarantined(r), Synchronised(r)} BY <2>5 DEF Startup
    <3>2. CASE rows'[r] = Quarantined(r)
      \* The quarantine wrote the row, hence as a draft.
      <4>1. rows[r] # None /\ Quarantined(r) # rows[r]
        BY <2>5, <3>2 DEF Quarantined
      <4>2. rows'[r].status = "DRAFT" BY <1>1, <3>2, <4>1, RowShape DEF Quarantined
      <4>3. rows'[r] # None BY <1>1, <3>2, <4>1, QuarantineKeepsRow
      <4>. QED BY <1>1, <2>1, <2>5, <4>2, <4>3, ShownByRow
    <3>3. CASE rows'[r] = Synchronised(r) /\ Curated(r) # None
      <4>. DEFINE b == Curated(r)
      <4>1. rows'[r] # None /\ rows'[r].status = StatusOf(b)
        <5>1. rows'[r] \in Rows \cup {None} BY <1>1, <3>3, WrittenAreRows
        <5>2. rows'[r] =
                 [bundle |-> b,
                  tested |-> IF ValidRun(b) = None THEN None ELSE ValidRun(b).completed,
                  status |-> StatusOf(b)]
          BY <3>3 DEF Synchronised
        <5>3. rows'[r] # None
          <6>1. PICK p \in Claiming(r, Golden) : b = files[p]
            BY <3>3, OnlyPath, ScansAreOfPaths DEF Curated
          <6>2. b \in Bundles
            BY <1>1, <6>1, ClaimantsAreBundles, ScansAreOfPaths DEF RegistryInv
          <6>3. ValidRun(b) \in Runs \cup {None} /\ StatusOf(b) \in Statuses
            BY <1>1, <6>2, EvidenceShape, StatusInRange DEF RegistryInv
          <6>4. ValidRun(b) # None => ValidRun(b).completed \in Times BY <6>3 DEF Runs
          <6>5. rows'[r] \in Rows BY <5>2, <6>2, <6>3, <6>4 DEF Rows, RowStatuses
          <6>. QED BY <6>5, RowsAssumption
        <5>. QED BY <5>2, <5>3
      <4>2. Qualified(b) BY <1>1, <2>1, <2>5, <4>1, ShownByRow DEF Qualified
      <4>3. b \in SchemaValid BY <1>1, <3>3, <4>2
      <4>4. PICK p \in Claiming(r, Golden) : Claiming(r, Golden) = {p} /\ b = files[p]
        BY <3>3, OnlyPath, ScansAreOfPaths DEF Curated
      <4>5. Listed(r) = {p} BY <4>3, <4>4 DEF Listed
      <4>6. Only(Listed(r)) = b BY <4>4, <4>5, OnlyOfOne
      <4>. QED BY <2>5, <3>3, <4>2, <4>6 DEF ListStatus, Qualified
    <3>4. CASE rows'[r] = Synchronised(r) /\ Curated(r) = None
      BY <3>2, <3>4 DEF Synchronised
    <3>. QED BY <3>1, <3>2, <3>3, <3>4
  <2>6. ASSUME ListStatus(r) = "ABSENT", rows'[r] # rows[r],
               NEW s \in RowIds, NEW content \in Bundles, Submit(s, content)
        PROVE  FALSE
    <3>1. rows'[r] = [bundle |-> content, tested |-> None, status |-> "DRAFT"]
      BY <1>1, <2>6 DEF Submit, RegistryInv, RegistryTypeOK
    <3>2. rows'[r] \in Rows BY <3>1 DEF Rows, RowStatuses
    <3>3. rows'[r] # None /\ rows'[r].status = "DRAFT" BY <3>1, <3>2, RowsAssumption
    <3>. QED BY <1>1, <2>1, <2>6, <3>3, ShownByRow
  <2>. QED BY <1>1, <2>3, <2>4, <2>5, <2>6 DEF RegistryNext
<1>2. RegistryInv /\ [RegistryNext]_registryVars =>
        [rows' # rows =>
            \A r \in RowIds :
                SnapshotStatus(r)' = "VERIFIED" =>
                  \/ SnapshotStatus(r) = "VERIFIED"
                  \/ Curated(r) \notin SchemaValid \cup {None} /\ Qualified(Curated(r))]_registryVars
  BY <1>1 DEF registryVars
<1> QED
  BY RegistryInvInit, RegistryInvStep, <1>2, PTL DEF RegistrySpec, RowsPromoteNothing

-----------------------------------------------------------------------------
(***************************************************************************)
(* A request, read by read (EvidenceRequest): an answer that offers        *)
(* evidence does not pass a challenge, however much changes under it.      *)
(***************************************************************************)

FilesOK == files \in [Paths -> Bundles \cup {None}]

\* c was what the target's file held, i had no record, at a moment of the request.
Held(c) == \E o \in seen : o.content = c
Clear(i) == \E o \in seen : i \in o.clear

\* Nothing is answered before the answer, nothing remembered before the request.
OrderInv ==
    /\ phase # "answered" => status = None
    /\ phase = "idle" => seen = {} /\ record = None

\* What was parsed has an id; the first file that is judged is the one shown.
ParsedInv ==
    /\ phase \in {"bytes", "run", "record", "bound", "digest"} => parsed \in Bundles
    /\ phase \in {"bytes", "run", "record", "bound"} /\ record = None =>
          parsed.id = shown.id
    /\ phase = "bound" => record = None
    /\ phase \in {"successor", "digest"} => record # None
    /\ phase \in {"bytes", "run", "record", "digest"} /\ record # None =>
          parsed.id = record.successor.bundle.id

\* The digests that were taken are of bytes that the judged file held.
HeldInv ==
    /\ phase = "run" => Held(bytes)
    /\ phase \in {"record", "bound"} /\ record = None => Held(run.bundle)
    /\ phase \in {"bytes", "run", "record"} /\ record # None =>
          Held(record.successor.bundle)

RequestInv == FilesOK /\ OrderInv /\ ParsedInv /\ HeldInv /\ NeverPastAChallenge

LEMMA RequestInit == Init => RequestInv
  BY StatusAssumption
  DEF Init, Statuses, EvidenceInit, RequestInv, FilesOK, OrderInv, ParsedInv, HeldInv, NeverPastAChallenge

(***************************************************************************)
(* While the request runs, its memory grows by the present moment.         *)
(***************************************************************************)
LEMMA MemoryGrows ==
    ASSUME RequestInv, Next, phase' # "idle"
    PROVE  seen \subseteq seen' /\ Moment' \in seen'
  BY DEF RequestInv, OrderInv, Next

\* Whoever deploys puts bundles or nothing.
LEMMA FilesStayTyped ==
    ASSUME FilesOK, [EvidenceNext]_evidenceVars PROVE FilesOK'
<1>1. CASE \E p \in Paths, content \in Bundles \cup {None} : Deploy(p, content)
  BY <1>1 DEF FilesOK, Deploy
<1>2. CASE UNCHANGED files
  BY <1>2 DEF FilesOK
<1>3. CASE EvidenceNext
  BY <1>1, <1>2, <1>3 DEF EvidenceNext, Verify, FileRecord, WithdrawRecord, Tick
<1>. QED BY <1>2, <1>3 DEF evidenceVars

(***************************************************************************)
(* What others do leaves the request where it is.                          *)
(***************************************************************************)
LEMMA OthersKeep == ASSUME RequestInv, Others, Next PROVE RequestInv'
<1>1. FilesOK' BY FilesStayTyped DEF Others, RequestInv
<1>2. CASE phase' = "idle"
  <2>1. seen' = {} BY <1>2 DEF Next
  <2>2. phase = "idle" BY <1>2 DEF Others, requestVars
  <2>. QED
    BY <1>1, <1>2, <2>1, <2>2
    DEF Others, requestVars, RequestInv, OrderInv, ParsedInv, HeldInv, NeverPastAChallenge
<1>3. CASE phase' # "idle"
  <2>1. seen \subseteq seen' BY <1>3, MemoryGrows
  <2>. QED
    BY <1>1, <1>3, <2>1
    DEF Others, requestVars, RequestInv, OrderInv, ParsedInv, HeldInv, Held, NeverPastAChallenge
<1>. QED BY <1>2, <1>3

(***************************************************************************)
(* The steps of the request.                                               *)
(***************************************************************************)
LEMMA ReadKeeps ==
    ASSUME RequestInv, Read, Next, UNCHANGED evidenceVars PROVE RequestInv'
<1>. USE DEF RequestInv, OrderInv, ParsedInv, HeldInv, Held, NeverPastAChallenge, Answer, NoRun,
             JudgesSuccessor
<1>1. FilesOK' BY DEF FilesOK, evidenceVars
<1>2. phase' # "idle"
  BY DEF Read, Parse, ReadBytes, ReadRun, LookForRecord, ReadRecord, FindSuccessor,
         DigestSuccessor, JudgeSuccessor
<1>3. seen \subseteq seen' /\ Moment' \in seen' BY <1>2, MemoryGrows
<1>4. Moment'.content = files[target'] BY DEF Moment, evidenceVars
<1>5. Moment'.clear = {i \in Ids : records[i] = None} BY DEF Moment, evidenceVars
<1>6. ASSUME NEW p \in Golden, Parse(p) PROVE RequestInv'
  <2>1. files[p] \in Bundles BY <1>6, BundlesAssumption DEF Parse
  <2>. QED BY <1>6, <1>1, <1>2, <1>3, <2>1 DEF Parse
<1>7. CASE ReadBytes BY <1>7, <1>1, <1>2, <1>3, <1>4 DEF ReadBytes
<1>8. CASE ReadRun BY <1>8, <1>1, <1>2, <1>3 DEF ReadRun, Accepts
<1>9. CASE LookForRecord
  <2>1. ASSUME records[parsed.id] = None PROVE shown'.id \in Moment'.clear
    <3>1. parsed \in Bundles /\ parsed.id = shown.id BY <1>9 DEF LookForRecord
    <3>2. parsed.id \in Ids BY <3>1, BundlesAssumption DEF BundleType
    <3>. QED BY <2>1, <3>1, <3>2, <1>5, <1>9 DEF LookForRecord
  <2>. QED BY <1>9, <1>1, <1>2, <1>3, <2>1 DEF LookForRecord
<1>10. CASE ReadRecord
  <2>1. CASE phase' = "successor"
    <3>1. record' # None /\ status' = status /\ phase = "bound"
      BY <1>10, <2>1 DEF ReadRecord
    <3>. QED BY <1>1, <2>1, <3>1, StatusAssumption DEF Statuses
  <2>2. CASE status' \in {"UNKNOWN", "DISPUTED"} /\ phase' = "answered"
    BY <1>1, <2>2
  <2>. QED BY <1>10, <2>1, <2>2 DEF ReadRecord
<1>11. CASE FindSuccessor
  <2>1. CASE Cardinality(SuccessorFiles(record.successor.bundle.id)) = 1
    <3>1. /\ files[target'] # None /\ target' \in Golden
          /\ files[target'].id = record.successor.bundle.id
      BY <1>11, <2>1 DEF FindSuccessor, SuccessorFiles, Claiming
    <3>2. files[target'] \in Bundles BY <3>1 DEF FilesOK, Paths
    <3>. QED BY <1>11, <1>1, <1>2, <1>3, <2>1, <3>1, <3>2 DEF FindSuccessor
  <2>2. CASE Cardinality(SuccessorFiles(record.successor.bundle.id)) # 1
    BY <1>11, <1>1, <1>2, <1>3, <2>2 DEF FindSuccessor
  <2>. QED BY <2>1, <2>2
<1>12. CASE DigestSuccessor
  <2>1. CASE phase' = "bytes"
    <3>1. /\ files[target] = record.successor.bundle /\ phase = "digest"
          /\ UNCHANGED <<shown, target, parsed, run, record, status>>
      BY <1>12, <2>1 DEF DigestSuccessor
    <3>2. Moment'.content = record'.successor.bundle BY <3>1, <1>4
    <3>. QED BY <1>1, <1>3, <2>1, <3>1, <3>2
  <2>2. CASE phase' = "answered" /\ status' \in {"UNKNOWN", "UNVERIFIED"}
    BY <1>1, <2>2
  <2>. QED BY <1>12, <2>1, <2>2 DEF DigestSuccessor
<1>13. CASE JudgeSuccessor
  <2>1. ASSUME records[parsed.id] = None
        PROVE  record.successor.bundle.id \in Moment'.clear
    <3>1. parsed \in Bundles /\ parsed.id = record.successor.bundle.id
      BY <1>13 DEF JudgeSuccessor
    <3>2. parsed.id \in Ids BY <3>1, BundlesAssumption DEF BundleType
    <3>. QED BY <2>1, <3>1, <3>2, <1>5
  <2>. QED BY <1>13, <1>1, <1>2, <1>3, <2>1 DEF JudgeSuccessor
<1>. QED BY <1>6, <1>7, <1>8, <1>9, <1>10, <1>11, <1>12, <1>13 DEF Read

LEMMA RequestInductive == RequestInv /\ [Next]_vars => RequestInv'
<1>1. ASSUME RequestInv, Next PROVE RequestInv'
  BY <1>1, OthersKeep, ReadKeeps DEF Next
<1>2. ASSUME RequestInv, UNCHANGED vars PROVE RequestInv'
  BY <1>2
  DEF vars, requestVars, evidenceVars, RequestInv, FilesOK, OrderInv, ParsedInv, HeldInv, Held,
      NeverPastAChallenge
<1>. QED BY <1>1, <1>2

(***************************************************************************)
(* Whatever is replaced under a request, and however often: an answer that *)
(* offers evidence, its own or a successor's, rests on bytes that the file *)
(* held and on a moment without a challenge (_load_lifecycle_record and    *)
(* load_valid_run_artifact, each read once per file judged).               *)
(***************************************************************************)
THEOREM NoChallengePassed == Spec => []NeverPastAChallenge
<1>1. RequestInv => NeverPastAChallenge BY DEF RequestInv
<1>. QED BY <1>1, RequestInit, RequestInductive, PTL DEF Spec

-----------------------------------------------------------------------------
(***************************************************************************)
(* A request during which one thing changes.  Whatever it has read before  *)
(* the change, the answer it is heading for is the status before or after. *)
(***************************************************************************)

\* The request has seen at most one change, and it was no deployment.
Quiet == changes <= 1 /\ ~deploys

\* s was the status of what is shown at a moment of the request.
Worth(s) == \E o \in seen : o.worth = s

NowSeen == Worth(StatusOf(shown))

\* The golden paths that are the only ones to look at for their id.
Sole ==
    {p \in Golden : /\ p \in SuccessorFiles(files[p].id)
                    /\ Cardinality(SuccessorFiles(files[p].id)) = 1}

\* Without a record, the accepted run answers this at the time t.
Age(t) == IF t >= run.completed + FreshFor THEN "STALE" ELSE "VERIFIED"

\* A record that ReadRecord accepts at the time t.
BoundAt(r, t) ==
    /\ r \notin {None, Malformed} /\ r.run = run
    /\ r.effective <= t + Skew /\ r.effective >= run.completed

\* No challenge and no age speak at the time t against a successor's run.
Usable(s, t) ==
    /\ records[s.bundle.id] = None
    /\ s.completed <= t + Skew /\ t < s.completed + FreshFor

\* The record r leads on to its successor, judged at the time t.
Leads(r, t) ==
    /\ \E p \in Sole : files[p] = r.successor.bundle
    /\ r.successor.bundle \notin Unbound
    /\ r.successor.bundle.scope = shown.scope
    /\ runs[r.successor.bundle.id] = r.successor
    /\ r.effective >= r.successor.completed
    /\ Usable(r.successor, t)

\* What the record answers at the time t was the status at a moment.
RecordPromise(t) ==
    LET r == records[shown.id]
    IN  BoundAt(r, t) =>
          /\ r.state = "DISPUTED" => Worth("DISPUTED")
          /\ r.state = "SUPERSEDED" /\ Leads(r, t) => Worth("SUPERSEDED")

NowPromise ==
    /\ records[shown.id] = None => Worth(Age(now))
    /\ RecordPromise(now)

\* What the request will answer, if nothing more changes, was the status at
\* some moment of it, or is UNKNOWN.
Promise ==
    /\ phase = "record" /\ record = None => NowPromise
    /\ phase = "bound" => RecordPromise(asked)
    /\ phase \in {"successor", "digest", "bytes", "run"} /\ record # None =>
          (Leads(record, asked) => Worth("SUPERSEDED"))
    /\ phase = "record" /\ record # None =>
          (Usable(record.successor, asked) => Worth("SUPERSEDED"))
    /\ phase = "answered" /\ status # "UNKNOWN" => Worth(status)

Running == phase \notin {"idle", "answered"}
RunRead == Running /\ (phase \in {"record", "bound"} \/ record # None)

\* What the request has read of the bundle files stands as long as none of them
\* is deployed.
FilesRead ==
    /\ Running => shown \in Bundles
    /\ Running /\ record = None => parsed = shown /\ files[target] = shown
    /\ phase = "run" => bytes = parsed /\ bytes \notin Unbound
    /\ RunRead => run \in Runs /\ run.bundle = shown
    /\ Running /\ record # None =>
          record \in Records /\ record.state = "SUPERSEDED" /\ record.run = run
    /\ Running /\ record # None /\ phase # "successor" =>
          /\ target \in Sole /\ parsed = files[target]
          /\ parsed.id = record.successor.bundle.id
    /\ record # None /\ phase \in {"bytes", "run", "record"} =>
          parsed = record.successor.bundle /\ parsed.scope = shown.scope
    /\ record # None /\ phase = "record" => parsed \notin Unbound

\* Until something changes, what it has read of the rest stands too.
RestRead ==
    /\ RunRead => ValidRun(shown) = run
    /\ Running /\ (phase = "bound" \/ record # None) => asked = now
    /\ Running /\ record # None => record = records[shown.id] /\ BoundAt(record, now)
    /\ phase = "record" /\ record # None =>
          /\ runs[record.successor.bundle.id] = record.successor
          /\ record.effective >= record.successor.completed

PhaseInv ==
    /\ phase \in Phases
    /\ phase = "idle" => seen = {} /\ record = None /\ changes = 0 /\ ~deploys
    /\ phase = "bound" => record = None
    /\ phase \in {"successor", "digest"} => record # None
    /\ phase # "answered" => status = None

AtomicInv ==
    /\ IInv /\ PhaseInv
    /\ changes \in Nat /\ deploys \in BOOLEAN
    /\ phase # "idle" => NowSeen
    /\ Quiet => FilesRead /\ Promise
    /\ changes = 0 /\ ~deploys => RestRead

LEMMA AtomicInit == Init => AtomicInv
<1> SUFFICES ASSUME Init PROVE AtomicInv
  OBVIOUS
<1>1. IInv BY InitInv DEF Init
<1>. QED
  BY <1>1 DEF Init, AtomicInv, PhaseInv, Phases, FilesRead, Promise, RestRead, Running, RunRead

\* The only claimant with the right bytes is a deployed successor.
LEMMA SoleIsDeployed ==
    ASSUME NEW p \in Sole, NEW b, NEW r, files[p] = r.successor.bundle,
           r.successor.bundle.scope = b.scope,
           ValidRun(r.successor.bundle) = r.successor,
           r.effective >= r.successor.completed
    PROVE  SuccessorIsDeployed(b, r)
<1>. DEFINE claiming == SuccessorFiles(r.successor.bundle.id)
<1>1. Cardinality(claiming) = 1 /\ p \in claiming BY DEF Sole
<1>2. PICK sole : claiming = {sole} BY <1>1, SuccessorFilesAreFinite, FS_Singleton
<1>3. \A other \in claiming : files[other] = r.successor.bundle BY <1>1, <1>2
<1>. QED BY <1>1, <1>3 DEF SuccessorIsDeployed

\* The request's run is still the bundle's.
Stands == shown \in Bundles /\ run \in Runs /\ ValidRun(shown) = run

(***************************************************************************)
(* As long as the accepted run stands, the record and the age of this      *)
(* moment answer what the status of this moment is.                        *)
(***************************************************************************)
LEMMA StandingIsStatus == IInv /\ Stands /\ NowSeen => NowPromise
<1> SUFFICES ASSUME IInv, Stands, NowSeen PROVE NowPromise
  OBVIOUS
<1>. DEFINE r == records[shown.id]
            s == r.successor
<1>1. StatusOf(shown) = StatusIs(shown) /\ run # None /\ run = ValidRun(shown)
  BY StatusUnfolds, NoneAssumption DEF Stands
<1>2. /\ r \in Records \cup {None, Malformed}
      /\ now \in Int /\ Skew \in Int
  BY EvidenceShape DEF Stands
<1>3. ASSUME r = None PROVE Worth(Age(now))
  BY <1>1, <1>3 DEF StatusIs, NowSeen, Age
<1>4. ASSUME BoundAt(r, now), r.state = "DISPUTED" PROVE Worth("DISPUTED")
  <2>1. Consistent(shown) BY <1>1, <1>4 DEF BoundAt, Consistent, Binds
  <2>. QED BY <1>1, <1>4, <2>1 DEF StatusIs, NowSeen, BoundAt
<1>5. ASSUME BoundAt(r, now), r.state = "SUPERSEDED", Leads(r, now)
      PROVE  Worth("SUPERSEDED")
  <2>1. r \in Records BY <1>2, <1>5 DEF BoundAt
  <2>2. s \in Runs /\ s.bundle \in Bundles /\ s # None
    BY <1>5, <2>1, SuccessorIsAnother, NoneAssumption DEF Stands
  <2>3. ValidRun(s.bundle) = s BY <1>5, <2>2 DEF Leads, Usable, ValidRun
  <2>4. PICK p \in Sole : files[p] = s.bundle BY <1>5 DEF Leads
  <2>5. SuccessorIsDeployed(shown, r)
    BY <1>5, <2>3, <2>4, SoleIsDeployed DEF Leads
  <2>6. Current(s.bundle) BY <1>5, <2>2, <2>3 DEF Current, Leads, Usable
  <2>7. Consistent(shown)
    BY <1>1, <1>5, <2>5, <2>6 DEF BoundAt, Consistent, Binds
  <2>. QED BY <1>1, <1>5, <2>7 DEF StatusIs, NowSeen, BoundAt
<1>. QED BY <1>3, <1>4, <1>5 DEF NowPromise, RecordPromise

LEMMA SoleFollowsFiles == ASSUME files' = files PROVE Sole' = Sole
<1>1. \A id : SuccessorFiles(id)' = SuccessorFiles(id) BY DEF SuccessorFiles, Claiming
<1>. QED BY <1>1 DEF Sole

\* One thing changes at a time.
LEMMA ChangeKinds ==
    ASSUME IInv, EvidenceNext, files' = files
    PROVE  \/ /\ UNCHANGED <<records, now>>
              /\ \E i \in Ids : \A j \in Ids \ {i} : runs'[j] = runs[j]
           \/ /\ UNCHANGED <<runs, now>>
              /\ \E i \in Ids : \A j \in Ids \ {i} : records'[j] = records[j]
           \/ UNCHANGED <<runs, records>> /\ now' = now + 1
<1>1. ASSUME NEW p \in Paths, NEW content, Deploy(p, content) PROVE FALSE
  <2>1. files'[p] = content BY <1>1 DEF Deploy, IInv, EvidenceTypeOK
  <2>. QED BY <1>1, <2>1 DEF Deploy
<1>2. ASSUME NEW p \in Paths, NEW lead, Verify(p, lead)
      PROVE  /\ UNCHANGED <<records, now>>
             /\ \E i \in Ids : \A j \in Ids \ {i} : runs'[j] = runs[j]
  <2>1. files[p] \in Bundles BY <1>2 DEF Verify, IInv, EvidenceTypeOK
  <2>2. files[p].id \in Ids BY <2>1, BundlesAssumption DEF BundleType
  <2>. QED BY <1>2, <2>2 DEF Verify, IInv, EvidenceTypeOK
<1>3. ASSUME NEW id \in Ids, NEW filing, FileRecord(id, filing)
      PROVE  /\ UNCHANGED <<runs, now>>
             /\ \E i \in Ids : \A j \in Ids \ {i} : records'[j] = records[j]
  BY <1>3 DEF FileRecord, IInv, EvidenceTypeOK
<1>4. ASSUME NEW id \in Ids, WithdrawRecord(id)
      PROVE  /\ UNCHANGED <<runs, now>>
             /\ \E i \in Ids : \A j \in Ids \ {i} : records'[j] = records[j]
  BY <1>4 DEF WithdrawRecord, IInv, EvidenceTypeOK
<1>5. CASE Tick BY <1>5 DEF Tick
<1>. QED BY <1>1, <1>2, <1>3, <1>4, <1>5 DEF EvidenceNext

(***************************************************************************)
(* The one change.                                                         *)
(***************************************************************************)
LEMMA ChangeKeepsPromise ==
    ASSUME AtomicInv, changes = 0, ~deploys, EvidenceNext, files' = files,
           UNCHANGED requestVars, seen \subseteq seen', NowSeen', IInv', phase # "idle"
    PROVE  Promise'
<1>. DEFINE x == shown.id
            sid == record.successor.bundle.id
<1>1. /\ shown' = shown /\ run' = run /\ record' = record /\ asked' = asked
      /\ phase' = phase /\ status' = status /\ target' = target /\ parsed' = parsed
  BY DEF requestVars
<1>2. \A s : Worth(s) => Worth(s)' BY DEF Worth
<1>3. FilesRead /\ Promise /\ RestRead /\ IInv /\ NowSeen /\ PhaseInv
  BY DEF AtomicInv, Quiet
<1>4. Sole' = Sole BY SoleFollowsFiles
<1>5. now \in Int /\ Skew \in Int /\ FreshFor \in Int
  BY <1>3, TimesAssumption DEF IInv, EvidenceTypeOK
<1>6. Stands' => NowPromise'
  <2>1. (IInv /\ Stands /\ NowSeen => NowPromise)' BY StandingIsStatus, PTL
  <2>. QED BY <2>1
<1>7. RunRead => Stands BY <1>3 DEF FilesRead, RestRead, Stands, RunRead
<1>8. RunRead => NowPromise BY <1>3, <1>7, StandingIsStatus
<1>9. RunRead /\ runs'[x] = runs[x] /\ now <= now' => Stands'
  <2>1. ASSUME RunRead, runs'[x] = runs[x], now <= now' PROVE ValidRun(shown)' = run'
    <3>1. now' \in Int BY TimesAssumption DEF IInv, EvidenceTypeOK
    <3>2. ValidRun(shown) = run /\ run # None /\ run \in Runs
      BY <1>7, <2>1, NoneAssumption DEF Stands
    <3>3. run.completed \in Int BY <3>2 DEF Runs, Times
    <3>. QED BY <1>1, <1>5, <2>1, <3>1, <3>2, <3>3 DEF ValidRun
  <2>. QED BY <1>1, <1>7, <2>1 DEF Stands
<1>10. /\ RunRead => x \in Ids
       /\ RunRead /\ records[x] \in Records /\ records[x].state = "SUPERSEDED"
            /\ records[x].run = run =>
          records[x].successor.bundle.id # x /\ records[x].successor.bundle.id \in Ids
       /\ RunRead /\ records[x] # None /\ records[x] # Malformed => records[x] \in Records
       /\ RunRead /\ record # None => sid # x /\ sid \in Ids
  <2>1. RunRead => x \in Ids BY <1>7, BundlesAssumption DEF Stands, BundleType
  <2>2. ASSUME NEW r \in Records, r.state = "SUPERSEDED", r.run = run, RunRead
        PROVE  r.successor.bundle.id # x /\ r.successor.bundle.id \in Ids
    <3>1. r.successor.bundle.id # r.run.bundle.id /\ r.successor \in Runs
      BY <2>2 DEF Records
    <3>2. r.successor.bundle \in Bundles BY <3>1 DEF Runs
    <3>3. run.bundle = shown BY <1>3, <2>2 DEF FilesRead
    <3>. QED BY <2>2, <3>1, <3>2, <3>3, BundlesAssumption DEF BundleType
  <2>3. RunRead /\ record # None =>
           record \in Records /\ record.state = "SUPERSEDED" /\ record.run = run
    BY <1>3 DEF FilesRead, RunRead
  <2>4. RunRead /\ records[x] # None /\ records[x] # Malformed => records[x] \in Records
    BY <1>3, <2>1 DEF IInv, EvidenceTypeOK
  <2>. QED BY <2>1, <2>2, <2>3, <2>4
<1>11. RunRead =>
        \/ /\ UNCHANGED records /\ now <= now'
           /\ \A j \in Ids \ {x} : runs'[j] = runs[j]
        \/ /\ now' = now /\ runs'[x] = runs[x]
           /\ \/ UNCHANGED records
              \/ UNCHANGED runs /\ \E i \in Ids : \A j \in Ids \ {i} : records'[j] = records[j]
  <2>1. ASSUME RunRead, UNCHANGED <<records, now>>, NEW i \in Ids,
               \A j \in Ids \ {i} : runs'[j] = runs[j]
        PROVE  \/ \A j \in Ids \ {x} : runs'[j] = runs[j]
               \/ runs'[x] = runs[x]
    BY <1>10, <2>1
  <2>. QED BY <1>3, <1>5, <2>1, ChangeKinds
\* The record as it was found.
<1>12. CASE phase = "record" /\ record = None
  <2>. SUFFICES NowPromise' BY <1>1, <1>12 DEF Promise
  <2>1. RunRead BY <1>12 DEF RunRead, Running
  <2>2. CASE runs'[x] = runs[x] /\ now <= now'
    BY <1>6, <1>9, <2>1, <2>2
  <2>3. CASE runs'[x] # runs[x]
    <3>1. UNCHANGED records /\ UNCHANGED now /\ \A j \in Ids \ {x} : runs'[j] = runs[j]
      BY <1>3, <1>10, <2>1, <2>3, ChangeKinds
    <3>2. records[x] = None => Worth(Age(now))'
      BY <1>1, <1>2, <1>8, <2>1, <3>1 DEF NowPromise, Age, Worth
    <3>3. RecordPromise(now)'
      <4>1. RecordPromise(now) BY <1>8, <2>1 DEF NowPromise
      <4>. QED
        BY <1>1, <1>2, <1>4, <1>10, <2>1, <3>1, <4>1
        DEF RecordPromise, BoundAt, Leads, Usable, Worth
    <3>. QED BY <1>1, <3>1, <3>2, <3>3 DEF NowPromise
  <2>. QED BY <1>5, <1>11, <2>1, <2>2, <2>3
<1>13. CASE phase = "bound"
  <2>. SUFFICES RecordPromise(asked)' BY <1>1, <1>3, <1>13 DEF Promise, PhaseInv
  <2>1. RunRead /\ asked = now BY <1>3, <1>13 DEF RunRead, Running, RestRead
  <2>2. CASE now' = now /\ runs'[x] = runs[x]
    <3>1. NowPromise' BY <1>5, <1>6, <1>9, <2>1, <2>2
    <3>2. asked' = now' BY <1>1, <2>1, <2>2
    <3>. QED BY <3>1, <3>2 DEF NowPromise, RecordPromise, BoundAt, Leads, Usable
  <2>3. CASE UNCHANGED records /\ \A j \in Ids \ {x} : runs'[j] = runs[j]
    <3>1. RecordPromise(now) BY <1>8, <2>1 DEF NowPromise
    <3>. QED
      BY <1>1, <1>2, <1>4, <1>10, <2>1, <2>3, <3>1
      DEF RecordPromise, BoundAt, Leads, Usable, Worth
  <2>. QED BY <1>11, <2>1, <2>2, <2>3
\* The successor as it was found.
<1>14. CASE phase \in {"successor", "digest", "bytes", "run"} /\ record # None
  <2>. SUFFICES ASSUME Leads(record, asked)' PROVE Worth("SUPERSEDED")'
    BY <1>1, <1>14 DEF Promise
  <2>1. RunRead /\ asked = now /\ record = records[x] /\ BoundAt(record, now)
        /\ record.state = "SUPERSEDED"
    BY <1>3, <1>14 DEF RunRead, Running, RestRead, FilesRead
  <2>2. Leads(record, now) => Worth("SUPERSEDED")'
    BY <1>2, <1>8, <2>1 DEF NowPromise, RecordPromise
  <2>3. CASE runs'[sid] = runs[sid] /\ records'[sid] = records[sid]
    <3>1. Leads(record, now)
      BY <1>1, <1>4, <2>1, <2>3 DEF Leads, Usable
    <3>. QED BY <2>2, <3>1
  <2>4. CASE now' = now /\ runs'[x] = runs[x] /\ records'[x] = records[x]
    <3>1. NowPromise' BY <1>5, <1>6, <1>9, <2>1, <2>4
    <3>. QED
      BY <1>1, <2>1, <2>4, <3>1 DEF NowPromise, RecordPromise, BoundAt, Leads, Usable
  <2>. QED BY <1>10, <1>11, <1>14, <2>1, <2>3, <2>4
<1>15. CASE phase = "record" /\ record # None
  <2>. SUFFICES ASSUME Usable(record.successor, asked)' PROVE Worth("SUPERSEDED")'
    BY <1>1, <1>15 DEF Promise
  <2>1. RunRead /\ asked = now /\ record = records[x] /\ BoundAt(record, now)
        /\ record.state = "SUPERSEDED" /\ runs[sid] = record.successor
        /\ record.effective >= record.successor.completed
    BY <1>3, <1>15 DEF RunRead, Running, RestRead, FilesRead
  <2>2. /\ \E p \in Sole : files[p] = record.successor.bundle
        /\ record.successor.bundle.scope = shown.scope
        /\ record.successor.bundle \notin Unbound
    BY <1>3, <1>15 DEF FilesRead, Running
  <2>3. CASE records'[sid] = records[sid]
    <3>1. Leads(record, now) BY <1>1, <2>1, <2>2, <2>3 DEF Leads, Usable
    <3>. QED BY <1>2, <1>8, <2>1, <3>1 DEF NowPromise, RecordPromise
  <2>4. CASE now' = now /\ UNCHANGED runs /\ records'[x] = records[x]
    <3>1. NowPromise' BY <1>5, <1>6, <1>9, <2>1, <2>4
    <3>2. Leads(record, asked)' BY <1>1, <1>4, <2>1, <2>2, <2>4 DEF Leads
    <3>. QED
      BY <1>1, <2>1, <2>4, <3>1, <3>2 DEF NowPromise, RecordPromise, BoundAt, Leads, Usable
  <2>. QED BY <1>10, <1>11, <1>15, <2>1, <2>3, <2>4
<1>16. CASE phase = "answered"
  BY <1>1, <1>2, <1>3, <1>16 DEF Promise, Worth
<1>. QED
  BY <1>1, <1>3, <1>12, <1>13, <1>14, <1>15, <1>16 DEF Promise, PhaseInv, Phases

\* The moment that a step adds to the memory has the status of that moment.
LEMMA MomentWorth == Moment.worth = StatusOf(shown)
  BY DEF Moment

LEMMA MomentSeen == ASSUME seen' = seen \cup {Moment'} PROVE NowSeen'
<1>1. (Moment.worth = StatusOf(shown))' BY MomentWorth, PTL
<1>2. Moment' \in seen' OBVIOUS
<1>. QED BY <1>1, <1>2 DEF NowSeen, Worth

LEMMA OthersAtomic == ASSUME AtomicInv, Others, Next PROVE AtomicInv'
<1>1. EvidenceNext /\ UNCHANGED requestVars BY DEF Others
<1>2. IInv' BY <1>1, InvStep DEF AtomicInv
<1>3. CASE phase = "idle"
  <2>1. seen' = {} /\ changes' = changes /\ deploys' = deploys
    BY <1>1, <1>3 DEF Others, Next, requestVars
  <2>. QED
    BY <1>1, <1>2, <1>3, <2>1
    DEF AtomicInv, PhaseInv, requestVars, FilesRead, Promise, RestRead, Running, RunRead, Phases
<1>4. CASE phase # "idle"
  <2>1. /\ changes' = changes + 1 /\ deploys' = (deploys \/ files' # files)
        /\ seen' = seen \cup {Moment'}
    BY <1>1, <1>4 DEF Others, Next, requestVars
  <2>2. NowSeen' BY <2>1, MomentSeen
  <2>3. changes' \in Nat /\ deploys' \in BOOLEAN /\ changes' # 0
    BY <2>1 DEF AtomicInv
  <2>4. ASSUME Quiet' PROVE changes = 0 /\ ~deploys /\ files' = files
    <3>1. changes' <= 1 /\ ~deploys' BY <2>4 DEF Quiet
    <3>2. changes = 0 BY <2>1, <3>1 DEF AtomicInv
    <3>3. ~deploys /\ files' = files BY <2>1, <3>1, Zenon
    <3>. QED BY <3>2, <3>3
  <2>5. ASSUME Quiet' PROVE FilesRead' /\ Promise'
    <3>1. changes = 0 /\ ~deploys /\ files' = files BY <2>4, <2>5
    <3>2. Promise' BY <1>1, <1>2, <1>4, <2>1, <2>2, <3>1, ChangeKeepsPromise
    <3>3. Sole' = Sole BY <3>1, SoleFollowsFiles
    <3>4. FilesRead BY <3>1 DEF AtomicInv, Quiet
    <3>5. FilesRead'
      BY <1>1, <3>1, <3>3, <3>4 DEF FilesRead, Running, RunRead, requestVars
    <3>. QED BY <3>2, <3>5
  <2>6. PhaseInv' BY <1>1, <1>4 DEF AtomicInv, PhaseInv, requestVars
  <2>. QED BY <1>2, <2>2, <2>3, <2>5, <2>6 DEF AtomicInv
<1>. QED BY <1>3, <1>4

(***************************************************************************)
(* The steps of the request.                                               *)
(***************************************************************************)
LEMMA ReadAtomic ==
    ASSUME AtomicInv, Read, Next, UNCHANGED <<evidenceVars, changes, deploys>>
    PROVE  AtomicInv'
<1>1. /\ files' = files /\ runs' = runs /\ records' = records /\ now' = now
      /\ changes' = changes /\ deploys' = deploys
  BY DEF evidenceVars
<1>2. phase' # "idle" /\ phase' \in Phases
  BY DEF Read, Parse, ReadBytes, ReadRun, LookForRecord, ReadRecord, FindSuccessor,
         DigestSuccessor, JudgeSuccessor, NoRun, Answer, Phases
<1>3. seen' = seen \cup {Moment'}
  BY <1>2 DEF AtomicInv, PhaseInv, Next
<1>4. NowSeen' /\ \A s : Worth(s) => Worth(s)'
  BY <1>3, MomentSeen DEF Worth
<1>5. IInv'
  <2>1. IInv BY DEF AtomicInv
  <2>. QED BY <1>1, <2>1, InvStep DEF evidenceVars
<1>6. changes' \in Nat /\ deploys' \in BOOLEAN BY <1>1 DEF AtomicInv
<1>7. PhaseInv'
  <2>1. phase' # "answered" => status' = None
    BY DEF AtomicInv, PhaseInv, Read, Parse, ReadBytes, ReadRun, LookForRecord, ReadRecord,
           FindSuccessor, DigestSuccessor, JudgeSuccessor, NoRun, Answer
  <2>2. /\ phase' = "bound" => record' = None
        /\ phase' \in {"successor", "digest"} => record' # None
    BY DEF AtomicInv, PhaseInv, Read, Parse, ReadBytes, ReadRun, LookForRecord, ReadRecord,
           FindSuccessor, DigestSuccessor, JudgeSuccessor, NoRun, Answer, JudgesSuccessor
  <2>. QED BY <1>2, <2>1, <2>2 DEF PhaseInv
<1>8. Sole' = Sole BY <1>1, SoleFollowsFiles
<1>. SUFFICES ASSUME Quiet PROVE FilesRead' /\ Promise' /\ (changes = 0 => RestRead')
  BY <1>1, <1>2, <1>4, <1>5, <1>6, <1>7 DEF AtomicInv, Quiet
<1>9. /\ IInv /\ FilesRead /\ Promise /\ PhaseInv /\ (changes = 0 => RestRead)
  BY DEF AtomicInv, Quiet
<1>0. ASSUME phase' = "answered", status' = "UNKNOWN"
      PROVE  FilesRead' /\ Promise' /\ RestRead'
  BY <1>0 DEF FilesRead, Promise, RestRead, Running, RunRead
<1>10. ASSUME NEW p \in Golden, Parse(p)
       PROVE  FilesRead' /\ Promise' /\ (changes = 0 => RestRead')
  <2>1. files[p] \in Bundles BY <1>10, BundlesAssumption DEF Parse
  <2>2. record' = None /\ phase' = "bytes" BY <1>9, <1>10 DEF Parse, PhaseInv
  <2>. QED
    BY <1>1, <1>10, <2>1, <2>2 DEF Parse, FilesRead, Promise, RestRead, Running, RunRead
<1>11. CASE ReadBytes
  <2>1. CASE phase' = "run"
    <3>1. /\ UNCHANGED <<shown, target, parsed, run, record, asked, status>>
          /\ phase = "bytes" /\ bytes' = files[target] /\ files[target] \notin Unbound
      BY <1>11, <2>1 DEF ReadBytes, NoRun, Answer
    <3>2. FilesRead'
      BY <1>1, <1>8, <1>9, <2>1, <3>1 DEF FilesRead, Running, RunRead
    <3>3. Promise'
      BY <1>1, <1>4, <1>8, <1>9, <2>1, <3>1 DEF Promise, Leads, Usable, Worth
    <3>4. changes = 0 => RestRead'
      BY <1>1, <1>9, <2>1, <3>1 DEF RestRead, Running, RunRead, ValidRun, BoundAt
    <3>. QED BY <3>2, <3>3, <3>4
  <2>2. CASE files[target] \in {None} \cup Unbound /\ record # None
    BY <1>0, <1>11, <2>2 DEF ReadBytes, NoRun, Answer, JudgesSuccessor
  <2>3. CASE files[target] \in {None} \cup Unbound /\ record = None
    <3>1. phase = "bytes" /\ phase' = "answered" /\ status' = "UNVERIFIED" /\ shown' = shown
      BY <1>11, <2>3 DEF ReadBytes, NoRun, Answer, JudgesSuccessor
    <3>2. files[target] = shown /\ shown \in Bundles
      BY <1>9, <2>3, <3>1 DEF FilesRead, Running
    <3>3. shown \in Unbound BY <2>3, <3>2, BundlesAssumption
    <3>4. StatusOf(shown) = "UNVERIFIED"
      BY <1>9, <3>2, <3>3, StatusUnfolds DEF StatusIs, ValidRun
    <3>5. Worth("UNVERIFIED")' BY <1>4, <3>1, <3>4 DEF AtomicInv, NowSeen
    <3>. QED BY <3>1, <3>5 DEF FilesRead, Promise, RestRead, Running, RunRead
  <2>. QED BY <1>11, <2>1, <2>2, <2>3 DEF ReadBytes
<1>12. CASE ReadRun
  <2>. DEFINE r == runs[parsed.id]
  <2>1. CASE Accepts(r) /\ Named(r) /\ record = None
    <3>1. /\ UNCHANGED <<shown, target, parsed, bytes, record, asked, status>>
          /\ phase = "run" /\ phase' = "record" /\ run' = r
      BY <1>12, <2>1 DEF ReadRun, JudgesSuccessor, NoRun, Answer
    <3>2. /\ parsed = shown /\ bytes = shown /\ shown \in Bundles /\ files[target] = shown
          /\ shown \notin Unbound
      BY <1>9, <2>1, <3>1 DEF FilesRead, Running
    <3>3. shown.id \in Ids BY <3>2, BundlesAssumption DEF BundleType
    <3>4. r \in Runs /\ r.bundle = shown /\ ValidRun(shown) = r
      BY <1>9, <2>1, <3>2, <3>3 DEF Accepts, ValidRun, IInv, EvidenceTypeOK
    <3>5. Stands' BY <1>1, <3>1, <3>2, <3>4 DEF Stands, ValidRun
    <3>6. NowPromise'
      <4>1. (IInv /\ Stands /\ NowSeen => NowPromise)' BY StandingIsStatus, PTL
      <4>. QED BY <1>4, <1>5, <3>5, <4>1
    <3>7. FilesRead' BY <1>1, <2>1, <3>1, <3>2, <3>4 DEF FilesRead, Running, RunRead
    <3>8. Promise' BY <2>1, <3>1, <3>6 DEF Promise
    <3>9. RestRead' BY <2>1, <3>1, <3>5 DEF RestRead, Running, RunRead, Stands
    <3>. QED BY <3>7, <3>8, <3>9
  <2>2. CASE Accepts(r) /\ Named(r) /\ record # None
    <3>1. /\ UNCHANGED <<shown, target, parsed, bytes, run, record, asked, status>>
          /\ phase = "run" /\ phase' = "record"
          /\ r = record.successor /\ record.effective >= record.successor.completed
      BY <1>12, <2>2 DEF ReadRun, JudgesSuccessor, NoRun, Answer, Named
    <3>2. /\ target \in Sole /\ files[target] = record.successor.bundle
          /\ parsed = record.successor.bundle /\ parsed.scope = shown.scope
          /\ parsed \notin Unbound
      BY <1>9, <2>2, <3>1 DEF FilesRead, Running
    <3>3. FilesRead' BY <1>1, <1>8, <1>9, <2>2, <3>1, <3>2 DEF FilesRead, Running, RunRead
    <3>4. Promise'
      <4>1. ASSUME Usable(record.successor, asked) PROVE Leads(record, asked)
        BY <3>1, <3>2, <4>1 DEF Leads
      <4>2. Usable(record.successor, asked) => Worth("SUPERSEDED")
        BY <1>9, <2>2, <3>1, <4>1 DEF Promise
      <4>3. Usable(record.successor, asked)' => Worth("SUPERSEDED")'
        BY <1>1, <1>4, <3>1, <4>2 DEF Usable
      <4>. QED BY <2>2, <3>1, <4>3 DEF Promise
    <3>5. changes = 0 => RestRead'
      BY <1>1, <1>9, <2>2, <3>1, <3>2 DEF RestRead, Running, RunRead, ValidRun, BoundAt
    <3>. QED BY <3>3, <3>4, <3>5
  <2>3. CASE ~ (Accepts(r) /\ Named(r)) /\ record # None
    BY <1>0, <1>12, <2>3 DEF ReadRun, NoRun, Answer, JudgesSuccessor
  <2>4. CASE ~ (Accepts(r) /\ Named(r)) /\ record = None
    <3>1. phase = "run" /\ phase' = "answered" /\ status' = "UNVERIFIED"
      BY <1>12, <2>4 DEF ReadRun, NoRun, Answer, JudgesSuccessor
    <3>2. parsed = shown /\ bytes = shown /\ shown \in Bundles
      BY <1>9, <2>4, <3>1 DEF FilesRead, Running
    <3>3. ValidRun(shown) = None
      BY <2>4, <3>2 DEF Accepts, Named, JudgesSuccessor, ValidRun, SameContract
    <3>4. StatusOf(shown) = "UNVERIFIED"
      BY <1>9, <3>2, <3>3, StatusUnfolds DEF StatusIs
    <3>5. Worth("UNVERIFIED")' BY <1>4, <3>1, <3>4 DEF AtomicInv, NowSeen
    <3>. QED BY <3>1, <3>5 DEF FilesRead, Promise, RestRead, Running, RunRead
  <2>. QED BY <2>1, <2>2, <2>3, <2>4
<1>13. CASE LookForRecord
  <2>0. phase = "record" /\ record = None /\ asked' = now
        /\ UNCHANGED <<shown, target, parsed, bytes, run, record>>
    BY <1>13 DEF LookForRecord, JudgesSuccessor
  <2>1. NowPromise /\ parsed = shown BY <1>9, <2>0 DEF Promise, FilesRead, Running
  <2>2. CASE records[shown.id] = None
    <3>1. phase' = "answered" /\ status' = Age(now)
      BY <1>13, <2>1, <2>2 DEF LookForRecord, Answer, Age
    <3>2. Worth(Age(now)) BY <2>1, <2>2 DEF NowPromise
    <3>3. Worth(status)' BY <1>3, <3>1, <3>2 DEF Worth
    <3>. QED BY <3>1, <3>3 DEF FilesRead, Promise, RestRead, Running, RunRead
  <2>3. CASE records[shown.id] # None
    <3>1. phase' = "bound" /\ status' = status
      BY <1>13, <2>1, <2>3 DEF LookForRecord
    <3>2. RecordPromise(now) BY <2>1 DEF NowPromise
    <3>3. RecordPromise(asked)'
      BY <1>1, <1>3, <1>8, <2>0, <3>2 DEF RecordPromise, BoundAt, Leads, Usable, Worth
    <3>4. FilesRead' BY <1>1, <1>9, <2>0, <3>1 DEF FilesRead, Running, RunRead
    <3>5. Promise' BY <2>0, <3>1, <3>3 DEF Promise
    <3>6. changes = 0 => RestRead'
      BY <1>1, <1>9, <2>0, <3>1 DEF RestRead, Running, RunRead, ValidRun
    <3>. QED BY <3>4, <3>5, <3>6
  <2>. QED BY <2>2, <2>3
<1>14. CASE ReadRecord
  <2>. DEFINE r == records[parsed.id]
  <2>0. /\ phase = "bound" /\ record = None /\ parsed = shown
        /\ UNCHANGED <<shown, target, parsed, bytes, run, asked>>
        /\ RecordPromise(asked) /\ run \in Runs /\ run.bundle = shown /\ shown \in Bundles
    BY <1>9, <1>14 DEF ReadRecord, PhaseInv, FilesRead, Running, RunRead, Promise
  <2>1. CASE status' = "UNKNOWN" /\ phase' = "answered" BY <1>0, <2>1
  <2>2. CASE /\ BoundAt(r, asked) /\ r.state = "DISPUTED"
             /\ status' = "DISPUTED" /\ phase' = "answered"
    <3>1. Worth("DISPUTED")' BY <1>4, <2>0, <2>2 DEF RecordPromise
    <3>. QED BY <2>2, <3>1 DEF FilesRead, Promise, RestRead, Running, RunRead
  <2>3. CASE /\ BoundAt(r, asked) /\ r.state = "SUPERSEDED"
             /\ record' = r /\ phase' = "successor" /\ status' = status
    <3>1. shown.id \in Ids BY <2>0, BundlesAssumption DEF BundleType
    <3>2. r \in Records /\ r.run = run /\ r # None
      BY <1>9, <2>0, <2>3, <3>1 DEF BoundAt, IInv, EvidenceTypeOK
    <3>3. FilesRead' BY <1>1, <1>9, <2>0, <2>3, <3>2 DEF FilesRead, Running, RunRead
    <3>4. Leads(record, asked)' => Leads(r, asked)
      BY <1>1, <1>8, <2>0, <2>3 DEF Leads, Usable
    <3>5. Leads(record, asked)' => Worth("SUPERSEDED")'
      BY <1>4, <2>0, <2>3, <3>4 DEF RecordPromise
    <3>6. Promise' BY <2>3, <3>5 DEF Promise
    <3>7. changes = 0 => RestRead'
      BY <1>1, <1>9, <2>0, <2>3 DEF RestRead, Running, RunRead, ValidRun, BoundAt
    <3>. QED BY <3>3, <3>6, <3>7
  <2>. QED BY <1>14, <2>1, <2>2, <2>3 DEF ReadRecord, Answer, BoundAt
<1>15. CASE FindSuccessor
  <2>. DEFINE id == record.successor.bundle.id
  <2>0. phase = "successor" /\ record # None /\ UNCHANGED <<shown, bytes, run, record, asked>>
    BY <1>9, <1>15 DEF FindSuccessor, NoRun, PhaseInv
  <2>1. CASE Cardinality(SuccessorFiles(id)) = 1
    <3>1. /\ target' \in SuccessorFiles(id) /\ parsed' = files[target']
          /\ phase' = "digest" /\ status' = status
      BY <1>15, <2>1 DEF FindSuccessor
    <3>2. files[target'].id = id /\ target' \in Golden
      BY <3>1 DEF SuccessorFiles, Claiming
    <3>3. target' \in Sole BY <2>1, <3>1, <3>2 DEF Sole
    <3>4. FilesRead' BY <1>1, <1>8, <1>9, <2>0, <3>1, <3>2, <3>3 DEF FilesRead, Running, RunRead
    <3>5. Promise' BY <1>1, <1>4, <1>8, <1>9, <2>0, <3>1 DEF Promise, Leads, Usable
    <3>6. changes = 0 => RestRead'
      BY <1>1, <1>9, <2>0, <3>1 DEF RestRead, Running, RunRead, ValidRun, BoundAt
    <3>. QED BY <3>4, <3>5, <3>6
  <2>2. CASE Cardinality(SuccessorFiles(id)) # 1
    BY <1>0, <1>15, <2>0, <2>2 DEF FindSuccessor, NoRun, Answer, JudgesSuccessor
  <2>. QED BY <2>1, <2>2
<1>16. CASE DigestSuccessor
  <2>0. phase = "digest" /\ record # None
    BY <1>9, <1>16 DEF DigestSuccessor, PhaseInv
  <2>1. CASE files[target] = record.successor.bundle /\ parsed.scope = shown.scope
    <3>1. /\ UNCHANGED <<shown, target, parsed, bytes, run, record, asked, status>>
          /\ phase' = "bytes"
      BY <1>16, <2>1 DEF DigestSuccessor
    <3>2. FilesRead' BY <1>1, <1>8, <1>9, <2>0, <2>1, <3>1 DEF FilesRead, Running, RunRead
    <3>3. Promise' BY <1>1, <1>4, <1>8, <1>9, <2>0, <3>1 DEF Promise, Leads, Usable
    <3>4. changes = 0 => RestRead'
      BY <1>1, <1>9, <2>0, <3>1 DEF RestRead, Running, RunRead, ValidRun, BoundAt
    <3>. QED BY <3>2, <3>3, <3>4
  <2>2. CASE ~ (files[target] = record.successor.bundle /\ parsed.scope = shown.scope)
    BY <1>0, <1>16, <2>0, <2>2 DEF DigestSuccessor, NoRun, Answer, JudgesSuccessor
  <2>. QED BY <2>1, <2>2
<1>17. CASE JudgeSuccessor
  <2>0. phase = "record" /\ record # None /\ phase' = "answered"
    BY <1>17 DEF JudgeSuccessor, JudgesSuccessor, Answer
  <2>1. parsed = record.successor.bundle BY <1>9, <2>0 DEF FilesRead
  <2>2. CASE Usable(record.successor, asked)
    <3>1. status' = "SUPERSEDED"
      BY <1>17, <2>1, <2>2 DEF JudgeSuccessor, Usable, Answer
    <3>2. Worth("SUPERSEDED")' BY <1>4, <1>9, <2>0, <2>2 DEF Promise
    <3>. QED BY <2>0, <3>1, <3>2 DEF FilesRead, Promise, RestRead, Running, RunRead
  <2>3. CASE ~Usable(record.successor, asked)
    <3>1. status' = "UNKNOWN"
      BY <1>17, <2>1, <2>3 DEF JudgeSuccessor, Usable, Answer
    <3>. QED BY <1>0, <2>0, <3>1
  <2>. QED BY <2>2, <2>3
<1>. QED
  BY <1>10, <1>11, <1>12, <1>13, <1>14, <1>15, <1>16, <1>17 DEF Read

LEMMA AtomicStep == AtomicInv /\ [Next]_vars => AtomicInv'
<1>1. ASSUME AtomicInv, Next PROVE AtomicInv'
  BY <1>1, OthersAtomic, ReadAtomic DEF Next
<1>2. ASSUME AtomicInv, UNCHANGED vars PROVE AtomicInv'
  <2>1. UNCHANGED evidenceVars /\ UNCHANGED requestVars
        /\ changes' = changes /\ deploys' = deploys /\ seen' = seen
    BY <1>2 DEF vars
  <2>2. Sole' = Sole BY <2>1, SoleFollowsFiles DEF evidenceVars
  <2>3. IInv' BY <1>2, <2>1, InvStep DEF AtomicInv
  <2>4. NowSeen => NowSeen'
    <3>1. StatusOf(shown)' = StatusOf(shown)
      BY <2>1, StatusFollowsEvidence DEF StatusOf, requestVars
    <3>. QED BY <2>1, <3>1 DEF NowSeen, Worth
  <2>5. FilesRead => FilesRead'
    BY <2>1, <2>2 DEF FilesRead, Running, RunRead, evidenceVars, requestVars
  <2>6. Promise => Promise'
    BY <2>1, <2>2
    DEF Promise, NowPromise, RecordPromise, BoundAt, Leads, Usable, Worth, Age,
        evidenceVars, requestVars
  <2>7. RestRead => RestRead'
    BY <2>1 DEF RestRead, Running, RunRead, ValidRun, BoundAt, evidenceVars, requestVars
  <2>8. PhaseInv => PhaseInv' BY <2>1 DEF PhaseInv, requestVars
  <2>. QED
    BY <1>2, <2>1, <2>3, <2>4, <2>5, <2>6, <2>7, <2>8 DEF AtomicInv, Quiet, requestVars
<1>. QED BY <1>1, <1>2

(***************************************************************************)
(* A request is as good as one read at one moment while no more than one   *)
(* run, record or tick changes under it: the answer, unless it is UNKNOWN, *)
(* is the status before the change or the status after it                  *)
(* (load_all_golden_bundles, evaluate_evidence_lifecycle).                 *)
(***************************************************************************)
THEOREM OneChangeAtomic == Spec => []AtomicUnderOneChange
<1>1. AtomicInv => AtomicUnderOneChange
  BY DEF AtomicInv, PhaseInv, Promise, Worth, Quiet, AtomicUnderOneChange
<1>. QED BY <1>1, AtomicInit, AtomicStep, PTL DEF Spec
-----------------------------------------------------------------------------
(***************************************************************************)
(* What an answer shows.                                                   *)
(***************************************************************************)

\* The run is one of the contract that is shown, and of its bytes as long as
\* no file is replaced.
OfShown ==
    /\ SameContract(shown, run.bundle)
    /\ ~deploys => run.bundle = shown

ShownInv ==
    /\ phase \in {"bytes", "run"} /\ record = None =>
          parsed = shown /\ (~deploys => files[target] = shown)
    /\ phase = "run" /\ record = None => (~deploys => bytes = shown)
    /\ phase \in {"record", "bound", "successor", "digest"} => OfShown
    /\ phase # "idle" /\ record # None => OfShown
    /\ phase = "idle" => record = None /\ status = None
    /\ phase \in {"successor", "digest"} => record # None
    /\ status \notin {None, "UNVERIFIED"} => OfShown
    /\ deploys \in BOOLEAN

LEMMA ShownInit == Init => ShownInv
  BY DEF Init, ShownInv

LEMMA ShownStep == ShownInv /\ [Next]_vars => ShownInv'
<1> SUFFICES ASSUME ShownInv, [Next]_vars PROVE ShownInv'
  OBVIOUS
<1>1. ASSUME Read, UNCHANGED <<evidenceVars, changes, deploys>> PROVE ShownInv'
  <2>0. files' = files /\ deploys' = deploys BY <1>1 DEF evidenceVars
  <2>1. ASSUME NEW p \in Golden, Parse(p) PROVE ShownInv'
    BY <2>0, <2>1 DEF Parse, ShownInv, OfShown
  <2>2. CASE ReadBytes
    BY <2>0, <2>2 DEF ReadBytes, NoRun, Answer, JudgesSuccessor, ShownInv, OfShown
  <2>3. CASE ReadRun
    BY <2>0, <2>3
       DEF ReadRun, Accepts, NoRun, Answer, JudgesSuccessor, ShownInv, OfShown, SameContract
  <2>4. CASE LookForRecord
    BY <2>0, <2>4 DEF LookForRecord, Answer, ShownInv, OfShown
  <2>5. CASE ReadRecord
    BY <2>0, <2>5 DEF ReadRecord, Answer, ShownInv, OfShown
  <2>6. CASE FindSuccessor
    BY <2>0, <2>6 DEF FindSuccessor, NoRun, Answer, ShownInv, OfShown
  <2>7. CASE DigestSuccessor
    BY <2>0, <2>7 DEF DigestSuccessor, NoRun, Answer, ShownInv, OfShown
  <2>8. CASE JudgeSuccessor
    BY <2>0, <2>8 DEF JudgeSuccessor, Answer, ShownInv, OfShown
  <2>. QED BY <1>1, <2>1, <2>2, <2>3, <2>4, <2>5, <2>6, <2>7, <2>8 DEF Read
<1>2. CASE Others
  <2>1. UNCHANGED requestVars BY <1>2 DEF Others
  <2>2. CASE phase = "idle" BY <1>2, <2>1, <2>2 DEF Others, requestVars, ShownInv, OfShown
  <2>3. CASE phase # "idle"
    <3>1. deploys' = (deploys \/ files' # files) BY <1>2, <2>3 DEF Others
    <3>2. ~deploys' => ~deploys /\ files' = files BY <3>1
    <3>. QED BY <2>1, <3>1, <3>2 DEF requestVars, ShownInv, OfShown
  <2>. QED BY <2>2, <2>3
<1>3. CASE UNCHANGED vars
  BY <1>3 DEF vars, requestVars, evidenceVars, ShownInv, OfShown
<1>. QED BY <1>1, <1>2, <1>3 DEF Next

(***************************************************************************)
(* However many files, runs and records are replaced under a request, its  *)
(* answer never shows a contract that was not run; only a replaced bundle  *)
(* file makes it show other bytes than the run's                           *)
(* (load_all_golden_bundles, load_valid_run_artifact).                     *)
(***************************************************************************)
THEOREM ContractWasRun == Spec => []ShownContractWasRun
<1>1. ShownInv => ShownContractWasRun BY DEF ShownInv, OfShown, ShownContractWasRun
<1>. QED BY <1>1, ShownInit, ShownStep, PTL DEF Spec
=============================================================================
