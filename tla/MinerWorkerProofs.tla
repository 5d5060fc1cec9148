------------------------- MODULE MinerWorkerProofs -------------------------
(***************************************************************************)
(* Proofs about MinerWorker for any number of processes, seeds and         *)
(* answers: readers meet whole drafts only, and mining keeps the seeds.    *)
(***************************************************************************)
EXTENDS MinerWorker, FiniteSetTheorems, SequenceTheorems, TLAPS

-----------------------------------------------------------------------------
(***************************************************************************)
(* The positions of a sequence can be counted off: for every i up to their *)
(* number one of them is the i-th.  (The rank of a position is injective,  *)
(* and an injection between finite sets of one size is onto.)              *)
(***************************************************************************)
LEMMA EveryRankOccurs ==
    ASSUME NEW n \in Nat, NEW P \in SUBSET (1 .. n), NEW i \in 1 .. Cardinality(P)
    PROVE  \E j \in P : Cardinality({k \in P : k <= j}) = i
<1>. DEFINE Upto(j) == {k \in P : k <= j}
            rank == [j \in P |-> Cardinality(Upto(j))]
            size == Cardinality(P)
<1>1. IsFiniteSet(P) /\ size \in Nat
  <2>1. IsFiniteSet(1 .. n) BY FS_Interval
  <2>2. IsFiniteSet(P) BY <2>1, FS_Subset
  <2>. QED BY <2>2, FS_CardinalityType
<1>2. ASSUME NEW j \in P
      PROVE  IsFiniteSet(Upto(j)) /\ Cardinality(Upto(j)) \in 1 .. size
  <2>1. Upto(j) \in SUBSET P /\ j \in Upto(j) OBVIOUS
  <2>2. /\ IsFiniteSet(Upto(j))
        /\ Cardinality(Upto(j)) \in Nat
        /\ Cardinality(Upto(j)) <= size
    BY <1>1, <2>1, FS_Subset, FS_CardinalityType
  <2>3. Cardinality(Upto(j)) # 0
    BY <2>1, <2>2, FS_EmptySet
  <2>. QED BY <1>1, <2>2, <2>3
<1>3. ASSUME NEW a \in P, NEW b \in P, a < b
      PROVE  Cardinality(Upto(a)) # Cardinality(Upto(b))
  <2>. a \in Nat /\ b \in Nat /\ \A k \in P : k \in Nat OBVIOUS
  <2>0. ASSUME NEW k \in P, k <= a PROVE k <= b BY <1>3, <2>0
  <2>1. Upto(a) \in SUBSET Upto(b) BY <2>0
  <2>2. b \in Upto(b) /\ b \notin Upto(a) BY <1>3
  <2>. QED BY <1>2, <2>1, <2>2, FS_Subset
<1>4. \A a, b \in P : Cardinality(Upto(a)) = Cardinality(Upto(b)) => a = b
  BY <1>3
<1>5. rank \in Injection(P, 1 .. size)
  <2>1. rank \in [P -> 1 .. size] BY <1>2
  <2>2. \A a, b \in P : rank[a] = rank[b] => a = b BY <1>4
  <2>. QED BY <2>1, <2>2 DEF Injection, IsInjective
<1>6. IsFiniteSet(1 .. size) /\ Cardinality(1 .. size) = size
  BY <1>1, FS_Interval
<1>7. rank \in Surjection(P, 1 .. size)
  <2>. HIDE DEF rank, size
  <2>. QED BY <1>5, <1>6, FS_Injection DEF size
<1>8. \E j \in P : rank[j] = i
  BY <1>7 DEF Surjection
<1>. QED BY <1>8

\* What is left at some positions is a sequence, of elements from there.
LEMMA AtIsSeq ==
    ASSUME NEW T, NEW s \in Seq(T), NEW P \in SUBSET DOMAIN s
    PROVE  /\ At(s, P) \in Seq(T)
           /\ \A i \in 1 .. Len(At(s, P)) : \E j \in P : At(s, P)[i] = s[j]
<1>. DEFINE size == Cardinality(P)
            ith(i) == CHOOSE j \in P : Cardinality({k \in P : k <= j}) = i
<1>1. Len(s) \in Nat /\ P \in SUBSET (1 .. Len(s)) /\ \A j \in P : s[j] \in T
  OBVIOUS
<1>2. size \in Nat
  <2>1. IsFiniteSet(1 .. Len(s)) BY <1>1, FS_Interval
  <2>2. IsFiniteSet(P) BY <1>1, <2>1, FS_Subset
  <2>. QED BY <2>2, FS_CardinalityType
<1>3. \A i \in 1 .. size : ith(i) \in P
  BY <1>1, EveryRankOccurs
<1>4. At(s, P) = [i \in 1 .. size |-> s[ith(i)]]
  BY DEF At
<1>. HIDE DEF size, ith
<1>5. At(s, P) \in [1 .. size -> T]
  BY <1>1, <1>3, <1>4
<1>6. At(s, P) \in Seq(T) /\ Len(At(s, P)) = size
  BY <1>2, <1>5
<1>7. \A i \in 1 .. size : At(s, P)[i] = s[ith(i)]
  BY <1>4
<1>. QED BY <1>3, <1>6, <1>7

Candidate == {e \in Entries : e.id # None}

\* What is no seed is of no seed's release.
Defers(e) == e \in Range(Seeds) \/ \A s \in Range(Seeds) : s.key # e.key

LEMMA AnswersAreEntries ==
    ASSUME NEW feed \in Seq(Entries), NEW fetched \in Answers(feed)
    PROVE  fetched \in Seq(Entries)
  BY AtIsSeq DEF Answers

\* What synthesize_bundle lets through has an id, and nothing is added.
LEMMA SynthesizedAreCandidates ==
    ASSUME NEW entries \in Seq(Entries)
    PROVE  /\ Synthesized(entries) \in Seq(Candidate)
           /\ \A i \in 1 .. Len(Synthesized(entries)) :
                 \E j \in DOMAIN entries : Synthesized(entries)[i] = entries[j]
<1>. DEFINE P == {i \in DOMAIN entries : entries[i].id # None}
<1>1. /\ Synthesized(entries) = At(entries, P)
      /\ P \in SUBSET DOMAIN entries
  BY DEF Synthesized
<1>2. /\ At(entries, P) \in Seq(Entries)
      /\ \A i \in 1 .. Len(At(entries, P)) : \E j \in P : At(entries, P)[i] = entries[j]
  <2>. HIDE DEF P
  <2>. QED BY <1>1, AtIsSeq
<1>3. \A j \in P : entries[j] \in Candidate
  BY DEF Candidate
<1>4. \A i \in 1 .. Len(At(entries, P)) : At(entries, P)[i] \in Candidate
  BY <1>2, <1>3
<1>5. At(entries, P) \in Seq(Candidate)
  <2>. HIDE DEF P
  <2>. QED BY <1>2, <1>4
<1>. QED BY <1>1, <1>2, <1>5

(***************************************************************************)
(* Of the entries of one release the first stays.  Seeds come first, so a  *)
(* candidate is a seed or has a release that no seed has.                  *)
(***************************************************************************)
LEMMA CandidatesDefer ==
    ASSUME NEW fetched \in Seq(Entries)
    PROVE  /\ Candidates(fetched) \in Seq(Candidate)
           /\ \A i \in 1 .. Len(Candidates(fetched)) : Defers(Candidates(fetched)[i])
<1>. DEFINE all == Seeds \o fetched
            P == {i \in DOMAIN all : \A j \in 1 .. (i - 1) : all[j].key # all[i].key}
<1>1. Seeds \in Seq(Entries) /\ Len(Seeds) \in Nat BY EntriesAssumption
<1>2. /\ all \in Seq(Entries) /\ DOMAIN all = 1 .. Len(all)
      /\ Len(all) = Len(Seeds) + Len(fetched)
      /\ \A i \in 1 .. Len(Seeds) : all[i] = Seeds[i]
  BY <1>1, ConcatProperties
<1>3. Unique(all) = At(all, P) /\ P \in SUBSET DOMAIN all BY DEF Unique
<1>4. \A j \in P : Defers(all[j])
  <2>. SUFFICES ASSUME NEW j \in P, all[j] \notin Range(Seeds), NEW s \in Range(Seeds)
                PROVE  s.key # all[j].key
    BY DEF Defers
  <2>. HIDE DEF all
  <2>1. PICK m \in 1 .. Len(Seeds) : s = Seeds[m] BY <1>1 DEF Range
  <2>2. j \in 1 .. Len(all) /\ ~(j <= Len(Seeds)) BY <1>1, <1>2 DEF Range
  <2>3. m \in 1 .. (j - 1) BY <1>1, <1>2, <2>2
  <2>. QED BY <1>2, <2>1, <2>3
<1>5. /\ Unique(all) \in Seq(Entries)
      /\ \A i \in 1 .. Len(Unique(all)) : \E j \in P : Unique(all)[i] = all[j]
  <2>. HIDE DEF all, P
  <2>. QED BY <1>2, <1>3, AtIsSeq
<1>6. \A i \in DOMAIN Unique(all) : Defers(Unique(all)[i])
  <2>. HIDE DEF all, P
  <2>. QED BY <1>4, <1>5
<1>7. Candidates(fetched) = Synthesized(Unique(all)) BY DEF Candidates
<1>. HIDE DEF all, P
<1>. QED BY <1>5, <1>6, <1>7, SynthesizedAreCandidates

\* What a stage starts to write.
LEMMA ListsAreCandidates ==
    /\ Mined \subseteq Seq(Candidate) /\ Harvested \subseteq Seq(Candidate)
    /\ \A list \in Mined : \A i \in 1 .. Len(list) : Defers(list[i])
<1>1. ASSUME NEW list \in Mined
      PROVE  list \in Seq(Candidate) /\ \A i \in 1 .. Len(list) : Defers(list[i])
  <2>1. PICK fetched \in Answers(Feed) : list = Candidates(fetched) BY DEF Mined
  <2>2. fetched \in Seq(Entries) BY EntriesAssumption, AnswersAreEntries
  <2>. QED BY <2>1, <2>2, CandidatesDefer
<1>2. ASSUME NEW list \in Harvested
      PROVE  list \in Seq(Candidate)
  <2>1. PICK fetched \in Answers(Releases) : list = Synthesized(fetched) BY DEF Harvested
  <2>2. fetched \in Seq(Entries) BY EntriesAssumption, AnswersAreEntries
  <2>. QED BY <2>1, <2>2, SynthesizedAreCandidates
<1>. QED BY <1>1, <1>2

-----------------------------------------------------------------------------
(***************************************************************************)
(* The invariant.                                                          *)
(***************************************************************************)

ListsInv == todo \in [Processes -> Seq(Candidate)]

\* A file is open only while there is a candidate to write, and when it is to be
\* renamed it holds that candidate: the temporary is the process's own.
HeldInv ==
    \A p \in Processes :
        /\ step[p] # "open" => writing[p] # None /\ todo[p] # <<>>
        /\ step[p] = "replace" => temp[p][Head(todo[p]).id] = Head(todo[p])

Ingests(p) == writing[p] = "worker" /\ worker[p] = "ingest"

\* Only the harvester has entries to write that do not defer to the seeds.
DeferInv ==
    \A p \in Processes :
        writing[p] # None /\ ~Ingests(p) =>
            \A i \in 1 .. Len(todo[p]) : Defers(todo[p][i])

IInv == TypeOK /\ ListsInv /\ HeldInv /\ DeferInv /\ DraftsWhole

LEMMA InitInv == Init => IInv
<1>. SUFFICES ASSUME Init PROVE IInv OBVIOUS
<1>1. TypeOK
  <2>1. \A p \in Processes : Range(todo[p]) \subseteq Entries BY DEF Init, Range
  <2>. QED BY <2>1, BoundsAssumption DEF Init, TypeOK
<1>2. ListsInv BY DEF Init, ListsInv
<1>3. HeldInv BY DEF Init, HeldInv
<1>4. DeferInv BY DEF Init, DeferInv
<1>5. DraftsWhole BY DEF Init, DraftsWhole
<1>. QED BY <1>1, <1>2, <1>3, <1>4, <1>5 DEF IInv

\* A candidate in hand has a place among the files.
LEMMA HeadIsCandidate ==
    ASSUME ListsInv, NEW p \in Processes, todo[p] # <<>>
    PROVE  /\ Head(todo[p]) \in Entries
           /\ Head(todo[p]).id \in Ids
           /\ Tail(todo[p]) \in Seq(Candidate)
           /\ Head(todo[p]) = todo[p][1] /\ 1 \in 1 .. Len(todo[p])
           /\ \A i \in 1 .. Len(Tail(todo[p])) :
                 i + 1 \in 1 .. Len(todo[p]) /\ Tail(todo[p])[i] = todo[p][i + 1]
<1>1. todo[p] \in Seq(Candidate) BY DEF ListsInv
<1>2. Len(todo[p]) \in Nat \ {0} BY <1>1, EmptySeq
<1>3. /\ Head(todo[p]) \in Candidate /\ Tail(todo[p]) \in Seq(Candidate)
      /\ Len(Tail(todo[p])) = Len(todo[p]) - 1
      /\ \A i \in 1 .. Len(Tail(todo[p])) : Tail(todo[p])[i] = todo[p][i + 1]
  BY <1>1, HeadTailProperties
<1>4. Head(todo[p]) = todo[p][1] BY <1>1, <1>2
<1>5. Head(todo[p]) \in Entries /\ Head(todo[p]).id \in Ids BY <1>3 DEF Candidate, Ids
<1>. QED BY <1>2, <1>3, <1>4, <1>5

\* A list of candidates is one of entries.
LEMMA ListsAreTyped ==
    \A list \in Seq(Candidate) : Range(list) \subseteq Entries
<1>. SUFFICES ASSUME NEW list \in Seq(Candidate), NEW i \in DOMAIN list
              PROVE  list[i] \in Entries
  BY DEF Range
<1>. QED BY DEF Candidate

-----------------------------------------------------------------------------
(***************************************************************************)
(* Every step keeps it.                                                    *)
(***************************************************************************)

\* Neither a file nor a list is touched.
LEMMA WaitKeeps ==
    ASSUME IInv, NEW p \in Processes,
           Start(p) \/ Lead(p) \/ HarvestFails(p) \/ Wake(p) \/ Request(p)
    PROVE  IInv'
<1>. USE DEF IInv
<1>1. UNCHANGED <<fileVars, loopVars>>
  BY DEF Start, Lead, HarvestFails, Wake, Request
<1>2. /\ lock' \in Processes \cup {None}
      /\ request' \in [Processes -> BOOLEAN]
      /\ worker' \in [Processes -> {"down", "standby", "mine", "persist", "harvest", "ingest", "sleep"}]
      /\ UNCHANGED <<downs, failures>>
  BY DEF TypeOK, Start, Lead, HarvestFails, Wake, Request
<1>3. TypeOK' BY <1>1, <1>2 DEF TypeOK, fileVars, loopVars
<1>4. \A q \in Processes : writing[q] # None /\ ~Ingests(q)' => ~Ingests(q)
  BY <1>1 DEF Start, Lead, HarvestFails, Wake, Request, Ingests, loopVars, TypeOK
<1>5. ListsInv' BY <1>1 DEF ListsInv, loopVars
<1>6. HeldInv' BY <1>1 DEF HeldInv, fileVars, loopVars
<1>7. DeferInv'
  <2>. SUFFICES ASSUME NEW q \in Processes, writing'[q] # None, ~Ingests(q)',
                       NEW i \in 1 .. Len(todo[q])
                PROVE  Defers(todo[q][i])
    BY <1>1 DEF DeferInv, loopVars, Defers
  <2>. QED BY <1>1, <1>4 DEF DeferInv, loopVars
<1>8. DraftsWhole' BY <1>1 DEF DraftsWhole, fileVars
<1>. QED BY <1>3, <1>5, <1>6, <1>7, <1>8

\* A stage starts on a list.
LEMMA BeginKeeps ==
    ASSUME IInv, NEW p \in Processes, Mine(p) \/ Harvest(p) \/ Serve(p)
    PROVE  IInv'
<1>. USE DEF IInv
<1>1. PICK list \in Mined \cup Harvested, stage \in Stages :
         /\ writing[p] = None
         /\ writing' = [writing EXCEPT ![p] = stage]
         /\ step' = [step EXCEPT ![p] = "open"]
         /\ todo' = [todo EXCEPT ![p] = list]
         /\ list \in Mined \/ (stage = "worker" /\ worker'[p] = "ingest")
  BY DEF Mine, Harvest, Serve, Write, Stages, TypeOK
<1>2. /\ UNCHANGED <<fileVars, lock, request, downs, failures>>
      /\ \A q \in Processes \ {p} : worker'[q] = worker[q]
      /\ worker' \in [Processes -> {"down", "standby", "mine", "persist", "harvest", "ingest", "sleep"}]
  BY DEF Mine, Harvest, Serve, TypeOK
<1>3. ListsInv' BY <1>1, ListsAreCandidates DEF ListsInv
<1>4. TypeOK'
  <2>1. \A q \in Processes : Range(todo'[q]) \subseteq Entries
    BY <1>3, ListsAreTyped DEF ListsInv
  <2>. QED BY <1>1, <1>2, <2>1 DEF TypeOK, fileVars
<1>5. HeldInv' BY <1>1, <1>2 DEF HeldInv, fileVars, TypeOK, ListsInv
<1>6. DeferInv'
  <2>. SUFFICES ASSUME NEW q \in Processes, writing'[q] # None, ~Ingests(q)',
                       NEW i \in 1 .. Len(todo'[q])
                PROVE  Defers(todo'[q][i])
    BY DEF DeferInv, Defers
  <2>1. CASE q = p
    BY <1>1, <2>1, ListsAreCandidates DEF Ingests, TypeOK, ListsInv
  <2>2. CASE q # p
    <3>1. writing[q] # None /\ ~Ingests(q) /\ todo'[q] = todo[q]
      BY <1>1, <1>2, <2>2 DEF Ingests, TypeOK, ListsInv
    <3>. QED BY <3>1 DEF DeferInv
  <2>. QED BY <2>1, <2>2
<1>7. DraftsWhole' BY <1>2 DEF DraftsWhole, fileVars
<1>. QED BY <1>3, <1>4, <1>5, <1>6, <1>7

\* The temporary is opened and written.
LEMMA WriteKeeps ==
    ASSUME IInv, NEW p \in Processes, Open(p) \/ Fill(p)
    PROVE  IInv'
<1>. USE DEF IInv
<1>1. /\ UNCHANGED <<drafts, lock, worker, request, writing, todo, downs, failures>>
      /\ writing[p] # None /\ todo[p] # <<>>
  BY DEF Open, Fill, HeldInv
<1>2. PICK x \in {Partial, Head(todo[p])}, to \in {"fill", "replace"} :
         /\ temp' = [temp EXCEPT ![p][Head(todo[p]).id] = x]
         /\ step' = [step EXCEPT ![p] = to]
         /\ to = "replace" => x = Head(todo[p])
  BY DEF Open, Fill
<1>3. Head(todo[p]) \in Entries /\ Head(todo[p]).id \in Ids
  BY <1>1, HeadIsCandidate
<1>4. TypeOK' BY <1>1, <1>2, <1>3 DEF TypeOK
<1>5. ListsInv' BY <1>1 DEF ListsInv
<1>6. HeldInv'
  <2>1. \A q \in Processes \ {p} : temp'[q] = temp[q] /\ step'[q] = step[q]
    BY <1>2 DEF TypeOK
  <2>2. step'[p] = "replace" => temp'[p][Head(todo[p]).id] = Head(todo[p])
    BY <1>2, <1>3 DEF TypeOK
  <2>. QED BY <1>1, <2>1, <2>2 DEF HeldInv
<1>7. DeferInv' BY <1>1 DEF DeferInv, Ingests, Defers
<1>8. DraftsWhole' BY <1>1 DEF DraftsWhole
<1>. QED BY <1>4, <1>5, <1>6, <1>7, <1>8

\* The temporary becomes the draft: it is the process's own, so it is whole.
LEMMA ReplaceKeeps ==
    ASSUME IInv, NEW p \in Processes, Replace(p)
    PROVE  IInv'
<1>. USE DEF IInv
<1>. DEFINE x == Head(todo[p])
<1>1. step[p] = "replace" /\ writing[p] # None /\ todo[p] # <<>> /\ temp[p][x.id] = x
  BY DEF Replace, HeldInv
<1>2. x \in Entries /\ x.id \in Ids /\ Tail(todo[p]) \in Seq(Candidate)
  BY <1>1, HeadIsCandidate
<1>3. /\ drafts' = [drafts EXCEPT ![x.id] = x]
      /\ temp' = [temp EXCEPT ![p][x.id] = None]
      /\ step' = [step EXCEPT ![p] = "open"]
      /\ todo' = [todo EXCEPT ![p] = Tail(todo[p])]
      /\ UNCHANGED <<lock, worker, request, writing, downs, failures>>
  BY <1>1 DEF Replace
<1>. HIDE DEF x
<1>4. ListsInv' BY <1>2, <1>3 DEF ListsInv
<1>5. TypeOK'
  <2>1. \A q \in Processes : Range(todo'[q]) \subseteq Entries
    BY <1>4, ListsAreTyped DEF ListsInv
  <2>. QED BY <1>2, <1>3, <2>1 DEF TypeOK
<1>6. HeldInv' BY <1>3 DEF HeldInv, TypeOK, ListsInv
<1>7. DeferInv'
  <2>. SUFFICES ASSUME NEW q \in Processes, writing'[q] # None, ~Ingests(q)',
                       NEW i \in 1 .. Len(todo'[q])
                PROVE  Defers(todo'[q][i])
    BY DEF DeferInv, Defers
  <2>1. writing[q] # None /\ ~Ingests(q) BY <1>3 DEF Ingests
  <2>2. CASE q = p
    <3>1. todo'[q] = Tail(todo[p]) BY <1>3, <2>2 DEF ListsInv
    <3>2. i + 1 \in 1 .. Len(todo[p]) /\ todo'[q][i] = todo[p][i + 1]
      BY <1>1, <3>1, HeadIsCandidate
    <3>. QED BY <2>1, <2>2, <3>2 DEF DeferInv
  <2>3. CASE q # p
    BY <1>3, <2>1, <2>3 DEF DeferInv, ListsInv
  <2>. QED BY <2>2, <2>3
<1>8. DraftsWhole' BY <1>2, <1>3 DEF DraftsWhole, TypeOK
<1>. QED BY <1>4, <1>5, <1>6, <1>7, <1>8

\* The list ends, or is given up.
LEMMA EndKeeps ==
    ASSUME IInv, NEW p \in Processes, Finish(p) \/ WriteFails(p) \/ Down(p)
    PROVE  IInv'
<1>. USE DEF IInv
<1>1. /\ writing' = [writing EXCEPT ![p] = None]
      /\ step' = [step EXCEPT ![p] = "open"]
      /\ todo' = [todo EXCEPT ![p] = <<>>]
      /\ UNCHANGED fileVars
      /\ \A q \in Processes \ {p} : worker'[q] = worker[q]
  BY DEF Finish, WriteFails, Down, Leave, TypeOK
<1>2. /\ lock' \in Processes \cup {None}
      /\ request' \in [Processes -> BOOLEAN]
      /\ worker' \in [Processes -> {"down", "standby", "mine", "persist", "harvest", "ingest", "sleep"}]
  BY DEF TypeOK, Finish, WriteFails, Down, Leave
<1>3. downs' \in 0 .. MaxDowns /\ failures' \in 0 .. MaxFailures
  BY BoundsAssumption DEF TypeOK, Finish, WriteFails, Down, Leave
<1>4. ListsInv' BY <1>1 DEF ListsInv
<1>5. TypeOK'
  <2>1. \A q \in Processes : Range(todo'[q]) \subseteq Entries
    BY <1>4, ListsAreTyped DEF ListsInv
  <2>. QED BY <1>1, <1>2, <1>3, <2>1 DEF TypeOK, fileVars
<1>6. HeldInv' BY <1>1 DEF HeldInv, TypeOK, ListsInv, fileVars
<1>7. DeferInv' BY <1>1 DEF DeferInv, Ingests, Defers, TypeOK, ListsInv
<1>8. DraftsWhole' BY <1>1 DEF DraftsWhole, fileVars
<1>. QED BY <1>4, <1>5, <1>6, <1>7, <1>8

LEMMA Inductive == IInv /\ [Next]_vars => IInv'
<1>. SUFFICES ASSUME IInv, [Next]_vars PROVE IInv' OBVIOUS
<1>1. ASSUME NEW p \in Processes, Work(p) \/ Request(p) \/ Down(p) PROVE IInv'
  BY <1>1, WaitKeeps, BeginKeeps, WriteKeeps, ReplaceKeeps, EndKeeps DEF Work
<1>2. ASSUME NEW i \in Ids, RemoveDraft(i) PROVE IInv'
  <2>. USE <1>2 DEF IInv, RemoveDraft, loopVars
  <2>1. TypeOK' BY DEF TypeOK
  <2>2. ListsInv' /\ HeldInv' BY DEF ListsInv, HeldInv
  <2>3. DeferInv' BY DEF DeferInv, Ingests, Defers
  <2>4. DraftsWhole' BY DEF DraftsWhole, TypeOK
  <2>. QED BY <2>1, <2>2, <2>3, <2>4
<1>3. CASE UNCHANGED vars
  BY <1>3 DEF vars, fileVars, loopVars, IInv, TypeOK, ListsInv, HeldInv, DeferInv,
              Ingests, Defers, DraftsWhole
<1>. QED BY <1>1, <1>2, <1>3 DEF Next

LEMMA Invariance == Spec => []IInv
  BY InitInv, Inductive, PTL DEF Spec

(***************************************************************************)
(* The variables keep their types, and what a process has yet to write is  *)
(* a list of entries that carry an id.                                     *)
(***************************************************************************)
THEOREM TypeCorrect == Spec => [](TypeOK /\ ListsInv)
<1>1. IInv => TypeOK /\ ListsInv BY DEF IInv
<1>. QED BY <1>1, Invariance, PTL

(***************************************************************************)
(* Readers meet whole drafts under their own ids, whichever processes      *)
(* write them, die or fail: what is renamed is a process's own temporary,  *)
(* written to its end (os.replace in mine_and_verify_all).                 *)
(***************************************************************************)
THEOREM DraftsAreWhole == Spec => []DraftsWhole
  BY Invariance, PTL DEF IInv

(***************************************************************************)
(* Mining keeps the seeds: a candidate with a seed's id has its release,   *)
(* and of a release the seed is the candidate (mine_and_verify_all).       *)
(***************************************************************************)
THEOREM SeedsStay == Spec => SeedsStayUnderMining
<1>. DEFINE Kept(i) ==
        drafts[i] \in Range(Seeds) /\ drafts'[i] \notin Range(Seeds) \cup {None} =>
            \E p \in Processes : writing[p] = "worker" /\ worker[p] = "ingest"
<1>1. ASSUME IInv, Next, NEW i \in Ids PROVE Kept(i)
  <2>. SUFFICES ASSUME drafts[i] \in Range(Seeds),
                       drafts'[i] \notin Range(Seeds) \cup {None}
                PROVE  \E p \in Processes : Ingests(p)
    BY DEF Ingests
  <2>. USE <1>1 DEF IInv
  <2>1. PICK p \in Processes : Replace(p)
    BY DEF Next, Work, Start, Lead, Mine, Harvest, HarvestFails, Wake, Serve, Open, Fill,
           Finish, WriteFails, Request, Down, RemoveDraft, TypeOK, fileVars
  <2>. DEFINE x == Head(todo[p])
  <2>2. writing[p] # None /\ todo[p] # <<>> /\ temp[p][x.id] = x
    BY <2>1 DEF Replace, HeldInv
  <2>3. x \in Entries /\ x.id \in Ids /\ x = todo[p][1] /\ 1 \in 1 .. Len(todo[p])
    BY <2>2, HeadIsCandidate
  <2>4. drafts' = [drafts EXCEPT ![x.id] = x] BY <2>1, <2>2 DEF Replace
  <2>. HIDE DEF x
  <2>5. x.id = i /\ x \notin Range(Seeds) BY <2>4 DEF TypeOK
  <2>6. drafts[i].id = i /\ i # None
    BY EntriesAssumption DEF DraftsWhole, Ids, Entries
  <2>7. drafts[i].key = x.key BY <2>3, <2>5, <2>6, KeysAssumption
  <2>8. ~Defers(x) BY <2>5, <2>7 DEF Defers
  <2>. QED BY <2>2, <2>3, <2>8 DEF DeferInv
<1>2. IInv /\ [Next]_vars => [\A i \in Ids : Kept(i)]_vars BY <1>1
<1>. QED BY <1>2, Invariance, PTL DEF SeedsStayUnderMining, Spec
=============================================================================
