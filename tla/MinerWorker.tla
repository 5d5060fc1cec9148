---------------------------- MODULE MinerWorker ----------------------------
(***************************************************************************)
(* The background worker of the server processes (app/main.py,             *)
(* autonomous_mining_worker) and what it runs: the mining cycle of         *)
(* app/core/upstream_miner.py (mine_and_verify_all) and the harvester of   *)
(* scripts/github_harvester.py, both of which write draft files.  One      *)
(* process leads, by a lock on a file; the others retry.  The endpoint     *)
(* POST /api/v1/miner/run starts the same cycle in any process, without    *)
(* the lock.                                                               *)
(*                                                                         *)
(* Each process is an event loop: its worker and its endpoint interleave   *)
(* where they await and nowhere else, so a process is in at most one       *)
(* stretch of writing.  Other processes, a kill or an operator come in     *)
(* between any two steps.  A process name stands for a pid, and one that   *)
(* is restarted gets the same again, as the container's first process      *)
(* does.                                                                   *)
(***************************************************************************)
EXTENDS Integers, Sequences, FiniteSets, Functions

CONSTANTS
    Processes,
    Seeds,       \* get_seed_changelogs, in order
    Feed,        \* what the registries and feeds may answer, in order
    Releases,    \* what the harvester may be answered, in order
    None,
    Partial,     \* a file opened for writing and not yet written to its end
    MaxDowns,    \* bound on the times a process goes down
    MaxFailures  \* bound on the writes that fail

\* key: package, version and runtime, as written; id: the bundle id that
\* synthesize_bundle gives the entry, None when it refuses it.
Entries == Range(Seeds) \cup Range(Feed) \cup Range(Releases)
Ids == {e.id : e \in Entries} \ {None}

ASSUME EntriesAssumption ==
    /\ Seeds \in Seq(Entries) /\ Feed \in Seq(Entries) /\ Releases \in Seq(Entries)
    /\ None \notin Entries /\ Partial \notin Entries
    /\ Range(Seeds) \cap (Range(Feed) \cup Range(Releases)) = {}

ASSUME BoundsAssumption == MaxDowns \in Nat /\ MaxFailures \in Nat

\* The id is made of the package, the version and the error signature found in the
\* notes: the entries of one key may have several ids.  What has a seed's id has
\* the seed's key.  (The code compares keys before it strips the version: variants
\* in white space are left out.)
ASSUME KeysAssumption ==
    \A e \in Range(Seeds), f \in Entries : e.id # None /\ e.id = f.id => e.key = f.key

Stages == {"worker", "endpoint"}

VARIABLES
    drafts,  \* bundles/drafts/<id>.json
    temp,    \* each process's .<id>.<pid>.tmp
    lock,    \* the process that holds the lock file
    worker,  \* each process's worker
    request, \* whether its endpoint is gathering
    writing, \* the stage that writes, None when the loop is free
    step,    \* ... where it is with the first of its candidates
    todo,    \* ... and the candidates left to write
    downs, failures

fileVars == <<drafts, temp>>
loopVars == <<writing, step, todo>>
vars == <<fileVars, lock, worker, request, loopVars, downs, failures>>

TypeOK ==
    /\ drafts \in [Ids -> Entries \cup {None, Partial}]
    /\ temp \in [Processes -> [Ids -> Entries \cup {None, Partial}]]
    /\ lock \in Processes \cup {None}
    /\ worker \in [Processes -> {"down", "standby", "mine", "persist", "harvest", "ingest", "sleep"}]
    /\ request \in [Processes -> BOOLEAN]
    /\ writing \in [Processes -> Stages \cup {None}]
    /\ step \in [Processes -> {"open", "fill", "replace"}]
    /\ \A p \in Processes : Range(todo[p]) \subseteq Entries
    /\ downs \in 0 .. MaxDowns
    /\ failures \in 0 .. MaxFailures

Init ==
    /\ drafts = [i \in Ids |-> None]
    /\ temp = [p \in Processes |-> [i \in Ids |-> None]]
    /\ lock = None
    /\ worker = [p \in Processes |-> "down"]
    /\ request = [p \in Processes |-> FALSE]
    /\ writing = [p \in Processes |-> None]
    /\ step = [p \in Processes |-> "open"]
    /\ todo = [p \in Processes |-> <<>>]
    /\ downs = 0 /\ failures = 0

-----------------------------------------------------------------------------
(***************************************************************************)
(* The candidates of a cycle.                                              *)
(***************************************************************************)

\* What a sequence has at some of its positions, in order.
At(s, positions) ==
    [i \in 1 .. Cardinality(positions) |->
        s[CHOOSE j \in positions : Cardinality({k \in positions : k <= j}) = i]]

\* Fetches fail one by one (their errors are swallowed): some of the answers, in
\* order.
Answers(feed) == {At(feed, S) : S \in SUBSET DOMAIN feed}

Synthesized(entries) == At(entries, {i \in DOMAIN entries : entries[i].id # None})

\* Mutation: unique_entries[key] = entry, the last entry of a key stays.
UniqueLast(entries) ==
    [i \in DOMAIN entries |->
        LET same == {j \in DOMAIN entries : entries[j].key = entries[i].key}
        IN  entries[CHOOSE j \in same : \A k \in same : k <= j]]

\* unique_entries.setdefault: the first entry of a key stays, seeds come first.
Unique(entries) ==
    At(entries, {i \in DOMAIN entries :
                    \A j \in 1 .. (i - 1) : entries[j].key # entries[i].key})

Candidates(fetched) == Synthesized(Unique(Seeds \o fetched))

\* What a mining cycle, and the harvester, may have to write.
Mined == {Candidates(fetched) : fetched \in Answers(Feed)}
Harvested == {Synthesized(fetched) : fetched \in Answers(Releases)}

-----------------------------------------------------------------------------
(***************************************************************************)
(* The life of a process and of its worker.                                *)
(***************************************************************************)

\* lifespan: the process starts, its worker after a grace period.
Start(p) ==
    /\ worker[p] = "down"
    /\ worker' = [worker EXCEPT ![p] = "standby"]
    /\ UNCHANGED <<fileVars, lock, request, loopVars, downs, failures>>

\* LOCK_EX | LOCK_NB succeeds.  When it does not, the worker sleeps a minute and
\* is where it was.
Lead(p) ==
    /\ worker[p] = "standby" /\ writing[p] = None
    /\ lock = None
    /\ lock' = p
    /\ worker' = [worker EXCEPT ![p] = "mine"]
    /\ UNCHANGED <<fileVars, request, loopVars, downs, failures>>

\* From here to the end of the list there is no await.
Write(p, stage, list) ==
    /\ writing[p] = None
    /\ writing' = [writing EXCEPT ![p] = stage]
    /\ step' = [step EXCEPT ![p] = "open"]
    /\ todo' = [todo EXCEPT ![p] = list]

\* mine_and_verify_all by the worker: all fetches have answered.
Mine(p) ==
    /\ worker[p] = "mine"
    /\ \E list \in Mined : Write(p, "worker", list)
    /\ worker' = [worker EXCEPT ![p] = "persist"]
    /\ UNCHANGED <<fileVars, lock, request, downs, failures>>

\* harvest_and_ingest: at most 24 entries, and no seed among them.
Harvest(p) ==
    /\ worker[p] = "harvest"
    /\ \E list \in Harvested : Write(p, "worker", list)
    /\ worker' = [worker EXCEPT ![p] = "ingest"]
    /\ UNCHANGED <<fileVars, lock, request, downs, failures>>

\* init_db or a fetch raises: the cycle goes to sleep without a harvest.
HarvestFails(p) ==
    /\ worker[p] = "harvest" /\ writing[p] = None
    /\ worker' = [worker EXCEPT ![p] = "sleep"]
    /\ UNCHANGED <<fileVars, lock, request, loopVars, downs, failures>>

Wake(p) ==
    /\ worker[p] = "sleep" /\ writing[p] = None
    /\ worker' = [worker EXCEPT ![p] = "mine"]
    /\ UNCHANGED <<fileVars, lock, request, loopVars, downs, failures>>

\* POST /api/v1/miner/run?persist=true, in any process that is up.
Request(p) ==
    /\ worker[p] # "down" /\ writing[p] = None
    /\ ~request[p]
    /\ request' = [request EXCEPT ![p] = TRUE]
    /\ UNCHANGED <<fileVars, lock, worker, loopVars, downs, failures>>

Serve(p) ==
    /\ request[p]
    /\ \E list \in Mined : Write(p, "endpoint", list)
    /\ UNCHANGED <<fileVars, lock, worker, request, downs, failures>>

-----------------------------------------------------------------------------
(***************************************************************************)
(* Writing one list of candidates.                                         *)
(***************************************************************************)

\* Mutation: the draft itself is opened and written.
OpenInPlace(p) ==
    /\ writing[p] # None /\ todo[p] # <<>> /\ step[p] = "open"
    /\ drafts' = [drafts EXCEPT ![Head(todo[p]).id] = Partial]
    /\ temp' = [temp EXCEPT ![p][Head(todo[p]).id] = Partial]
    /\ step' = [step EXCEPT ![p] = "fill"]
    /\ UNCHANGED <<lock, worker, request, writing, todo, downs, failures>>

\* temp_path.write_text opens the file, truncating what a dead run left there ...
Open(p) ==
    /\ writing[p] # None /\ todo[p] # <<>> /\ step[p] = "open"
    /\ temp' = [temp EXCEPT ![p][Head(todo[p]).id] = Partial]
    /\ step' = [step EXCEPT ![p] = "fill"]
    /\ UNCHANGED <<drafts, lock, worker, request, writing, todo, downs, failures>>

\* ... and writes it.
Fill(p) ==
    /\ step[p] = "fill"
    /\ temp' = [temp EXCEPT ![p][Head(todo[p]).id] = Head(todo[p])]
    /\ step' = [step EXCEPT ![p] = "replace"]
    /\ UNCHANGED <<drafts, lock, worker, request, writing, todo, downs, failures>>

\* os.replace(temp_path, out_path).
Replace(p) ==
    /\ step[p] = "replace"
    /\ LET i == Head(todo[p]).id
       IN  /\ drafts' = [drafts EXCEPT ![i] = temp[p][i]]
           /\ temp' = [temp EXCEPT ![p][i] = None]
    /\ step' = [step EXCEPT ![p] = "open"]
    /\ todo' = [todo EXCEPT ![p] = Tail(@)]
    /\ UNCHANGED <<lock, worker, request, writing, downs, failures>>

\* The list ends, or is abandoned: the stage goes on.
Leave(p) ==
    /\ writing' = [writing EXCEPT ![p] = None]
    /\ step' = [step EXCEPT ![p] = "open"]
    /\ todo' = [todo EXCEPT ![p] = <<>>]
    /\ IF writing[p] = "endpoint"
       THEN request' = [request EXCEPT ![p] = FALSE] /\ UNCHANGED worker
       ELSE /\ worker' = [worker EXCEPT ![p] = IF @ = "persist" THEN "harvest" ELSE "sleep"]
            /\ UNCHANGED request

Finish(p) ==
    /\ writing[p] # None /\ todo[p] = <<>>
    /\ Leave(p)
    /\ UNCHANGED <<fileVars, lock, downs, failures>>

\* Mutation: the error sends the worker back to the election, its lock still held.
WriteFailsReelects(p) ==
    /\ writing[p] # None /\ todo[p] # <<>>
    /\ failures < MaxFailures
    /\ failures' = failures + 1
    /\ writing' = [writing EXCEPT ![p] = None]
    /\ step' = [step EXCEPT ![p] = "open"]
    /\ todo' = [todo EXCEPT ![p] = <<>>]
    /\ IF writing[p] = "endpoint"
       THEN request' = [request EXCEPT ![p] = FALSE] /\ UNCHANGED worker
       ELSE worker' = [worker EXCEPT ![p] = "standby"] /\ UNCHANGED request
    /\ UNCHANGED <<fileVars, lock, downs>>

\* A write or a rename raises: the rest of the list is skipped with a warning, and
\* a temporary file is left as it is.
WriteFails(p) ==
    /\ writing[p] # None /\ todo[p] # <<>>
    /\ failures < MaxFailures
    /\ failures' = failures + 1
    /\ Leave(p)
    /\ UNCHANGED <<fileVars, lock, downs>>

-----------------------------------------------------------------------------
(***************************************************************************)
(* Faults and operators.                                                   *)
(***************************************************************************)

\* The process is killed, anywhere; or it shuts down and cancels its worker, which
\* it can where the worker awaits.  The lock goes with the file handle.
Down(p) ==
    /\ worker[p] # "down"
    /\ downs < MaxDowns
    /\ downs' = downs + 1
    /\ worker' = [worker EXCEPT ![p] = "down"]
    /\ request' = [request EXCEPT ![p] = FALSE]
    /\ writing' = [writing EXCEPT ![p] = None]
    /\ step' = [step EXCEPT ![p] = "open"]
    /\ todo' = [todo EXCEPT ![p] = <<>>]
    /\ lock' = IF lock = p THEN None ELSE lock
    /\ UNCHANGED <<fileVars, failures>>

\* An operator removes a draft.
RemoveDraft(i) ==
    /\ drafts[i] # None
    /\ drafts' = [drafts EXCEPT ![i] = None]
    /\ UNCHANGED <<temp, lock, worker, request, loopVars, downs, failures>>

Work(p) ==
    \/ Start(p) \/ Lead(p) \/ Mine(p) \/ Harvest(p) \/ HarvestFails(p) \/ Wake(p)
    \/ Serve(p) \/ Open(p) \/ Fill(p) \/ Replace(p) \/ Finish(p) \/ WriteFails(p)

Next ==
    \/ \E p \in Processes : Work(p) \/ Request(p) \/ Down(p)
    \/ \E i \in Ids : RemoveDraft(i)

Spec == Init /\ [][Next]_vars
(***************************************************************************)
(* The loop of a process that is up keeps running, the container restarts  *)
(* a process that went down (restart: unless-stopped), and the worker's    *)
(* sleeps end.  Requests, faults and operators are not promised.           *)
(***************************************************************************)
Fairness == \A p \in Processes : WF_vars(Work(p))

FairSpec == Spec /\ Fairness

-----------------------------------------------------------------------------
(***************************************************************************)
(* Readers never see a part of a draft nor a draft under another's name,   *)
(* whichever processes write the same drafts at once, are killed in the    *)
(* middle or start over the temporary files of a dead run: what the        *)
(* registry's loaders and the pipeline's Rewrite rely on.                  *)
(***************************************************************************)
DraftsWhole == \A i \in Ids : drafts[i] # None => drafts[i] \in Entries /\ drafts[i].id = i

(***************************************************************************)
(* "Stable de-duplication keeps repository-owned seeds authoritative"      *)
(* (mine_and_verify_all): no mining cycle, of a leader or of a request, in *)
(* one process or in several, replaces a seed's draft by what a feed says  *)
(* of the same release.  Only the harvester, which does not look at the    *)
(* seeds, does.                                                            *)
(***************************************************************************)
SeedsStayUnderMining ==
    [][\A i \in Ids :
          drafts[i] \in Range(Seeds) /\ drafts'[i] \notin Range(Seeds) \cup {None} =>
              \E p \in Processes : writing[p] = "worker" /\ worker[p] = "ingest"]_vars

(***************************************************************************)
(* The maintenance never stops for good: the draft of a seed that is       *)
(* missing comes back, although leaders die with the lock, standbys only   *)
(* retry, and a failing write abandons the rest of a cycle.                *)
(***************************************************************************)
SeedsReturn ==
    \A i \in {e.id : e \in Range(Seeds)} : drafts[i] = None ~> drafts[i] # None
=============================================================================
