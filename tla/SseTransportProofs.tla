------------------------- MODULE SseTransportProofs -------------------------
(***************************************************************************)
(* Proofs about SseTransport: its type and the two safety invariants, for  *)
(* any sessions, posts and capacities.                                     *)
(***************************************************************************)
EXTENDS SseTransport, FiniteSetTheorems, TLAPS

\* The posts that hold a slot.
Dispatching == {p \in Posts : pc[p] = "dispatch"}

\* The variables' types, with any integer for the free slots: that they are
\* between 0 and MaxSlots follows from SlotsAccounted.
Shape ==
    /\ registered \subseteq Sessions
    /\ stream \in [Sessions -> StreamStates]
    /\ queue \in [Sessions -> Seq(Posts)]
    /\ line \in [Sessions -> Seq(Posts)]
    /\ free \in Nat
    /\ pc \in [Posts -> {"idle", "line", "slot", "dispatch"}]
    /\ to \in [Posts -> Sessions \cup {Direct}]

(***************************************************************************)
(* A post past the lock is the first in its session's line: the lock is    *)
(* held from the look at the queue to the answer put into it.  That is all *)
(* RoomIsReserved needs: nobody else adds to the queue meanwhile.          *)
(***************************************************************************)
HolderIsFirst ==
    \A p \in Posts :
        pc[p] \in {"slot", "dispatch"} /\ to[p] # Direct => HoldsLock(p)

\* A post that waits for a lock waits in the line of a session.
WaiterHasSession == \A p \in Posts : pc[p] = "line" => to[p] \in Sessions

IInv ==
    /\ Shape
    /\ HolderIsFirst
    /\ WaiterHasSession
    /\ RoomIsReserved
    /\ SlotsAccounted

\* The capacities are positive and the direct answer is no session
\* (CapacityAssumption, unfolded once).
LEMMA Capacities ==
    /\ MaxSessions \in Nat /\ QueueSize \in Nat /\ MaxSlots \in Nat
    /\ QueueSize > 0
    /\ Direct \notin Sessions
    /\ IsFiniteSet(Posts)
  BY CapacityAssumption

\* SlotsAccounted by the name of its set.
LEMMA SlotsByName == SlotsAccounted <=> free + Cardinality(Dispatching) = MaxSlots
  BY DEF SlotsAccounted, Dispatching

LEMMA InitInv == Init => IInv
<1> SUFFICES ASSUME Init PROVE IInv
  OBVIOUS
<1>1. Shape
  BY Capacities DEF Init, Shape, StreamStates
<1>2. HolderIsFirst /\ WaiterHasSession /\ RoomIsReserved
  BY DEF Init, HolderIsFirst, WaiterHasSession, RoomIsReserved
<1>3. SlotsAccounted
  <2>1. Dispatching = {}
    BY DEF Init, Dispatching
  <2>2. Cardinality(Dispatching) = 0
    BY <2>1, FS_EmptySet
  <2>3. free + Cardinality(Dispatching) = MaxSlots
    BY <2>2, Capacities DEF Init
  <2> QED
    BY <2>3, SlotsByName
<1> QED
  BY <1>1, <1>2, <1>3 DEF IInv

(***************************************************************************)
(* Every step keeps the types.                                             *)
(***************************************************************************)
LEMMA ShapeStep == IInv /\ [Next]_vars => Shape'
<1> SUFFICES ASSUME IInv, [Next]_vars PROVE Shape'
  OBVIOUS
<1>0. Shape /\ HolderIsFirst /\ WaiterHasSession
  BY DEF IInv
<1>. USE <1>0 DEF Shape, StreamStates
<1>1. CASE UNCHANGED vars
  BY <1>1 DEF vars
<1>2. ASSUME NEW s \in Sessions, Open(s) \/ StreamStep(s) \/ PostEvict(s)
      PROVE  Shape'
  <2>1. CASE Open(s)
    BY <2>1 DEF Open
  <2>2. CASE StartStream(s) \/ AbandonStart(s)
    BY <2>2 DEF StartStream, AbandonStart
  <2>3. CASE Deliver(s)
    <3>1. Tail(queue[s]) \in Seq(Posts)
      BY <2>3 DEF Deliver
    <3> QED
      BY <2>3, <3>1 DEF Deliver
  <2>4. CASE EndStream(s) \/ PostEvict(s)
    BY <2>4 DEF EndStream, PostEvict
  <2> QED
    BY <1>2, <2>1, <2>2, <2>3, <2>4 DEF StreamStep
<1>3. ASSUME NEW p \in Posts, NEW s \in Sessions, Post(p, s)
      PROVE  Shape'
  BY <1>3 DEF Post, sessionVars
<1>4. ASSUME NEW p \in Posts, NEW s \in Sessions, PostWait(p, s)
      PROVE  Shape'
  BY <1>4 DEF PostWait, sessionVars
<1>5. ASSUME NEW p \in Posts, PostDirect(p)
      PROVE  Shape'
  BY <1>5 DEF PostDirect, sessionVars
<1>6. ASSUME NEW p \in Posts, Enter(p) \/ TakeSlot(p)
      PROVE  Shape'
  <2>1. CASE Enter(p)
    BY <2>1 DEF Enter, sessionVars
  <2>2. CASE TakeSlot(p)
    <3>1. free' \in Nat
      BY <2>2 DEF TakeSlot
    <3> QED
      BY <2>2, <3>1 DEF TakeSlot, sessionVars
  <2> QED
    BY <1>6, <2>1, <2>2
<1>7. ASSUME NEW p \in Posts, Evict(p) \/ SlotTimeout(p) \/ RejectBody(p) \/ Finish(p)
      PROVE  Shape'
  <2>1. to[p] # Direct => line[to[p]] # <<>>
    BY <1>7 DEF Evict, SlotTimeout, RejectBody, Finish, HolderIsFirst, HoldsLock
  <2>2. /\ line' \in [Sessions -> Seq(Posts)]
        /\ pc' \in [Posts -> {"idle", "line", "slot", "dispatch"}]
        /\ to' \in [Posts -> Sessions \cup {Direct}]
    <3>1. Leave(p)
      BY <1>7 DEF Evict, SlotTimeout, RejectBody, Finish
    <3>2. CASE to[p] = Direct
      BY <3>1, <3>2 DEF Leave
    <3>3. CASE to[p] \in Sessions
      <4>1. Tail(line[to[p]]) \in Seq(Posts)
        BY <2>1, <3>3, Capacities
      <4> QED
        BY <3>1, <3>3, <4>1, Capacities DEF Leave
    <3> QED
      BY <3>2, <3>3
  <2>3. CASE Evict(p) \/ SlotTimeout(p) \/ RejectBody(p)
    BY <2>2, <2>3 DEF Evict, SlotTimeout, RejectBody, sessionVars
  <2>4. CASE Finish(p)
    BY <2>2, <2>4 DEF Finish
  <2> QED
    BY <1>7, <2>3, <2>4
<1> QED
  BY <1>1, <1>2, <1>3, <1>4, <1>5, <1>6, <1>7 DEF Next, PostStep

-----------------------------------------------------------------------------
(***************************************************************************)
(* Who is past a lock stays first in its line until it leaves: nobody but  *)
(* the holder shortens a line, and a post joins at the end.                *)
(***************************************************************************)
LEMMA HolderStep == IInv /\ [Next]_vars => HolderIsFirst'
<1> SUFFICES ASSUME IInv, [Next]_vars, NEW q \in Posts,
                    pc'[q] \in {"slot", "dispatch"}, to'[q] # Direct
             PROVE  HoldsLock(q)'
  BY DEF HolderIsFirst
<1>0. Shape /\ HolderIsFirst /\ WaiterHasSession
  BY DEF IInv
<1>. USE <1>0, Capacities DEF Shape, HolderIsFirst, WaiterHasSession, HoldsLock
<1>1. CASE UNCHANGED vars
  BY <1>1 DEF vars
<1>2. ASSUME NEW s \in Sessions, Open(s) \/ StreamStep(s) \/ PostEvict(s)
      PROVE  HoldsLock(q)'
  BY <1>2 DEF Open, StreamStep, StartStream, AbandonStart, Deliver, EndStream, PostEvict
<1>3. ASSUME NEW p \in Posts, NEW s \in Sessions, Post(p, s)
      PROVE  HoldsLock(q)'
  BY <1>3 DEF Post
<1>4. ASSUME NEW p \in Posts, NEW s \in Sessions, PostWait(p, s)
      PROVE  HoldsLock(q)'
  <2>1. pc[q] \in {"slot", "dispatch"} /\ to[q] = to'[q]
    BY <1>4 DEF PostWait
  <2>2. line[to[q]] # <<>> /\ Head(line[to[q]]) = q
    BY <2>1
  <2>3. Append(line[s], p) # <<>> /\ Head(Append(line[s], p)) = Head(line[s])
    BY <1>4 DEF PostWait
  <2> QED
    BY <1>4, <2>1, <2>2, <2>3 DEF PostWait
<1>5. ASSUME NEW p \in Posts, PostDirect(p)
      PROVE  HoldsLock(q)'
  BY <1>5 DEF PostDirect
<1>6. ASSUME NEW p \in Posts, Enter(p) \/ TakeSlot(p)
      PROVE  HoldsLock(q)'
  BY <1>6 DEF Enter, TakeSlot
<1>7. ASSUME NEW p \in Posts, Evict(p) \/ SlotTimeout(p) \/ RejectBody(p) \/ Finish(p)
      PROVE  HoldsLock(q)'
  <2>1. Leave(p) /\ (to[p] # Direct => HoldsLock(p))
    BY <1>7 DEF Evict, SlotTimeout, RejectBody, Finish
  <2>2. q # p /\ pc[q] = pc'[q] /\ to[q] = to'[q]
    BY <2>1 DEF Leave
  <2>3. HoldsLock(q) /\ to[q] # to[p]
    BY <2>1, <2>2
  <2>4. line'[to[q]] = line[to[q]]
    BY <2>1, <2>2, <2>3 DEF Leave
  <2> QED
    BY <2>2, <2>3, <2>4
<1> QED
  BY <1>1, <1>2, <1>3, <1>4, <1>5, <1>6, <1>7 DEF Next, PostStep

\* Only PostWait starts to wait, and it names the session.
LEMMA WaiterStep == IInv /\ [Next]_vars => WaiterHasSession'
<1> SUFFICES ASSUME IInv, [Next]_vars, NEW q \in Posts, pc'[q] = "line"
             PROVE  to'[q] \in Sessions
  BY DEF WaiterHasSession
<1>0. Shape /\ WaiterHasSession
  BY DEF IInv
<1>. USE <1>0 DEF Shape, WaiterHasSession
<1>1. CASE UNCHANGED vars
  BY <1>1 DEF vars
<1>2. ASSUME NEW s \in Sessions, Open(s) \/ StreamStep(s) \/ PostEvict(s)
      PROVE  to'[q] \in Sessions
  BY <1>2 DEF Open, StreamStep, StartStream, AbandonStart, Deliver, EndStream, PostEvict
<1>3. ASSUME NEW p \in Posts, NEW s \in Sessions, Post(p, s) \/ PostWait(p, s)
      PROVE  to'[q] \in Sessions
  <2>1. CASE Post(p, s)
    BY <2>1 DEF Post
  <2>2. CASE PostWait(p, s)
    BY <2>2 DEF PostWait
  <2> QED
    BY <1>3, <2>1, <2>2
<1>4. ASSUME NEW p \in Posts, PostDirect(p) \/ Enter(p) \/ TakeSlot(p)
      PROVE  to'[q] \in Sessions
  BY <1>4 DEF PostDirect, Enter, TakeSlot
<1>5. ASSUME NEW p \in Posts, Evict(p) \/ SlotTimeout(p) \/ RejectBody(p) \/ Finish(p)
      PROVE  to'[q] \in Sessions
  BY <1>5 DEF Evict, SlotTimeout, RejectBody, Finish, Leave
<1> QED
  BY <1>1, <1>2, <1>3, <1>4, <1>5 DEF Next, PostStep

(***************************************************************************)
(* Room once seen stays: an answer is added by the session's lock holder   *)
(* alone, and by then that post has left.                                  *)
(***************************************************************************)
LEMMA RoomStep == IInv /\ [Next]_vars => RoomIsReserved'
<1> SUFFICES ASSUME IInv, [Next]_vars, NEW q \in Posts,
                    pc'[q] \in {"slot", "dispatch"}, to'[q] # Direct
             PROVE  Len(queue'[to'[q]]) < QueueSize
  BY DEF RoomIsReserved
<1>0. Shape /\ HolderIsFirst /\ RoomIsReserved /\ WaiterHasSession
  BY DEF IInv
<1>. USE <1>0, Capacities DEF Shape, RoomIsReserved
<1>1. CASE UNCHANGED vars
  BY <1>1 DEF vars
<1>2. ASSUME NEW s \in Sessions, Open(s)
      PROVE  Len(queue'[to'[q]]) < QueueSize
  BY <1>2 DEF Open
<1>3. ASSUME NEW s \in Sessions, StartStream(s) \/ AbandonStart(s) \/ EndStream(s) \/ PostEvict(s)
      PROVE  Len(queue'[to'[q]]) < QueueSize
  BY <1>3 DEF StartStream, AbandonStart, EndStream, PostEvict
<1>4. ASSUME NEW s \in Sessions, Deliver(s)
      PROVE  Len(queue'[to'[q]]) < QueueSize
  <2>1. Len(Tail(queue[s])) < Len(queue[s]) /\ Len(queue[s]) \in Nat /\ Len(Tail(queue[s])) \in Nat
    BY <1>4 DEF Deliver
  <2>2. Len(queue[to[q]]) < QueueSize /\ to[q] \in Sessions /\ to'[q] = to[q]
    BY <1>4 DEF Deliver
  <2>3. CASE to[q] = s
    BY <1>4, <2>1, <2>2, <2>3 DEF Deliver
  <2>4. CASE to[q] # s
    BY <1>4, <2>2, <2>4 DEF Deliver
  <2> QED
    BY <2>3, <2>4
<1>5. ASSUME NEW p \in Posts, NEW s \in Sessions, Post(p, s) \/ PostWait(p, s)
      PROVE  Len(queue'[to'[q]]) < QueueSize
  BY <1>5 DEF Post, PostWait, sessionVars
<1>6. ASSUME NEW p \in Posts, PostDirect(p) \/ Enter(p) \/ TakeSlot(p)
      PROVE  Len(queue'[to'[q]]) < QueueSize
  BY <1>6 DEF PostDirect, Enter, TakeSlot, sessionVars
<1>7. ASSUME NEW p \in Posts, Evict(p) \/ SlotTimeout(p) \/ RejectBody(p)
      PROVE  Len(queue'[to'[q]]) < QueueSize
  BY <1>7 DEF Evict, SlotTimeout, RejectBody, Leave, sessionVars
<1>8. ASSUME NEW p \in Posts, Finish(p)
      PROVE  Len(queue'[to'[q]]) < QueueSize
  <2>1. q # p /\ pc[q] = pc'[q] /\ to[q] = to'[q]
    BY <1>8 DEF Finish, Leave
  <2>2. to[p] # to[q]
    BY <1>8, <2>1 DEF Finish, HolderIsFirst, HoldsLock
  <2>3. queue'[to[q]] = queue[to[q]]
    BY <1>8, <2>1, <2>2 DEF Finish
  <2> QED
    BY <2>1, <2>3
<1> QED
  BY <1>1, <1>2, <1>3, <1>4, <1>5, <1>6, <1>7, <1>8 DEF Next, PostStep, StreamStep

(***************************************************************************)
(* A slot is taken and given back one at a time, with the post that holds  *)
(* it; every other step leaves both sides alone.                           *)
(***************************************************************************)
LEMMA SlotsStep == IInv /\ [Next]_vars => SlotsAccounted'
<1> SUFFICES ASSUME IInv, [Next]_vars
             PROVE  free' + Cardinality(Dispatching') = MaxSlots
  BY DEF SlotsAccounted, Dispatching
<1>0. Shape /\ free + Cardinality(Dispatching) = MaxSlots
  BY SlotsByName DEF IInv
<1>1. IsFiniteSet(Dispatching) /\ Cardinality(Dispatching) \in Nat
  BY Capacities, FS_Subset, FS_CardinalityType DEF Dispatching
<1>. USE <1>0 DEF Shape
<1>2. CASE Dispatching' = Dispatching /\ free' = free
  BY <1>2
<1>3. ASSUME NEW p \in Posts, TakeSlot(p)
      PROVE  free' + Cardinality(Dispatching') = MaxSlots
  <2>1. Dispatching' = Dispatching \cup {p} /\ p \notin Dispatching
    BY <1>3 DEF TakeSlot, Dispatching
  <2>2. Cardinality(Dispatching') = Cardinality(Dispatching) + 1
    BY <1>1, <2>1, FS_AddElement
  <2> QED
    BY <1>1, <1>3, <2>2, Capacities DEF TakeSlot
<1>4. ASSUME NEW p \in Posts, RejectBody(p) \/ Finish(p)
      PROVE  free' + Cardinality(Dispatching') = MaxSlots
  <2>1. Dispatching' = Dispatching \ {p} /\ p \in Dispatching
    BY <1>4 DEF RejectBody, Finish, Leave, Dispatching
  <2>2. Cardinality(Dispatching') = Cardinality(Dispatching) - 1
    BY <1>1, <2>1, FS_RemoveElement
  <2>3. free' = free + 1
    BY <1>4 DEF RejectBody, Finish
  <2> QED
    BY <1>1, <2>2, <2>3, Capacities
<1>5. CASE UNCHANGED vars
  BY <1>2, <1>5 DEF vars, Dispatching
<1>6. ASSUME NEW s \in Sessions, Open(s) \/ StreamStep(s) \/ PostEvict(s)
      PROVE  free' + Cardinality(Dispatching') = MaxSlots
  BY <1>2, <1>6 DEF Open, StreamStep, StartStream, AbandonStart, Deliver, EndStream,
                    PostEvict, Dispatching
<1>7. ASSUME NEW p \in Posts, NEW s \in Sessions, Post(p, s) \/ PostWait(p, s)
      PROVE  free' + Cardinality(Dispatching') = MaxSlots
  BY <1>2, <1>7 DEF Post, PostWait, Dispatching
<1>8. ASSUME NEW p \in Posts, PostDirect(p) \/ Enter(p) \/ Evict(p) \/ SlotTimeout(p)
      PROVE  free' + Cardinality(Dispatching') = MaxSlots
  BY <1>2, <1>8 DEF PostDirect, Enter, Evict, SlotTimeout, Leave, Dispatching
<1> QED
  BY <1>3, <1>4, <1>5, <1>6, <1>7, <1>8 DEF Next, PostStep

-----------------------------------------------------------------------------
LEMMA InductiveInvariant == Spec => []IInv
<1>1. IInv /\ [Next]_vars => IInv'
  BY ShapeStep, HolderStep, WaiterStep, RoomStep, SlotsStep DEF IInv
<1> QED
  BY InitInv, <1>1, PTL DEF Spec

(***************************************************************************)
(* The types, the range of the free slots included: the semaphore never    *)
(* goes below zero nor above MAX_MCP_CONCURRENT_POSTS.                     *)
(***************************************************************************)
THEOREM TypeCorrect == Spec => []TypeOK
<1>1. IInv => TypeOK
  <2> SUFFICES ASSUME IInv PROVE TypeOK
    OBVIOUS
  <2>1. free + Cardinality(Dispatching) = MaxSlots
    BY SlotsByName DEF IInv
  <2>2. Cardinality(Dispatching) \in Nat
    BY Capacities, FS_Subset, FS_CardinalityType DEF Dispatching
  <2>3. free \in 0 .. MaxSlots
    BY <2>1, <2>2, Capacities DEF IInv, Shape
  <2> QED
    BY <2>3 DEF IInv, Shape, TypeOK
<1> QED
  BY <1>1, InductiveInvariant, PTL

(***************************************************************************)
(* A post that saw room in its session's queue under the lock still finds  *)
(* room when its tool has run: put_nowait never raises.                    *)
(***************************************************************************)
THEOREM RoomHolds == Spec => []RoomIsReserved
<1>1. IInv => RoomIsReserved
  BY DEF IInv
<1> QED
  BY <1>1, InductiveInvariant, PTL

(***************************************************************************)
(* _dispatch_bounded_post neither loses nor mints an execution slot.       *)
(***************************************************************************)
THEOREM SlotsHold == Spec => []SlotsAccounted
<1>1. IInv => SlotsAccounted
  BY DEF IInv
<1> QED
  BY <1>1, InductiveInvariant, PTL
=============================================================================
