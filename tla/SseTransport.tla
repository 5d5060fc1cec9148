---------------------------- MODULE SseTransport ----------------------------
(***************************************************************************)
(* The legacy SSE transport of app/mcp/server.py: handle_mcp_get opens a   *)
(* session with a bounded queue and a lock, handle_mcp_messages posts to   *)
(* it, _dispatch_bounded_post shares a few execution slots among all       *)
(* posts, and the session's generator streams the answers.                 *)
(*                                                                         *)
(* Everything runs on one event loop: a step here is the code between two  *)
(* awaits.  Request bodies are whole before a handler runs                 *)
(* (RequestBodyLimitMiddleware), so reading one is no wait of its own.     *)
(***************************************************************************)
EXTENDS Integers, Sequences, FiniteSets

CONSTANTS
    Sessions,    \* session ids; one is drawn again when nothing refers to it
    Posts,       \* POST requests in flight
    Direct,      \* "no session": the answer goes into the HTTP response
    MaxSessions, \* MAX_SSE_SESSIONS
    QueueSize,   \* maxsize of a session's queue
    MaxSlots     \* MAX_MCP_CONCURRENT_POSTS

ASSUME CapacityAssumption ==
    /\ MaxSessions \in Nat \ {0} /\ QueueSize \in Nat \ {0} /\ MaxSlots \in Nat \ {0}
    /\ Direct \notin Sessions
    /\ IsFiniteSet(Posts)

VARIABLES
    registered, \* the keys of sse_sessions
    stream,     \* the generator of each session
    queue,      \* its queue: the posts whose answers wait for the client
    line,       \* its lock: the holder, then the waiters (asyncio.Lock is FIFO)
    free,       \* the value of _mcp_post_slots
    pc,         \* where each POST handler is
    to          \* the session it posts to

vars == <<registered, stream, queue, line, free, pc, to>>
sessionVars == <<registered, stream, queue>>

\* "dead": the client left before the generator's first step.
StreamStates == {"none", "starting", "live", "dead"}

TypeOK ==
    /\ registered \subseteq Sessions
    /\ stream \in [Sessions -> StreamStates]
    /\ queue \in [Sessions -> Seq(Posts)]
    /\ line \in [Sessions -> Seq(Posts)]
    /\ free \in 0 .. MaxSlots
    /\ pc \in [Posts -> {"idle", "line", "slot", "dispatch"}]
    /\ to \in [Posts -> Sessions \cup {Direct}]

Init ==
    /\ registered = {}
    /\ stream = [s \in Sessions |-> "none"]
    /\ queue = [s \in Sessions |-> <<>>]
    /\ line = [s \in Sessions |-> <<>>]
    /\ free = MaxSlots
    /\ pc = [p \in Posts |-> "idle"]
    /\ to = [p \in Posts |-> Direct]

-----------------------------------------------------------------------------
(***************************************************************************)
(* The stream: handle_mcp_get and its event_generator.                     *)
(***************************************************************************)

\* A GET below the capacity registers a session under a fresh id.
Open(s) ==
    /\ Cardinality(registered) < MaxSessions
    /\ s \notin registered /\ stream[s] = "none" /\ line[s] = <<>>
    /\ registered' = registered \cup {s}
    /\ stream' = [stream EXCEPT ![s] = "starting"]
    /\ queue' = [queue EXCEPT ![s] = <<>>]
    /\ UNCHANGED <<line, free, pc, to>>

\* The server asks the generator for its first event.
StartStream(s) ==
    /\ stream[s] = "starting"
    /\ stream' = [stream EXCEPT ![s] = "live"]
    /\ UNCHANGED <<registered, queue, line, free, pc, to>>

\* The client left before that: a generator that never started has no finally
\* to run, and the session stays registered.
AbandonStart(s) ==
    /\ stream[s] = "starting"
    /\ stream' = [stream EXCEPT ![s] = "dead"]
    /\ UNCHANGED <<registered, queue, line, free, pc, to>>

Deliver(s) ==
    /\ stream[s] = "live"
    /\ queue[s] # <<>>
    /\ queue' = [queue EXCEPT ![s] = Tail(@)]
    /\ UNCHANGED <<registered, stream, line, free, pc, to>>

\* The client is gone or, between two sends, the session's time is over; finally
\* unregisters it.
EndStream(s) ==
    /\ stream[s] = "live"
    /\ stream' = [stream EXCEPT ![s] = "none"]
    /\ registered' = registered \ {s}
    /\ UNCHANGED <<queue, line, free, pc, to>>

-----------------------------------------------------------------------------
(***************************************************************************)
(* The posts: handle_mcp_messages and _dispatch_bounded_post.              *)
(***************************************************************************)

\* A client knows a session from its stream's first event.
Known(s) == s \in registered /\ stream[s] = "live"

\* The session is looked up once, here.  A free lock is taken and the queue
\* looked at without an await in between: ask for a slot at once.
Post(p, s) ==
    /\ pc[p] = "idle"
    /\ Known(s)
    /\ line[s] = <<>> /\ Len(queue[s]) < QueueSize
    /\ pc' = [pc EXCEPT ![p] = "slot"]
    /\ to' = [to EXCEPT ![p] = s]
    /\ line' = [line EXCEPT ![s] = <<p>>]
    /\ UNCHANGED <<sessionVars, free>>

\* The same with a full queue: the session is closed, 429.
PostEvict(s) ==
    /\ \E p \in Posts : pc[p] = "idle"
    /\ Known(s)
    /\ line[s] = <<>> /\ Len(queue[s]) = QueueSize
    /\ registered' = registered \ {s}
    /\ UNCHANGED <<stream, queue, line, free, pc, to>>

\* The lock is taken: wait for it.
PostWait(p, s) ==
    /\ pc[p] = "idle"
    /\ Known(s)
    /\ line[s] # <<>>
    /\ pc' = [pc EXCEPT ![p] = "line"]
    /\ to' = [to EXCEPT ![p] = s]
    /\ line' = [line EXCEPT ![s] = Append(@, p)]
    /\ UNCHANGED <<sessionVars, free>>

PostDirect(p) ==
    /\ pc[p] = "idle"
    /\ pc' = [pc EXCEPT ![p] = "slot"]
    /\ to' = [to EXCEPT ![p] = Direct]
    /\ UNCHANGED <<sessionVars, line, free>>

HoldsLock(p) == line[to[p]] # <<>> /\ Head(line[to[p]]) = p

\* Mutation: the queue is looked at before the lock is taken.
EnterUnlocked(p) ==
    /\ pc[p] = "line"
    /\ Len(queue[to[p]]) < QueueSize
    /\ pc' = [pc EXCEPT ![p] = "slot"]
    /\ UNCHANGED <<sessionVars, line, free, to>>

\* The lock's turn has come and the queue has room: ask for a slot.
Enter(p) ==
    /\ pc[p] = "line" /\ HoldsLock(p)
    /\ Len(queue[to[p]]) < QueueSize
    /\ pc' = [pc EXCEPT ![p] = "slot"]
    /\ UNCHANGED <<sessionVars, line, free, to>>

\* The handler is left, and with it the lock if it was held.
Leave(p) ==
    /\ pc' = [pc EXCEPT ![p] = "idle"]
    /\ to' = [to EXCEPT ![p] = Direct]
    /\ line' = IF to[p] = Direct THEN line ELSE [line EXCEPT ![to[p]] = Tail(@)]

\* Mutation: the lock is not released when the handler raises.
EvictLocked(p) ==
    /\ pc[p] = "line" /\ HoldsLock(p)
    /\ Len(queue[to[p]]) = QueueSize
    /\ registered' = registered \ {to[p]}
    /\ pc' = [pc EXCEPT ![p] = "idle"]
    /\ to' = [to EXCEPT ![p] = Direct]
    /\ UNCHANGED <<stream, queue, line, free>>

\* The queue is full: the session is closed, 429.  Its generator lives on.
Evict(p) ==
    /\ pc[p] = "line" /\ HoldsLock(p)
    /\ Len(queue[to[p]]) = QueueSize
    /\ registered' = registered \ {to[p]}
    /\ Leave(p)
    /\ UNCHANGED <<stream, queue, free>>

TakeSlot(p) ==
    /\ pc[p] = "slot"
    /\ free > 0
    /\ free' = free - 1
    /\ pc' = [pc EXCEPT ![p] = "dispatch"]
    /\ UNCHANGED <<sessionVars, line, to>>

\* Mutation: the slot is released whether or not it was acquired.
SlotTimeoutReleases(p) ==
    /\ pc[p] = "slot"
    /\ free' = free + 1
    /\ Leave(p)
    /\ UNCHANGED sessionVars

\* No slot within a second: 429.
SlotTimeout(p) ==
    /\ pc[p] = "slot"
    /\ Leave(p)
    /\ UNCHANGED <<sessionVars, free>>

\* Mutation: a payload that is not JSON keeps its slot.
RejectBodyLeaks(p) ==
    /\ pc[p] = "dispatch"
    /\ Leave(p)
    /\ UNCHANGED <<sessionVars, free>>

\* The payload is too large or not a JSON object: 413 or 400.
RejectBody(p) ==
    /\ pc[p] = "dispatch"
    /\ free' = free + 1
    /\ Leave(p)
    /\ UNCHANGED sessionVars

\* The tool has run.  put_nowait hands the answer to the stream (202), or the
\* response carries it.
Finish(p) ==
    /\ pc[p] = "dispatch"
    /\ free' = free + 1
    /\ queue' = IF to[p] = Direct THEN queue ELSE [queue EXCEPT ![to[p]] = Append(@, p)]
    /\ Leave(p)
    /\ UNCHANGED <<registered, stream>>

PostStep(p) ==
    \/ Enter(p) \/ Evict(p) \/ TakeSlot(p) \/ SlotTimeout(p)
    \/ RejectBody(p) \/ Finish(p)

StreamStep(s) == StartStream(s) \/ AbandonStart(s) \/ Deliver(s) \/ EndStream(s)

Next ==
    \/ \E s \in Sessions : Open(s) \/ StreamStep(s) \/ PostEvict(s)
    \/ \E p \in Posts :
          \/ \E s \in Sessions : Post(p, s) \/ PostWait(p, s)
          \/ PostDirect(p)
          \/ PostStep(p)

Spec == Init /\ [][Next]_vars

(***************************************************************************)
(* The event loop runs every ready handler, a slot is waited for one       *)
(* second, SQLite five.  Nothing is promised of a stream: its generator    *)
(* looks at the clock between sends only, and a client that does not read  *)
(* holds a send as long as it likes.                                       *)
(***************************************************************************)
Fairness == \A p \in Posts : WF_vars(PostStep(p))

FairSpec == Spec /\ Fairness

(***************************************************************************)
(* Clients that read or leave: no send is held, so the generator comes to  *)
(* its checks at least every fifteen seconds, and ends within the quarter  *)
(* of an hour it has.  What fails even so is no client's fault.            *)
(***************************************************************************)
AttentiveClients ==
    \A s \in Sessions : WF_vars(StartStream(s) \/ AbandonStart(s)) /\ WF_vars(EndStream(s))

AttentiveSpec == FairSpec /\ AttentiveClients

-----------------------------------------------------------------------------
(***************************************************************************)
(* The room in the queue that a post saw under the lock is still there     *)
(* when its tool has run, awaits in between notwithstanding: put_nowait    *)
(* never raises after a side effect was persisted.                         *)
(***************************************************************************)
RoomIsReserved ==
    \A p \in Posts :
        pc[p] \in {"slot", "dispatch"} /\ to[p] # Direct => Len(queue[to[p]]) < QueueSize

(***************************************************************************)
(* No slot is lost or minted on any way out of _dispatch_bounded_post.     *)
(***************************************************************************)
SlotsAccounted == free + Cardinality({p \in Posts : pc[p] = "dispatch"}) = MaxSlots

(***************************************************************************)
(* Every post is answered, whatever happens to its session and to the      *)
(* posts in line before it.                                                *)
(***************************************************************************)
PostsAnswered == \A p \in Posts : pc[p] # "idle" ~> pc[p] = "idle"

(***************************************************************************)
(* "A rejected transport cannot still persist a tool side effect": a       *)
(* post's tool runs only on a session that is still open.                  *)
(***************************************************************************)
OpenSessionsOnly ==
    [][\A p \in Posts :
          pc[p] = "line" /\ pc[p]' = "slot" => to[p] \in registered]_vars

(***************************************************************************)
(* "SSE session capacity reached; retry later": a later retry can succeed. *)
(***************************************************************************)
RetryLater ==
    Cardinality(registered) = MaxSessions ~> Cardinality(registered) < MaxSessions
=============================================================================
