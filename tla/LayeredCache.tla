------------------------------ MODULE LayeredCache ------------------------------
(***************************************************************************)
(* The two-level cache every service of the exchange reads through: an     *)
(* in-memory cache per process (local), one Redis shared by all processes  *)
(* (redis), and the pub/sub channel `deleteCacheKeys' that tells the       *)
(* listening processes to drop their local copies.                         *)
(*                                                                         *)
(* A value enters the cache in three ways:                                 *)
(*   - a reader misses and fills it (GetOrSetCache, GenericGetterService), *)
(*   - a cache warmer cron reads the chain and stores it (setData), then   *)
(*     publishes the keys,                                                 *)
(*   - the event consumer stores what a blockchain event carries (setData) *)
(*     and publishes the keys.                                             *)
(* Every await of those three is a step of its own, so they interleave.    *)
(*                                                                         *)
(* Time is relative: an entry carries what is left of its time to live, a  *)
(* flow and an event how long they have been waiting, a version of a key   *)
(* how long ago it was replaced.  No clock variable is needed, and the     *)
(* state space is finite without a bound on time.                          *)
(***************************************************************************)
EXTENDS Naturals, Sequences

CONSTANTS
    Keys,          \* cache keys
    Procs,         \* processes, each with its own in-memory cache
    Listeners,     \* processes subscribed to deleteCacheKeys
    Tasks,         \* concurrent asynchronous flows
    Consumer,      \* the flow that handles blockchain events
    ConsumerProc,  \* the process it runs in
    RemoteTtl,     \* CacheTtlInfo.remoteTtl, in ticks
    LocalTtl,      \* CacheTtlInfo.localTtl, in ticks
    MaxLatency,    \* ticks an awaited call may take
    MaxQueueLag,   \* ticks an event may wait in the broker
    MaxVersion,    \* bound: updates of one key on the chain
    MaxInbox,      \* bound: messages on their way to one listener
    MaxFailures    \* bound: crashes and failed Redis writes

ASSUME ConstantsAssumption ==
    /\ Listeners \subseteq Procs
    /\ Consumer \in Tasks
    /\ ConsumerProc \in Procs
    /\ RemoteTtl \in Nat \ {0}
    /\ LocalTtl \in Nat \ {0}
    /\ MaxLatency \in Nat \ {0}
    /\ MaxQueueLag \in Nat
    /\ MaxVersion \in Nat
    /\ MaxInbox \in Nat
    /\ MaxFailures \in Nat

VARIABLES
    chain,    \* chain[k]: version the blockchain holds for key k
    since,    \* since[k][v]: ticks since version v was replaced, counted up to Horizon
    redis,    \* redis[k]: shared entry
    local,    \* local[p][k]: in-memory entry of process p
    task,     \* task[t]: state of flow t
    events,   \* events published by the notifier, not yet consumed
    inbox,    \* inbox[p]: deleteCacheKeys messages on their way to p
    failures  \* crashes and failed Redis writes so far

vars == <<chain, since, redis, local, task, events, inbox, failures>>

--------------------------------------------------------------------------------
Versions == 0..MaxVersion

Entry == [val : Versions, left : Nat]

\* An entry is absent (never stored, expired or deleted) when nothing is left.
Empty == [val |-> 0, left |-> 0]

Present(e) == e.left > 0

Stored(t, ttl) == [val |-> task[t].val, left |-> ttl]

\* Fault: an entry is kept past its time to live (allowStale).
AgedKeepsStale(e) == IF e.left <= 1 THEN e ELSE [val |-> e.val, left |-> e.left - 1]

\* One tick of an entry.  Reading it does not prolong it (updateAgeOnGet:
\* false), and it is not served once it expired (allowStale: false).
Aged(e) == IF e.left <= 1 THEN Empty ELSE [val |-> e.val, left |-> e.left - 1]

PCs == {"idle", "getRemote", "create", "fillRemote", "fillLocal",
        "set", "setRemote", "publish", "delRemote"}

\* How the keys are handed to deleteCacheKeys: one by one, or as an array
\* pushed whole into the array of keys.
Shapes == {"flat", "nested"}

Task == [pc : PCs, proc : Procs, key : Keys, shape : Shapes, val : Versions, wait : Nat]

Event == [key : Keys, val : Versions, wait : Nat]

Active(t) == task[t].pc # "idle"

\* A flow that moves on to step pc starts waiting anew.
Goto(t, pc) == task' = [task EXCEPT ![t] = [task[t] EXCEPT !.pc = pc, !.wait = 0]]

Start(t, pc, p, k, shape, v) ==
    /\ task[t].pc = "idle"
    /\ task' = [task EXCEPT ![t] = [pc |-> pc, proc |-> p, key |-> k, shape |-> shape,
                                    val |-> v, wait |-> 0]]

\* A flow at rest; its fields are reset so that idle flows look alike.
Idle(k) == [pc |-> "idle", proc |-> ConsumerProc, key |-> k, shape |-> "flat",
            val |-> 0, wait |-> 0]

Done(t) == task' = [task EXCEPT ![t] = Idle(task[t].key)]

Message == [key : Keys, shape : Shapes]

\* deleteLocal is given an element of the published array.  An element that
\* is itself an array is the key of no entry.
Deletes(m, k) == m.shape = "flat" /\ m.key = k

\* The broker puts an event that was not acknowledged back at the head.
Requeue(t) ==
    events' = IF t = Consumer /\ Active(t)
              THEN <<[key |-> task[t].key, val |-> task[t].val, wait |-> 0]>> \o events
              ELSE events

\* How long ago a value may have become outdated when it is stored in Redis: a
\* cron has awaited both stores since it read the value, and an event is handled
\* while the one that outdates it waits in the broker.
StoreDelay == IF MaxQueueLag > 2 * MaxLatency THEN MaxQueueLag ELSE 2 * MaxLatency

\* since stops counting here, at the first age that LocalStalenessBounded excludes.
Horizon == RemoteTtl + LocalTtl + StoreDelay + MaxLatency - 1

--------------------------------------------------------------------------------
Init ==
    /\ chain = [k \in Keys |-> 0]
    /\ since = [k \in Keys |-> [v \in Versions |-> 0]]
    /\ redis = [k \in Keys |-> Empty]
    /\ local = [p \in Procs |-> [k \in Keys |-> Empty]]
    /\ \E k \in Keys : task = [t \in Tasks |-> Idle(k)]
    /\ events = <<>>
    /\ inbox = [p \in Procs |-> <<>>]
    /\ failures = 0

--------------------------------------------------------------------------------
(* Reader: cachingService.getOrSet                                         *)

\* The local lookup misses; a hit returns at once and changes nothing.
GetMissesLocal(t, p, k) ==
    /\ t # Consumer
    /\ ~Present(local[p][k])
    /\ Start(t, "getRemote", p, k, "flat", 0)
    /\ UNCHANGED <<chain, since, redis, local, events, inbox, failures>>

\* Fault: a hit prolongs the Redis entry.
GetRemoteTouches(t) ==
    LET e == redis[task[t].key] IN
    /\ task[t].pc = "getRemote"
    /\ IF Present(e)
         THEN /\ task' = [task EXCEPT ![t] = [task[t] EXCEPT
                            !.pc = "fillLocal", !.val = e.val, !.wait = 0]]
              /\ redis' = [redis EXCEPT ![task[t].key].left = RemoteTtl]
         ELSE Goto(t, "create") /\ UNCHANGED redis
    /\ UNCHANGED <<chain, since, local, events, inbox, failures>>

\* The Redis lookup: a hit is copied to the local cache next, a miss calls
\* the value function.
GetRemote(t) ==
    LET e == redis[task[t].key] IN
    /\ task[t].pc = "getRemote"
    /\ IF Present(e)
         THEN task' = [task EXCEPT ![t] = [task[t] EXCEPT
                         !.pc = "fillLocal", !.val = e.val, !.wait = 0]]
         ELSE Goto(t, "create")
    /\ UNCHANGED <<chain, since, redis, local, events, inbox, failures>>

\* The value function queries the chain; the answer travels back for a while.
CreateValue(t) ==
    /\ task[t].pc = "create"
    /\ task' = [task EXCEPT ![t] = [task[t] EXCEPT
                  !.pc = "fillRemote", !.val = chain[task[t].key], !.wait = 0]]
    /\ UNCHANGED <<chain, since, redis, local, events, inbox, failures>>

\* The value function throws: the error is rethrown and nothing is stored.
CreateFails(t) ==
    /\ task[t].pc = "create"
    /\ Done(t)
    /\ UNCHANGED <<chain, since, redis, local, events, inbox, failures>>

FillRemote(t) ==
    /\ task[t].pc = "fillRemote"
    /\ redis' = [redis EXCEPT ![task[t].key] = Stored(t, RemoteTtl)]
    /\ Goto(t, "fillLocal")
    /\ UNCHANGED <<chain, since, local, events, inbox, failures>>

\* Fault: the in-memory copy gets the remote time to live as well.
FillLocalRemoteTtl(t) ==
    /\ task[t].pc = "fillLocal"
    /\ local' = [local EXCEPT ![task[t].proc][task[t].key] = Stored(t, RemoteTtl)]
    /\ Done(t)
    /\ UNCHANGED <<chain, since, redis, events, inbox, failures>>

FillLocal(t) ==
    /\ task[t].pc = "fillLocal"
    /\ local' = [local EXCEPT ![task[t].proc][task[t].key] = Stored(t, LocalTtl)]
    /\ Done(t)
    /\ UNCHANGED <<chain, since, redis, events, inbox, failures>>

--------------------------------------------------------------------------------
(* Writers: setData, then deleteCacheKeys                                  *)

\* A cache warmer cron reads the chain with a raw getter.
CronReads(t, p, k, shape) ==
    /\ t # Consumer
    /\ Start(t, "set", p, k, shape, chain[k])
    /\ UNCHANGED <<chain, since, redis, local, events, inbox, failures>>

\* The consumer takes the oldest event; prefetchCount 1 keeps it to one.
ConsumeEvent ==
    /\ events # <<>>
    /\ LET e == Head(events) IN
         Start(Consumer, "set", ConsumerProc, e.key, "flat", e.val)
    /\ events' = Tail(events)
    /\ UNCHANGED <<chain, since, redis, local, inbox, failures>>

\* cachingService.set starts both stores; the in-memory one is immediate.
SetLocal(t) ==
    /\ task[t].pc = "set"
    /\ local' = [local EXCEPT ![task[t].proc][task[t].key] = Stored(t, LocalTtl)]
    /\ Goto(t, "setRemote")
    /\ UNCHANGED <<chain, since, redis, events, inbox, failures>>

SetRemote(t) ==
    /\ task[t].pc = "setRemote"
    /\ redis' = [redis EXCEPT ![task[t].key] = Stored(t, RemoteTtl)]
    /\ Goto(t, "publish")
    /\ UNCHANGED <<chain, since, local, events, inbox, failures>>

\* The Redis write fails: the flow throws, the local copy stays, nothing is
\* published, and a message of the broker is delivered again.
SetRemoteFails(t) ==
    /\ task[t].pc = "setRemote"
    /\ failures < MaxFailures
    /\ failures' = failures + 1
    /\ Requeue(t)
    /\ Done(t)
    /\ UNCHANGED <<chain, since, redis, local, inbox>>

Publish(t) ==
    /\ task[t].pc = "publish"
    /\ \A p \in Listeners : Len(inbox[p]) < MaxInbox
    /\ inbox' = [p \in Procs |->
                   IF p \in Listeners
                   THEN Append(inbox[p], [key |-> task[t].key, shape |-> task[t].shape])
                   ELSE inbox[p]]
    /\ Done(t)
    /\ UNCHANGED <<chain, since, redis, local, events, failures>>

\* delData: deleteInCache drops the local copy at once, the Redis entry later.
DelLocal(t, p, k) ==
    /\ t # Consumer
    /\ Start(t, "delRemote", p, k, "flat", 0)
    /\ local' = [local EXCEPT ![p][k] = Empty]
    /\ UNCHANGED <<chain, since, redis, events, inbox, failures>>

DelRemote(t) ==
    /\ task[t].pc = "delRemote"
    /\ redis' = [redis EXCEPT ![task[t].key] = Empty]
    /\ Done(t)
    /\ UNCHANGED <<chain, since, local, events, inbox, failures>>

--------------------------------------------------------------------------------
(* CacheController.deleteCacheKey and the environment                      *)

DeleteCacheKey(p) ==
    /\ inbox[p] # <<>>
    /\ local' = [local EXCEPT ![p] = [k \in Keys |-> IF Deletes(Head(inbox[p]), k)
                                                     THEN Empty ELSE local[p][k]]]
    /\ inbox' = [inbox EXCEPT ![p] = Tail(inbox[p])]
    /\ UNCHANGED <<chain, since, redis, task, events, failures>>

\* Redis pub/sub keeps nothing for a subscriber that is reconnecting.
LoseMessages(p) ==
    /\ inbox[p] # <<>>
    /\ inbox' = [inbox EXCEPT ![p] = <<>>]
    /\ UNCHANGED <<chain, since, redis, local, task, events, failures>>

\* A transaction changes the value behind k and emits an event that carries it.
ChainUpdate(k) ==
    /\ chain[k] < MaxVersion
    /\ chain' = [chain EXCEPT ![k] = chain[k] + 1]
    /\ events' = Append(events, [key |-> k, val |-> chain[k] + 1, wait |-> 0])
    /\ UNCHANGED <<since, redis, local, task, inbox, failures>>

\* A process dies with its memory; the broker redelivers the event in hand.
Crash(p) ==
    /\ failures < MaxFailures
    /\ failures' = failures + 1
    /\ local' = [local EXCEPT ![p] = [k \in Keys |-> Empty]]
    /\ inbox' = [inbox EXCEPT ![p] = <<>>]
    /\ task' = [t \in Tasks |-> IF task[t].proc = p THEN Idle(task[t].key) ELSE task[t]]
    /\ IF p = ConsumerProc THEN Requeue(Consumer) ELSE UNCHANGED events
    /\ UNCHANGED <<chain, since, redis>>

\* Time passes, but not beyond what an awaited call or the broker may take.
Tick ==
    /\ \A t \in Tasks : Active(t) => task[t].wait < MaxLatency
    /\ \A i \in 1..Len(events) : events[i].wait < MaxQueueLag
    /\ since' = [k \in Keys |-> [v \in Versions |->
                   IF v < chain[k] /\ since[k][v] < Horizon THEN since[k][v] + 1 ELSE since[k][v]]]
    /\ redis' = [k \in Keys |-> Aged(redis[k])]
    /\ local' = [p \in Procs |-> [k \in Keys |-> Aged(local[p][k])]]
    /\ task' = [t \in Tasks |-> IF Active(t)
                  THEN [task[t] EXCEPT !.wait = task[t].wait + 1]
                  ELSE task[t]]
    /\ events' = [i \in 1..Len(events) |-> [events[i] EXCEPT !.wait = events[i].wait + 1]]
    /\ UNCHANGED <<chain, inbox, failures>>

--------------------------------------------------------------------------------
\* What the runtime does with a flow once it has started.
TaskStep(t) ==
    \/ GetRemote(t)
    \/ CreateValue(t)
    \/ CreateFails(t)
    \/ FillRemote(t)
    \/ FillLocal(t)
    \/ SetLocal(t)
    \/ SetRemote(t)
    \/ SetRemoteFails(t)
    \/ Publish(t)
    \/ DelRemote(t)

Next ==
    \/ \E t \in Tasks : TaskStep(t)
    \/ \E t \in Tasks, p \in Procs, k \in Keys : GetMissesLocal(t, p, k)
    \/ \E t \in Tasks, p \in Procs, k \in Keys, shape \in Shapes : CronReads(t, p, k, shape)
    \/ \E t \in Tasks, p \in Procs, k \in Keys : DelLocal(t, p, k)
    \/ ConsumeEvent
    \/ \E p \in Procs : DeleteCacheKey(p)
    \/ \E p \in Procs : LoseMessages(p)
    \/ \E k \in Keys : ChainUpdate(k)
    \/ \E p \in Procs : Crash(p)
    \/ Tick

\* The event loop completes every started flow, the broker delivers, Redis
\* delivers what it does not lose, and time passes.  A flow never waits in the
\* program; only the bound MaxInbox can disable its step, hence SF.
Fairness ==
    /\ \A t \in Tasks : SF_vars(TaskStep(t))
    /\ WF_vars(ConsumeEvent)
    /\ \A p \in Listeners : WF_vars(DeleteCacheKey(p))
    /\ WF_vars(Tick)

Spec == Init /\ [][Next]_vars

FairSpec == Spec /\ Fairness

--------------------------------------------------------------------------------
(* Properties                                                              *)

\* Type correctness.  The variables range over the values the cache, the
\* flows and the message channels hold.
TypeOK ==
    /\ chain \in [Keys -> Versions]
    /\ since \in [Keys -> [Versions -> Nat]]
    /\ redis \in [Keys -> Entry]
    /\ local \in [Procs -> [Keys -> Entry]]
    /\ task \in [Tasks -> Task]
    /\ events \in Seq(Event)
    /\ inbox \in [Procs -> Seq(Message)]
    /\ failures \in Nat

Stale(e, k) == Present(e) /\ e.val # chain[k]

\* A Redis entry holds a value that was current less than the remote time to live plus
\* StoreDelay ago, however often its key changed since, however fills, warmers and events
\* overlap and however often a store fails, a process dies or a message is delivered again:
\* setData and getOrSet always store with a time to live, and no read prolongs it.  All
\* variables keep their types.
RedisStalenessBounded ==
    /\ TypeOK
    /\ \A k \in Keys : Stale(redis[k], k) => since[k][redis[k].val] < RemoteTtl + StoreDelay

\* An in-memory copy can be made from a Redis entry about to expire, so its value may have
\* been current longer ago by the local time to live, and not by more, even in a process that
\* never receives a deleteCacheKeys message.
LocalStalenessBounded ==
    \A p \in Procs, k \in Keys : Stale(local[p][k], k) =>
        since[k][local[p][k].val] + 1 < RemoteTtl + LocalTtl + StoreDelay + MaxLatency

\* What the two bounds rest on.  An entry that outdates is bounded by what is
\* left of it, a flow by the time it has been waiting, and an event that waits
\* behind an outdated one by the time it has been waiting itself.
Outdated(v, k) == v # chain[k]

EntryOk(e, k, ttl, limit) ==
    Present(e) => /\ e.left <= ttl
                  /\ Outdated(e.val, k) => since[k][e.val] + e.left <= limit

RedisLimit == RemoteTtl + StoreDelay

LocalLimit == RemoteTtl + LocalTtl + StoreDelay + MaxLatency - 1

\* How long before flow f began to wait its value may have become outdated.
HeldFor(f) ==
    CASE f.pc = "fillLocal" -> RedisLimit - 1
      [] f.pc = "setRemote" -> MaxLatency
      [] OTHER              -> 0

FlowOk(t, f) ==
    /\ f.wait <= MaxLatency
    /\ t = Consumer => f.pc \in {"idle", "set", "setRemote", "publish"}
    /\ t # Consumer /\ f.pc \in {"fillRemote", "fillLocal", "set", "setRemote"}
         => (Outdated(f.val, f.key) => since[f.key][f.val] <= HeldFor(f) + f.wait)

\* The event of queue q that replaces version v of k is behind position i, and has
\* waited since.
Announced(q, k, v, i) ==
    \E j \in 1..Len(q) :
        j > i /\ q[j].key = k /\ q[j].val = v + 1 /\ since[k][v] <= q[j].wait

QueueOk ==
    /\ \A i \in 1..Len(events) :
         /\ events[i].wait <= MaxQueueLag
         /\ Outdated(events[i].val, events[i].key) => Announced(events, events[i].key, events[i].val, i)
    /\ Active(Consumer) /\ Outdated(task[Consumer].val, task[Consumer].key)
         => Announced(events, task[Consumer].key, task[Consumer].val, 0)

\* The consumer never handles or stores a value that a later event outdates
\* without that event still waiting behind it, although a failed store or a
\* crash puts events back; every other holder of an outdated value has a
\* deadline.  This is the inductive strengthening of the two bounds.
AgeInv ==
    /\ \A k \in Keys, v \in Versions : v >= chain[k] => since[k][v] = 0
    /\ QueueOk
    /\ \A t \in Tasks : FlowOk(t, task[t])
    /\ \A k \in Keys : EntryOk(redis[k], k, RemoteTtl, RedisLimit)
    /\ \A p \in Procs, k \in Keys : EntryOk(local[p][k], k, LocalTtl, LocalLimit)

\* Once the chain stops changing, every cache ends up with its value for good,
\* although deleteCacheKeys messages are lost and flows overlap.
EventuallyFresh ==
    <>[](\A k \in Keys : /\ ~Stale(redis[k], k)
                         /\ \A p \in Procs : ~Stale(local[p][k], k))
================================================================================
