-------------------------- MODULE LayeredCache_proofs --------------------------
(***************************************************************************)
(* Proofs about LayeredCache: type correctness, and the two staleness      *)
(* bounds for every number of keys, processes and flows and every value of *)
(* the times to live, the latencies and the number of failures.            *)
(***************************************************************************)
EXTENDS LayeredCache, Integers, TLAPS

\* Growing older keeps the shape of an entry.
LEMMA AgedEntry ==
    ASSUME NEW e \in Entry
    PROVE  Aged(e) \in Entry
  BY ConstantsAssumption DEF Aged, Entry, Empty, Versions

\* Updates of the record of a flow keep its shape.
LEMMA TaskGoto ==
    ASSUME NEW r \in Task, NEW pc \in PCs
    PROVE  [r EXCEPT !.pc = pc, !.wait = 0] \in Task
  BY DEF Task

LEMMA TaskAnswer ==
    ASSUME NEW r \in Task, NEW pc \in PCs, NEW v \in Versions
    PROVE  [r EXCEPT !.pc = pc, !.val = v, !.wait = 0] \in Task
  BY DEF Task

LEMMA TaskAges ==
    ASSUME NEW r \in Task
    PROVE  [r EXCEPT !.wait = r.wait + 1] \in Task
  <1>1. r.wait + 1 \in Nat
    BY DEF Task
  <1>2. \A w \in Nat : [r EXCEPT !.wait = w] \in Task
    BY DEF Task
  <1>. QED
    BY <1>1, <1>2

\* An event in the queue that grows older is an event.
LEMMA EventAges ==
    ASSUME NEW e \in Event
    PROVE  [e EXCEPT !.wait = e.wait + 1] \in Event
  <1>1. e.wait + 1 \in Nat
    BY DEF Event
  <1>2. \A w \in Nat : [e EXCEPT !.wait = w] \in Event
    BY DEF Event
  <1>. QED
    BY <1>1, <1>2

LEMMA QueueAges ==
    ASSUME events \in Seq(Event),
           events' = [i \in 1..Len(events) |-> [events[i] EXCEPT !.wait = events[i].wait + 1]]
    PROVE  events' \in Seq(Event)
  <1>1. \A i \in 1..Len(events) : [events[i] EXCEPT !.wait = events[i].wait + 1] \in Event
    BY EventAges
  <1>2. events' \in [1..Len(events) -> Event]
    BY <1>1
  <1>. QED
    BY <1>2

\* What flows write into their own record keeps its shape.
LEMMA TaskShape ==
    ASSUME TypeOK
    PROVE  /\ \A k \in Keys : Idle(k) \in Task
           /\ \A t \in Tasks, ttl \in Nat : Stored(t, ttl) \in Entry
           /\ Empty \in Entry
           /\ \A t \in Tasks : Done(t) => task' \in [Tasks -> Task]
           /\ \A t \in Tasks, pc \in PCs : Goto(t, pc) => task' \in [Tasks -> Task]
           /\ \A t \in Tasks, pc \in PCs, p \in Procs, k \in Keys, s \in Shapes, v \in Versions :
                Start(t, pc, p, k, s, v) => task' \in [Tasks -> Task]
           /\ Requeue(Consumer) => events' \in Seq(Event)
  <1>. USE ConstantsAssumption DEF TypeOK
  <1>0. 0 \in Versions
    BY DEF Versions
  <1>1. \A k \in Keys : Idle(k) \in Task
    BY <1>0 DEF Idle, Task, PCs, Shapes
  <1>2. Empty \in Entry
    BY <1>0 DEF Empty, Entry
  <1>3. \A t \in Tasks : task[t].val \in Versions /\ task[t].key \in Keys
    BY DEF Task
  <1>4. \A t \in Tasks, ttl \in Nat : Stored(t, ttl) \in Entry
    BY <1>3 DEF Stored, Entry
  <1>5. \A t \in Tasks : Done(t) => task' \in [Tasks -> Task]
    BY <1>1, <1>3 DEF Done
  <1>6. \A t \in Tasks, pc \in PCs : Goto(t, pc) => task' \in [Tasks -> Task]
    <2>. SUFFICES ASSUME NEW t \in Tasks, NEW pc \in PCs, Goto(t, pc)
                  PROVE  task' \in [Tasks -> Task]
      OBVIOUS
    <2>1. [task[t] EXCEPT !.pc = pc, !.wait = 0] \in Task
      BY TaskGoto
    <2>. QED
      BY <2>1 DEF Goto
  <1>7. \A t \in Tasks, pc \in PCs, p \in Procs, k \in Keys, s \in Shapes, v \in Versions :
          Start(t, pc, p, k, s, v) => task' \in [Tasks -> Task]
    BY DEF Start, Task
  <1>8. Requeue(Consumer) => events' \in Seq(Event)
    <2>1. [key |-> task[Consumer].key, val |-> task[Consumer].val, wait |-> 0] \in Event
      BY <1>3 DEF Event
    <2>. QED
      BY <2>1 DEF Requeue
  <1>. QED
    BY <1>1, <1>2, <1>4, <1>5, <1>6, <1>7, <1>8

\* Every action keeps the variables in their types.
LEMMA TypeNext == TypeOK /\ [Next]_vars => TypeOK'
  <1>. SUFFICES ASSUME TypeOK, [Next]_vars PROVE TypeOK'
    OBVIOUS
  <1>. USE ConstantsAssumption DEF TypeOK
  <1>0. 0 \in Versions
    BY DEF Versions
  <1>p. PCs = {"idle", "getRemote", "create", "fillRemote", "fillLocal",
               "set", "setRemote", "publish", "delRemote"} /\ Shapes = {"flat", "nested"}
    BY DEF PCs, Shapes
  <1>k. \A t \in Tasks : task[t].key \in Keys /\ task[t].proc \in Procs /\ task[t].shape \in Shapes
    BY DEF Task
  <1>1. ASSUME NEW t \in Tasks, GetRemote(t) PROVE TypeOK'
    <2>1. task' \in [Tasks -> Task]
      <3>1. CASE Present(redis[task[t].key])
        <4>. DEFINE e == redis[task[t].key]
        <4>1. e.val \in Versions
          BY <1>k DEF Entry
        <4>2. [task[t] EXCEPT !.pc = "fillLocal", !.val = e.val, !.wait = 0] \in Task
          BY <1>p, <4>1, TaskAnswer
        <4>. QED BY <1>1, <3>1, <4>2 DEF GetRemote
      <3>2. CASE ~Present(redis[task[t].key])
        BY <1>1, <1>p, <3>2, TaskShape DEF GetRemote
      <3>. QED BY <3>1, <3>2
    <2>. QED BY <1>1, <2>1 DEF GetRemote
  <1>2. ASSUME NEW t \in Tasks, CreateValue(t) PROVE TypeOK'
    <2>1. [task[t] EXCEPT !.pc = "fillRemote", !.val = chain[task[t].key], !.wait = 0]
            \in Task
      BY <1>p, <1>k, TaskAnswer
    <2>. QED BY <1>2, <2>1 DEF CreateValue
  <1>3. ASSUME NEW t \in Tasks, CreateFails(t) PROVE TypeOK'
    BY <1>3, TaskShape DEF CreateFails
  <1>4. ASSUME NEW t \in Tasks, FillRemote(t) PROVE TypeOK'
    BY <1>4, <1>p, TaskShape DEF FillRemote
  <1>5. ASSUME NEW t \in Tasks, FillLocal(t) PROVE TypeOK'
    BY <1>5, TaskShape DEF FillLocal
  <1>6. ASSUME NEW t \in Tasks, SetLocal(t) PROVE TypeOK'
    BY <1>6, <1>p, TaskShape DEF SetLocal
  <1>7. ASSUME NEW t \in Tasks, SetRemote(t) PROVE TypeOK'
    BY <1>7, <1>p, TaskShape DEF SetRemote
  <1>8. ASSUME NEW t \in Tasks, SetRemoteFails(t) PROVE TypeOK'
    <2>1. events' \in Seq(Event)
      <3>1. CASE t = Consumer
        BY <1>8, <3>1, TaskShape DEF SetRemoteFails
      <3>2. CASE t # Consumer
        BY <1>8, <3>2 DEF SetRemoteFails, Requeue
      <3>. QED BY <3>1, <3>2
    <2>. QED BY <1>8, <2>1, TaskShape DEF SetRemoteFails
  <1>9. ASSUME NEW t \in Tasks, Publish(t) PROVE TypeOK'
    <2>1. [key |-> task[t].key, shape |-> task[t].shape] \in Message
      BY <1>k DEF Message
    <2>2. inbox' \in [Procs -> Seq(Message)]
      BY <1>9, <2>1 DEF Publish
    <2>. QED BY <1>9, <2>2, TaskShape DEF Publish
  <1>10. ASSUME NEW t \in Tasks, DelRemote(t) PROVE TypeOK'
    BY <1>10, TaskShape DEF DelRemote
  <1>11. ASSUME NEW t \in Tasks, NEW p \in Procs, NEW k \in Keys, GetMissesLocal(t, p, k)
         PROVE  TypeOK'
    BY <1>0, <1>11, <1>p, TaskShape DEF GetMissesLocal
  <1>12. ASSUME NEW t \in Tasks, NEW p \in Procs, NEW k \in Keys, NEW s \in Shapes,
                CronReads(t, p, k, s)
         PROVE  TypeOK'
    BY <1>12, <1>p, TaskShape DEF CronReads
  <1>13. ASSUME NEW t \in Tasks, NEW p \in Procs, NEW k \in Keys, DelLocal(t, p, k)
         PROVE  TypeOK'
    BY <1>0, <1>13, <1>p, TaskShape DEF DelLocal
  <1>14. ASSUME ConsumeEvent PROVE TypeOK'
    <2>1. Head(events) \in Event /\ Tail(events) \in Seq(Event)
      BY <1>14 DEF ConsumeEvent
    <2>2. task' \in [Tasks -> Task]
      BY <1>14, <1>p, <2>1, TaskShape DEF ConsumeEvent, Event
    <2>. QED BY <1>14, <2>1, <2>2 DEF ConsumeEvent
  <1>15. ASSUME NEW p \in Procs, DeleteCacheKey(p) PROVE TypeOK'
    BY <1>15, TaskShape DEF DeleteCacheKey
  <1>16. ASSUME NEW p \in Procs, LoseMessages(p) PROVE TypeOK'
    BY <1>16 DEF LoseMessages
  <1>17. ASSUME NEW k \in Keys, ChainUpdate(k) PROVE TypeOK'
    <2>1. chain[k] + 1 \in Versions
      BY <1>17 DEF ChainUpdate, Versions
    <2>2. [key |-> k, val |-> chain[k] + 1, wait |-> 0] \in Event
      BY <2>1 DEF Event
    <2>. QED BY <1>17, <2>1, <2>2 DEF ChainUpdate
  <1>18. ASSUME NEW p \in Procs, Crash(p) PROVE TypeOK'
    <2>1. events' \in Seq(Event)
      BY <1>18, TaskShape DEF Crash
    <2>. QED BY <1>18, <1>k, <2>1, TaskShape DEF Crash
  <1>19. ASSUME Tick PROVE TypeOK'
    <2>1. events' \in Seq(Event)
      BY <1>19, QueueAges DEF Tick
    <2>2. task' \in [Tasks -> Task]
      <3>1. \A t \in Tasks : [task[t] EXCEPT !.wait = task[t].wait + 1] \in Task
        BY TaskAges
      <3>. QED BY <1>19, <3>1 DEF Tick
    <2>3. redis' \in [Keys -> Entry] /\ local' \in [Procs -> [Keys -> Entry]]
      BY <1>19, AgedEntry DEF Tick
    <2>4. since' \in [Keys -> [Versions -> Nat]]
      <3>1. \A k \in Keys, v \in Versions : since[k][v] \in Nat /\ since[k][v] + 1 \in Nat
        OBVIOUS
      <3>. QED BY <1>19, <3>1, Zenon DEF Tick
    <2>. QED BY <1>19, <2>1, <2>2, <2>3, <2>4 DEF Tick
  <1>20. CASE UNCHANGED vars
    BY <1>20 DEF vars
  <1>. QED
    BY <1>1, <1>2, <1>3, <1>4, <1>5, <1>6, <1>7, <1>8, <1>9, <1>10, <1>11, <1>12, <1>13,
       <1>14, <1>15, <1>16, <1>17, <1>18, <1>19, <1>20 DEF Next, TaskStep

\* Type correctness of every behaviour of the cache.
THEOREM TypeCorrect == Spec => []TypeOK
  <1>1. Init => TypeOK
    <2>. SUFFICES ASSUME Init PROVE TypeOK
      OBVIOUS
    <2>1. task \in [Tasks -> Task]
      BY ConstantsAssumption DEF Init, Idle, Task, PCs, Shapes, Versions
    <2>2. events \in Seq(Event) /\ inbox \in [Procs -> Seq(Message)]
      BY DEF Init
    <2>3. Empty \in Entry /\ 0 \in Versions
      BY ConstantsAssumption DEF Empty, Entry, Versions
    <2>. QED
      BY <2>1, <2>2, <2>3 DEF Init, TypeOK
  <1>. QED
    BY <1>1, TypeNext, PTL DEF Spec

--------------------------------------------------------------------------------
(* The two staleness bounds                                                *)

\* The sums of the bounds are numbers, and StoreDelay covers both of its cases.
LEMMA Numbers ==
    /\ StoreDelay \in Nat
    /\ MaxQueueLag <= StoreDelay
    /\ 2 * MaxLatency <= StoreDelay
    /\ RedisLimit \in Nat /\ RedisLimit = RemoteTtl + StoreDelay
    /\ LocalLimit \in Nat /\ LocalLimit = RemoteTtl + LocalTtl + StoreDelay + MaxLatency - 1
    /\ Horizon \in Nat
  <1>1. StoreDelay \in Nat /\ MaxQueueLag <= StoreDelay /\ 2 * MaxLatency <= StoreDelay
    BY ConstantsAssumption DEF StoreDelay
  <1>. QED
    BY <1>1, ConstantsAssumption DEF RedisLimit, LocalLimit, Horizon

LEMMA HeldForIsNumber == \A f : HeldFor(f) \in Nat
  <1>1. RedisLimit - 1 \in Nat
    BY Numbers, ConstantsAssumption
  <1>. QED
    BY <1>1, ConstantsAssumption DEF HeldFor

\* Steps that change neither the chain nor the age of its values.
SteadyStep == [Next]_vars /\ UNCHANGED <<chain, since>>

\* A step that leaves the chain alone adds to Redis only what a flow stores.
LEMMA RedisShape ==
    ASSUME TypeOK, [Next]_vars, ~Tick, NEW k \in Keys
    PROVE  \/ redis'[k] = redis[k]
           \/ redis'[k] = Empty
           \/ \E t \in Tasks : /\ task[t].key = k
                               /\ task[t].pc \in {"fillRemote", "setRemote"}
                               /\ redis'[k] = Stored(t, RemoteTtl)
  <1>. USE DEF TypeOK
  <1>1. CASE UNCHANGED redis
    BY <1>1
  <1>2. ASSUME NEW t \in Tasks, FillRemote(t) \/ SetRemote(t)
        PROVE  /\ task[t].pc \in {"fillRemote", "setRemote"}
               /\ redis' = [redis EXCEPT ![task[t].key] = Stored(t, RemoteTtl)]
    BY <1>2 DEF FillRemote, SetRemote
  <1>3. ASSUME NEW t \in Tasks, DelRemote(t)
        PROVE  redis' = [redis EXCEPT ![task[t].key] = Empty]
    BY <1>3 DEF DelRemote
  <1>4. UNCHANGED redis \/ \E t \in Tasks : FillRemote(t) \/ SetRemote(t) \/ DelRemote(t)
    BY DEF Next, TaskStep, GetRemote, CreateValue, CreateFails, FillLocal, SetLocal,
           SetRemoteFails, Publish, GetMissesLocal, CronReads, DelLocal, ConsumeEvent,
           DeleteCacheKey, LoseMessages, ChainUpdate, Crash, vars
  <1>. QED
    BY <1>1, <1>2, <1>3, <1>4

\* The same of a process's memory.
LEMMA LocalShape ==
    ASSUME TypeOK, [Next]_vars, ~Tick, NEW p \in Procs, NEW k \in Keys
    PROVE  \/ local'[p][k] = local[p][k]
           \/ local'[p][k] = Empty
           \/ \E t \in Tasks : /\ task[t].key = k
                               /\ task[t].pc \in {"fillLocal", "set"}
                               /\ local'[p][k] = Stored(t, LocalTtl)
  <1>. USE DEF TypeOK
  <1>1. CASE UNCHANGED local
    BY <1>1
  <1>2. ASSUME NEW t \in Tasks, FillLocal(t) \/ SetLocal(t)
        PROVE  /\ task[t].pc \in {"fillLocal", "set"}
               /\ local' = [local EXCEPT ![task[t].proc][task[t].key] = Stored(t, LocalTtl)]
    BY <1>2 DEF FillLocal, SetLocal
  <1>3. ASSUME NEW t \in Tasks, NEW q \in Procs, NEW c \in Keys, DelLocal(t, q, c)
        PROVE  local' = [local EXCEPT ![q][c] = Empty]
    BY <1>3 DEF DelLocal
  <1>4. ASSUME NEW q \in Procs, DeleteCacheKey(q)
        PROVE  local'[p][k] = local[p][k] \/ local'[p][k] = Empty
    BY <1>4 DEF DeleteCacheKey
  <1>5. ASSUME NEW q \in Procs, Crash(q)
        PROVE  local'[p][k] = local[p][k] \/ local'[p][k] = Empty
    BY <1>5 DEF Crash
  <1>6. \/ UNCHANGED local
        \/ \E t \in Tasks : FillLocal(t) \/ SetLocal(t)
        \/ \E t \in Tasks, q \in Procs, c \in Keys : DelLocal(t, q, c)
        \/ \E q \in Procs : DeleteCacheKey(q) \/ Crash(q)
    BY DEF Next, TaskStep, GetRemote, CreateValue, CreateFails, FillRemote, SetRemote,
           SetRemoteFails, Publish, DelRemote, GetMissesLocal, CronReads, ConsumeEvent,
           LoseMessages, ChainUpdate, vars
  <1>7. ASSUME NEW t \in Tasks, FillLocal(t) \/ SetLocal(t)
        PROVE  local'[p][k] = local[p][k]
                 \/ (task[t].key = k /\ local'[p][k] = Stored(t, LocalTtl))
    <2>1. local' = [local EXCEPT ![task[t].proc][task[t].key] = Stored(t, LocalTtl)]
      BY <1>2, <1>7
    <2>. DEFINE q == task[t].proc
                c == task[t].key
    <2>2. q \in Procs /\ c \in Keys
      BY DEF Task
    <2>3. \A m \in Procs : local'[m] = IF m = q THEN [local[m] EXCEPT ![c] = Stored(t, LocalTtl)]
                                               ELSE local[m]
      BY <2>1, <2>2
    <2>4. local[p] \in [Keys -> Entry]
      OBVIOUS
    <2>. QED
      BY <2>3, <2>4
  <1>8. ASSUME NEW t \in Tasks, NEW q \in Procs, NEW c \in Keys, DelLocal(t, q, c)
        PROVE  local'[p][k] = local[p][k] \/ local'[p][k] = Empty
    <2>1. local' = [local EXCEPT ![q][c] = Empty]
      BY <1>3, <1>8
    <2>2. local'[p] = IF p = q THEN [local[p] EXCEPT ![c] = Empty] ELSE local[p]
      BY <2>1
    <2>3. local[p] \in [Keys -> Entry]
      OBVIOUS
    <2>. QED
      BY <2>2, <2>3
  <1>. HIDE DEF TypeOK
  <1>. QED
    BY <1>1, <1>2, <1>4, <1>5, <1>6, <1>7, <1>8

\* A version whose successor still waits in the broker was replaced at most MaxQueueLag ago.
LEMMA AnnouncedBound ==
    ASSUME TypeOK, AgeInv, NEW k \in Keys, NEW v \in Versions, Announced(events, k, v, 0)
    PROVE  since[k][v] <= MaxQueueLag
  <1>. USE ConstantsAssumption DEF TypeOK
  <1>1. PICK j \in 1..Len(events) : since[k][v] <= events[j].wait
    BY DEF Announced
  <1>2. events[j] \in Event
    OBVIOUS
  <1>3. events[j].wait \in Nat /\ since[k][v] \in Nat
    BY <1>2 DEF Event
  <1>4. events[j].wait <= MaxQueueLag
    BY DEF AgeInv, QueueOk
  <1>. QED
    BY <1>1, <1>3, <1>4

\* An outdated value in the hands of a flow became so when its version was replaced.
LEMMA OutdatedBound ==
    ASSUME TypeOK, AgeInv, NEW t \in Tasks, Active(t),
           Outdated(task[t].val, task[t].key)
    PROVE  /\ t = Consumer => since[task[t].key][task[t].val] <= StoreDelay
           /\ t # Consumer /\ task[t].pc \in {"fillRemote", "set"}
                => since[task[t].key][task[t].val] <= MaxLatency
           /\ t # Consumer /\ task[t].pc = "setRemote"
                => since[task[t].key][task[t].val] <= 2 * MaxLatency
           /\ t # Consumer /\ task[t].pc = "fillLocal"
                => since[task[t].key][task[t].val] <= RedisLimit - 1 + MaxLatency
  <1>. DEFINE k == task[t].key
              v == task[t].val
              w == task[t].wait
  <1>1. k \in Keys /\ v \in Versions /\ since[k][v] \in Nat /\ w \in Nat
    BY DEF TypeOK, Task
  <1>2. CASE t = Consumer
    <2>1. Announced(events, k, v, 0)
      BY <1>2 DEF AgeInv, QueueOk
    <2>. QED
      BY <1>1, <1>2, <2>1, AnnouncedBound, Numbers, ConstantsAssumption
  <1>3. CASE t # Consumer
    <2>1. /\ w <= MaxLatency
          /\ task[t].pc \in {"fillRemote", "fillLocal", "set", "setRemote"}
               => since[k][v] <= HeldFor(task[t]) + w
      BY <1>3 DEF AgeInv, FlowOk
    <2>2. /\ task[t].pc \in {"fillRemote", "set"} => HeldFor(task[t]) = 0
          /\ task[t].pc = "setRemote" => HeldFor(task[t]) = MaxLatency
          /\ task[t].pc = "fillLocal" => HeldFor(task[t]) = RedisLimit - 1
      BY DEF HeldFor
    <2>. HIDE DEF k, v, w
    <2>. QED
      BY <1>1, <1>3, <2>1, <2>2, Numbers, ConstantsAssumption DEF k, v
  <1>. QED
    BY <1>2, <1>3

\* What a flow may store is bounded: in Redis ...
LEMMA StoredRemote ==
    ASSUME TypeOK, AgeInv, NEW t \in Tasks, task[t].pc \in {"fillRemote", "setRemote"}
    PROVE  EntryOk(Stored(t, RemoteTtl), task[t].key, RemoteTtl, RedisLimit)
  <1>1. task[t].key \in Keys /\ since[task[t].key][task[t].val] \in Nat
    BY DEF TypeOK, Task
  <1>2. Outdated(task[t].val, task[t].key) => since[task[t].key][task[t].val] <= StoreDelay
    BY <1>1, OutdatedBound, Numbers, ConstantsAssumption DEF Active
  <1>. QED
    BY <1>1, <1>2, Numbers, ConstantsAssumption DEF EntryOk, Stored, Present

\* ... and in memory.
LEMMA StoredLocal ==
    ASSUME TypeOK, AgeInv, NEW t \in Tasks, task[t].pc \in {"fillLocal", "set"}
    PROVE  EntryOk(Stored(t, LocalTtl), task[t].key, LocalTtl, LocalLimit)
  <1>1. task[t].key \in Keys /\ since[task[t].key][task[t].val] \in Nat
    BY DEF TypeOK, Task
  <1>2. Outdated(task[t].val, task[t].key) => since[task[t].key][task[t].val] <= RedisLimit + MaxLatency - 1
    BY <1>1, OutdatedBound, Numbers, ConstantsAssumption DEF Active
  <1>. QED
    BY <1>1, <1>2, Numbers, ConstantsAssumption DEF EntryOk, Stored, Present

\* A step that leaves chain and since alone keeps both caches within bounds.
LEMMA SteadyCaches ==
    ASSUME TypeOK, AgeInv, SteadyStep, ~Tick
    PROVE  /\ \A k \in Keys : EntryOk(redis[k], k, RemoteTtl, RedisLimit)'
           /\ \A p \in Procs, k \in Keys : EntryOk(local[p][k], k, LocalTtl, LocalLimit)'
  <1>1. \A k, e, ttl, limit : EntryOk(Empty, k, ttl, limit)
    BY DEF EntryOk, Present, Empty
  <1>2. ASSUME NEW k \in Keys PROVE EntryOk(redis'[k], k, RemoteTtl, RedisLimit)
    <2>1. EntryOk(redis[k], k, RemoteTtl, RedisLimit)
      BY DEF AgeInv
    <2>. QED
      BY <1>1, <2>1, RedisShape, StoredRemote DEF SteadyStep
  <1>3. ASSUME NEW p \in Procs, NEW k \in Keys
        PROVE  EntryOk(local'[p][k], k, LocalTtl, LocalLimit)
    <2>1. EntryOk(local[p][k], k, LocalTtl, LocalLimit)
      BY DEF AgeInv
    <2>. QED
      BY <1>1, <2>1, LocalShape, StoredLocal DEF SteadyStep
  <1>. QED
    BY <1>2, <1>3 DEF EntryOk, Outdated, SteadyStep

\* What a flow holds after a steady step is within bounds.
LEMMA SteadyFlows ==
    ASSUME TypeOK, AgeInv, SteadyStep, ~Tick
    PROVE  \A t \in Tasks : FlowOk(t, task[t])'
  <1>. SUFFICES ASSUME NEW t \in Tasks PROVE FlowOk(t, task'[t])
    BY DEF FlowOk, HeldFor, Outdated, SteadyStep
  <1>0. FlowOk(t, task[t])
    BY DEF AgeInv
  <1>. USE ConstantsAssumption DEF FlowOk, HeldFor, SteadyStep
  <1>k. /\ task \in [Tasks -> Task]
        /\ task[t].key \in Keys /\ task[t].wait \in Nat
        /\ task[t].val \in Versions
        /\ \A k \in Keys, v \in Versions : since[k][v] \in Nat
    BY DEF TypeOK, Task
  <1>i. \A k \in Keys : FlowOk(t, Idle(k))
    BY DEF Idle
  <1>1. CASE task'[t] = task[t]
    BY <1>0, <1>1
  <1>2. CASE \E u \in Tasks : CreateFails(u) \/ FillLocal(u) \/ SetRemoteFails(u)
                               \/ Publish(u) \/ DelRemote(u)
    BY <1>0, <1>2, <1>i, <1>k DEF CreateFails, FillLocal, SetRemoteFails, Publish, DelRemote, Done
  <1>3. ASSUME NEW p \in Procs, Crash(p) PROVE FlowOk(t, task'[t])
    BY <1>0, <1>3, <1>i, <1>k DEF Crash
  <1>4. ASSUME GetRemote(t) PROVE FlowOk(t, task'[t])
    <2>1. CASE Present(redis[task[t].key])
      <3>. DEFINE k == task[t].key
                  e == redis[k]
      <3>1. task'[t] = [task[t] EXCEPT !.pc = "fillLocal", !.val = e.val, !.wait = 0]
        BY <1>4, <1>k, <2>1 DEF GetRemote
      <3>2. /\ task'[t].pc = "fillLocal" /\ task'[t].val = e.val
            /\ task'[t].wait = 0 /\ task'[t].key = k
        BY <1>k, <3>1 DEF Task
      <3>3. e.left \in Nat /\ e.left > 0 /\ since[k][e.val] \in Nat
        BY <1>k, <2>1 DEF TypeOK, Entry, Present
      <3>4. Outdated(e.val, k) => since[k][e.val] + e.left <= RedisLimit
        BY <1>k, <2>1 DEF AgeInv, EntryOk
      <3>5. t # Consumer
        BY <1>0, <1>4 DEF GetRemote
      <3>. HIDE DEF e, k
      <3>. QED
        BY <3>2, <3>3, <3>4, <3>5, Numbers
    <2>2. CASE ~Present(redis[task[t].key])
      <3>1. task'[t] = [task[t] EXCEPT !.pc = "create", !.wait = 0] /\ t # Consumer
        BY <1>0, <1>4, <1>k, <2>2 DEF GetRemote, Goto
      <3>2. task'[t].pc = "create" /\ task'[t].wait = 0
        BY <1>k, <3>1 DEF Task
      <3>. QED
        BY <3>1, <3>2
    <2>. QED
      BY <2>1, <2>2
  <1>5. ASSUME CreateValue(t) PROVE FlowOk(t, task'[t])
    BY <1>0, <1>5, <1>k DEF CreateValue, Outdated, Task
  <1>6. ASSUME FillRemote(t) PROVE FlowOk(t, task'[t])
    <2>1. /\ task'[t].pc = "fillLocal" /\ task'[t].val = task[t].val
          /\ task'[t].wait = 0 /\ task'[t].key = task[t].key
      BY <1>6, <1>k DEF FillRemote, Goto, Task
    <2>2. t # Consumer
      BY <1>0, <1>6 DEF FillRemote
    <2>3. Outdated(task[t].val, task[t].key) => since[task[t].key][task[t].val] <= MaxLatency
      BY <1>6, <2>2, OutdatedBound DEF FillRemote, Active
    <2>. QED
      BY <1>k, <2>1, <2>2, <2>3, Numbers
  <1>7. ASSUME SetLocal(t) PROVE FlowOk(t, task'[t])
    <2>1. /\ task'[t].pc = "setRemote" /\ task'[t].val = task[t].val
          /\ task'[t].wait = 0 /\ task'[t].key = task[t].key
      BY <1>7, <1>k DEF SetLocal, Goto, Task
    <2>2. t # Consumer /\ Outdated(task[t].val, task[t].key)
            => since[task[t].key][task[t].val] <= MaxLatency
      BY <1>7, OutdatedBound DEF SetLocal, Active
    <2>. QED
      BY <1>k, <2>1, <2>2
  <1>8. ASSUME SetRemote(t) PROVE FlowOk(t, task'[t])
    BY <1>8, <1>k DEF SetRemote, Goto, Task
  <1>9. ASSUME NEW p \in Procs, NEW k \in Keys, GetMissesLocal(t, p, k) \/ DelLocal(t, p, k)
        PROVE  FlowOk(t, task'[t])
    BY <1>9, <1>k DEF GetMissesLocal, DelLocal, Start
  <1>10. ASSUME NEW p \in Procs, NEW k \in Keys, NEW s \in Shapes, CronReads(t, p, k, s)
         PROVE  FlowOk(t, task'[t])
    BY <1>10, <1>k DEF CronReads, Start, Outdated
  <1>11. ASSUME ConsumeEvent, t = Consumer PROVE FlowOk(t, task'[t])
    BY <1>11, <1>k DEF ConsumeEvent, Start
  <1>. QED
    <2>1. \/ task'[t] = task[t]
          \/ \E u \in Tasks : CreateFails(u) \/ FillLocal(u) \/ SetRemoteFails(u)
                               \/ Publish(u) \/ DelRemote(u)
          \/ \E p \in Procs : Crash(p)
          \/ GetRemote(t) \/ CreateValue(t) \/ FillRemote(t) \/ SetLocal(t) \/ SetRemote(t)
          \/ \E p \in Procs, k \in Keys : GetMissesLocal(t, p, k) \/ DelLocal(t, p, k)
          \/ \E p \in Procs, k \in Keys, s \in Shapes : CronReads(t, p, k, s)
          \/ ConsumeEvent /\ t = Consumer
      <3>1. ASSUME NEW u \in Tasks, u # t,
                   GetRemote(u) \/ CreateValue(u) \/ FillRemote(u) \/ SetLocal(u) \/ SetRemote(u)
            PROVE  task'[t] = task[t]
        BY <1>k, <3>1 DEF GetRemote, CreateValue, FillRemote, SetLocal, SetRemote, Goto
      <3>2. ASSUME NEW u \in Tasks, u # t, NEW p \in Procs, NEW k \in Keys, NEW s \in Shapes,
                   GetMissesLocal(u, p, k) \/ DelLocal(u, p, k) \/ CronReads(u, p, k, s)
            PROVE  task'[t] = task[t]
        BY <1>k, <3>2 DEF GetMissesLocal, DelLocal, CronReads, Start
      <3>3. ConsumeEvent /\ t # Consumer => task'[t] = task[t]
        BY <1>k DEF ConsumeEvent, Start
      <3>4. (\E p \in Procs : DeleteCacheKey(p) \/ LoseMessages(p))
              \/ (\E k \in Keys : ChainUpdate(k)) \/ UNCHANGED vars => task' = task
        BY DEF DeleteCacheKey, LoseMessages, ChainUpdate, vars
      <3>. QED
        BY <3>1, <3>2, <3>3, <3>4 DEF Next, TaskStep, Shapes
    <2>. QED
      BY <1>1, <1>2, <1>3, <1>4, <1>5, <1>6, <1>7, <1>8, <1>9, <1>10, <1>11, <2>1

\* The event in the consumer's hands, as the broker holds it.
InHand == [key |-> task[Consumer].key, val |-> task[Consumer].val, wait |-> 0]

\* The consumer gives its event up or keeps it.
ConsumerKeeps ==
    \/ task'[Consumer].pc = "idle"
    \/ /\ Active(Consumer)
       /\ task'[Consumer].key = task[Consumer].key
       /\ task'[Consumer].val = task[Consumer].val

\* Unless the chain changes, the queue only loses its head to the consumer, or
\* gets the event in the consumer's hands back.
LEMMA QueueShape ==
    ASSUME TypeOK, AgeInv, SteadyStep, ~Tick
    PROVE  \/ events' = events /\ ConsumerKeeps
           \/ ConsumeEvent
           \/ events' = <<InHand>> \o events /\ Active(Consumer) /\ ConsumerKeeps
  <1>. DEFINE Kept == \/ events' = events /\ ConsumerKeeps
                      \/ events' = <<InHand>> \o events /\ Active(Consumer) /\ ConsumerKeeps
  <1>. SUFFICES ASSUME ~ConsumeEvent PROVE Kept
    OBVIOUS
  <1>c. Consumer \in Tasks /\ ConsumerProc \in Procs
    BY ConstantsAssumption
  <1>k. task \in [Tasks -> Task] /\ chain \in [Keys -> Versions]
    BY DEF TypeOK
  <1>p. task[Consumer].pc \in {"idle", "set", "setRemote", "publish"}
    BY <1>c DEF AgeInv, FlowOk
  <1>0. ASSUME task'[Consumer] = task[Consumer] PROVE ConsumerKeeps
    BY <1>0 DEF ConsumerKeeps, Active
  <1>i. ASSUME NEW t \in Tasks, Done(t) PROVE ConsumerKeeps
    BY <1>i, <1>0, <1>c, <1>k DEF Done, Idle, ConsumerKeeps
  <1>g. ASSUME NEW t \in Tasks, NEW pc \in PCs, Goto(t, pc), Active(t) PROVE ConsumerKeeps
    <2>1. CASE t = Consumer
      BY <1>g, <1>c, <1>k, <2>1 DEF Goto, ConsumerKeeps, Task
    <2>2. CASE t # Consumer
      BY <1>g, <1>0, <1>c, <1>k, <2>2 DEF Goto
    <2>. QED BY <2>1, <2>2
  <1>1. ASSUME NEW t \in Tasks, GetRemote(t) \/ CreateValue(t) PROVE Kept
    <2>1. t # Consumer
      BY <1>1, <1>p DEF GetRemote, CreateValue
    <2>. QED
      BY <1>1, <1>0, <1>c, <1>k, <2>1 DEF GetRemote, CreateValue, Goto
  <1>2. ASSUME NEW t \in Tasks, CreateFails(t) \/ FillLocal(t) \/ Publish(t) \/ DelRemote(t)
        PROVE  Kept
    BY <1>2, <1>i DEF CreateFails, FillLocal, Publish, DelRemote
  <1>3. ASSUME NEW t \in Tasks, FillRemote(t) \/ SetLocal(t) \/ SetRemote(t) PROVE Kept
    <2>1. {"fillLocal", "setRemote", "publish"} \subseteq PCs
      BY DEF PCs
    <2>2. Active(t) /\ \E pc \in PCs : Goto(t, pc)
      BY <1>3, <2>1 DEF FillRemote, SetLocal, SetRemote, Active
    <2>. QED
      BY <1>3, <1>g, <2>2 DEF FillRemote, SetLocal, SetRemote
  <1>4. ASSUME NEW t \in Tasks, SetRemoteFails(t) PROVE Kept
    BY <1>4, <1>i DEF SetRemoteFails, Requeue, InHand
  <1>5. ASSUME NEW t \in Tasks, NEW p \in Procs, NEW k \in Keys, NEW s \in Shapes,
               GetMissesLocal(t, p, k) \/ CronReads(t, p, k, s) \/ DelLocal(t, p, k)
        PROVE  Kept
    BY <1>5, <1>0, <1>c, <1>k DEF GetMissesLocal, CronReads, DelLocal, Start
  <1>6. ASSUME NEW p \in Procs, DeleteCacheKey(p) \/ LoseMessages(p) PROVE Kept
    BY <1>6, <1>0 DEF DeleteCacheKey, LoseMessages
  <1>7. ASSUME NEW p \in Procs, Crash(p) PROVE Kept
    <2>1. ConsumerKeeps
      BY <1>7, <1>0, <1>c DEF Crash, Idle, ConsumerKeeps
    <2>. QED
      BY <1>7, <2>1 DEF Crash, Requeue, InHand
  <1>8. ASSUME NEW k \in Keys, ChainUpdate(k) PROVE FALSE
    BY <1>8, <1>k DEF ChainUpdate, SteadyStep, Versions
  <1>9. CASE UNCHANGED vars
    BY <1>9, <1>0 DEF vars
  <1>. HIDE DEF Kept
  <1>. QED
    BY <1>1, <1>2, <1>3, <1>4, <1>5, <1>6, <1>7, <1>8, <1>9
       DEF Next, TaskStep, SteadyStep, Shapes

\* A step that leaves the chain alone keeps the queue in order.
LEMMA SteadyQueue ==
    ASSUME TypeOK, TypeOK', AgeInv, SteadyStep, ~Tick
    PROVE  QueueOk'
  <1>. USE ConstantsAssumption
  <1>e. events \in Seq(Event) /\ events' \in Seq(Event) /\ UNCHANGED <<chain, since>>
    BY DEF TypeOK, SteadyStep
  <1>q. QueueOk
    BY DEF AgeInv
  <1>. DEFINE GoodEvents ==
                \A i \in 1..Len(events') :
                  /\ events'[i].wait <= MaxQueueLag
                  /\ Outdated(events'[i].val, events'[i].key) => Announced(events', events'[i].key, events'[i].val, i)
              GoodHand ==
                task'[Consumer].pc # "idle" /\ Outdated(task'[Consumer].val, task'[Consumer].key)
                  => Announced(events', task'[Consumer].key, task'[Consumer].val, 0)
  <1>. SUFFICES GoodEvents /\ GoodHand
    BY <1>e DEF QueueOk, Outdated, Announced, Active
  <1>1. CASE events' = events /\ ConsumerKeeps
    <2>1. \A k, v, i : Announced(events, k, v, i) => Announced(events', k, v, i)
      BY <1>1, <1>e DEF Announced
    <2>. QED
      BY <1>1, <1>q, <2>1 DEF QueueOk, ConsumerKeeps, Active
  <1>2. CASE ConsumeEvent
    <2>. DEFINE h == Head(events)
    <2>1. /\ events' = Tail(events) /\ events # <<>>
          /\ task'[Consumer].key = h.key /\ task'[Consumer].val = h.val
      BY <1>2 DEF ConsumeEvent, Start, TypeOK
    <2>2. /\ h = events[1] /\ 1 \in 1..Len(events)
          /\ Len(events') = Len(events) - 1
          /\ \A i \in 1..Len(events') : i + 1 \in 1..Len(events) /\ events'[i] = events[i + 1]
      BY <1>e, <2>1
    <2>3. ASSUME NEW k, NEW v, NEW i \in Int, Announced(events, k, v, i + 1), i >= 0
          PROVE  Announced(events', k, v, i)
      <3>1. PICK j \in 1..Len(events) :
              /\ j > i + 1 /\ events[j].key = k
              /\ events[j].val = v + 1 /\ since[k][v] <= events[j].wait
        BY <2>3 DEF Announced
      <3>2. j - 1 \in 1..Len(events') /\ j - 1 > i /\ events'[j - 1] = events[j]
        <4>1. Len(events') \in Nat /\ Len(events) \in Nat
          BY <1>e
        <4>2. j - 1 \in 1..Len(events') /\ j - 1 > i /\ (j - 1) + 1 = j
          BY <2>2, <2>3, <3>1, <4>1
        <4>3. events'[j - 1] = events[(j - 1) + 1]
          BY <2>2, <4>2
        <4>. QED
          BY <4>2, <4>3
      <3>. QED
        BY <1>e, <3>1, <3>2 DEF Announced
    <2>4. ASSUME NEW i \in 1..Len(events')
          PROVE  /\ events'[i].wait <= MaxQueueLag
                 /\ Outdated(events'[i].val, events'[i].key) => Announced(events', events'[i].key, events'[i].val, i)
      <3>1. i + 1 \in 1..Len(events) /\ events'[i] = events[i + 1]
        BY <2>2
      <3>2. /\ events[i + 1].wait <= MaxQueueLag
            /\ Outdated(events[i + 1].val, events[i + 1].key)
                 => Announced(events, events[i + 1].key, events[i + 1].val, i + 1)
        BY <1>q, <3>1 DEF QueueOk
      <3>3. i \in Int /\ i >= 0
        OBVIOUS
      <3>. QED
        BY <2>3, <3>1, <3>2, <3>3
    <2>5. Outdated(h.val, h.key) => Announced(events', h.key, h.val, 0)
      BY <1>q, <2>2, <2>3 DEF QueueOk
    <2>. QED
      BY <2>1, <2>4, <2>5
  <1>3. CASE events' = <<InHand>> \o events /\ Active(Consumer) /\ ConsumerKeeps
    <2>1. InHand \in Event
      BY DEF InHand, Event, TypeOK, Task
    <2>2. /\ Len(events') = Len(events) + 1
          /\ events'[1] = InHand
          /\ \A j \in 1..Len(events) : events'[j + 1] = events[j]
          /\ \A i \in 1..Len(events') : i = 1 \/ (i - 1 \in 1..Len(events)
                                                    /\ events'[i] = events[i - 1])
      BY <1>e, <1>3, <2>1
    <2>3. ASSUME NEW k, NEW v, NEW i \in Int, Announced(events, k, v, i), i >= 0
          PROVE  Announced(events', k, v, i + 1) /\ Announced(events', k, v, i)
      <3>1. PICK j \in 1..Len(events) :
              /\ j > i /\ events[j].key = k
              /\ events[j].val = v + 1 /\ since[k][v] <= events[j].wait
        BY <2>3 DEF Announced
      <3>2. j + 1 \in 1..Len(events') /\ j + 1 > i + 1 /\ j + 1 > i /\ events'[j + 1] = events[j]
        BY <1>e, <2>2, <2>3, <3>1
      <3>. QED
        BY <1>e, <3>1, <3>2 DEF Announced
    <2>4. Outdated(InHand.val, InHand.key) => Announced(events, InHand.key, InHand.val, 0)
      BY <1>q, <1>3 DEF QueueOk, InHand
    <2>5. ASSUME NEW i \in 1..Len(events')
          PROVE  /\ events'[i].wait <= MaxQueueLag
                 /\ Outdated(events'[i].val, events'[i].key) => Announced(events', events'[i].key, events'[i].val, i)
      <3>1. CASE i = 1
        <4>1. events'[i] = InHand /\ InHand.wait <= MaxQueueLag
          BY <2>2, <3>1 DEF InHand
        <4>. QED
          BY <2>3, <2>4, <3>1, <4>1
      <3>2. CASE i # 1
        <4>1. i - 1 \in 1..Len(events) /\ events'[i] = events[i - 1]
          BY <2>2, <3>2
        <4>. DEFINE e == events[i - 1]
        <4>2. Outdated(e.val, e.key) => Announced(events, e.key, e.val, i - 1)
          BY <1>q, <4>1 DEF QueueOk
        <4>3. Announced(events, e.key, e.val, i - 1) => Announced(events', e.key, e.val, (i - 1) + 1)
          BY <2>3, <4>1
        <4>. QED
          BY <1>q, <4>1, <4>2, <4>3 DEF QueueOk
      <3>. QED
        BY <3>1, <3>2
    <2>6. GoodHand
      BY <1>3, <2>3, <2>4 DEF ConsumerKeeps, InHand, Active
    <2>. QED
      BY <2>5, <2>6
  <1>. QED
    BY <1>1, <1>2, <1>3, QueueShape

\* An update of the chain makes the version it replaces outdated from now on, and announces
\* the one that replaces it.
LEMMA ChainUpdateAge ==
    ASSUME TypeOK, TypeOK', AgeInv, NEW c \in Keys, ChainUpdate(c)
    PROVE  AgeInv'
  <1>. USE ConstantsAssumption, Numbers
  <1>1. /\ chain'[c] = chain[c] + 1 /\ chain[c] \in Nat
        /\ \A k \in Keys : k # c => chain'[k] = chain[k]
        /\ UNCHANGED <<since, redis, local, task>>
    BY DEF ChainUpdate, TypeOK, Versions
  <1>2. /\ \A k \in Keys, v \in Versions : v >= chain[k] => since[k][v] = 0
        /\ \A t \in Tasks : FlowOk(t, task[t])
        /\ \A k \in Keys : EntryOk(redis[k], k, RemoteTtl, RedisLimit)
        /\ \A p \in Procs, k \in Keys : EntryOk(local[p][k], k, LocalTtl, LocalLimit)
        /\ QueueOk
    BY DEF AgeInv
  <1>o. ASSUME NEW k \in Keys, NEW v \in Versions, v # chain'[k]
        PROVE  \/ Outdated(v, k)
               \/ k = c /\ v = chain[c] /\ since[k][v] = 0
    <2>1. v \in Nat
      BY DEF Versions
    <2>. QED
      BY <1>1, <1>2, <1>o, <2>1 DEF Outdated
  <1>v. ASSUME NEW k \in Keys, NEW v \in Versions, v >= chain'[k] PROVE since'[k][v] = 0
    <2>1. v \in Nat
      BY DEF Versions
    <2>. QED
      BY <1>1, <1>2, <1>v, <2>1
  <1>3. ASSUME NEW t \in Tasks PROVE FlowOk(t, task[t])'
    <2>1. /\ task[t].key \in Keys /\ task[t].val \in Versions
          /\ task[t].wait \in Nat /\ HeldFor(task[t]) \in Nat
      BY HeldForIsNumber DEF TypeOK, Task
    <2>2. FlowOk(t, task[t])
      BY <1>2
    <2>3. HeldFor(task'[t]) = HeldFor(task[t])
      BY <1>1
    <2>4. task[t].val # chain'[task[t].key] =>
            Outdated(task[t].val, task[t].key) \/ since[task[t].key][task[t].val] = 0
      BY <1>o, <2>1
    <2>. QED
      BY <1>1, <2>1, <2>2, <2>3, <2>4 DEF FlowOk, HeldFor, Outdated
  <1>4. ASSUME NEW k \in Keys, NEW e \in Entry, NEW ttl \in Nat, NEW limit \in Nat,
               EntryOk(e, k, ttl, limit), ttl <= limit
        PROVE  Present(e) => /\ e.left <= ttl
                             /\ e.val # chain'[k] => since[k][e.val] + e.left <= limit
    <2>1. e.val \in Versions /\ e.left \in Nat
      BY DEF Entry
    <2>2. e.val # chain'[k] => Outdated(e.val, k) \/ since[k][e.val] = 0
      BY <1>o, <2>1
    <2>. QED
      BY <1>4, <2>1, <2>2 DEF EntryOk
  <1>5. ASSUME NEW k \in Keys PROVE EntryOk(redis[k], k, RemoteTtl, RedisLimit)'
    <2>1. redis[k] \in Entry /\ RemoteTtl <= RedisLimit /\ redis'[k] = redis[k]
      BY <1>1 DEF TypeOK
    <2>. QED
      BY <1>1, <1>2, <1>4, <2>1 DEF EntryOk, Outdated, RedisLimit, Present
  <1>6. ASSUME NEW p \in Procs, NEW k \in Keys
        PROVE  EntryOk(local[p][k], k, LocalTtl, LocalLimit)'
    <2>1. local[p][k] \in Entry /\ LocalTtl <= LocalLimit /\ local'[p][k] = local[p][k]
      BY <1>1 DEF TypeOK
    <2>. QED
      BY <1>1, <1>2, <1>4, <2>1 DEF EntryOk, Outdated, Present
  <1>7. QueueOk'
    <2>. DEFINE u == [key |-> c, val |-> chain[c] + 1, wait |-> 0]
    <2>0. events' = Append(events, u) /\ u \in Event /\ events \in Seq(Event)
      <3>1. chain[c] + 1 \in Versions
        BY <1>1 DEF TypeOK
      <3>. QED
        BY <3>1 DEF ChainUpdate, Event, TypeOK
    <2>1. /\ Len(events') = Len(events) + 1 /\ Len(events) \in Nat
          /\ \A i \in 1..Len(events) : events'[i] = events[i]
          /\ events'[Len(events) + 1] = u
          /\ u.key = c /\ u.val = chain[c] + 1 /\ u.wait = 0
      BY <1>1, <2>0
    <2>. HIDE DEF u
    \* What is outdated now was announced before, or is announced by u.
    <2>2. ASSUME NEW k \in Keys, NEW v \in Versions, NEW i \in Nat, i <= Len(events),
                 v # chain'[k], Outdated(v, k) => Announced(events, k, v, i)
          PROVE  Announced(events, k, v, i)'
      <3>1. CASE Outdated(v, k)
        BY <1>1, <2>1, <2>2, <3>1 DEF Announced
      <3>2. CASE ~Outdated(v, k)
        <4>1. k = c /\ v = chain[c] /\ since[k][v] = 0
          BY <1>o, <2>2, <3>2
        <4>2. /\ Len(events) + 1 \in 1..Len(events') /\ Len(events) + 1 > i
              /\ events'[Len(events) + 1].key = k
              /\ events'[Len(events) + 1].val = v + 1
              /\ since'[k][v] <= events'[Len(events) + 1].wait
          BY <1>1, <2>1, <2>2, <4>1
        <4>. QED
          BY <4>2 DEF Announced
      <3>. QED
        BY <3>1, <3>2
    <2>3. ASSUME NEW i \in 1..Len(events')
          PROVE  /\ events'[i].wait <= MaxQueueLag
                 /\ events'[i].val # chain'[events'[i].key]
                      => Announced(events, events[i].key, events[i].val, i)'
      <3>1. CASE i \in 1..Len(events)
        <4>1. events[i] \in Event /\ events'[i] = events[i]
          BY <2>0, <2>1, <3>1
        <4>2. events[i].key \in Keys /\ events[i].val \in Versions
          BY <4>1 DEF Event
        <4>3. /\ events[i].wait <= MaxQueueLag
              /\ Outdated(events[i].val, events[i].key)
                   => Announced(events, events[i].key, events[i].val, i)
          BY <1>2, <3>1 DEF QueueOk
        <4>4. i \in Nat /\ i <= Len(events)
          BY <2>1, <3>1
        <4>. QED
          BY <2>2, <4>1, <4>2, <4>3, <4>4
      <3>2. CASE i = Len(events) + 1
        BY <1>1, <2>1, <3>2
      <3>. QED
        BY <2>1, <3>1, <3>2
    <2>4. ASSUME task[Consumer].pc # "idle", task[Consumer].val # chain'[task[Consumer].key]
          PROVE  Announced(events, task[Consumer].key, task[Consumer].val, 0)'
      <3>1. task[Consumer].key \in Keys /\ task[Consumer].val \in Versions
        BY DEF TypeOK, Task
      <3>2. Outdated(task[Consumer].val, task[Consumer].key)
              => Announced(events, task[Consumer].key, task[Consumer].val, 0)
        BY <1>2, <2>4 DEF QueueOk, Active
      <3>3. 0 \in Nat /\ 0 <= Len(events)
        BY <2>1
      <3>4. \A k \in Keys, v \in Versions :
              v # chain'[k] /\ (Outdated(v, k) => Announced(events, k, v, 0))
                => Announced(events, k, v, 0)'
        BY <2>2, <3>3
      <3>. QED
        <4>. DEFINE k == task[Consumer].key
                    v == task[Consumer].val
        <4>1. k \in Keys /\ v \in Versions /\ task' = task
          BY <1>1, <3>1
        <4>2. \E j \in 1..Len(events') :
                 j > 0 /\ events'[j].key = k /\ events'[j].val = v + 1
                   /\ since'[k][v] <= events'[j].wait
          <5>. HIDE DEF k, v
          <5>1. v # chain'[k] /\ (Outdated(v, k) => Announced(events, k, v, 0))
            BY <2>4, <3>2 DEF k, v
          <5>. QED
            BY <3>4, <4>1, <5>1 DEF Announced
        <4>. QED
          BY <4>1, <4>2 DEF Announced
    <2>. QED
      BY <1>1, <2>3, <2>4 DEF QueueOk, Outdated, Active
  <1>. QED
    BY <1>v, <1>3, <1>5, <1>6, <1>7 DEF AgeInv

\* As time passes, values become older no faster than what is left of the
\* entries and what the flows and the events have waited.
LEMMA TickAge ==
    ASSUME TypeOK, TypeOK', AgeInv, Tick
    PROVE  AgeInv'
  <1>. USE ConstantsAssumption, Numbers
  <1>1. /\ chain' = chain
        /\ \A k \in Keys, v \in Versions :
              /\ since[k][v] \in Nat /\ since'[k][v] \in Nat
              /\ since'[k][v] <= since[k][v] + 1
              /\ v >= chain[k] => since'[k][v] = since[k][v]
    <2>1. \A k \in Keys, v \in Versions : since[k][v] \in Nat /\ v \in Nat /\ chain[k] \in Nat
      BY DEF TypeOK, Versions
    <2>2. \A k \in Keys, v \in Versions :
            since'[k][v] = IF v < chain[k] /\ since[k][v] < Horizon
                           THEN since[k][v] + 1 ELSE since[k][v]
      BY Zenon DEF Tick
    <2>3. chain' = chain
      BY DEF Tick
    <2>. QED
      BY <2>1, <2>2, <2>3
  <1>2. /\ \A k \in Keys, v \in Versions : v >= chain[k] => since[k][v] = 0
        /\ \A t \in Tasks : FlowOk(t, task[t])
        /\ \A k \in Keys : EntryOk(redis[k], k, RemoteTtl, RedisLimit)
        /\ \A p \in Procs, k \in Keys : EntryOk(local[p][k], k, LocalTtl, LocalLimit)
        /\ QueueOk
    BY DEF AgeInv
  <1>t. ASSUME NEW t \in Tasks
        PROVE  /\ task'[t].pc = task[t].pc /\ task'[t].key = task[t].key
               /\ task'[t].val = task[t].val
               /\ task[t].pc # "idle" =>
                    task'[t].wait = task[t].wait + 1 /\ task[t].wait < MaxLatency
               /\ task[t].pc = "idle" => task'[t].wait = task[t].wait
    <2>1. task[t] \in Task
      BY DEF TypeOK
    <2>2. task'[t] = IF Active(t) THEN [task[t] EXCEPT !.wait = task[t].wait + 1] ELSE task[t]
      BY DEF Tick
    <2>3. Active(t) => task[t].wait < MaxLatency
      BY DEF Tick
    <2>. QED
      BY <2>1, <2>2, <2>3 DEF Task, Active
  <1>3. ASSUME NEW t \in Tasks PROVE FlowOk(t, task[t])'
    <2>1. /\ task[t].key \in Keys /\ task[t].val \in Versions
          /\ task[t].wait \in Nat /\ HeldFor(task[t]) \in Nat
      BY HeldForIsNumber DEF TypeOK, Task
    <2>2. FlowOk(t, task[t])
      BY <1>2
    <2>3. HeldFor(task'[t]) = HeldFor(task[t]) /\ HeldFor(task[t])' = HeldFor(task[t])
      BY <1>t DEF HeldFor
    <2>4. task'[t].wait <= MaxLatency
      BY <1>t, <2>1, <2>2 DEF FlowOk
    <2>. QED
      BY <1>1, <1>t, <2>1, <2>2, <2>3, <2>4 DEF FlowOk, Outdated
  <1>4. ASSUME NEW k \in Keys, NEW e \in Entry, NEW ttl \in Nat, NEW limit \in Nat,
               EntryOk(e, k, ttl, limit)
        PROVE  Present(Aged(e)) => /\ Aged(e).left <= ttl
                                   /\ Aged(e).val # chain'[k] => since'[k][Aged(e).val] + Aged(e).left <= limit
    BY <1>1, <1>4 DEF EntryOk, Present, Entry, Aged, Empty, Outdated
  <1>5. ASSUME NEW k \in Keys PROVE EntryOk(redis[k], k, RemoteTtl, RedisLimit)'
    <2>1. redis[k] \in Entry /\ redis'[k] = Aged(redis[k])
      BY DEF TypeOK, Tick
    <2>. QED
      BY <1>2, <1>4, <2>1 DEF EntryOk, Outdated, RedisLimit, Present
  <1>6. ASSUME NEW p \in Procs, NEW k \in Keys
        PROVE  EntryOk(local[p][k], k, LocalTtl, LocalLimit)'
    <2>1. local[p][k] \in Entry /\ local'[p][k] = Aged(local[p][k])
      BY DEF TypeOK, Tick
    <2>. QED
      BY <1>2, <1>4, <2>1 DEF EntryOk, Outdated, Present
  <1>7. QueueOk'
    <2>1. /\ Len(events') = Len(events) /\ Len(events) \in Nat
          /\ \A i \in 1..Len(events) : events[i] \in Event
          /\ \A i \in 1..Len(events) : events'[i] = [events[i] EXCEPT !.wait = events[i].wait + 1]
      <3>. DEFINE E == [i \in 1..Len(events) |-> [events[i] EXCEPT !.wait = events[i].wait + 1]]
      <3>1. events' = E
        BY DEF Tick
      <3>2. events \in Seq(Event) /\ Len(events) \in Nat
        BY DEF TypeOK
      <3>3. Len(E) = Len(events)
        BY <3>2
      <3>. QED
        BY <3>1, <3>2, <3>3
    <2>2. ASSUME NEW i \in 1..Len(events)
          PROVE  /\ events'[i].key = events[i].key /\ events[i].key \in Keys
                 /\ events'[i].val = events[i].val /\ events[i].val \in Versions
                 /\ events[i].wait \in Nat /\ events'[i].wait = events[i].wait + 1
                 /\ events[i].wait < MaxQueueLag
      BY <2>1 DEF Event, Tick
    <2>3. ASSUME NEW k \in Keys, NEW v \in Versions, NEW i \in Int, Announced(events, k, v, i)
          PROVE  \E j \in 1..Len(events') : /\ j > i /\ events'[j].key = k
                                            /\ events'[j].val = v + 1
                                            /\ since'[k][v] <= events'[j].wait
      <3>1. PICK j \in 1..Len(events) :
              /\ j > i /\ events[j].key = k
              /\ events[j].val = v + 1 /\ since[k][v] <= events[j].wait
        BY <2>3 DEF Announced
      <3>2. since'[k][v] <= events'[j].wait
        BY <1>1, <2>2, <3>1
      <3>. QED
        BY <1>1, <2>1, <2>2, <3>1, <3>2
    <2>4. ASSUME NEW i \in 1..Len(events')
          PROVE  /\ events'[i].wait <= MaxQueueLag
                 /\ events'[i].val # chain'[events'[i].key]
                      => Announced(events, events[i].key, events[i].val, i)
      <3>1. i \in 1..Len(events)
        BY <2>1
      <3>. QED
        BY <1>1, <1>2, <2>2, <3>1 DEF QueueOk, Outdated
    <2>5. task'[Consumer].pc # "idle" /\ task'[Consumer].val # chain'[task'[Consumer].key]
            => /\ task[Consumer].key \in Keys /\ task[Consumer].val \in Versions
               /\ Announced(events, task[Consumer].key, task[Consumer].val, 0)
      BY <1>1, <1>2, <1>t DEF QueueOk, Outdated, TypeOK, Task, Active
    <2>6. ASSUME NEW i \in 1..Len(events'), events'[i].val # chain'[events'[i].key]
          PROVE  \E j \in 1..Len(events') : /\ j > i /\ events'[j].key = events'[i].key
                                            /\ events'[j].val = events'[i].val + 1
                                            /\ since'[events'[i].key][events'[i].val] <= events'[j].wait
      <3>1. i \in Int /\ i \in 1..Len(events)
        BY <2>1
      <3>. QED
        BY <2>2, <2>3, <2>4, <2>6, <3>1
    <2>7. ASSUME task'[Consumer].pc # "idle", task'[Consumer].val # chain'[task'[Consumer].key]
          PROVE  \E j \in 1..Len(events') : /\ j > 0 /\ events'[j].key = task'[Consumer].key
                                            /\ events'[j].val = task'[Consumer].val + 1
                                            /\ since'[task'[Consumer].key][task'[Consumer].val]
                                                 <= events'[j].wait
      BY <1>t, <2>3, <2>5, <2>7
    <2>. QED
      BY <2>4, <2>6, <2>7 DEF QueueOk, Outdated, Announced, Active
  <1>. QED
    BY <1>1, <1>2, <1>3, <1>5, <1>6, <1>7 DEF AgeInv

LEMMA AgeInit == Init => AgeInv
  <1>. SUFFICES ASSUME Init PROVE AgeInv
    OBVIOUS
  <1>. USE ConstantsAssumption DEF Init
  <1>1. QueueOk
    BY DEF QueueOk, Active, Idle
  <1>2. \A t \in Tasks : FlowOk(t, task[t])
    BY DEF FlowOk, Idle
  <1>3. \A k, ttl, limit : EntryOk(Empty, k, ttl, limit)
    BY DEF EntryOk, Present, Empty
  <1>4. \A k \in Keys, v \in Versions : since[k][v] = 0
    OBVIOUS
  <1>. QED
    BY <1>1, <1>2, <1>3, <1>4 DEF AgeInv

LEMMA AgeNext == TypeOK /\ TypeOK' /\ AgeInv /\ [Next]_vars => AgeInv'
  <1>. SUFFICES ASSUME TypeOK, TypeOK', AgeInv, [Next]_vars PROVE AgeInv'
    OBVIOUS
  <1>1. CASE Tick
    BY <1>1, TickAge
  <1>2. ASSUME NEW c \in Keys, ChainUpdate(c) PROVE AgeInv'
    BY <1>2, ChainUpdateAge
  <1>3. CASE SteadyStep /\ ~Tick
    <2>1. \A k \in Keys, v \in Versions : v >= chain'[k] => since'[k][v] = 0
      BY <1>3 DEF AgeInv, SteadyStep
    <2>. QED
      BY <1>3, <2>1, SteadyQueue, SteadyFlows, SteadyCaches DEF AgeInv
  <1>4. ~Tick /\ ~(\E c \in Keys : ChainUpdate(c)) => UNCHANGED <<chain, since>>
    BY DEF Next, TaskStep, GetRemote, CreateValue, CreateFails, FillRemote, FillLocal,
           SetLocal, SetRemote, SetRemoteFails, Publish, DelRemote, GetMissesLocal, CronReads,
           DelLocal, ConsumeEvent, DeleteCacheKey, LoseMessages, Crash, vars
  <1>. QED
    BY <1>1, <1>2, <1>3, <1>4 DEF SteadyStep

LEMMA AgeBounds ==
    ASSUME TypeOK, AgeInv
    PROVE  RedisStalenessBounded /\ LocalStalenessBounded
  <1>1. ASSUME NEW k \in Keys, Stale(redis[k], k) PROVE since[k][redis[k].val] < RemoteTtl + StoreDelay
    <2>1. redis[k].left \in Nat /\ since[k][redis[k].val] \in Nat
      BY DEF TypeOK, Entry
    <2>2. redis[k].left > 0 /\ since[k][redis[k].val] + redis[k].left <= RedisLimit
      BY <1>1 DEF Stale, Present, AgeInv, EntryOk, Outdated
    <2>. QED
      BY <2>1, <2>2, Numbers, ConstantsAssumption
  <1>2. ASSUME NEW p \in Procs, NEW k \in Keys, Stale(local[p][k], k)
        PROVE  since[k][local[p][k].val] + 1 < RemoteTtl + LocalTtl + StoreDelay + MaxLatency
    <2>1. local[p][k].left \in Nat /\ since[k][local[p][k].val] \in Nat
      BY DEF TypeOK, Entry
    <2>2. local[p][k].left > 0 /\ since[k][local[p][k].val] + local[p][k].left <= LocalLimit
      BY <1>2 DEF Stale, Present, AgeInv, EntryOk, Outdated
    <2>. QED
      BY <2>1, <2>2, Numbers, ConstantsAssumption
  <1>. QED
    BY <1>1, <1>2 DEF RedisStalenessBounded, LocalStalenessBounded

\* Every outdated value a cache or a flow holds has a deadline that counts from when it was
\* replaced, and the consumer never overtakes the event that outdates the one in its hands.
THEOREM AgeInvariant == Spec => []AgeInv
  <1>1. TypeOK /\ TypeOK' /\ AgeInv /\ [Next]_vars => AgeInv'
    BY AgeNext
  <1>. QED
    BY <1>1, AgeInit, TypeCorrect, PTL DEF Spec

\* The value of a Redis entry was current less than its time to live plus StoreDelay ago,
\* whatever overlaps, fails or is lost, and however often the key changes.
THEOREM RedisStaleness == Spec => []RedisStalenessBounded
  <1>1. TypeOK /\ AgeInv => RedisStalenessBounded
    BY AgeBounds
  <1>. QED
    BY <1>1, AgeInvariant, TypeCorrect, PTL

\* The value of an in-memory copy was current less than both times to live and the delays
\* ago, in any process, listening or not.
THEOREM LocalStaleness == Spec => []LocalStalenessBounded
  <1>1. TypeOK /\ AgeInv => LocalStalenessBounded
    BY AgeBounds
  <1>. QED
    BY <1>1, AgeInvariant, TypeCorrect, PTL
================================================================================
