----------------------------- MODULE EventsConsumer -----------------------------
(***************************************************************************)
(* RabbitMqConsumer: the handler of the messages of the events notifier.   *)
(* One message carries the events of one block.  The handler keeps the     *)
(* events of the contracts it filters for, handles them one after the      *)
(* other, sums up what they say about volumes and prices in this.data, and *)
(* writes the sums to the analytics table before the message is            *)
(* acknowledged.  A handler that throws, a lost channel or a crash makes   *)
(* the broker deliver the message again.                                   *)
(*                                                                         *)
(* this.data and this.filterAddresses belong to the consumer, not to the   *)
(* call: a handler that lost its channel goes on and shares them with the  *)
(* handler of the redelivered message.                                     *)
(***************************************************************************)
EXTENDS Naturals, Sequences, FiniteSetsExt

CONSTANTS
    Pairs, Token, Blocks,   \* as in AnalyticsLedger
    Listed,                 \* pairs listed before the first block
    Handlers,               \* concurrent calls of consumeEvents
    MaxBlocks,              \* bound: blocks
    MaxFailures,            \* bound: handler exceptions and crashes
    MaxRefreshFailures,     \* bound: failed reads of the list of pairs
    MaxWriteFailures,       \* bound: blocks whose write fails
    MaxReconnects           \* bound: lost channels

ASSUME EventsConsumerAssumption ==
    /\ Token \notin Pairs
    /\ {"router", "token"} \cap Pairs = {}
    /\ Listed \subseteq Pairs
    /\ {MaxBlocks, MaxFailures, MaxRefreshFailures, MaxWriteFailures, MaxReconnects} \subseteq Nat

\* Swaps are emitted by the pair they are about, pairs are created by the router.
ASSUME EventsAssumption ==
    \A block \in Blocks :
       /\ block \in Seq([name : {"swap", "createPair", "esdt"},
                        address : Pairs \cup {"router", "token"}, pair : Pairs])
       /\ \A i \in DOMAIN block :
            /\ block[i].name = "swap" => block[i].address = block[i].pair
            /\ block[i].name = "createPair" => block[i].address = "router"

VARIABLES
    blocks,    \* events of every block of the chain, by timestamp
    rows,      \* the analytics table, by timestamp
    queue,     \* timestamps of the messages waiting in the broker
    handler,   \* handler[h]: state of call h
    up,        \* the process has computed its filter and consumes
    filter,    \* this.filterAddresses
    data,      \* this.data, by series
    lost,      \* timestamps whose write failed
    failures, refreshFailures, reconnects

vars == <<blocks, rows, queue, handler, up, filter, data, lost,
                  failures, refreshFailures, reconnects>>

counters == <<failures, refreshFailures, reconnects>>

\* A block waits while its message is in the broker or with a call that has to answer for it.
Settled(t) == /\ \A i \in DOMAIN queue : queue[i] # t
              /\ \A h \in Handlers : handler[h].open => handler[h].time # t

Ledger == INSTANCE AnalyticsLedger
            WITH waiting <- {t \in DOMAIN blocks : ~Settled(t)},
                 exact <- reconnects + refreshFailures = 0

Series == Ledger!Series
NoRow == Ledger!NoRow
Touches(e, s) == Ledger!Touches(e, s)

--------------------------------------------------------------------------------
Created(block) == {block[i].pair : i \in {j \in DOMAIN block : block[j].name = "createPair"}}

\* Pairs the router lists once the blocks before t are executed.
ListedBefore(t) == Listed \cup UNION {Created(blocks[u]) : u \in 1..(t - 1)}

\* What getFilterAddresses collects: the pairs of the router and fixed addresses.
FilterAddresses == ListedBefore(Len(blocks) + 1) \cup {"router"}

NoData == [s \in Series |-> NoRow]

\* Mints and burns pass whichever token contract they come from.
Admits(e) == e.name = "esdt" \/ e.address \in filter

PCs == {"idle", "handling", "refreshing", "writing", "acking"}

\* todo holds the positions of the events that passed the filter and are not handled yet;
\* open tells whether the broker still expects this call to acknowledge the message.
Idle == [pc |-> "idle", time |-> 0, todo |-> {}, open |-> FALSE]

\* Events are handled in the order of the block.
Position(h) == Min(handler[h].todo)
Current(h) == blocks[handler[h].time][Position(h)]

InFlight == {h \in Handlers : handler[h].open}

\* The call ends without an acknowledgement.
Throw(h) ==
    /\ handler' = [handler EXCEPT ![h] = Idle]
    /\ queue' = IF handler[h].open THEN <<handler[h].time>> \o queue ELSE queue

\* updateIngestData: sums for volumes, last value for the rest.
Updated(acc, i, e) ==
    [s \in Series |-> IF Touches(e, s)
                      THEN [volume |-> acc[s].volume + 1, price |-> i] ELSE acc[s]]

AfterEvent(h) ==
    [handler EXCEPT ![h].pc = "handling", ![h].todo = handler[h].todo \ {Position(h)}]

--------------------------------------------------------------------------------
Init ==
    /\ blocks = <<>> /\ rows = <<>>
    /\ queue = <<>>
    /\ handler = [h \in Handlers |-> Idle]
    /\ up = FALSE
    /\ filter = {}
    /\ data = NoData
    /\ lost = {}
    /\ failures = 0 /\ refreshFailures = 0 /\ reconnects = 0

\* The chain executes a block and the notifier publishes its events.  A pair is
\* traded in later blocks than the one that creates it: its liquidity token is
\* issued in between.
Emit(block) ==
    /\ Len(blocks) < MaxBlocks
    /\ \A i \in DOMAIN block :
         /\ block[i].name = "swap" => block[i].pair \in ListedBefore(Len(blocks) + 1)
         /\ block[i].name = "createPair" => block[i].pair \notin ListedBefore(Len(blocks) + 1)
    /\ blocks' = Append(blocks, block)
    /\ rows' = Append(rows, NoData)
    /\ queue' = Append(queue, Len(blocks) + 1)
    /\ UNCHANGED <<handler, up, filter, data, lost, counters>>

\* bootstrap: the filter is computed before the application listens.
Start ==
    /\ ~up
    /\ up' = TRUE
    /\ filter' = FilterAddresses
    /\ UNCHANGED <<blocks, rows, queue, handler, data, lost, counters>>

\* Fault: this.data keeps what an earlier call left in it.
DeliverKeepsData(h) ==
    /\ up /\ queue # <<>> /\ InFlight = {} /\ handler[h].pc = "idle"
    /\ LET t == Head(queue) IN
         handler' = [handler EXCEPT ![h] =
            [pc |-> "handling", time |-> t, open |-> TRUE,
             todo |-> {i \in DOMAIN blocks[t] : Admits(blocks[t][i])}]]
    /\ queue' = Tail(queue)
    /\ UNCHANGED <<blocks, rows, up, filter, data, lost, counters>>

\* consumeEvents starts: prefetchCount 1 and a single active consumer leave at
\* most one message unacknowledged.  The events are filtered, this.data reset.
Deliver(h) ==
    /\ up /\ queue # <<>> /\ InFlight = {} /\ handler[h].pc = "idle"
    /\ LET t == Head(queue) IN
         handler' = [handler EXCEPT ![h] =
            [pc |-> "handling", time |-> t, open |-> TRUE,
             todo |-> {i \in DOMAIN blocks[t] : Admits(blocks[t][i])}]]
    /\ queue' = Tail(queue)
    /\ data' = NoData
    /\ UNCHANGED <<blocks, rows, up, filter, lost, counters>>

\* Fault: the sums are attributed to the event that follows.
HandleEventNext(h) ==
    /\ handler[h].pc = "handling" /\ handler[h].todo # {}
    /\ Current(h).name # "createPair"
    /\ data' = Updated(data, Position(h), Current(h))
    /\ handler' = [handler EXCEPT ![h].todo = (@ \ {Position(h)}) \cup {Position(h) + 1}]
    /\ UNCHANGED <<blocks, rows, queue, up, filter, lost, counters>>

\* The handler of a swap (or of another event that is not createPair) resolves.
HandleEvent(h) ==
    /\ handler[h].pc = "handling" /\ handler[h].todo # {}
    /\ Current(h).name # "createPair"
    /\ data' = Updated(data, Position(h), Current(h))
    /\ handler' = AfterEvent(h)
    /\ UNCHANGED <<blocks, rows, queue, up, filter, lost, counters>>

\* The router handler resolves and getFilterAddresses empties the list before
\* it awaits the addresses of all pairs.
HandleCreatePair(h) ==
    /\ handler[h].pc = "handling" /\ handler[h].todo # {}
    /\ Current(h).name = "createPair"
    /\ filter' = {}
    /\ handler' = [handler EXCEPT ![h].pc = "refreshing"]
    /\ UNCHANGED <<blocks, rows, queue, up, data, lost, counters>>

RefreshFilter(h) ==
    /\ handler[h].pc = "refreshing"
    /\ filter' = FilterAddresses
    /\ handler' = AfterEvent(h)
    /\ UNCHANGED <<blocks, rows, queue, up, data, lost, counters>>

\* getAllPairsAddressRaw throws: the list stays empty.
RefreshFails(h) ==
    /\ handler[h].pc = "refreshing"
    /\ refreshFailures < MaxRefreshFailures
    /\ refreshFailures' = refreshFailures + 1
    /\ Throw(h)
    /\ UNCHANGED <<blocks, rows, up, filter, data, lost, failures, reconnects>>

\* The handler of an event throws.
HandlerThrows(h) ==
    /\ handler[h].pc = "handling" /\ handler[h].todo # {}
    /\ failures < MaxFailures
    /\ failures' = failures + 1
    /\ Throw(h)
    /\ UNCHANGED <<blocks, rows, up, filter, data, lost, refreshFailures, reconnects>>

\* Fault: a message without data is left without an answer.
FinishEventsSilent(h) ==
    /\ handler[h].pc = "handling" /\ handler[h].todo = {}
    /\ handler' = [handler EXCEPT ![h].pc = IF data = NoData THEN "idle" ELSE "writing"]
    /\ UNCHANGED <<blocks, rows, queue, up, filter, data, lost, counters>>

\* All events are handled; without data there is nothing to write.
FinishEvents(h) ==
    /\ handler[h].pc = "handling" /\ handler[h].todo = {}
    /\ handler' = [handler EXCEPT ![h].pc = IF data = NoData THEN "acking" ELSE "writing"]
    /\ UNCHANGED <<blocks, rows, queue, up, filter, data, lost, counters>>

\* save() overwrites the rows with the same timestamp, series and key.
Write(h) ==
    /\ handler[h].pc = "writing"
    /\ rows' = [rows EXCEPT ![handler[h].time] =
                  [s \in Series |-> IF data[s] = NoRow THEN @[s] ELSE data[s]]]
    /\ handler' = [handler EXCEPT ![h].pc = "acking"]
    /\ UNCHANGED <<blocks, queue, up, filter, data, lost, counters>>

\* A failed write is logged and swallowed.
WriteFails(h) ==
    /\ handler[h].pc = "writing"
    /\ Cardinality(lost) < MaxWriteFailures
    /\ lost' = lost \cup {handler[h].time}
    /\ handler' = [handler EXCEPT ![h].pc = "acking"]
    /\ UNCHANGED <<blocks, rows, queue, up, filter, data, counters>>

Acknowledge(h) ==
    /\ handler[h].pc = "acking"
    /\ handler' = [handler EXCEPT ![h] = Idle]
    /\ UNCHANGED <<blocks, rows, queue, up, filter, data, lost, counters>>

\* The process dies, and with it every call, the list and the sums.
Crash ==
    /\ up
    /\ failures < MaxFailures
    /\ failures' = failures + 1
    /\ up' = FALSE
    /\ queue' = IF InFlight = {} THEN queue
                ELSE <<handler[CHOOSE h \in InFlight : TRUE].time>> \o queue
    /\ handler' = [h \in Handlers |-> Idle]
    /\ filter' = {}
    /\ data' = NoData
    /\ UNCHANGED <<blocks, rows, lost, refreshFailures, reconnects>>

\* The channel is lost: the broker takes the message back, the call goes on.
Reconnect(h) ==
    /\ handler[h].open
    /\ reconnects < MaxReconnects
    /\ reconnects' = reconnects + 1
    /\ handler' = [handler EXCEPT ![h].open = FALSE]
    /\ queue' = <<handler[h].time>> \o queue
    /\ UNCHANGED <<blocks, rows, up, filter, data, lost, failures, refreshFailures>>

HandlerStep(h) ==
    \/ HandleEvent(h)
    \/ HandleCreatePair(h)
    \/ RefreshFilter(h)
    \/ RefreshFails(h)
    \/ HandlerThrows(h)
    \/ FinishEvents(h)
    \/ Write(h)
    \/ WriteFails(h)
    \/ Acknowledge(h)

Next ==
    \/ \E block \in Blocks : Emit(block)
    \/ Start
    \/ \E h \in Handlers : Deliver(h)
    \/ \E h \in Handlers : HandlerStep(h)
    \/ Crash
    \/ \E h \in Handlers : Reconnect(h)

Spec == Init /\ [][Next]_vars

\* The event loop completes every call, the broker delivers, a process that
\* died is started again.
FairSpec ==
    /\ Spec
    /\ WF_vars(Start)
    /\ WF_vars(\E h \in Handlers : Deliver(h))
    /\ \A h \in Handlers : WF_vars(HandlerStep(h))

--------------------------------------------------------------------------------
(* Properties                                                              *)

\* Type correctness of the variables of the consumer.
TypeOK ==
    /\ \A t \in DOMAIN blocks : blocks[t] \in Blocks
    /\ \A t \in DOMAIN rows : rows[t] \in [Series -> [volume : Nat, price : Nat]]
    /\ \A i \in DOMAIN queue : queue[i] \in DOMAIN blocks
    /\ \A h \in Handlers :
         /\ handler[h].pc \in PCs
         /\ handler[h].pc # "idle" => handler[h].time \in DOMAIN blocks
         /\ \A i \in handler[h].todo : i \in DOMAIN blocks[handler[h].time]
    /\ up \in BOOLEAN
    /\ filter \subseteq Pairs \cup {"router"}
    /\ data \in [Series -> [volume : Nat, price : Nat]]
    /\ lost \subseteq DOMAIN blocks

\* The table is a ledger of exact totals.  Every write of a block stores the sums of all its
\* events, so that no redelivery, exception or crash makes a volume count twice or leaves a
\* row with a part of its block; and no message is acknowledged before its rows are in the
\* table, unless its write failed.  Two faults end this: a call that outlives its channel adds
\* to the sums of the redelivered one, and a list of pairs that cannot be read leaves the
\* filter empty.
ImplementsLedger == Ledger!Spec

\* A message that was acknowledged has its rows in the table, unless its write
\* failed: the list of pairs is read again early enough for every swap of a new
\* pair to pass the filter.
AcknowledgedIsRecorded ==
    \A t \in DOMAIN blocks : Settled(t) /\ t \notin lost =>
        \A s \in Series : rows[t][s] = Ledger!Total(blocks[t], s)

\* No message is delivered for ever: the queue drains, whichever calls throw,
\* crash or outlive their channel.
QueueDrains == <>[](queue = <<>> /\ InFlight = {})
================================================================================
