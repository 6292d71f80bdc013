------------------------- MODULE EventsConsumer_proofs -------------------------
(***************************************************************************)
(* The events consumer implements the ledger: for any pairs, blocks and    *)
(* calls, and any number of exceptions, crashes and failed writes.         *)
(***************************************************************************)
EXTENDS EventsConsumer, FiniteSetTheorems, SequenceTheorems, NaturalsInduction, TLAPS

--------------------------------------------------------------------------------
(* What always holds.                                                      *)

Row == [volume : Nat, price : Nat]

CallType == [pc : PCs, time : Nat, todo : SUBSET Nat, open : BOOLEAN]

ChainInv ==
    /\ blocks \in Seq(Blocks)
    /\ \A t \in 1..Len(blocks) : \A i \in DOMAIN blocks[t] :
         blocks[t][i].name = "swap" => blocks[t][i].pair \in ListedBefore(t)

TableInv ==
    /\ rows \in Seq([Series -> Row])
    /\ Len(rows) = Len(blocks)
    /\ lost \subseteq 1..Len(blocks)

QueueInv ==
    /\ queue \in Seq(Nat)
    /\ \A i \in 1..Len(queue) : queue[i] \in 1..Len(blocks)

CallInv(h) ==
    /\ handler[h].pc # "idle" => /\ handler[h].time \in 1..Len(blocks)
                                 /\ handler[h].todo \subseteq DOMAIN blocks[handler[h].time]
    /\ handler[h].pc = "idle" => ~handler[h].open
    /\ handler[h].pc \in {"idle", "writing", "acking"} => handler[h].todo = {}

CallsInv ==
    /\ handler \in [Handlers -> CallType]
    /\ \A h \in Handlers : CallInv(h)

ConsumerInv ==
    /\ up \in BOOLEAN
    /\ filter \subseteq Pairs \cup {"router"}
    /\ data \in [Series -> Row]
    /\ failures \in Nat /\ refreshFailures \in Nat /\ reconnects \in Nat

TypeInv == ChainInv /\ TableInv /\ QueueInv /\ CallsInv /\ ConsumerInv

--------------------------------------------------------------------------------
(* What holds until a channel is lost or the list of pairs cannot be read. *)

Exact == reconnects + refreshFailures = 0

\* The block of the call in flight, or the last one that is settled.
Front == Len(blocks) - Len(queue)

QueueOrder == \A i \in 1..Len(queue) : queue[i] = Front + i

CallsOrder ==
    /\ \A h \in Handlers : handler[h].pc # "idle" =>
         up /\ handler[h].open /\ handler[h].time = Front
    /\ \A g, h \in Handlers : handler[g].pc # "idle" /\ handler[h].pc # "idle" => g = h

SumOf(set) == IF set = {} THEN NoRow ELSE [volume |-> Cardinality(set), price |-> Max(set)]

Touching(t, s) ==
    {i \in DOMAIN blocks[t] : blocks[t][i].name = "swap" /\ s \in {blocks[t][i].pair, Token}}

RowsExact == \A t \in 1..Len(rows) : \A s \in Series : rows[t][s] \in {NoRow, SumOf(Touching(t, s))}

\* The filter has the pairs that may be traded in the next message.
FilterReady ==
    up /\ (\A h \in Handlers : handler[h].pc = "idle") =>
        "router" \in filter /\ ListedBefore(Front + 1) \subseteq filter

\* ... and those created so far in the message that is handled.
FilterKept(h) ==
    handler[h].pc \notin {"idle", "refreshing"} =>
        /\ "router" \in filter /\ ListedBefore(handler[h].time) \subseteq filter
        /\ \A i \in DOMAIN blocks[handler[h].time] \ handler[h].todo :
             blocks[handler[h].time][i].name = "createPair" =>
                blocks[handler[h].time][i].pair \in filter

\* Every swap passed the filter, and what is left comes after what is handled.
InOrder(h) ==
    \A i \in handler[h].todo, j \in DOMAIN blocks[handler[h].time] \ handler[h].todo :
        blocks[handler[h].time][j].name = "swap" => j < i

\* The sums are those of the events handled so far.
SumsExact(h) ==
    handler[h].pc \in {"handling", "refreshing", "writing"} =>
        /\ InOrder(h)
        /\ \A s \in Series : data[s] = SumOf(Touching(handler[h].time, s) \ handler[h].todo)

AtCreatePair(h) ==
    handler[h].pc = "refreshing" => handler[h].todo # {} /\ Current(h).name = "createPair"

Answered(h) ==
    handler[h].pc = "acking" =>
        \/ handler[h].time \in lost
        \/ \A s \in Series : rows[handler[h].time][s] = SumOf(Touching(handler[h].time, s))

CallExact(h) == FilterKept(h) /\ SumsExact(h) /\ AtCreatePair(h) /\ Answered(h)

ExactInv ==
    /\ QueueOrder /\ CallsOrder /\ RowsExact /\ FilterReady
    /\ \A h \in Handlers : CallExact(h)

IInv == TypeInv /\ (Exact => ExactInv)

--------------------------------------------------------------------------------
(* Sets of positions.                                                      *)

\* A set of positions has a first one.
LEMMA MinIsFirst ==
    ASSUME NEW S \in SUBSET Nat, S # {}
    PROVE  Min(S) \in S /\ \A y \in S : Min(S) <= y
<1>1. PICK x \in S : \A y \in S : ~(<<y, x>> \in OpToRel(<, Nat))
  BY NatLessThanWellFounded, WFMin, Zenon
<1>2. \A y \in S : ~(y < x)
  BY <1>1, Zenon DEF OpToRel
<1>3. \A y \in S : x <= y
  BY <1>2
<1>. QED BY <1>3 DEF Min

\* A position after all others is the last one.
LEMMA MaxIsLast ==
    ASSUME NEW S \in SUBSET Nat, NEW i \in Nat, \A j \in S : j < i
    PROVE  Max(S \cup {i}) = i
<1>1. \A y \in S \cup {i} : i >= y
  OBVIOUS
<1>2. \A x \in S \cup {i} : (\A y \in S \cup {i} : x >= y) => x = i
  OBVIOUS
<1>. QED BY <1>1, <1>2 DEF Max

\* One more event adds one to the volume and sets the price.
LEMMA SumStep ==
    ASSUME NEW S \in SUBSET Nat, IsFiniteSet(S), NEW i \in Nat, \A j \in S : j < i
    PROVE  SumOf(S \cup {i}) = [volume |-> SumOf(S).volume + 1, price |-> i]
<1>1. SumOf(S \cup {i}) = [volume |-> Cardinality(S \cup {i}), price |-> i]
  BY MaxIsLast DEF SumOf
<1>2. i \notin S
  OBVIOUS
<1>3. Cardinality(S \cup {i}) = Cardinality(S) + 1
  BY <1>2, FS_AddElement
<1>4. Cardinality(S) = SumOf(S).volume
  BY FS_EmptySet DEF SumOf, NoRow, Ledger!NoRow
<1>. QED BY <1>1, <1>3, <1>4

\* No events, no row.
LEMMA NoSum == SumOf({}) = NoRow
  BY DEF SumOf

--------------------------------------------------------------------------------
(* Blocks.                                                                 *)

\* The events of a block of the chain.
LEMMA EventFacts ==
    ASSUME ChainInv, NEW t \in 1..Len(blocks)
    PROVE  /\ blocks[t] \in Blocks
           /\ DOMAIN blocks[t] \in SUBSET Nat /\ IsFiniteSet(DOMAIN blocks[t])
           /\ \A i \in DOMAIN blocks[t] :
                /\ blocks[t][i].pair \in Pairs
                /\ blocks[t][i].name \in {"swap", "createPair", "esdt"}
                /\ blocks[t][i].name = "swap" => blocks[t][i].address = blocks[t][i].pair
                /\ blocks[t][i].name = "createPair" => blocks[t][i].address = "router"
<1>. DEFINE E == [name : {"swap", "createPair", "esdt"}, address : Pairs \cup {"router", "token"},
                 pair : Pairs]
            b == blocks[t]
<1>1. b \in Blocks
  BY DEF ChainInv
<1>. HIDE DEF b
<1>2. b \in Seq(E)
  BY <1>1, EventsAssumption
<1>3. Len(b) \in Nat /\ DOMAIN b = 1..Len(b)
  BY <1>2, LenProperties
<1>4. IsFiniteSet(1..Len(b))
  BY <1>3, FS_Interval
<1>5. \A i \in DOMAIN b : b[i] \in E
  BY <1>2, <1>3, ElementOfSeq
<1>6. \A i \in DOMAIN b : b[i].pair \in Pairs /\ b[i].name \in {"swap", "createPair", "esdt"}
  BY <1>5
<1>7. \A i \in DOMAIN b : /\ b[i].name = "swap" => b[i].address = b[i].pair
                          /\ b[i].name = "createPair" => b[i].address = "router"
  BY <1>1, EventsAssumption
<1>8. b \in Blocks /\ DOMAIN b \in SUBSET Nat /\ IsFiniteSet(DOMAIN b)
  BY <1>1, <1>3, <1>4
<1>. QED BY <1>6, <1>7, <1>8 DEF b

\* The positions that touch a series.
LEMMA TouchingFacts ==
    ASSUME ChainInv, NEW t \in 1..Len(blocks), NEW s
    PROVE  /\ Touching(t, s) \in SUBSET Nat
           /\ Touching(t, s) \subseteq DOMAIN blocks[t]
           /\ \A S : IsFiniteSet(Touching(t, s) \ S)
<1>1. DOMAIN blocks[t] \in SUBSET Nat /\ IsFiniteSet(DOMAIN blocks[t])
  BY EventFacts
<1>2. Touching(t, s) \subseteq DOMAIN blocks[t]
  BY DEF Touching
<1>3. ASSUME NEW S PROVE IsFiniteSet(Touching(t, s) \ S)
  BY <1>1, <1>2, FS_Subset
<1>. QED BY <1>1, <1>2, <1>3

\* The totals of the ledger are sums over all positions.
LEMMA TotalIsSum ==
    ASSUME NEW t \in 1..Len(blocks), NEW s \in Series
    PROVE  Ledger!Total(blocks[t], s) = SumOf(Touching(t, s))
<1>1. \A S : Ledger!Cardinality(S) = Cardinality(S)
  BY DEF Ledger!Cardinality, Cardinality
<1>2. \A S : Ledger!Max(S) = Max(S)
  BY DEF Ledger!Max, Max
<1>. QED BY <1>1, <1>2 DEF Ledger!Total, Ledger!Touches, SumOf, NoRow, Touching

\* Nothing that is said of the blocks changes with the rest.
LEMMA SameBlocks ==
    ASSUME UNCHANGED blocks
    PROVE  /\ \A t : ListedBefore(t)' = ListedBefore(t)
           /\ \A t, s : Touching(t, s)' = Touching(t, s)
  BY DEF ListedBefore, Created, Touching

\* The blocks there are do not change when one is added.
LEMMA AddedBlock ==
    ASSUME ChainInv, NEW block \in Blocks, blocks' = Append(blocks, block)
    PROVE  /\ Len(blocks') = Len(blocks) + 1 /\ Len(blocks) \in Nat
           /\ blocks' \in Seq(Blocks)
           /\ blocks'[Len(blocks) + 1] = block
           /\ \A t \in 1..Len(blocks) : blocks'[t] = blocks[t]
           /\ \A t \in 1..Len(blocks) + 1 : ListedBefore(t)' = ListedBefore(t)
           /\ \A t \in 1..Len(blocks) : \A s : Touching(t, s)' = Touching(t, s)
<1>1. blocks \in Seq(Blocks) /\ Len(blocks) \in Nat
  BY LenProperties DEF ChainInv
<1>2. /\ blocks' \in Seq(Blocks) /\ Len(blocks') = Len(blocks) + 1
      /\ \A t \in 1..Len(blocks) : blocks'[t] = blocks[t]
      /\ blocks'[Len(blocks) + 1] = block
  BY <1>1, AppendProperties
<1>3. ASSUME NEW t \in 1..Len(blocks) + 1
      PROVE  ListedBefore(t)' = ListedBefore(t)
  <2>1. \A u \in 1..(t - 1) : blocks'[u] = blocks[u]
    BY <1>1, <1>2
  <2>2. \A u \in 1..(t - 1) : Created(blocks'[u]) = Created(blocks[u])
    BY <2>1
  <2>. QED BY <2>2 DEF ListedBefore
<1>4. ASSUME NEW t \in 1..Len(blocks), NEW s
      PROVE  Touching(t, s)' = Touching(t, s)
  BY <1>2 DEF Touching
<1>. QED BY <1>1, <1>2, <1>3, <1>4

--------------------------------------------------------------------------------
(* Calls and messages.                                                     *)

\* The call of h in another state.
With(h, p, T, o) == [pc |-> p, time |-> handler[h].time, todo |-> T, open |-> o]

\* The ways in which the actions change a call.
LEMMA CallShapes ==
    ASSUME handler \in [Handlers -> CallType], NEW h \in Handlers, NEW p, NEW T
    PROVE  /\ [handler EXCEPT ![h].pc = p]
                = [handler EXCEPT ![h] = With(h, p, handler[h].todo, handler[h].open)]
           /\ [handler EXCEPT ![h].pc = p, ![h].todo = T]
                = [handler EXCEPT ![h] = With(h, p, T, handler[h].open)]
           /\ [handler EXCEPT ![h].open = FALSE]
                = [handler EXCEPT ![h] = With(h, handler[h].pc, handler[h].todo, FALSE)]
<1>. DEFINE c == handler[h]
            d == [pc |-> p, time |-> c.time, todo |-> c.todo, open |-> c.open]
<1>1. c \in CallType
  OBVIOUS
<1>2. c = [pc |-> c.pc, time |-> c.time, todo |-> c.todo, open |-> c.open]
  BY <1>1 DEF CallType
<1>3. [c EXCEPT !.pc = p] = d
  BY <1>2
<1>4. [d EXCEPT !.todo = T] = With(h, p, T, c.open)
  BY DEF With
<1>5. [c EXCEPT !.open = FALSE] = With(h, c.pc, c.todo, FALSE)
  <2>1. [c EXCEPT !.open = FALSE] = [pc |-> c.pc, time |-> c.time, todo |-> c.todo, open |-> FALSE]
    <3> DEFINE a == c.pc  b == c.time  t == c.todo  o == c.open  n == FALSE
    <3>1. c = [pc |-> a, time |-> b, todo |-> t, open |-> o]
      BY <1>2
    <3> HIDE DEF a, b, t, o, n, c
    <3>2. [c EXCEPT !.open = n] = [pc |-> a, time |-> b, todo |-> t, open |-> n]
      BY <3>1
    <3>. QED BY <3>2, Zenon DEF a, b, t, n
  <2>. QED BY <2>1 DEF With
<1>6. [handler EXCEPT ![h].pc = p] = [handler EXCEPT ![h] = d]
  BY <1>3
<1>7. [handler EXCEPT ![h].pc = p, ![h].todo = T]
        = [[handler EXCEPT ![h] = d] EXCEPT ![h].todo = T]
  BY <1>6
<1>8. [handler EXCEPT ![h] = d][h] = d
  OBVIOUS
<1>9. [[handler EXCEPT ![h] = d] EXCEPT ![h].todo = T] = [handler EXCEPT ![h] = [d EXCEPT !.todo = T]]
  BY <1>8, Zenon
<1>10. [handler EXCEPT ![h].pc = p, ![h].todo = T] = [handler EXCEPT ![h] = With(h, p, T, c.open)]
  BY <1>4, <1>7, <1>9
<1>11. [handler EXCEPT ![h].pc = p] = [handler EXCEPT ![h] = With(h, p, c.todo, c.open)]
  BY <1>6 DEF With
<1>12. [handler EXCEPT ![h].open = FALSE] = [handler EXCEPT ![h] = With(h, c.pc, c.todo, FALSE)]
  BY <1>5
<1>. QED BY <1>10, <1>11, <1>12

\* A step of one call leaves the others alone.
LEMMA CallUpdate ==
    ASSUME handler \in [Handlers -> CallType], NEW h \in Handlers, NEW r,
           handler' = [handler EXCEPT ![h] = r]
    PROVE  handler'[h] = r /\ \A g \in Handlers \ {h} : handler'[g] = handler[g]
  OBVIOUS

\* Calls keep their types when one of them takes a step to r.
LEMMA CallTyped ==
    ASSUME CallsInv, UNCHANGED blocks, NEW h \in Handlers, NEW r \in CallType,
           handler' = [handler EXCEPT ![h] = r],
           r.pc # "idle" => r.time \in 1..Len(blocks) /\ r.todo \subseteq DOMAIN blocks[r.time],
           r.pc = "idle" => ~r.open,
           r.pc \in {"idle", "writing", "acking"} => r.todo = {}
    PROVE  CallsInv'
<1>1. handler' \in [Handlers -> CallType]
  BY DEF CallsInv
<1>2. handler'[h] = r /\ \A g \in Handlers \ {h} : handler'[g] = handler[g]
  BY CallUpdate DEF CallsInv
<1>3. CallInv(h)'
  BY <1>2 DEF CallInv
<1>4. ASSUME NEW g \in Handlers \ {h} PROVE CallInv(g)'
  BY <1>2 DEF CallInv, CallsInv
<1>. QED BY <1>1, <1>3, <1>4 DEF CallsInv

\* A call that is over.
LEMMA IdleIsCall == Idle \in CallType /\ Idle.pc = "idle" /\ ~Idle.open /\ Idle.todo = {}
  BY DEF Idle, CallType, PCs

\* The fields of a call.
LEMMA CallFields ==
    ASSUME CallsInv, NEW h \in Handlers
    PROVE  /\ handler[h].pc \in PCs /\ handler[h].time \in Nat
           /\ handler[h].todo \in SUBSET Nat /\ handler[h].open \in BOOLEAN
           /\ CallInv(h)
  BY DEF CallsInv, CallType

\* A call that is not over and leaves its block alone.
LEMMA WithTyped ==
    ASSUME CallsInv, UNCHANGED blocks, NEW h \in Handlers,
           handler[h].pc # "idle",
           NEW p \in PCs \ {"idle"}, NEW T \in SUBSET handler[h].todo, NEW o \in BOOLEAN,
           p \in {"writing", "acking"} => T = {},
           handler' = [handler EXCEPT ![h] = With(h, p, T, o)]
    PROVE  CallsInv'
<1>. DEFINE r == With(h, p, T, o)
<1>1. /\ r.pc = p /\ r.time = handler[h].time /\ r.todo = T /\ r.open = o
      /\ r \in CallType
  BY CallFields DEF With, CallType
<1>2. handler[h].time \in 1..Len(blocks) /\ T \subseteq DOMAIN blocks[handler[h].time]
  BY CallFields DEF CallInv
<1>3. handler' = [handler EXCEPT ![h] = r]
  OBVIOUS
<1>. HIDE DEF r
<1>4. r.pc # "idle" => r.time \in 1..Len(blocks) /\ r.todo \subseteq DOMAIN blocks[r.time]
  BY <1>1, <1>2
<1>5. r.pc \in {"idle", "writing", "acking"} => r.todo = {}
  BY <1>1
<1>6. r.pc = "idle" => ~r.open
  BY <1>1
<1>. QED BY <1>1, <1>3, <1>4, <1>5, <1>6, CallTyped

\* A message goes back to the head of the queue.
LEMMA Pushed ==
    ASSUME QueueInv, UNCHANGED blocks, NEW t \in 1..Len(blocks), queue' = <<t>> \o queue,
           Len(blocks) \in Nat
    PROVE  /\ QueueInv'
           /\ Len(queue) \in Nat /\ Len(queue') = Len(queue) + 1
           /\ queue'[1] = t /\ \A i \in 1..Len(queue) : queue'[i + 1] = queue[i]
<1>1. queue \in Seq(Nat) /\ <<t>> \in Seq(Nat) /\ Len(<<t>>) = 1 /\ Len(queue) \in Nat
  BY LenProperties DEF QueueInv
<1>2. /\ queue' \in Seq(Nat) /\ Len(queue') = Len(queue) + 1
      /\ \A i \in 1..Len(queue) + 1 : queue'[i] = IF i <= 1 THEN <<t>>[i] ELSE queue[i - 1]
  BY <1>1, ConcatProperties
<1>3. queue'[1] = t
  BY <1>1, <1>2
<1>4. \A i \in 1..Len(queue) : queue'[i + 1] = queue[i]
  BY <1>1, <1>2
<1>5. \A i \in 1..Len(queue') : queue'[i] \in 1..Len(blocks)
  BY <1>1, <1>2 DEF QueueInv
<1>. QED BY <1>1, <1>2, <1>3, <1>4, <1>5 DEF QueueInv

\* The message at its head is delivered.
LEMMA Popped ==
    ASSUME QueueInv, UNCHANGED blocks, queue # <<>>, queue' = Tail(queue)
    PROVE  /\ QueueInv'
           /\ Head(queue) \in 1..Len(blocks) /\ Head(queue) = queue[1]
           /\ Len(queue) \in Nat \ {0} /\ Len(queue') = Len(queue) - 1
           /\ \A i \in 1..Len(queue') : queue'[i] = queue[i + 1]
<1>1. queue \in Seq(Nat) /\ Len(queue) \in Nat \ {0}
  BY LenProperties, EmptySeq DEF QueueInv
<1>2. /\ queue' \in Seq(Nat) /\ Len(queue') = Len(queue) - 1
      /\ \A i \in 1..Len(queue') : queue'[i] = queue[i + 1]
  BY <1>1, HeadTailProperties
<1>3. Head(queue) = queue[1]
  BY <1>1
<1>4. \A i \in 1..Len(queue') : queue'[i] \in 1..Len(blocks)
  BY <1>1, <1>2 DEF QueueInv
<1>. QED BY <1>1, <1>2, <1>3, <1>4 DEF QueueInv

--------------------------------------------------------------------------------
(* Type correctness.                                                       *)

\* The position a call handles next.
LEMMA PositionFacts ==
    ASSUME CallsInv, NEW h \in Handlers, handler[h].todo # {}
    PROVE  /\ Position(h) \in handler[h].todo /\ Position(h) \in Nat
           /\ \A i \in handler[h].todo : Position(h) <= i
           /\ handler[h].pc # "idle"
           /\ Position(h) \in DOMAIN blocks[handler[h].time]
           /\ handler[h].time \in 1..Len(blocks)
<1>1. handler[h].todo \in SUBSET Nat /\ CallInv(h)
  BY CallFields
<1>2. Position(h) \in handler[h].todo /\ \A i \in handler[h].todo : Position(h) <= i
  BY <1>1, MinIsFirst DEF Position
<1>3. handler[h].pc # "idle"
  BY <1>1 DEF CallInv
<1>. QED BY <1>1, <1>2, <1>3 DEF CallInv

\* The chain is as it was.
LEMMA ChainKept == ChainInv /\ UNCHANGED blocks => ChainInv'
  BY SameBlocks DEF ChainInv

\* The sums of no events.
LEMMA NoDataTyped == NoData \in [Series -> Row] /\ \A s \in Series : NoData[s] = NoRow
  BY DEF NoData, NoRow, Ledger!NoRow, Row

\* Sums stay sums when an event is added.
LEMMA UpdatedTyped ==
    ASSUME data \in [Series -> Row], NEW i \in Nat, NEW e
    PROVE  Updated(data, i, e) \in [Series -> Row]
<1>1. \A s \in Series : data[s] \in Row /\ data[s].volume \in Nat
  BY DEF Row
<1>2. \A s \in Series : [volume |-> data[s].volume + 1, price |-> i] \in Row
  BY <1>1 DEF Row
<1>. QED BY <1>1, <1>2 DEF Updated

\* The types hold at the start.
LEMMA InitTyped == Init => TypeInv
<1>. SUFFICES ASSUME Init PROVE TypeInv
  OBVIOUS
<1>. USE DEF Init
<1>1. blocks \in Seq(Blocks) /\ rows \in Seq([Series -> Row]) /\ queue \in Seq(Nat)
  BY EmptySeq
<1>2. Len(blocks) = 0 /\ Len(rows) = 0 /\ Len(queue) = 0
  OBVIOUS
<1>3. ChainInv /\ TableInv /\ QueueInv
  BY <1>1, <1>2 DEF ChainInv, TableInv, QueueInv
<1>4. handler \in [Handlers -> CallType] /\ \A h \in Handlers : handler[h] = Idle
  BY IdleIsCall
<1>5. CallsInv
  BY <1>4, IdleIsCall DEF CallsInv, CallInv
<1>6. ConsumerInv
  BY NoDataTyped DEF ConsumerInv
<1>. QED BY <1>3, <1>5, <1>6 DEF TypeInv

\* The filter that is computed has pairs and the router only.
LEMMA FilterTyped ==
    ASSUME ChainInv
    PROVE  /\ FilterAddresses \subseteq Pairs \cup {"router"}
           /\ "router" \in FilterAddresses
           /\ \A t \in 1..Len(blocks) + 1 : ListedBefore(t) \subseteq FilterAddresses
           /\ \A t \in 1..Len(blocks) : Created(blocks[t]) \subseteq FilterAddresses
<1>1. Len(blocks) \in Nat
  BY LenProperties DEF ChainInv
<1>2. ASSUME NEW t \in 1..Len(blocks) PROVE Created(blocks[t]) \subseteq Pairs
  BY EventFacts DEF Created
<1>3. ListedBefore(Len(blocks) + 1) \subseteq Pairs
  BY <1>1, <1>2, EventsConsumerAssumption DEF ListedBefore
<1>4. ASSUME NEW t \in 1..Len(blocks) + 1
      PROVE  ListedBefore(t) \subseteq ListedBefore(Len(blocks) + 1)
  <2>1. \A u \in 1..(t - 1) : u \in 1..(Len(blocks) + 1 - 1)
    BY <1>1
  <2>. QED BY <2>1 DEF ListedBefore
<1>5. ASSUME NEW t \in 1..Len(blocks)
      PROVE  Created(blocks[t]) \subseteq ListedBefore(Len(blocks) + 1)
  <2>1. t \in 1..(Len(blocks) + 1 - 1)
    BY <1>1
  <2>. QED BY <2>1 DEF ListedBefore
<1>. QED BY <1>3, <1>4, <1>5 DEF FilterAddresses

\* A block is executed.
LEMMA EmitTyped ==
    ASSUME TypeInv, NEW block \in Blocks, Emit(block)
    PROVE  TypeInv'
<1>. USE DEF TypeInv, Emit
<1>1. /\ Len(blocks') = Len(blocks) + 1 /\ Len(blocks) \in Nat
      /\ blocks' \in Seq(Blocks) /\ blocks'[Len(blocks) + 1] = block
      /\ \A t \in 1..Len(blocks) : blocks'[t] = blocks[t]
      /\ \A t \in 1..Len(blocks) + 1 : ListedBefore(t)' = ListedBefore(t)
  BY AddedBlock
<1>2. ChainInv'
  <2>1. ASSUME NEW t \in 1..Len(blocks'), NEW i \in DOMAIN blocks'[t],
               blocks'[t][i].name = "swap"
        PROVE  blocks'[t][i].pair \in ListedBefore(t)'
    <3>1. CASE t \in 1..Len(blocks)
      BY <1>1, <2>1, <3>1 DEF ChainInv
    <3>2. CASE t = Len(blocks) + 1
      BY <1>1, <2>1, <3>2
    <3>. QED BY <1>1, <3>1, <3>2
  <2>. QED BY <1>1, <2>1 DEF ChainInv
<1>3. TableInv'
  <2>1. rows' \in Seq([Series -> Row]) /\ Len(rows') = Len(rows) + 1
    BY NoDataTyped, AppendProperties DEF TableInv
  <2>. QED BY <1>1, <2>1 DEF TableInv
<1>4. QueueInv'
  <2>1. queue \in Seq(Nat) /\ Len(queue) \in Nat
    BY LenProperties DEF QueueInv
  <2>2. /\ queue' \in Seq(Nat) /\ Len(queue') = Len(queue) + 1
        /\ \A i \in 1..Len(queue) : queue'[i] = queue[i]
        /\ queue'[Len(queue) + 1] = Len(blocks) + 1
    BY <1>1, <2>1, AppendProperties
  <2>. QED BY <1>1, <2>1, <2>2 DEF QueueInv
<1>5. CallsInv'
  <2>1. ASSUME NEW h \in Handlers PROVE CallInv(h)'
    BY <1>1 DEF CallsInv, CallInv
  <2>. QED BY <2>1 DEF CallsInv
<1>6. ConsumerInv'
  BY DEF ConsumerInv, counters
<1>. QED BY <1>2, <1>3, <1>4, <1>5, <1>6

\* The call of h ends without an acknowledgement.
LEMMA ThrowTyped ==
    ASSUME TypeInv, NEW h \in Handlers, handler[h].pc # "idle", Throw(h), UNCHANGED blocks
    PROVE  /\ QueueInv' /\ CallsInv'
           /\ handler'[h] = Idle /\ \A g \in Handlers \ {h} : handler'[g] = handler[g]
<1>. USE DEF TypeInv, Throw
<1>1. handler[h].time \in 1..Len(blocks) /\ Len(blocks) \in Nat
  BY CallFields, LenProperties DEF CallInv, ChainInv
<1>2. QueueInv'
  <2>1. CASE handler[h].open
    BY <1>1, <2>1, Pushed
  <2>2. CASE ~handler[h].open
    BY <2>2 DEF QueueInv
  <2>. QED BY <2>1, <2>2
<1>3. CallsInv'
  BY IdleIsCall, CallTyped
<1>4. handler'[h] = Idle /\ \A g \in Handlers \ {h} : handler'[g] = handler[g]
  BY CallUpdate DEF CallsInv
<1>. QED BY <1>2, <1>3, <1>4

\* A message is delivered.
LEMMA DeliverCall ==
    ASSUME TypeInv, NEW h \in Handlers, Deliver(h)
    PROVE  /\ CallsInv' /\ \A g \in Handlers \ {h} : handler'[g] = handler[g]
           /\ handler'[h].pc = "handling" /\ handler'[h].time = Head(queue) /\ handler'[h].open
           /\ handler'[h].todo = {i \in DOMAIN blocks[Head(queue)] : Admits(blocks[Head(queue)][i])}
<1>. USE DEF TypeInv
<1>. DEFINE t == Head(queue)
            T == {i \in DOMAIN blocks[t] : Admits(blocks[t][i])}
            r == [pc |-> "handling", time |-> t, open |-> TRUE, todo |-> T]
<1>1. handler' = [handler EXCEPT ![h] = r] /\ UNCHANGED blocks
  BY DEF Deliver
<1>2. t \in 1..Len(blocks)
  BY Popped DEF Deliver
<1>3. T \in SUBSET Nat /\ T \subseteq DOMAIN blocks[t] /\ t \in Nat
  BY <1>2, EventFacts
<1>. HIDE DEF T, t
<1>4. r \in CallType /\ r.pc = "handling" /\ r.time = t /\ r.open /\ r.todo = T
  BY <1>3 DEF CallType, PCs
<1>. HIDE DEF r
<1>5. CallsInv'
  BY <1>1, <1>2, <1>3, <1>4, CallTyped
<1>6. handler'[h] = r /\ \A g \in Handlers \ {h} : handler'[g] = handler[g]
  BY <1>1, CallUpdate DEF CallsInv
<1>. QED BY <1>4, <1>5, <1>6 DEF T, t

\* The event at the next position is handled.
LEMMA AfterEventCall ==
    ASSUME CallsInv, NEW h \in Handlers, handler[h].pc # "idle", UNCHANGED blocks,
           handler' = AfterEvent(h)
    PROVE  /\ CallsInv' /\ \A g \in Handlers \ {h} : handler'[g] = handler[g]
           /\ handler'[h] = With(h, "handling", handler[h].todo \ {Position(h)}, handler[h].open)
<1>. DEFINE T == handler[h].todo \ {Position(h)}
<1>1. handler' = [handler EXCEPT ![h] = With(h, "handling", T, handler[h].open)]
  BY CallShapes DEF AfterEvent, CallsInv
<1>2. T \in SUBSET handler[h].todo /\ handler[h].open \in BOOLEAN
  BY CallFields
<1>. HIDE DEF T
<1>3. CallsInv'
  BY <1>1, <1>2, WithTyped DEF PCs
<1>4. /\ handler'[h] = With(h, "handling", T, handler[h].open)
      /\ \A g \in Handlers \ {h} : handler'[g] = handler[g]
  BY <1>1, CallUpdate DEF CallsInv
<1>. QED BY <1>3, <1>4 DEF T

\* A call goes on to another state.
LEMMA NextPcCall ==
    ASSUME CallsInv, NEW h \in Handlers, handler[h].pc # "idle", UNCHANGED blocks,
           NEW p \in PCs \ {"idle"}, p \in {"writing", "acking"} => handler[h].todo = {},
           handler' = [handler EXCEPT ![h].pc = p]
    PROVE  /\ CallsInv' /\ \A g \in Handlers \ {h} : handler'[g] = handler[g]
           /\ handler'[h] = With(h, p, handler[h].todo, handler[h].open)
<1>. DEFINE T == handler[h].todo
<1>1. handler' = [handler EXCEPT ![h] = With(h, p, T, handler[h].open)]
  BY CallShapes DEF CallsInv
<1>2. T \in SUBSET handler[h].todo /\ handler[h].open \in BOOLEAN
  BY CallFields
<1>3. CallsInv'
  BY <1>1, <1>2, WithTyped
<1>4. /\ handler'[h] = With(h, p, T, handler[h].open)
      /\ \A g \in Handlers \ {h} : handler'[g] = handler[g]
  BY <1>1, CallUpdate DEF CallsInv
<1>. QED BY <1>3, <1>4

\* The fields of such a call.
LEMMA WithFields ==
    ASSUME NEW h \in Handlers, NEW p, NEW T, NEW o
    PROVE  /\ With(h, p, T, o).pc = p /\ With(h, p, T, o).time = handler[h].time
           /\ With(h, p, T, o).todo = T /\ With(h, p, T, o).open = o
  BY DEF With

\* The calls and the queue after a crash.
LEMMA CrashTyped ==
    ASSUME TypeInv, Crash
    PROVE  /\ QueueInv' /\ CallsInv'
           /\ \A h \in Handlers : handler'[h] = Idle
<1>. USE DEF TypeInv, Crash
<1>1. UNCHANGED blocks /\ Len(blocks) \in Nat
  BY LenProperties DEF ChainInv
<1>2. handler' \in [Handlers -> CallType] /\ \A h \in Handlers : handler'[h] = Idle
  BY IdleIsCall
<1>3. CallsInv'
  BY <1>2, IdleIsCall DEF CallsInv, CallInv
<1>4. QueueInv'
  <2>1. CASE InFlight = {}
    BY <1>1, <2>1 DEF QueueInv
  <2>2. CASE InFlight # {}
    <3>. DEFINE g == CHOOSE h \in InFlight : TRUE
    <3>1. g \in Handlers /\ handler[g].open
      BY <2>2 DEF InFlight
    <3>. HIDE DEF g
    <3>2. handler[g].time \in 1..Len(blocks)
      BY <3>1, CallFields DEF CallInv
    <3>3. queue' = <<handler[g].time>> \o queue
      BY <2>2 DEF g
    <3>. QED BY <1>1, <3>2, <3>3, Pushed
  <2>. QED BY <2>1, <2>2
<1>. QED BY <1>2, <1>3, <1>4

\* The channel of the call of h is lost.
LEMMA ReconnectTyped ==
    ASSUME TypeInv, NEW h \in Handlers, Reconnect(h)
    PROVE  QueueInv' /\ CallsInv'
<1>. USE DEF TypeInv, Reconnect
<1>1. UNCHANGED blocks /\ Len(blocks) \in Nat
  BY LenProperties DEF ChainInv
<1>2. CallInv(h) /\ handler[h].pc \in PCs
  BY CallFields
<1>3. handler[h].pc # "idle" /\ handler[h].time \in 1..Len(blocks)
  BY <1>2 DEF CallInv
<1>4. QueueInv'
  BY <1>1, <1>3, Pushed
<1>5. handler' = [handler EXCEPT ![h] = With(h, handler[h].pc, handler[h].todo, FALSE)]
  BY CallShapes DEF CallsInv
<1>6. handler[h].pc \in {"writing", "acking"} => handler[h].todo = {}
  BY <1>2 DEF CallInv
<1>. DEFINE p == handler[h].pc  T == handler[h].todo
<1>7. p \in PCs \ {"idle"} /\ T \in SUBSET handler[h].todo
  BY <1>2, <1>3
<1>8. handler' = [handler EXCEPT ![h] = With(h, p, T, FALSE)] /\ (p \in {"writing", "acking"} => T = {})
  BY <1>5, <1>6
<1>. HIDE DEF p, T
<1>9. CallsInv'
  BY <1>1, <1>3, <1>7, <1>8, WithTyped
<1>. QED BY <1>4, <1>9

\* The rows after a write.
LEMMA WriteTyped ==
    ASSUME TypeInv, NEW h \in Handlers, Write(h)
    PROVE  /\ rows' \in Seq([Series -> Row]) /\ Len(rows') = Len(rows)
           /\ \A t \in 1..Len(rows) \ {handler[h].time} : rows'[t] = rows[t]
           /\ \A s \in Series : rows'[handler[h].time][s] =
                IF data[s] = NoRow THEN rows[handler[h].time][s] ELSE data[s]
           /\ handler[h].time \in 1..Len(rows) /\ rows[handler[h].time] \in [Series -> Row]
           /\ rows' = [rows EXCEPT ![handler[h].time] = rows'[handler[h].time]]
           /\ rows'[handler[h].time] \in [Series -> Row]
<1>. USE DEF TypeInv, Write
<1>. DEFINE t == handler[h].time
            row == [s \in Series |-> IF data[s] = NoRow THEN rows[t][s] ELSE data[s]]
<1>1. t \in 1..Len(rows)
  BY CallFields DEF CallInv, TableInv
<1>2. rows \in Seq([Series -> Row]) /\ rows[t] \in [Series -> Row] /\ data \in [Series -> Row]
  BY <1>1, ElementOfSeq DEF TableInv, ConsumerInv
<1>3. row \in [Series -> Row]
  BY <1>2
<1>4. rows' = [rows EXCEPT ![t] = row]
  OBVIOUS
<1>5. \A s \in Series : row[s] = IF data[s] = NoRow THEN rows[t][s] ELSE data[s]
  OBVIOUS
<1>. HIDE DEF row, t
<1>6. /\ rows' \in Seq([Series -> Row]) /\ Len(rows') = Len(rows)
      /\ \A u \in 1..Len(rows) : rows'[u] = IF u = t THEN row ELSE rows[u]
  <2>. DEFINE R == [Series -> Row]
              new == [rows EXCEPT ![t] = row]
  <2>1. rows \in Seq(R) /\ row \in R
    BY <1>2, <1>3
  <2>. HIDE DEF R
  <2>2. /\ new \in Seq(R) /\ Len(new) = Len(rows)
        /\ \A u \in 1..Len(rows) : new[u] = IF u = t THEN row ELSE rows[u]
    BY ONLY <1>1, <2>1, ExceptSeq
  <2>3. rows' = new
    BY <1>4
  <2>. HIDE DEF new
  <2>. QED BY <2>2, <2>3 DEF R
<1>7. rows'[t] = row /\ \A u \in 1..Len(rows) \ {t} : rows'[u] = rows[u]
  BY <1>1, <1>6
<1>. QED BY <1>1, <1>2, <1>3, <1>4, <1>5, <1>6, <1>7 DEF t

\* Every step keeps the types.
LEMMA StepTyped == TypeInv /\ [Next]_vars => TypeInv'
<1>. SUFFICES ASSUME TypeInv, [Next]_vars PROVE TypeInv'
  OBVIOUS
<1>. USE DEF TypeInv
<1>1. ASSUME NEW block \in Blocks, Emit(block) PROVE TypeInv'
  BY <1>1, EmitTyped
<1>2. CASE Start
  <2>1. ChainInv' /\ filter' \subseteq Pairs \cup {"router"}
    BY <1>2, ChainKept, FilterTyped DEF Start
  <2>2. CallsInv'
    BY <1>2 DEF Start, CallsInv, CallInv
  <2>3. TableInv' /\ QueueInv' /\ ConsumerInv'
    BY <1>2, <2>1 DEF Start, TableInv, QueueInv, ConsumerInv, counters
  <2>. QED BY <2>1, <2>2, <2>3
<1>3. ASSUME NEW h \in Handlers, Deliver(h) PROVE TypeInv'
  <2>1. ChainInv' /\ CallsInv'
    BY <1>3, ChainKept, DeliverCall DEF Deliver
  <2>2. QueueInv'
    BY <1>3, Popped DEF Deliver
  <2>3. TableInv' /\ ConsumerInv'
    BY <1>3, NoDataTyped DEF Deliver, TableInv, ConsumerInv, counters
  <2>. QED BY <2>1, <2>2, <2>3
<1>4. ASSUME NEW h \in Handlers, HandleEvent(h) PROVE TypeInv'
  <2>1. ChainInv' /\ CallsInv'
    BY <1>4, ChainKept, AfterEventCall DEF HandleEvent
  <2>2. data' \in [Series -> Row]
    BY <1>4, UpdatedTyped, PositionFacts DEF HandleEvent, ConsumerInv
  <2>3. TableInv' /\ QueueInv' /\ ConsumerInv'
    BY <1>4, <2>2 DEF HandleEvent, TableInv, QueueInv, ConsumerInv, counters
  <2>. QED BY <2>1, <2>3
<1>5. ASSUME NEW h \in Handlers, HandleCreatePair(h) PROVE TypeInv'
  <2>1. ChainInv' /\ CallsInv'
    BY <1>5, ChainKept, NextPcCall DEF HandleCreatePair, PCs
  <2>2. TableInv' /\ QueueInv' /\ ConsumerInv'
    BY <1>5 DEF HandleCreatePair, TableInv, QueueInv, ConsumerInv, counters
  <2>. QED BY <2>1, <2>2
<1>6. ASSUME NEW h \in Handlers, RefreshFilter(h) PROVE TypeInv'
  <2>1. ChainInv' /\ CallsInv'
    BY <1>6, ChainKept, AfterEventCall DEF RefreshFilter
  <2>2. TableInv' /\ QueueInv' /\ ConsumerInv'
    BY <1>6, FilterTyped DEF RefreshFilter, TableInv, QueueInv, ConsumerInv, counters
  <2>. QED BY <2>1, <2>2
<1>7. ASSUME NEW h \in Handlers, RefreshFails(h) PROVE TypeInv'
  <2>1. ChainInv' /\ CallsInv' /\ QueueInv'
    BY <1>7, ChainKept, ThrowTyped DEF RefreshFails
  <2>2. TableInv' /\ ConsumerInv'
    BY <1>7 DEF RefreshFails, TableInv, ConsumerInv
  <2>. QED BY <2>1, <2>2
<1>8. ASSUME NEW h \in Handlers, HandlerThrows(h) PROVE TypeInv'
  <2>1. ChainInv' /\ CallsInv' /\ QueueInv'
    BY <1>8, ChainKept, ThrowTyped DEF HandlerThrows
  <2>2. TableInv' /\ ConsumerInv'
    BY <1>8 DEF HandlerThrows, TableInv, ConsumerInv
  <2>. QED BY <2>1, <2>2
<1>9. ASSUME NEW h \in Handlers, FinishEvents(h) PROVE TypeInv'
  <2>. DEFINE p == IF data = NoData THEN "acking" ELSE "writing"
  <2>1. p \in PCs \ {"idle"} /\ handler' = [handler EXCEPT ![h].pc = p]
    BY <1>9 DEF FinishEvents, PCs
  <2>. HIDE DEF p
  <2>2. ChainInv' /\ CallsInv'
    BY <1>9, <2>1, ChainKept, NextPcCall DEF FinishEvents
  <2>3. TableInv' /\ QueueInv' /\ ConsumerInv'
    BY <1>9 DEF FinishEvents, TableInv, QueueInv, ConsumerInv, counters
  <2>. QED BY <2>2, <2>3
<1>10. ASSUME NEW h \in Handlers, Write(h) PROVE TypeInv'
  <2>0. handler[h].todo = {}
    BY <1>10, CallFields DEF Write, CallInv
  <2>1. ChainInv' /\ CallsInv'
    BY <1>10, <2>0, ChainKept, NextPcCall DEF Write, PCs
  <2>2. TableInv'
    BY <1>10, WriteTyped DEF Write, TableInv
  <2>3. QueueInv' /\ ConsumerInv'
    BY <1>10 DEF Write, QueueInv, ConsumerInv, counters
  <2>. QED BY <2>1, <2>2, <2>3
<1>11. ASSUME NEW h \in Handlers, WriteFails(h) PROVE TypeInv'
  <2>0. handler[h].todo = {} /\ handler[h].time \in 1..Len(blocks)
    BY <1>11, CallFields DEF WriteFails, CallInv
  <2>1. ChainInv' /\ CallsInv'
    BY <1>11, <2>0, ChainKept, NextPcCall DEF WriteFails, PCs
  <2>2. TableInv' /\ QueueInv' /\ ConsumerInv'
    BY <1>11, <2>0 DEF WriteFails, TableInv, QueueInv, ConsumerInv, counters
  <2>. QED BY <2>1, <2>2
<1>12. ASSUME NEW h \in Handlers, Acknowledge(h) PROVE TypeInv'
  <2>1. ChainInv' /\ CallsInv'
    BY <1>12, ChainKept, IdleIsCall, CallTyped DEF Acknowledge
  <2>2. TableInv' /\ QueueInv' /\ ConsumerInv'
    BY <1>12 DEF Acknowledge, TableInv, QueueInv, ConsumerInv, counters
  <2>. QED BY <2>1, <2>2
<1>13. CASE Crash
  <2>1. ChainInv' /\ CallsInv' /\ QueueInv'
    BY <1>13, ChainKept, CrashTyped DEF Crash
  <2>2. TableInv' /\ ConsumerInv'
    <3>1. UNCHANGED <<blocks, rows, lost, refreshFailures, reconnects>>
      BY <1>13 DEF Crash
    <3>2. up' = FALSE /\ filter' = {} /\ data' = NoData /\ failures' = failures + 1
      BY <1>13 DEF Crash
    <3>3. up' \in BOOLEAN /\ filter' \subseteq Pairs \cup {"router"}
      BY <3>2
    <3>4. data' \in [Series -> Row]
      BY <3>2, NoDataTyped
    <3>5. failures' \in Nat
      BY <3>2 DEF ConsumerInv
    <3>6. TableInv' /\ refreshFailures' \in Nat /\ reconnects' \in Nat
      BY <3>1 DEF TableInv, ConsumerInv
    <3>. QED BY <3>3, <3>4, <3>5, <3>6 DEF ConsumerInv
  <2>. QED BY <2>1, <2>2
<1>14. ASSUME NEW h \in Handlers, Reconnect(h) PROVE TypeInv'
  <2>1. ChainInv' /\ CallsInv' /\ QueueInv'
    BY <1>14, ChainKept, ReconnectTyped DEF Reconnect
  <2>2. TableInv' /\ ConsumerInv'
    BY <1>14 DEF Reconnect, TableInv, ConsumerInv
  <2>. QED BY <2>1, <2>2
<1>15. CASE UNCHANGED vars
  <2>1. ChainInv' /\ UNCHANGED <<blocks, handler>>
    BY <1>15, ChainKept DEF vars
  <2>2. CallsInv'
    BY <2>1 DEF CallsInv, CallInv
  <2>3. TableInv' /\ QueueInv' /\ ConsumerInv'
    BY <1>15 DEF vars, TableInv, QueueInv, ConsumerInv
  <2>. QED BY <2>1, <2>2, <2>3
<1>. QED
  BY <1>1, <1>2, <1>3, <1>4, <1>5, <1>6, <1>7, <1>8, <1>9, <1>10, <1>11, <1>12, <1>13, <1>14,
     <1>15 DEF Next, HandlerStep

--------------------------------------------------------------------------------
(* Until a fault.                                                          *)

\* A call that is over has nothing to be exact about.
LEMMA IdleIsExact ==
    ASSUME NEW g, handler'[g].pc = "idle"
    PROVE  CallExact(g)'
  BY DEF CallExact, FilterKept, SumsExact, AtCreatePair, Answered

\* Enough is said about the one call that is not over.
LEMMA ExactAssembled ==
    ASSUME NEW h \in Handlers, \A g \in Handlers \ {h} : handler'[g].pc = "idle",
           QueueOrder', RowsExact', FilterReady', CallExact(h)',
           handler'[h].pc # "idle" => up' /\ handler'[h].open /\ handler'[h].time = Front'
    PROVE  ExactInv'
<1>1. CallsOrder'
  BY DEF CallsOrder
<1>2. \A g \in Handlers : CallExact(g)'
  BY IdleIsExact
<1>. QED BY <1>1, <1>2 DEF ExactInv

\* There is one call at most.
LEMMA OthersIdle ==
    ASSUME CallsOrder, NEW h \in Handlers, handler[h].pc # "idle"
    PROVE  /\ \A g \in Handlers \ {h} : handler[g].pc = "idle"
           /\ up /\ handler[h].open /\ handler[h].time = Front
  BY DEF CallsOrder

\* Front is the number of a block, or zero.
LEMMA FrontType ==
    ASSUME TypeInv, QueueOrder
    PROVE  Front \in Nat /\ Front <= Len(blocks) /\ Len(queue) \in Nat /\ Len(blocks) \in Nat
<1>1. Len(queue) \in Nat /\ Len(blocks) \in Nat
  BY LenProperties DEF TypeInv, QueueInv, ChainInv
<1>2. CASE Len(queue) = 0
  BY <1>1, <1>2 DEF Front
<1>3. CASE Len(queue) # 0
  <2>1. queue[1] \in 1..Len(blocks) /\ queue[1] = Front + 1
    BY <1>1, <1>3 DEF TypeInv, QueueInv, QueueOrder
  <2>. QED BY <1>1, <2>1 DEF Front
<1>. QED BY <1>2, <1>3

\* Rows stay exact when they are left alone.
LEMMA SameRows ==
    ASSUME RowsExact, UNCHANGED <<blocks, rows>>
    PROVE  RowsExact'
  BY SameBlocks DEF RowsExact

\* Messages stay in order when they are left alone.
LEMMA SameQueue ==
    ASSUME QueueOrder, UNCHANGED <<blocks, queue>>
    PROVE  QueueOrder' /\ Front' = Front
  BY DEF QueueOrder, Front

\* One block more that may have created pairs.
LEMMA ListedNext ==
    ASSUME NEW t \in 1..Len(blocks)
    PROVE  ListedBefore(t + 1) = ListedBefore(t) \cup Created(blocks[t])
<1>1. 1..(t + 1 - 1) = 1..(t - 1) \cup {t}
  OBVIOUS
<1>. QED BY <1>1 DEF ListedBefore

\* Everything is exact at the start.
LEMMA InitExact == Init => ExactInv
<1>. SUFFICES ASSUME Init PROVE ExactInv
  OBVIOUS
<1>. USE DEF Init
<1>1. Len(queue) = 0 /\ Len(rows) = 0 /\ \A h \in Handlers : handler[h] = Idle
  OBVIOUS
<1>2. QueueOrder /\ RowsExact /\ FilterReady
  BY <1>1 DEF QueueOrder, RowsExact, FilterReady
<1>3. \A h \in Handlers : CallExact(h)
  BY <1>1, IdleIsCall DEF CallExact, FilterKept, SumsExact, AtCreatePair, Answered
<1>4. CallsOrder
  BY <1>1, IdleIsCall DEF CallsOrder
<1>. QED BY <1>2, <1>3, <1>4 DEF ExactInv

\* A block is executed.
LEMMA EmitExact ==
    ASSUME TypeInv, ExactInv, NEW block \in Blocks, Emit(block)
    PROVE  ExactInv'
<1>. USE DEF TypeInv, ExactInv, Emit
<1>1. /\ Len(blocks') = Len(blocks) + 1 /\ Len(blocks) \in Nat
      /\ \A t \in 1..Len(blocks) : blocks'[t] = blocks[t]
      /\ \A t \in 1..Len(blocks) + 1 : ListedBefore(t)' = ListedBefore(t)
      /\ \A t \in 1..Len(blocks) : \A s : Touching(t, s)' = Touching(t, s)
  BY AddedBlock
<1>2. /\ queue' \in Seq(Nat) /\ Len(queue') = Len(queue) + 1
      /\ \A i \in 1..Len(queue) : queue'[i] = queue[i]
      /\ queue'[Len(queue) + 1] = Len(blocks) + 1
      /\ Len(queue) \in Nat
  <2>1. queue \in Seq(Nat) /\ Len(queue) \in Nat /\ Len(blocks) + 1 \in Nat
    BY <1>1, LenProperties DEF QueueInv
  <2>. QED BY <2>1, AppendProperties
<1>3. Front' = Front /\ Front \in Nat /\ Front <= Len(blocks)
  BY <1>1, <1>2, FrontType DEF Front
<1>4. QueueOrder'
  <2>1. ASSUME NEW i \in 1..Len(queue) PROVE queue'[i] = Front + i
    BY <1>2 DEF QueueOrder
  <2>2. queue'[Len(queue) + 1] = Front + (Len(queue) + 1)
    BY <1>1, <1>2 DEF Front
  <2>3. \A i \in 1..Len(queue') : i \in 1..Len(queue) \/ i = Len(queue) + 1
    BY <1>2
  <2>4. \A i \in 1..Len(queue') : queue'[i] = Front + i
    BY <2>1, <2>2, <2>3
  <2>. QED BY <1>3, <2>4 DEF QueueOrder
<1>5. CallsOrder'
  BY <1>3 DEF CallsOrder
<1>6. /\ Len(rows') = Len(rows) + 1 /\ Len(rows) = Len(blocks)
      /\ \A t \in 1..Len(rows) : rows'[t] = rows[t]
      /\ rows'[Len(rows) + 1] = NoData
  BY NoDataTyped, AppendProperties DEF TableInv
<1>7. RowsExact'
  BY <1>1, <1>6, NoDataTyped DEF RowsExact
<1>8. FilterReady'
  BY <1>1, <1>3 DEF FilterReady
<1>9. ASSUME NEW h \in Handlers PROVE CallExact(h)'
  <2>1. CASE handler[h].pc = "idle"
    BY <2>1, IdleIsExact
  <2>2. CASE handler[h].pc # "idle"
    <3>1. handler[h].time \in 1..Len(blocks) /\ CallExact(h)
      BY <2>2, CallFields DEF CallInv
    <3>2. /\ blocks'[handler[h].time] = blocks[handler[h].time]
          /\ rows'[handler[h].time] = rows[handler[h].time]
          /\ ListedBefore(handler[h].time)' = ListedBefore(handler[h].time)
          /\ \A s : Touching(handler[h].time, s)' = Touching(handler[h].time, s)
      BY <1>1, <1>6, <3>1
    <3>3. FilterKept(h)' /\ AtCreatePair(h)'
      BY <3>1, <3>2 DEF CallExact, FilterKept, AtCreatePair, Current, Position
    <3>4. SumsExact(h)'
      BY <3>1, <3>2 DEF CallExact, SumsExact, InOrder
    <3>5. Answered(h)'
      BY <3>1, <3>2 DEF CallExact, Answered
    <3>. QED BY <3>3, <3>4, <3>5 DEF CallExact
  <2>. QED BY <2>1, <2>2
<1>. QED BY <1>4, <1>5, <1>7, <1>8, <1>9

\* The filter is computed.
LEMMA StartExact ==
    ASSUME TypeInv, ExactInv, Start
    PROVE  ExactInv'
<1>. USE DEF TypeInv, ExactInv
<1>1. UNCHANGED <<blocks, rows, queue, handler, data, lost>> /\ ~up /\ filter' = FilterAddresses
  BY DEF Start
<1>2. \A h \in Handlers : handler'[h].pc = "idle"
  BY <1>1 DEF CallsOrder
<1>3. QueueOrder' /\ Front' = Front /\ RowsExact'
  BY <1>1, SameQueue, SameRows
<1>4. FilterReady'
  <2>1. Front + 1 \in 1..Len(blocks) + 1
    BY FrontType
  <2>2. ListedBefore(Front + 1)' = ListedBefore(Front + 1)
    BY <1>1, <1>3, SameBlocks
  <2>. QED BY <1>1, <2>1, <2>2, FilterTyped DEF FilterReady
<1>5. CallsOrder' /\ \A h \in Handlers : CallExact(h)'
  BY <1>2, IdleIsExact DEF CallsOrder
<1>. QED BY <1>3, <1>4, <1>5

\* A message is delivered: every swap and every new pair of its block passes the filter.
LEMMA DeliverExact ==
    ASSUME TypeInv, ExactInv, NEW h \in Handlers, Deliver(h)
    PROVE  ExactInv'
<1>. USE DEF TypeInv, ExactInv
<1>. DEFINE t == Head(queue)
            T == {i \in DOMAIN blocks[t] : Admits(blocks[t][i])}
<1>1. /\ UNCHANGED <<blocks, rows, up, filter, lost>> /\ up /\ queue # <<>>
      /\ queue' = Tail(queue) /\ data' = NoData /\ InFlight = {}
  BY DEF Deliver
<1>2. /\ \A g \in Handlers \ {h} : handler'[g] = handler[g]
      /\ handler'[h].pc = "handling" /\ handler'[h].time = t /\ handler'[h].open
      /\ handler'[h].todo = T
  BY DeliverCall
<1>3. \A g \in Handlers : handler[g].pc = "idle"
  BY <1>1 DEF InFlight, CallsOrder
<1>4. /\ t \in 1..Len(blocks) /\ t = queue[1] /\ Len(queue) \in Nat \ {0}
      /\ Len(queue') = Len(queue) - 1 /\ \A i \in 1..Len(queue') : queue'[i] = queue[i + 1]
  BY <1>1, Popped
<1>5. Front' = Front + 1 /\ t = Front + 1 /\ Front \in Nat
  <2>1. t = Front + 1
    BY <1>4 DEF QueueOrder
  <2>. QED BY <1>1, <1>4, <2>1, FrontType DEF Front
<1>6. QueueOrder'
  <2>1. ASSUME NEW i \in 1..Len(queue') PROVE queue'[i] = Front' + i
    <3>1. i + 1 \in 1..Len(queue)
      BY <1>4
    <3>2. queue'[i] = Front + (i + 1)
      BY <1>4, <3>1 DEF QueueOrder
    <3>. QED BY <1>5, <3>2
  <2>. QED BY <2>1 DEF QueueOrder
<1>7. RowsExact'
  BY <1>1, SameRows
<1>8. "router" \in filter /\ ListedBefore(t) \subseteq filter
  BY <1>1, <1>3, <1>5 DEF FilterReady
<1>9. \A i \in DOMAIN blocks[t] \ T : blocks[t][i].name \notin {"swap", "createPair"}
  <2>1. ASSUME NEW i \in DOMAIN blocks[t], blocks[t][i].name = "swap" PROVE i \in T
    BY <1>4, <1>8, <2>1, EventFacts DEF ChainInv, Admits
  <2>2. ASSUME NEW i \in DOMAIN blocks[t], blocks[t][i].name = "createPair" PROVE i \in T
    BY <1>4, <1>8, <2>2, EventFacts DEF Admits
  <2>. QED BY <2>1, <2>2
<1>10. \A s : Touching(t, s) \ T = {}
  BY <1>9 DEF Touching
<1>. HIDE DEF t, T
<1>11. ListedBefore(handler[h].time)' = ListedBefore(t)
  BY <1>1, <1>2 DEF ListedBefore, Created
<1>12. FilterKept(h)'
  BY <1>1, <1>2, <1>8, <1>9, <1>11 DEF FilterKept
<1>13. SumsExact(h)'
  <2>1. InOrder(h)'
    BY <1>1, <1>2, <1>9 DEF InOrder
  <2>2. \A s \in Series : data'[s] = NoRow
    BY <1>1, NoDataTyped
  <2>3. \A s : (Touching(handler[h].time, s) \ handler[h].todo)' = {}
    BY <1>1, <1>2, <1>10 DEF Touching
  <2>. QED BY <2>1, <2>2, <2>3, NoSum DEF SumsExact
<1>14. CallExact(h)'
  BY <1>2, <1>12, <1>13 DEF CallExact, AtCreatePair, Answered
<1>15. FilterReady'
  BY <1>2 DEF FilterReady
<1>. QED BY <1>1, <1>2, <1>3, <1>5, <1>6, <1>7, <1>14, <1>15, ExactAssembled

\* A call goes on with its block; nothing is delivered or acknowledged.
LEMMA CallGoesOn ==
    ASSUME TypeInv, ExactInv, NEW h \in Handlers, handler[h].pc # "idle",
           UNCHANGED <<blocks, queue, up>>,
           \A g \in Handlers \ {h} : handler'[g] = handler[g],
           NEW p \in PCs \ {"idle"}, NEW T, handler'[h] = With(h, p, T, handler[h].open),
           RowsExact',
           handler'[h].pc = p /\ handler'[h].time = handler[h].time /\ handler'[h].todo = T
             => CallExact(h)'
    PROVE  ExactInv'
<1>1. /\ handler'[h].pc = p /\ handler'[h].time = handler[h].time /\ handler'[h].todo = T
      /\ handler'[h].open = handler[h].open
  BY WithFields
<1>2. /\ \A g \in Handlers \ {h} : handler[g].pc = "idle"
      /\ up /\ handler[h].open /\ handler[h].time = Front
  BY OthersIdle DEF ExactInv
<1>3. QueueOrder' /\ Front' = Front
  BY SameQueue DEF ExactInv
<1>4. FilterReady'
  BY <1>1 DEF FilterReady
<1>. QED BY <1>1, <1>2, <1>3, <1>4, ExactAssembled

\* What the call of h handles does not change with the rest.
LEMMA SameBlock ==
    ASSUME UNCHANGED blocks, NEW h \in Handlers, handler'[h].time = handler[h].time
    PROVE  /\ ListedBefore(handler[h].time)' = ListedBefore(handler[h].time)
           /\ \A s : Touching(handler[h].time, s)' = Touching(handler[h].time, s)
           /\ blocks[handler[h].time]' = blocks[handler[h].time]
  BY DEF ListedBefore, Created, Touching

\* An event is handled: the sums have what it adds.
LEMMA HandleEventExact ==
    ASSUME TypeInv, ExactInv, NEW h \in Handlers, HandleEvent(h)
    PROVE  ExactInv'
<1>. USE DEF TypeInv
<1>. DEFINE t == handler[h].time
            T == handler[h].todo
            p == Position(h)
            e == blocks[t][p]
<1>1. /\ UNCHANGED <<blocks, rows, queue, up, filter, lost>> /\ handler[h].pc = "handling"
      /\ T # {} /\ e.name # "createPair"
      /\ data' = Updated(data, p, e) /\ handler' = AfterEvent(h)
  BY DEF HandleEvent, Current
<1>2. /\ \A g \in Handlers \ {h} : handler'[g] = handler[g]
      /\ handler'[h] = With(h, "handling", T \ {p}, handler[h].open)
  BY <1>1, AfterEventCall
<1>3. /\ p \in T /\ p \in Nat /\ p \in DOMAIN blocks[t] /\ t \in 1..Len(blocks)
      /\ \A i \in T : p <= i
  BY <1>1, PositionFacts
<1>4. T \in SUBSET Nat /\ DOMAIN blocks[t] \in SUBSET Nat
  BY <1>3, CallFields, EventFacts
<1>5. RowsExact'
  BY <1>1, SameRows DEF ExactInv
<1>6. FilterKept(h) /\ InOrder(h) /\ \A s \in Series : data[s] = SumOf(Touching(t, s) \ T)
  BY <1>1 DEF ExactInv, CallExact, SumsExact
<1>7. ASSUME handler'[h].pc = "handling", handler'[h].time = t, handler'[h].todo = T \ {p}
      PROVE  CallExact(h)'
  <2>1. /\ ListedBefore(t)' = ListedBefore(t) /\ blocks'[t] = blocks[t]
        /\ \A s : Touching(t, s)' = Touching(t, s)
    BY <1>1, <1>7, SameBlock
  <2>2. FilterKept(h)'
    BY <1>1, <1>6, <1>7, <2>1 DEF FilterKept
  <2>3. \A i \in T \ {p}, j \in DOMAIN blocks[t] \ (T \ {p}) :
            blocks[t][j].name = "swap" => j < i
    <3>1. ASSUME NEW i \in T \ {p}, NEW j \in DOMAIN blocks[t] \ (T \ {p}),
                 blocks[t][j].name = "swap"
          PROVE  j < i
      <4>1. CASE j = p
        BY <1>3, <1>4, <4>1
      <4>2. CASE j # p
        BY <1>6, <3>1, <4>2 DEF InOrder
      <4>. QED BY <4>1, <4>2
    <3>. QED BY <3>1
  <2>4. InOrder(h)'
    BY <1>7, <2>1, <2>3 DEF InOrder
  <2>5. ASSUME NEW s \in Series PROVE data'[s] = SumOf(Touching(t, s) \ (T \ {p}))
    <3>. DEFINE S == Touching(t, s) \ T
    <3>0. S \in SUBSET Nat /\ IsFiniteSet(S)
      BY <1>3, TouchingFacts
    <3>1. p \in Touching(t, s) <=> Touches(e, s)
      BY <1>3 DEF Touching, Touches, Ledger!Touches
    <3>2. data'[s] = IF Touches(e, s) THEN [volume |-> data[s].volume + 1, price |-> p] ELSE data[s]
      BY <1>1 DEF Updated
    <3>3. \A j \in S : j < p
      BY <1>3, <1>6 DEF Touching, InOrder
    <3>4. CASE Touches(e, s)
      <4>1. Touching(t, s) \ (T \ {p}) = S \cup {p}
        BY <1>3, <3>1, <3>4
      <4>2. data[s] = SumOf(S)
        BY <1>6
      <4>. HIDE DEF S, p
      <4>3. SumOf(S \cup {p}) = [volume |-> SumOf(S).volume + 1, price |-> p]
        BY <1>3, <3>0, <3>3, SumStep
      <4>. QED BY <3>2, <3>4, <4>1, <4>2, <4>3
    <3>5. CASE ~Touches(e, s)
      <4>1. Touching(t, s) \ (T \ {p}) = S
        BY <3>1, <3>5
      <4>. QED BY <1>6, <3>2, <3>5, <4>1
    <3>. QED BY <3>4, <3>5
  <2>6. SumsExact(h)'
    BY <1>7, <2>1, <2>4, <2>5 DEF SumsExact
  <2>. QED BY <1>7, <2>2, <2>6 DEF CallExact, AtCreatePair, Answered
<1>8. "handling" \in PCs \ {"idle"}
  BY DEF PCs
<1>. HIDE DEF T, t, p, e
<1>. QED
  BY <1>1, <1>2, <1>5, <1>7, <1>8, CallGoesOn DEF t

\* A pair was created: the list is emptied and read again.
LEMMA HandleCreatePairExact ==
    ASSUME TypeInv, ExactInv, NEW h \in Handlers, HandleCreatePair(h)
    PROVE  ExactInv'
<1>. USE DEF TypeInv
<1>. DEFINE t == handler[h].time
            T == handler[h].todo
<1>1. /\ UNCHANGED <<blocks, rows, queue, up, data, lost>> /\ handler[h].pc = "handling"
      /\ T # {} /\ Current(h).name = "createPair"
      /\ handler' = [handler EXCEPT ![h].pc = "refreshing"]
  BY DEF HandleCreatePair
<1>2. "refreshing" \in PCs \ {"idle"}
  BY DEF PCs
<1>3. /\ \A g \in Handlers \ {h} : handler'[g] = handler[g]
      /\ handler'[h] = With(h, "refreshing", T, handler[h].open)
  BY <1>1, <1>2, NextPcCall
<1>5. RowsExact'
  BY <1>1, SameRows DEF ExactInv
<1>6. InOrder(h) /\ \A s \in Series : data[s] = SumOf(Touching(t, s) \ T)
  BY <1>1 DEF ExactInv, CallExact, SumsExact
<1>7. ASSUME handler'[h].pc = "refreshing", handler'[h].time = t, handler'[h].todo = T
      PROVE  CallExact(h)'
  <2>1. blocks'[t] = blocks[t] /\ \A s : Touching(t, s)' = Touching(t, s)
    BY <1>1, <1>7, SameBlock
  <2>2. InOrder(h)'
    BY <1>6, <1>7, <2>1 DEF InOrder
  <2>3. SumsExact(h)'
    BY <1>1, <1>6, <1>7, <2>1, <2>2 DEF SumsExact
  <2>4. AtCreatePair(h)'
    BY <1>1, <1>7 DEF AtCreatePair, Current, Position
  <2>. QED BY <1>7, <2>3, <2>4 DEF CallExact, FilterKept, Answered
<1>. HIDE DEF T, t
<1>. QED BY <1>1, <1>2, <1>3, <1>5, <1>7, CallGoesOn DEF t

\* The list is read: it has the pairs of this block.
LEMMA RefreshFilterExact ==
    ASSUME TypeInv, ExactInv, NEW h \in Handlers, RefreshFilter(h)
    PROVE  ExactInv'
<1>. USE DEF TypeInv
<1>. DEFINE t == handler[h].time
            T == handler[h].todo
            p == Position(h)
<1>1. /\ UNCHANGED <<blocks, rows, queue, up, data, lost>> /\ handler[h].pc = "refreshing"
      /\ handler' = AfterEvent(h) /\ filter' = FilterAddresses
  BY DEF RefreshFilter
<1>2. /\ \A g \in Handlers \ {h} : handler'[g] = handler[g]
      /\ handler'[h] = With(h, "handling", T \ {p}, handler[h].open)
  BY <1>1, AfterEventCall
<1>3. T # {} /\ blocks[t][p].name = "createPair"
  BY <1>1 DEF ExactInv, CallExact, AtCreatePair, Current
<1>4. /\ p \in T /\ p \in Nat /\ p \in DOMAIN blocks[t] /\ t \in 1..Len(blocks)
      /\ \A i \in T : p <= i
  BY <1>3, PositionFacts
<1>5. RowsExact'
  BY <1>1, SameRows DEF ExactInv
<1>6. InOrder(h) /\ \A s \in Series : data[s] = SumOf(Touching(t, s) \ T)
  BY <1>1 DEF ExactInv, CallExact, SumsExact
<1>7. ASSUME handler'[h].pc = "handling", handler'[h].time = t, handler'[h].todo = T \ {p}
      PROVE  CallExact(h)'
  <2>1. /\ ListedBefore(t)' = ListedBefore(t) /\ blocks'[t] = blocks[t]
        /\ \A s : Touching(t, s)' = Touching(t, s)
    BY <1>1, <1>7, SameBlock
  <2>2. /\ "router" \in filter' /\ ListedBefore(t) \subseteq filter'
        /\ Created(blocks[t]) \subseteq filter'
    BY <1>1, <1>4, FilterTyped
  <2>3. \A i \in DOMAIN blocks[t] : blocks[t][i].name = "createPair" => blocks[t][i].pair \in filter'
    BY <2>2 DEF Created
  <2>4. FilterKept(h)'
    BY <1>7, <2>1, <2>2, <2>3 DEF FilterKept
  <2>5. InOrder(h)'
    BY <1>3, <1>6, <1>7, <2>1 DEF InOrder
  <2>6. \A s : Touching(t, s) \ (T \ {p}) = Touching(t, s) \ T
    BY <1>3 DEF Touching
  <2>7. SumsExact(h)'
    BY <1>1, <1>6, <1>7, <2>1, <2>5, <2>6 DEF SumsExact
  <2>. QED BY <1>7, <2>4, <2>7 DEF CallExact, AtCreatePair, Answered
<1>8. "handling" \in PCs \ {"idle"}
  BY DEF PCs
<1>. HIDE DEF T, t, p
<1>. QED BY <1>1, <1>2, <1>5, <1>7, <1>8, CallGoesOn DEF t

\* All events are handled: the sums are those of the block.
LEMMA FinishEventsExact ==
    ASSUME TypeInv, ExactInv, NEW h \in Handlers, FinishEvents(h)
    PROVE  ExactInv'
<1>. USE DEF TypeInv
<1>. DEFINE t == handler[h].time
            p == IF data = NoData THEN "acking" ELSE "writing"
<1>1. /\ UNCHANGED <<blocks, rows, queue, up, filter, data, lost>> /\ handler[h].pc = "handling"
      /\ handler[h].todo = {} /\ handler' = [handler EXCEPT ![h].pc = p]
  BY DEF FinishEvents
<1>2. p \in PCs \ {"idle"} /\ p \in {"acking", "writing"} /\ (p = "acking" => data = NoData)
  BY DEF PCs
<1>. HIDE DEF p
<1>3. /\ \A g \in Handlers \ {h} : handler'[g] = handler[g]
      /\ handler'[h] = With(h, p, {}, handler[h].open)
  BY <1>1, <1>2, NextPcCall
<1>4. t \in 1..Len(blocks) /\ t \in 1..Len(rows)
  BY <1>1, CallFields DEF CallInv, TableInv
<1>5. RowsExact'
  BY <1>1, SameRows DEF ExactInv
<1>6. FilterKept(h) /\ InOrder(h) /\ \A s \in Series : data[s] = SumOf(Touching(t, s))
  BY <1>1 DEF ExactInv, CallExact, SumsExact
<1>7. ASSUME handler'[h].pc = p, handler'[h].time = t, handler'[h].todo = {}
      PROVE  CallExact(h)'
  <2>1. /\ ListedBefore(t)' = ListedBefore(t) /\ blocks'[t] = blocks[t]
        /\ \A s : Touching(t, s)' = Touching(t, s)
    BY <1>1, <1>7, SameBlock
  <2>2. FilterKept(h)'
    BY <1>1, <1>6, <1>7, <2>1 DEF FilterKept
  <2>3. SumsExact(h)'
    BY <1>1, <1>6, <1>7, <2>1 DEF SumsExact, InOrder
  <2>4. ASSUME p = "acking", NEW s \in Series PROVE rows'[t][s] = SumOf(Touching(t, s))
    <3>1. SumOf(Touching(t, s)) = NoRow
      BY <1>2, <1>6, <2>4, NoDataTyped
    <3>2. rows[t][s] \in {NoRow, SumOf(Touching(t, s))}
      BY <1>4 DEF ExactInv, RowsExact
    <3>. QED BY <1>1, <3>1, <3>2
  <2>5. Answered(h)'
    BY <1>7, <2>1, <2>4 DEF Answered
  <2>. QED BY <1>2, <1>7, <2>2, <2>3, <2>5 DEF CallExact, AtCreatePair
<1>. HIDE DEF t
<1>. QED BY <1>1, <1>2, <1>3, <1>5, <1>7, CallGoesOn DEF t

\* What a write leaves in the row of its block.
LEMMA WrittenRow ==
    ASSUME TypeInv, ExactInv, NEW h \in Handlers, Write(h)
    PROVE  /\ \A s \in Series : rows'[handler[h].time][s] = SumOf(Touching(handler[h].time, s))
           /\ RowsExact'
<1>. DEFINE t == handler[h].time
<1>1. UNCHANGED blocks /\ handler[h].pc = "writing"
  BY DEF Write
<1>2. /\ Len(rows') = Len(rows) /\ t \in 1..Len(rows)
      /\ \A u \in 1..Len(rows) \ {t} : rows'[u] = rows[u]
      /\ \A s \in Series : rows'[t][s] = IF data[s] = NoRow THEN rows[t][s] ELSE data[s]
  BY WriteTyped
<1>3. handler[h].todo = {}
  BY <1>1, CallFields DEF CallInv, TypeInv
<1>4. \A s \in Series : data[s] = SumOf(Touching(t, s))
  BY <1>1, <1>3 DEF ExactInv, CallExact, SumsExact
<1>5. \A u \in 1..Len(rows) : \A s \in Series : rows[u][s] \in {NoRow, SumOf(Touching(u, s))}
  BY DEF ExactInv, RowsExact
<1>6. \A s \in Series : rows'[t][s] = SumOf(Touching(t, s))
  BY <1>2, <1>4, <1>5
<1>7. \A u, s : Touching(u, s)' = Touching(u, s)
  BY <1>1, SameBlocks
<1>. HIDE DEF t
<1>8. \A u \in 1..Len(rows') : \A s \in Series : rows'[u][s] \in {NoRow, SumOf(Touching(u, s))}
  BY <1>2, <1>5, <1>6
<1>9. RowsExact'
  BY <1>7, <1>8 DEF RowsExact
<1>. QED BY <1>6, <1>9 DEF t

\* The rows are written.
LEMMA WriteExact ==
    ASSUME TypeInv, ExactInv, NEW h \in Handlers, Write(h)
    PROVE  ExactInv'
<1>. USE DEF TypeInv
<1>. DEFINE t == handler[h].time
<1>1. /\ UNCHANGED <<blocks, queue, up, filter, data, lost>> /\ handler[h].pc = "writing"
      /\ handler' = [handler EXCEPT ![h].pc = "acking"]
  BY DEF Write
<1>2. "acking" \in PCs \ {"idle"} /\ handler[h].todo = {}
  BY <1>1, CallFields DEF PCs, CallInv
<1>3. /\ \A g \in Handlers \ {h} : handler'[g] = handler[g]
      /\ handler'[h] = With(h, "acking", {}, handler[h].open)
  BY <1>1, <1>2, NextPcCall
<1>5. RowsExact' /\ \A s \in Series : rows'[t][s] = SumOf(Touching(t, s))
  BY WrittenRow
<1>6. FilterKept(h)
  BY <1>1 DEF ExactInv, CallExact
<1>7. ASSUME handler'[h].pc = "acking", handler'[h].time = t, handler'[h].todo = {}
      PROVE  CallExact(h)'
  <2>1. /\ ListedBefore(t)' = ListedBefore(t) /\ blocks'[t] = blocks[t]
        /\ \A s : Touching(t, s)' = Touching(t, s)
    BY <1>1, <1>7, SameBlock
  <2>2. FilterKept(h)'
    BY <1>1, <1>2, <1>6, <1>7, <2>1 DEF FilterKept
  <2>3. Answered(h)'
    BY <1>5, <1>7, <2>1 DEF Answered
  <2>. QED BY <1>7, <2>2, <2>3 DEF CallExact, AtCreatePair, SumsExact
<1>. HIDE DEF t
<1>. QED BY <1>1, <1>2, <1>3, <1>5, <1>7, CallGoesOn DEF t

\* The write fails.
LEMMA WriteFailsExact ==
    ASSUME TypeInv, ExactInv, NEW h \in Handlers, WriteFails(h)
    PROVE  ExactInv'
<1>. USE DEF TypeInv
<1>. DEFINE t == handler[h].time
<1>1. /\ UNCHANGED <<blocks, rows, queue, up, filter, data>> /\ handler[h].pc = "writing"
      /\ handler' = [handler EXCEPT ![h].pc = "acking"] /\ lost' = lost \cup {t}
  BY DEF WriteFails
<1>2. "acking" \in PCs \ {"idle"} /\ handler[h].todo = {}
  BY <1>1, CallFields DEF PCs, CallInv
<1>3. /\ \A g \in Handlers \ {h} : handler'[g] = handler[g]
      /\ handler'[h] = With(h, "acking", {}, handler[h].open)
  BY <1>1, <1>2, NextPcCall
<1>5. RowsExact'
  BY <1>1, SameRows DEF ExactInv
<1>6. FilterKept(h)
  BY <1>1 DEF ExactInv, CallExact
<1>7. ASSUME handler'[h].pc = "acking", handler'[h].time = t, handler'[h].todo = {}
      PROVE  CallExact(h)'
  <2>1. ListedBefore(t)' = ListedBefore(t) /\ blocks'[t] = blocks[t]
    BY <1>1, <1>7, SameBlock
  <2>2. FilterKept(h)'
    BY <1>1, <1>2, <1>6, <1>7, <2>1 DEF FilterKept
  <2>. QED BY <1>1, <1>7, <2>2 DEF CallExact, AtCreatePair, SumsExact, Answered
<1>. HIDE DEF t
<1>. QED BY <1>1, <1>2, <1>3, <1>5, <1>7, CallGoesOn DEF t

\* The message is acknowledged: the filter has the pairs its block created.
LEMMA AcknowledgeExact ==
    ASSUME TypeInv, ExactInv, NEW h \in Handlers, Acknowledge(h)
    PROVE  ExactInv'
<1>. USE DEF TypeInv
<1>. DEFINE t == handler[h].time
<1>1. /\ UNCHANGED <<blocks, rows, queue, up, filter, data, lost>> /\ handler[h].pc = "acking"
      /\ handler' = [handler EXCEPT ![h] = Idle]
  BY DEF Acknowledge
<1>2. handler'[h] = Idle /\ \A g \in Handlers \ {h} : handler'[g] = handler[g]
  BY <1>1, CallUpdate DEF CallsInv
<1>3. handler'[h].pc = "idle" /\ \A g \in Handlers \ {h} : handler'[g].pc = "idle"
  BY <1>1, <1>2, OthersIdle, IdleIsCall DEF ExactInv
<1>4. t = Front /\ t \in 1..Len(blocks) /\ handler[h].todo = {}
  BY <1>1, OthersIdle, CallFields DEF ExactInv, CallInv
<1>5. QueueOrder' /\ Front' = Front /\ RowsExact'
  BY <1>1, SameQueue, SameRows DEF ExactInv
<1>6. FilterReady'
  <2>1. /\ "router" \in filter /\ ListedBefore(t) \subseteq filter
        /\ \A i \in DOMAIN blocks[t] :
             blocks[t][i].name = "createPair" => blocks[t][i].pair \in filter
    BY <1>1, <1>4 DEF ExactInv, CallExact, FilterKept
  <2>2. Created(blocks[t]) \subseteq filter
    BY <2>1 DEF Created
  <2>3. ListedBefore(t + 1) \subseteq filter
    BY <1>4, <2>1, <2>2, ListedNext
  <2>4. ListedBefore(Front + 1)' = ListedBefore(t + 1)
    BY <1>1, <1>4, <1>5 DEF ListedBefore, Created
  <2>. QED BY <1>1, <2>1, <2>3, <2>4 DEF FilterReady
<1>. QED BY <1>3, <1>5, <1>6, IdleIsExact, ExactAssembled

\* The message in flight goes back to the head of the queue.
LEMMA PushedBack ==
    ASSUME TypeInv, ExactInv, UNCHANGED blocks, NEW h \in Handlers, handler[h].pc # "idle",
           queue' = <<handler[h].time>> \o queue
    PROVE  QueueOrder' /\ Front' + 1 = handler[h].time
<1>. USE DEF TypeInv
<1>. DEFINE t == handler[h].time
<1>1. t = Front /\ t \in 1..Len(blocks) /\ Len(blocks) \in Nat
  BY OthersIdle, CallFields, FrontType DEF ExactInv, CallInv
<1>2. /\ Len(queue) \in Nat /\ Len(queue') = Len(queue) + 1
      /\ queue'[1] = t /\ \A i \in 1..Len(queue) : queue'[i + 1] = queue[i]
  BY <1>1, Pushed
<1>3. Front' + 1 = t /\ Front' \in Int
  BY <1>1, <1>2 DEF Front
<1>4. ASSUME NEW i \in 1..Len(queue') PROVE queue'[i] = Front' + i
  <2>1. CASE i = 1
    BY <1>2, <1>3, <2>1
  <2>2. CASE i # 1
    <3>1. i - 1 \in 1..Len(queue) /\ i = (i - 1) + 1
      BY <1>2, <2>2
    <3>2. queue'[i] = queue[i - 1]
      BY <1>2, <3>1
    <3>3. queue[i - 1] = Front + (i - 1)
      BY <3>1 DEF ExactInv, QueueOrder
    <3>. QED BY <1>1, <1>3, <3>1, <3>2, <3>3
  <2>. QED BY <2>1, <2>2
<1>. QED BY <1>3, <1>4 DEF QueueOrder

\* A handler throws: the filter still has the pairs listed before the block.
LEMMA HandlerThrowsExact ==
    ASSUME TypeInv, ExactInv, NEW h \in Handlers, HandlerThrows(h)
    PROVE  ExactInv'
<1>. USE DEF TypeInv
<1>. DEFINE t == handler[h].time
<1>1. /\ UNCHANGED <<blocks, rows, up, filter, data, lost>> /\ handler[h].pc = "handling"
      /\ Throw(h)
  BY DEF HandlerThrows
<1>2. handler'[h] = Idle /\ \A g \in Handlers \ {h} : handler'[g] = handler[g]
  BY <1>1, ThrowTyped
<1>3. handler'[h].pc = "idle" /\ \A g \in Handlers \ {h} : handler'[g].pc = "idle"
  BY <1>1, <1>2, OthersIdle, IdleIsCall DEF ExactInv
<1>4. queue' = <<t>> \o queue
  BY <1>1, OthersIdle DEF ExactInv, Throw
<1>5. QueueOrder' /\ Front' + 1 = t
  BY <1>1, <1>4, PushedBack
<1>6. FilterReady'
  <2>1. "router" \in filter /\ ListedBefore(t) \subseteq filter
    BY <1>1 DEF ExactInv, CallExact, FilterKept
  <2>2. ListedBefore(Front + 1)' = ListedBefore(t)
    BY <1>1, <1>5 DEF ListedBefore, Created
  <2>. QED BY <1>1, <2>1, <2>2 DEF FilterReady
<1>7. RowsExact'
  BY <1>1, SameRows DEF ExactInv
<1>. QED BY <1>3, <1>5, <1>6, <1>7, IdleIsExact, ExactAssembled

\* The process dies.
LEMMA CrashExact ==
    ASSUME TypeInv, ExactInv, Crash
    PROVE  ExactInv'
<1>. USE DEF TypeInv
<1>1. UNCHANGED <<blocks, rows, lost>> /\ up' = FALSE
  BY DEF Crash
<1>2. \A h \in Handlers : handler'[h].pc = "idle"
  BY CrashTyped, IdleIsCall
<1>3. QueueOrder'
  <2>1. CASE InFlight = {}
    BY <1>1, <2>1, SameQueue DEF Crash, ExactInv
  <2>2. CASE InFlight # {}
    <3>. DEFINE g == CHOOSE h \in InFlight : TRUE
    <3>1. g \in Handlers /\ handler[g].open
      BY <2>2 DEF InFlight
    <3>2. queue' = <<handler[g].time>> \o queue
      BY <2>2 DEF Crash
    <3>. HIDE DEF g
    <3>3. handler[g].pc # "idle"
      BY <3>1, CallFields DEF CallInv
    <3>. QED BY <1>1, <3>1, <3>2, <3>3, PushedBack
  <2>. QED BY <2>1, <2>2
<1>4. FilterReady' /\ CallsOrder' /\ \A h \in Handlers : CallExact(h)'
  BY <1>1, <1>2, IdleIsExact DEF FilterReady, CallsOrder
<1>5. RowsExact'
  BY <1>1, SameRows DEF ExactInv
<1>. QED BY <1>3, <1>4, <1>5 DEF ExactInv

\* Nothing happens.
LEMMA StutterExact ==
    ASSUME ExactInv, UNCHANGED vars
    PROVE  ExactInv'
<1>1. UNCHANGED <<blocks, rows, queue, handler, up, filter, data, lost>>
  BY DEF vars
<1>2. /\ \A t : ListedBefore(t)' = ListedBefore(t)
      /\ \A t, s : Touching(t, s)' = Touching(t, s)
  BY <1>1, SameBlocks
<1>3. QueueOrder' /\ Front' = Front /\ RowsExact'
  BY <1>1, SameQueue, SameRows DEF ExactInv
<1>4. CallsOrder'
  BY <1>1, <1>3 DEF ExactInv, CallsOrder
<1>5. FilterReady'
  <2>1. ListedBefore(Front + 1)' = ListedBefore(Front + 1)
    BY <1>1, <1>3 DEF ListedBefore, Created
  <2>. QED BY <1>1, <2>1 DEF ExactInv, FilterReady
<1>6. ASSUME NEW h \in Handlers PROVE CallExact(h)'
  <2>1. /\ ListedBefore(handler[h].time)' = ListedBefore(handler[h].time)
        /\ \A s : Touching(handler[h].time, s)' = Touching(handler[h].time, s)
    BY <1>1, SameBlock
  <2>2. CallExact(h)
    BY DEF ExactInv
  <2>3. FilterKept(h)' /\ AtCreatePair(h)'
    BY <1>1, <2>1, <2>2 DEF CallExact, FilterKept, AtCreatePair, Current, Position
  <2>4. SumsExact(h)' /\ Answered(h)'
    BY <1>1, <2>1, <2>2 DEF CallExact, SumsExact, InOrder, Answered
  <2>. QED BY <2>3, <2>4 DEF CallExact
<1>. QED BY <1>3, <1>4, <1>5, <1>6 DEF ExactInv

\* Faults are counted and never forgotten.
LEMMA FaultsStay == TypeInv /\ [Next]_vars /\ Exact' => Exact
<1>. SUFFICES ASSUME TypeInv, [Next]_vars, Exact' PROVE Exact
  OBVIOUS
<1>1. reconnects \in Nat /\ refreshFailures \in Nat
  BY DEF TypeInv, ConsumerInv
<1>2. /\ reconnects' \in {reconnects, reconnects + 1}
      /\ refreshFailures' \in {refreshFailures, refreshFailures + 1}
  BY DEF Next, vars, counters, Emit, Start, Deliver, HandlerStep, HandleEvent, HandleCreatePair,
         RefreshFilter, RefreshFails, HandlerThrows, FinishEvents, Write, WriteFails, Acknowledge,
         Crash, Reconnect
<1>3. /\ reconnects' \in Nat /\ reconnects <= reconnects'
      /\ refreshFailures' \in Nat /\ refreshFailures <= refreshFailures'
  BY <1>1, <1>2
<1>4. reconnects' + refreshFailures' = 0
  BY DEF Exact
<1>5. \A a, b, c, d \in Nat : a <= c /\ b <= d /\ c + d = 0 => a + b = 0
  OBVIOUS
<1>6. reconnects + refreshFailures = 0
  BY <1>1, <1>3, <1>4, <1>5
<1>. QED BY <1>6 DEF Exact

\* A step that is not a fault keeps the sums exact.
LEMMA StepExact == TypeInv /\ ExactInv /\ [Next]_vars /\ Exact' => ExactInv'
<1>. SUFFICES ASSUME TypeInv, ExactInv, [Next]_vars, Exact' PROVE ExactInv'
  OBVIOUS
<1>1. reconnects \in Nat /\ refreshFailures \in Nat
  BY DEF TypeInv, ConsumerInv
<1>2. ASSUME NEW h \in Handlers, Reconnect(h) PROVE FALSE
  BY <1>1, <1>2 DEF Reconnect, Exact
<1>3. ASSUME NEW h \in Handlers, RefreshFails(h) PROVE FALSE
  BY <1>1, <1>3 DEF RefreshFails, Exact
<1>4. ASSUME NEW block \in Blocks, Emit(block) PROVE ExactInv'
  BY <1>4, EmitExact
<1>5. CASE Start
  BY <1>5, StartExact
<1>6. ASSUME NEW h \in Handlers, Deliver(h) PROVE ExactInv'
  BY <1>6, DeliverExact
<1>7. ASSUME NEW h \in Handlers, HandleEvent(h) PROVE ExactInv'
  BY <1>7, HandleEventExact
<1>8. ASSUME NEW h \in Handlers, HandleCreatePair(h) PROVE ExactInv'
  BY <1>8, HandleCreatePairExact
<1>9. ASSUME NEW h \in Handlers, RefreshFilter(h) PROVE ExactInv'
  BY <1>9, RefreshFilterExact
<1>10. ASSUME NEW h \in Handlers, HandlerThrows(h) PROVE ExactInv'
  BY <1>10, HandlerThrowsExact
<1>11. ASSUME NEW h \in Handlers, FinishEvents(h) PROVE ExactInv'
  BY <1>11, FinishEventsExact
<1>12. ASSUME NEW h \in Handlers, Write(h) PROVE ExactInv'
  BY <1>12, WriteExact
<1>13. ASSUME NEW h \in Handlers, WriteFails(h) PROVE ExactInv'
  BY <1>13, WriteFailsExact
<1>14. ASSUME NEW h \in Handlers, Acknowledge(h) PROVE ExactInv'
  BY <1>14, AcknowledgeExact
<1>15. CASE Crash
  BY <1>15, CrashExact
<1>16. CASE UNCHANGED vars
  BY <1>16, StutterExact
<1>. QED
  BY <1>2, <1>3, <1>4, <1>5, <1>6, <1>7, <1>8, <1>9, <1>10, <1>11, <1>12, <1>13, <1>14, <1>15,
     <1>16 DEF Next, HandlerStep

\* The invariant is inductive.
LEMMA StepInv == IInv /\ [Next]_vars => IInv'
  BY StepTyped, StepExact, FaultsStay DEF IInv

\* In every reachable state.
LEMMA AlwaysInv == Spec => []IInv
<1>1. Init => IInv
  BY InitTyped, InitExact, Zenon DEF IInv
<1>. QED BY <1>1, StepInv, PTL DEF Spec

\* The types that the module states follow from those of the proof.
LEMMA TypesFollow == TypeInv => TypeOK
<1>. SUFFICES ASSUME TypeInv PROVE TypeOK
  OBVIOUS
<1>1. Len(blocks) \in Nat /\ DOMAIN blocks = 1..Len(blocks)
  BY LenProperties DEF TypeInv, ChainInv
<1>2. \A t \in DOMAIN blocks : blocks[t] \in Blocks
  BY <1>1, EventFacts DEF TypeInv
<1>3. \A t \in DOMAIN rows : rows[t] \in [Series -> [volume : Nat, price : Nat]]
  BY ElementOfSeq, LenProperties DEF TypeInv, TableInv, Row
<1>4. \A i \in DOMAIN queue : queue[i] \in DOMAIN blocks
  BY <1>1, LenProperties DEF TypeInv, QueueInv
<1>5. ASSUME NEW h \in Handlers
      PROVE  /\ handler[h].pc \in PCs
             /\ handler[h].pc # "idle" => handler[h].time \in DOMAIN blocks
             /\ \A i \in handler[h].todo : i \in DOMAIN blocks[handler[h].time]
  BY <1>1, CallFields DEF TypeInv, CallInv
<1>6. up \in BOOLEAN /\ filter \subseteq Pairs \cup {"router"}
  BY DEF TypeInv, ConsumerInv
<1>7. data \in [Series -> [volume : Nat, price : Nat]] /\ lost \subseteq DOMAIN blocks
  BY <1>1 DEF TypeInv, ConsumerInv, TableInv, Row
<1>. QED BY <1>2, <1>3, <1>4, <1>5, <1>6, <1>7 DEF TypeOK

\* Messages, calls and sums are of their types in every reachable state: no call handles an event
\* of a block that is not there, and no sum or filter takes anything in but what the chain gave.
THEOREM ConsumerTypeCorrect == Spec => []TypeOK
<1>1. IInv => TypeOK
  BY TypesFollow DEF IInv
<1>. QED BY <1>1, AlwaysInv, PTL

--------------------------------------------------------------------------------
(* The consumer implements the ledger.                                     *)

\* The blocks that are not settled.
Waits == {t \in DOMAIN blocks : ~Settled(t)}

\* They are the last ones of the chain, from the block in flight on.
WaitsLast ==
    /\ \A h \in Handlers : handler[h].pc # "idle" => Waits = Front..Len(blocks)
    /\ (\A h \in Handlers : handler[h].pc = "idle") => Waits = (Front + 1)..Len(blocks)

\* The queue holds the messages after the one in flight.
LEMMA WaitsShape == TypeInv /\ ExactInv => WaitsLast
<1>. SUFFICES ASSUME TypeInv, ExactInv PROVE WaitsLast
  OBVIOUS
<1>1. /\ Front \in Nat /\ Front <= Len(blocks) /\ Len(queue) \in Nat /\ Len(blocks) \in Nat
      /\ Len(queue) = Len(blocks) - Front
  BY FrontType DEF ExactInv, Front
<1>2. DOMAIN blocks = 1..Len(blocks) /\ DOMAIN queue = 1..Len(queue)
  BY LenProperties DEF TypeInv, ChainInv, QueueInv
<1>3. ASSUME NEW t \in DOMAIN blocks
      PROVE  (\E i \in DOMAIN queue : queue[i] = t) <=> t \in (Front + 1)..Len(blocks)
  <2>1. ASSUME NEW i \in DOMAIN queue, queue[i] = t PROVE t \in (Front + 1)..Len(blocks)
    <3>1. t = Front + i
      BY <1>2, <2>1 DEF ExactInv, QueueOrder
    <3>. QED BY <1>1, <1>2, <3>1
  <2>2. ASSUME t \in (Front + 1)..Len(blocks) PROVE \E i \in DOMAIN queue : queue[i] = t
    <3>1. t - Front \in 1..Len(queue)
      BY <1>1, <2>2
    <3>2. queue[t - Front] = Front + (t - Front)
      BY <3>1 DEF ExactInv, QueueOrder
    <3>. QED BY <1>1, <1>2, <2>2, <3>1, <3>2
  <2>. QED BY <2>1, <2>2
<1>4. ASSUME NEW h \in Handlers
      PROVE  /\ handler[h].open <=> handler[h].pc # "idle"
             /\ handler[h].pc # "idle" => handler[h].time = Front /\ Front \in DOMAIN blocks
  <2>1. CallInv(h) /\ handler[h].open \in BOOLEAN
    BY CallFields DEF TypeInv
  <2>. QED BY <1>2, <2>1 DEF ExactInv, CallsOrder, CallInv
<1>5. ASSUME NEW h \in Handlers, handler[h].pc # "idle" PROVE Waits = Front..Len(blocks)
  <2>1. ASSUME NEW t \in DOMAIN blocks PROVE ~Settled(t) <=> t \in Front..Len(blocks)
    <3>1. (\E g \in Handlers : handler[g].open /\ handler[g].time = t) <=> t = Front
      BY <1>4, <1>5
    <3>2. ~Settled(t) <=> t \in (Front + 1)..Len(blocks) \/ t = Front
      BY <1>3, <3>1 DEF Settled
    <3>. QED BY <1>1, <3>2
  <2>2. Front..Len(blocks) \subseteq DOMAIN blocks
    BY <1>1, <1>2, <1>4, <1>5
  <2>. QED BY <2>1, <2>2 DEF Waits
<1>6. ASSUME \A h \in Handlers : handler[h].pc = "idle" PROVE Waits = (Front + 1)..Len(blocks)
  <2>1. ASSUME NEW t \in DOMAIN blocks PROVE ~Settled(t) <=> t \in (Front + 1)..Len(blocks)
    BY <1>3, <1>4, <1>6 DEF Settled
  <2>2. (Front + 1)..Len(blocks) \subseteq DOMAIN blocks
    BY <1>1, <1>2
  <2>. QED BY <2>1, <2>2 DEF Waits
<1>. QED BY <1>5, <1>6 DEF WaitsLast

\* ... before and after a step.
LEMMA WaitsShapeNext == TypeInv' /\ ExactInv' => WaitsLast'
  BY WaitsShape, PTL

\* A block waits as long as nothing is delivered or answered for.
LEMMA SameWaits ==
    ASSUME UNCHANGED <<blocks, queue, handler>>
    PROVE  Waits' = Waits
  BY DEF Waits, Settled

\* A block waits while its call goes on.
LEMMA GoingOnWaits ==
    ASSUME WaitsLast, WaitsLast', UNCHANGED <<blocks, queue>>, NEW h \in Handlers,
           handler[h].pc # "idle", handler'[h].pc # "idle"
    PROVE  Waits' = Waits
  BY DEF WaitsLast, Front

\* The steps of the ledger, in terms of the consumer.
LEMMA LedgerSteps ==
    ASSUME Exact, Exact'
    PROVE  /\ \A block \in Blocks :
                /\ blocks' = Append(blocks, block) /\ rows' = Append(rows, NoData)
                /\ Waits' = Waits \cup {Len(blocks) + 1} /\ lost' = lost
                => Ledger!Next
           /\ \A t \in Waits :
                \/ /\ rows' = [rows EXCEPT ![t] = Ledger!Totals(t)]
                   /\ blocks' = blocks /\ Waits' = Waits /\ lost' = lost
                \/ /\ lost' = lost \cup {t}
                   /\ blocks' = blocks /\ rows' = rows /\ Waits' = Waits
                \/ /\ t \in lost \/ rows[t] = Ledger!Totals(t)
                   /\ Waits' = Waits \ {t}
                   /\ blocks' = blocks /\ rows' = rows /\ lost' = lost
                => Ledger!Next
           /\ blocks' = blocks /\ rows' = rows /\ Waits' = Waits /\ lost' = lost
                => UNCHANGED Ledger!vars
<1>1. UNCHANGED (reconnects + refreshFailures = 0)
  BY DEF Exact
<1>2. ASSUME NEW block \in Blocks, blocks' = Append(blocks, block), rows' = Append(rows, NoData),
             Waits' = Waits \cup {Len(blocks) + 1}, lost' = lost
      PROVE  Ledger!Next
  <2>1. Ledger!EmitBlock(block)
    BY <1>1, <1>2 DEF Ledger!EmitBlock, Waits, NoData, NoRow, Series
  <2>. QED BY <2>1 DEF Ledger!Next
<1>3. ASSUME NEW t \in Waits, rows' = [rows EXCEPT ![t] = Ledger!Totals(t)],
             blocks' = blocks, Waits' = Waits, lost' = lost
      PROVE  Ledger!Next
  <2>1. Ledger!RecordBlock(t) /\ t \in DOMAIN blocks
    BY <1>1, <1>3 DEF Ledger!RecordBlock, Waits
  <2>. QED BY <2>1 DEF Ledger!Next
<1>4. ASSUME NEW t \in Waits, lost' = lost \cup {t},
             blocks' = blocks, rows' = rows, Waits' = Waits
      PROVE  Ledger!Next
  <2>1. Ledger!LoseBlock(t) /\ t \in DOMAIN blocks
    BY <1>1, <1>4 DEF Ledger!LoseBlock, Waits
  <2>. QED BY <2>1 DEF Ledger!Next
<1>5. ASSUME NEW t \in Waits, t \in lost \/ rows[t] = Ledger!Totals(t), Waits' = Waits \ {t},
             blocks' = blocks, rows' = rows, lost' = lost
      PROVE  Ledger!Next
  <2>1. Ledger!Settle(t) /\ t \in DOMAIN blocks
    BY <1>1, <1>5 DEF Ledger!Settle, Waits
  <2>. QED BY <2>1 DEF Ledger!Next
<1>6. ASSUME blocks' = blocks, rows' = rows, Waits' = Waits, lost' = lost
      PROVE  UNCHANGED Ledger!vars
  BY <1>1, <1>6 DEF Ledger!vars, Waits
<1>. QED BY <1>2, <1>3, <1>4, <1>5, <1>6

\* The row of a block has the totals of the ledger when it has the sums.
LEMMA TotalsRow ==
    ASSUME NEW t \in 1..Len(blocks), NEW row \in [Series -> Row],
           \A s \in Series : row[s] = SumOf(Touching(t, s))
    PROVE  row = Ledger!Totals(t)
<1>1. Ledger!Totals(t) = [s \in Series |-> SumOf(Touching(t, s))]
  BY TotalIsSum DEF Ledger!Totals, Series
<1>2. row = [s \in Series |-> row[s]]
  OBVIOUS
<1>. QED BY <1>1, <1>2

\* A step without a fault is a step of the ledger, or changes nothing it knows of.
LEMMA ExactStep ==
    ASSUME TypeInv, ExactInv, Exact, TypeInv', ExactInv', Exact', [Next]_vars
    PROVE  [Ledger!Next]_(Ledger!vars)
<1>. USE DEF TypeInv
<1>1. WaitsLast /\ WaitsLast'
  BY WaitsShape, WaitsShapeNext
<1>2. /\ Front \in Nat /\ Front <= Len(blocks) /\ Len(queue) \in Nat /\ Len(blocks) \in Nat
  BY FrontType DEF ExactInv
<1>3. ASSUME blocks' = blocks, rows' = rows, Waits' = Waits, lost' = lost
      PROVE  UNCHANGED Ledger!vars
  BY <1>3, LedgerSteps
<1>4. ASSUME NEW h \in Handlers, handler[h].pc # "idle"
      PROVE  /\ handler[h].time = Front /\ handler[h].time \in Waits
             /\ handler[h].time \in 1..Len(blocks)
             /\ \A g \in Handlers \ {h} : handler[g].pc = "idle"
             /\ Waits = Front..Len(blocks)
  <2>1. handler[h].time = Front /\ \A g \in Handlers \ {h} : handler[g].pc = "idle"
    BY <1>4, OthersIdle DEF ExactInv
  <2>2. Waits = Front..Len(blocks)
    BY <1>1, <1>4 DEF WaitsLast
  <2>3. handler[h].time \in 1..Len(blocks)
    BY <1>4, CallFields DEF CallInv
  <2>. QED BY <1>2, <2>1, <2>2, <2>3
<1>5. ASSUME NEW h \in Handlers, handler[h].pc # "idle", handler'[h].pc # "idle",
             blocks' = blocks, queue' = queue
      PROVE  Waits' = Waits
  BY <1>1, <1>5, GoingOnWaits
<1>6. ASSUME NEW block \in Blocks, Emit(block) PROVE Ledger!Next
  <2>1. /\ blocks' = Append(blocks, block) /\ rows' = Append(rows, NoData) /\ lost' = lost
        /\ handler' = handler /\ queue' = Append(queue, Len(blocks) + 1)
    BY <1>6 DEF Emit
  <2>2. Len(blocks') = Len(blocks) + 1 /\ Len(queue') = Len(queue) + 1
    BY <1>2, <2>1, AddedBlock, AppendProperties DEF QueueInv
  <2>3. Front' = Front
    BY <1>2, <2>2 DEF Front
  <2>4. Waits' = Waits \cup {Len(blocks) + 1}
    <3>1. CASE \E h \in Handlers : handler[h].pc # "idle"
      <4>1. Waits = Front..Len(blocks) /\ Waits' = Front..(Len(blocks) + 1)
        BY <1>1, <2>1, <2>2, <2>3, <3>1 DEF WaitsLast
      <4>. QED BY <1>2, <4>1
    <3>2. CASE \A h \in Handlers : handler[h].pc = "idle"
      <4>1. Waits = (Front + 1)..Len(blocks) /\ Waits' = (Front + 1)..(Len(blocks) + 1)
        BY <1>1, <2>1, <2>2, <2>3, <3>2 DEF WaitsLast
      <4>. QED BY <1>2, <4>1
    <3>. QED BY <3>1, <3>2
  <2>. QED BY <2>1, <2>4, LedgerSteps
<1>7. CASE Start
  BY <1>3, <1>7, SameWaits DEF Start
<1>8. ASSUME NEW h \in Handlers, Deliver(h) PROVE UNCHANGED Ledger!vars
  <2>1. /\ UNCHANGED <<blocks, rows, lost>> /\ InFlight = {} /\ queue # <<>>
        /\ queue' = Tail(queue)
    BY <1>8 DEF Deliver
  <2>2. \A g \in Handlers : handler[g].pc = "idle"
    BY <2>1 DEF InFlight, ExactInv, CallsOrder
  <2>3. handler'[h].pc = "handling"
    BY <1>8, DeliverCall
  <2>4. Front' = Front + 1
    BY <1>2, <2>1, Popped DEF Front
  <2>5. Waits = (Front + 1)..Len(blocks) /\ Waits' = (Front + 1)..Len(blocks)
    BY <1>1, <2>1, <2>2, <2>3, <2>4 DEF WaitsLast
  <2>. QED BY <1>3, <2>1, <2>5
<1>9. ASSUME NEW h \in Handlers, HandleEvent(h) PROVE UNCHANGED Ledger!vars
  <2>1. /\ UNCHANGED <<blocks, rows, queue, lost>> /\ handler' = AfterEvent(h)
        /\ handler[h].pc # "idle"
    BY <1>9 DEF HandleEvent
  <2>2. handler'[h] = With(h, "handling", handler[h].todo \ {Position(h)}, handler[h].open)
    BY <2>1, AfterEventCall
  <2>3. handler'[h].pc # "idle"
    BY <2>2 DEF With
  <2>. QED BY <1>3, <1>5, <2>1, <2>3
<1>10. ASSUME NEW h \in Handlers, HandleCreatePair(h) PROVE UNCHANGED Ledger!vars
  <2>1. handler'[h].pc # "idle" /\ handler[h].pc # "idle"
    BY <1>10, NextPcCall, WithFields DEF HandleCreatePair, PCs
  <2>. QED BY <1>3, <1>5, <1>10, <2>1 DEF HandleCreatePair
<1>11. ASSUME NEW h \in Handlers, RefreshFilter(h) PROVE UNCHANGED Ledger!vars
  <2>1. /\ UNCHANGED <<blocks, rows, queue, lost>> /\ handler' = AfterEvent(h)
        /\ handler[h].pc # "idle"
    BY <1>11 DEF RefreshFilter
  <2>2. handler'[h] = With(h, "handling", handler[h].todo \ {Position(h)}, handler[h].open)
    BY <2>1, AfterEventCall
  <2>3. handler'[h].pc # "idle"
    BY <2>2 DEF With
  <2>. QED BY <1>3, <1>5, <2>1, <2>3
<1>12. ASSUME NEW h \in Handlers, FinishEvents(h) PROVE UNCHANGED Ledger!vars
  <2>. DEFINE p == IF data = NoData THEN "acking" ELSE "writing"
  <2>0. p \in PCs \ {"idle"} /\ p \in {"acking", "writing"}
    BY DEF PCs
  <2>1. /\ handler[h].pc = "handling" /\ handler[h].todo = {}
        /\ handler' = [handler EXCEPT ![h].pc = p]
        /\ UNCHANGED <<blocks, rows, queue, lost>>
    BY <1>12 DEF FinishEvents
  <2>. HIDE DEF p
  <2>2. handler'[h].pc # "idle"
    BY <2>0, <2>1, NextPcCall, WithFields
  <2>. QED BY <1>3, <1>5, <2>1, <2>2
<1>13. ASSUME NEW h \in Handlers, Write(h) PROVE Ledger!Next
  <2>. DEFINE t == handler[h].time
  <2>1. /\ UNCHANGED <<blocks, queue, lost>> /\ handler[h].pc = "writing"
        /\ handler' = [handler EXCEPT ![h].pc = "acking"]
    BY <1>13 DEF Write
  <2>2. handler'[h].pc # "idle"
    BY <2>1, NextPcCall, WithFields, CallFields DEF PCs, CallInv
  <2>3. Waits' = Waits /\ t \in Waits /\ t \in 1..Len(blocks)
    BY <1>4, <1>5, <2>1, <2>2
  <2>4. /\ rows' = [rows EXCEPT ![t] = rows'[t]] /\ rows'[t] \in [Series -> Row]
        /\ \A s \in Series : rows'[t][s] = SumOf(Touching(t, s))
    BY <1>13, WriteTyped, WrittenRow
  <2>. HIDE DEF t
  <2>5. rows'[t] = Ledger!Totals(t)
    BY <2>3, <2>4, TotalsRow
  <2>6. rows' = [rows EXCEPT ![t] = Ledger!Totals(t)]
    BY <2>4, <2>5, Zenon
  <2>. QED BY <2>1, <2>3, <2>6, LedgerSteps
<1>14. ASSUME NEW h \in Handlers, WriteFails(h) PROVE Ledger!Next
  <2>1. /\ UNCHANGED <<blocks, rows, queue>> /\ handler[h].pc = "writing"
        /\ handler' = [handler EXCEPT ![h].pc = "acking"]
        /\ lost' = lost \cup {handler[h].time}
    BY <1>14 DEF WriteFails
  <2>2. handler'[h].pc # "idle"
    BY <2>1, NextPcCall, WithFields, CallFields DEF PCs, CallInv
  <2>3. Waits' = Waits /\ handler[h].time \in Waits
    BY <1>4, <1>5, <2>1, <2>2
  <2>. QED BY <2>1, <2>3, LedgerSteps
<1>15. ASSUME NEW h \in Handlers, Acknowledge(h) PROVE Ledger!Next
  <2>. DEFINE t == handler[h].time
  <2>1. /\ UNCHANGED <<blocks, rows, queue, lost>> /\ handler[h].pc = "acking"
        /\ handler' = [handler EXCEPT ![h] = Idle]
    BY <1>15 DEF Acknowledge
  <2>2. /\ t = Front /\ t \in Waits /\ t \in 1..Len(blocks)
        /\ \A g \in Handlers \ {h} : handler[g].pc = "idle"
        /\ Waits = Front..Len(blocks)
    BY <1>4, <2>1
  <2>3. \A g \in Handlers : handler'[g].pc = "idle"
    BY <2>1, <2>2, CallUpdate, IdleIsCall DEF CallsInv
  <2>4. Waits' = (Front + 1)..Len(blocks)
    BY <1>1, <2>1, <2>3 DEF WaitsLast, Front
  <2>5. Waits' = Waits \ {t}
    BY <1>2, <2>2, <2>4
  <2>6. t \in lost \/ \A s \in Series : rows[t][s] = SumOf(Touching(t, s))
    BY <2>1 DEF ExactInv, CallExact, Answered
  <2>7. rows[t] \in [Series -> Row]
    BY <2>2, ElementOfSeq DEF TableInv
  <2>. HIDE DEF t
  <2>8. t \in lost \/ rows[t] = Ledger!Totals(t)
    BY <2>2, <2>6, <2>7, TotalsRow
  <2>. QED BY <2>1, <2>2, <2>5, <2>8, LedgerSteps
<1>16. ASSUME NEW h \in Handlers, HandlerThrows(h) PROVE UNCHANGED Ledger!vars
  <2>1. UNCHANGED <<blocks, rows, lost>> /\ handler[h].pc = "handling" /\ Throw(h)
    BY <1>16 DEF HandlerThrows
  <2>2. \A g \in Handlers : handler'[g].pc = "idle"
    BY <1>4, <2>1, ThrowTyped, IdleIsCall
  <2>3. queue' = <<handler[h].time>> \o queue
    BY <2>1, OthersIdle DEF ExactInv, Throw
  <2>4. Front' + 1 = Front
    BY <1>4, <2>1, <2>3, PushedBack
  <2>5. Waits' = Front..Len(blocks) /\ Waits = Front..Len(blocks)
    BY <1>1, <1>4, <2>1, <2>2, <2>4 DEF WaitsLast
  <2>. QED BY <1>3, <2>1, <2>5
<1>17. CASE Crash
  <2>1. UNCHANGED <<blocks, rows, lost>>
    BY <1>17 DEF Crash
  <2>2. \A g \in Handlers : handler'[g].pc = "idle"
    BY <1>17, CrashTyped, IdleIsCall
  <2>3. Waits' = Waits
    <3>1. CASE InFlight = {}
      <4>1. queue' = queue /\ \A g \in Handlers : handler[g].pc = "idle"
        BY <1>17, <3>1 DEF Crash, InFlight, ExactInv, CallsOrder
      <4>. QED BY <1>1, <2>1, <2>2, <4>1 DEF WaitsLast, Front
    <3>2. CASE InFlight # {}
      <4>. DEFINE g == CHOOSE h \in InFlight : TRUE
      <4>1. g \in Handlers /\ handler[g].open
        BY <3>2 DEF InFlight
      <4>2. queue' = <<handler[g].time>> \o queue
        BY <1>17, <3>2 DEF Crash
      <4>. HIDE DEF g
      <4>3. handler[g].pc # "idle"
        BY <4>1, CallFields DEF CallInv
      <4>4. Front' + 1 = Front
        BY <1>4, <2>1, <4>1, <4>2, <4>3, PushedBack
      <4>5. Waits' = Front..Len(blocks) /\ Waits = Front..Len(blocks)
        BY <1>1, <1>4, <2>1, <2>2, <4>1, <4>3, <4>4 DEF WaitsLast
      <4>. QED BY <4>5
    <3>. QED BY <3>1, <3>2
  <2>. QED BY <1>3, <2>1, <2>3
<1>18. ASSUME NEW h \in Handlers, RefreshFails(h) \/ Reconnect(h) PROVE FALSE
  BY <1>18 DEF RefreshFails, Reconnect, Exact, ConsumerInv
<1>19. CASE UNCHANGED vars
  BY <1>3, <1>19, SameWaits DEF vars
<1>. QED
  BY <1>6, <1>7, <1>8, <1>9, <1>10, <1>11, <1>12, <1>13, <1>14, <1>15, <1>16, <1>17, <1>18, <1>19
  DEF Next, HandlerStep

\* The chain grows by one block or stays as it is.
LEMMA ChainGrows ==
    [Next]_vars => blocks' = blocks \/ \E block \in Blocks : blocks' = Append(blocks, block)
  BY DEF Next, vars, Emit, Start, Deliver, HandlerStep, HandleEvent, HandleCreatePair,
         RefreshFilter, RefreshFails, HandlerThrows, FinishEvents, Write, WriteFails, Acknowledge,
         Crash, Reconnect

\* A step of the consumer is a step of the ledger.
LEMMA LedgerStep == IInv /\ IInv' /\ [Next]_vars => [Ledger!Next]_(Ledger!vars)
<1>. SUFFICES ASSUME IInv, IInv', [Next]_vars PROVE [Ledger!Next]_(Ledger!vars)
  OBVIOUS
<1>1. CASE Exact'
  BY <1>1, FaultsStay, ExactStep DEF IInv
<1>2. CASE ~Exact'
  <2>1. Ledger!Fault
    BY <1>2, ChainGrows DEF Ledger!Fault, Exact
  <2>. QED BY <2>1 DEF Ledger!Next
<1>. QED BY <1>1, <1>2

\* The consumer starts where the ledger does.
LEMMA LedgerInit == Init => Ledger!Init
<1>. SUFFICES ASSUME Init PROVE Ledger!Init
  OBVIOUS
<1>1. blocks = <<>> /\ rows = <<>> /\ lost = {}
  BY DEF Init
<1>2. {t \in DOMAIN blocks : ~Settled(t)} = {}
  BY <1>1
<1>3. (reconnects + refreshFailures = 0) = TRUE
  BY DEF Init
<1>. QED BY <1>1, <1>2, <1>3 DEF Ledger!Init

\* The table is a ledger of exact totals: whichever calls throw, crash or have their messages
\* redelivered, a write stores the sums of all events of its block, and a message is
\* acknowledged only when its rows are in the table or its write failed.  Only a lost channel
\* or a list of pairs that cannot be read end this.
THEOREM ConsumerImplementsLedger == Spec => ImplementsLedger
<1>. QED BY AlwaysInv, LedgerInit, LedgerStep, PTL DEF Spec, ImplementsLedger, Ledger!Spec

\* What the ledger keeps of a block that is settled.
Recorded ==
    Exact => \A t \in DOMAIN blocks \ Waits : t \in lost \/ rows[t] = Ledger!Totals(t)

\* No step of the ledger takes the rows of a settled block away.
LEMMA RecordedStep ==
    ASSUME IInv, Recorded, [Ledger!Next]_(Ledger!vars), Exact, Exact'
    PROVE  Recorded'
<1>1. /\ blocks \in Seq(Blocks) /\ DOMAIN blocks = 1..Len(blocks) /\ Len(blocks) \in Nat
      /\ rows \in Seq([Series -> Row]) /\ DOMAIN rows = 1..Len(blocks)
      /\ Len(rows) = Len(blocks) /\ Waits \subseteq DOMAIN blocks
  BY LenProperties DEF IInv, TypeInv, ChainInv, TableInv, Waits
<1>2. \A t \in DOMAIN blocks \ Waits : t \in lost \/ rows[t] = Ledger!Totals(t)
  BY DEF Recorded
<1>3. ASSUME blocks' = blocks, NEW t PROVE Ledger!Totals(t)' = Ledger!Totals(t)
  BY <1>3 DEF Ledger!Totals
<1>4. SUFFICES ASSUME NEW t \in DOMAIN blocks' \ Waits'
               PROVE  t \in lost' \/ rows'[t] = Ledger!Totals(t)'
  BY DEF Recorded
<1>5. ASSUME blocks' = blocks, rows' = rows, t \in lost => t \in lost', t \notin Waits
      PROVE  t \in lost' \/ rows'[t] = Ledger!Totals(t)'
  BY <1>2, <1>3, <1>4, <1>5
<1>6. CASE Ledger!Fault
  BY <1>6 DEF Ledger!Fault, Exact
<1>7. ASSUME NEW block \in Blocks, Ledger!EmitBlock(block)
      PROVE  t \in lost' \/ rows'[t] = Ledger!Totals(t)'
  <2>1. /\ blocks' = Append(blocks, block) /\ rows' = Append(rows, [s \in Series |-> NoRow])
        /\ Waits' = Waits \cup {Len(blocks) + 1} /\ lost' = lost
    BY <1>7 DEF Ledger!EmitBlock, Waits, Series, NoRow
  <2>2. t \in DOMAIN blocks /\ t \notin Waits /\ blocks'[t] = blocks[t]
    BY <1>1, <1>4, <2>1, AppendProperties
  <2>3. rows'[t] = rows[t]
    BY <1>1, <2>1, <2>2, AppendProperties
  <2>4. Ledger!Totals(t)' = Ledger!Totals(t)
    BY <2>2 DEF Ledger!Totals
  <2>. QED BY <1>2, <2>1, <2>2, <2>3, <2>4
<1>8. ASSUME NEW u \in DOMAIN blocks, Ledger!RecordBlock(u)
      PROVE  t \in lost' \/ rows'[t] = Ledger!Totals(t)'
  <2>1. /\ blocks' = blocks /\ Waits' = Waits /\ lost' = lost /\ u \in Waits
        /\ rows' = [rows EXCEPT ![u] = Ledger!Totals(u)]
    BY <1>8 DEF Ledger!RecordBlock, Waits
  <2>2. t # u /\ t \in DOMAIN rows
    BY <1>1, <1>4, <2>1
  <2>3. rows'[t] = rows[t]
    BY <2>1, <2>2
  <2>. QED BY <1>2, <1>3, <1>4, <2>1, <2>3
<1>9. ASSUME NEW u \in DOMAIN blocks, Ledger!LoseBlock(u)
      PROVE  t \in lost' \/ rows'[t] = Ledger!Totals(t)'
  BY <1>4, <1>5, <1>9 DEF Ledger!LoseBlock, Waits
<1>10. ASSUME NEW u \in DOMAIN blocks, Ledger!Settle(u)
      PROVE  t \in lost' \/ rows'[t] = Ledger!Totals(t)'
  <2>1. /\ blocks' = blocks /\ rows' = rows /\ lost' = lost /\ Waits' = Waits \ {u}
        /\ u \in lost \/ rows[u] = Ledger!Totals(u)
    BY <1>10 DEF Ledger!Settle, Waits
  <2>2. CASE t = u
    BY <1>3, <2>1, <2>2
  <2>3. CASE t # u
    BY <1>4, <1>5, <2>1, <2>3
  <2>. QED BY <2>2, <2>3
<1>11. CASE UNCHANGED Ledger!vars
  <2>1. blocks' = blocks /\ rows' = rows /\ lost' = lost /\ Waits' = Waits
    BY <1>11 DEF Ledger!vars, Waits
  <2>. QED BY <1>4, <1>5, <2>1
<1>. QED BY <1>6, <1>7, <1>8, <1>9, <1>10, <1>11 DEF Ledger!Next

\* The property of the module says the same, series by series.
LEMMA RecordedIsAcknowledged ==
    ASSUME TypeInv, Recorded, Exact
    PROVE  AcknowledgedIsRecorded
<1>1. ASSUME NEW t \in DOMAIN blocks, Settled(t), t \notin lost, NEW s \in Series
      PROVE  rows[t][s] = Ledger!Total(blocks[t], s)
  <2>1. rows[t] = Ledger!Totals(t)
    BY <1>1 DEF Recorded, Waits
  <2>. QED BY <2>1 DEF Ledger!Totals, Series
<1>. QED BY <1>1 DEF AcknowledgedIsRecorded

\* A message that was acknowledged has its rows in the table, unless its write failed, a channel
\* was lost or the list of pairs could not be read: every swap of a pair passes the filter,
\* those of the pairs that were created just before, and after a restart, included.
THEOREM AcknowledgedAreRecorded == Spec => [](Exact => AcknowledgedIsRecorded)
<1>1. Init => Recorded
  BY DEF Init, Recorded
<1>2. IInv /\ IInv' /\ [Next]_vars /\ Recorded => Recorded'
  <2>. SUFFICES ASSUME IInv, IInv', [Next]_vars, Recorded PROVE Recorded'
    OBVIOUS
  <2>1. CASE Exact'
    BY <2>1, LedgerStep, RecordedStep, FaultsStay DEF IInv
  <2>2. CASE ~Exact'
    BY <2>2 DEF Recorded
  <2>. QED BY <2>1, <2>2
<1>3. IInv /\ Recorded => (Exact => AcknowledgedIsRecorded)
  BY RecordedIsAcknowledged DEF IInv
<1>. QED BY <1>1, <1>2, <1>3, AlwaysInv, PTL DEF Spec
===============================================================================
