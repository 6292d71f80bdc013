--------------------------- MODULE CachedTotals_proofs ---------------------------
(***************************************************************************)
(* Totals that handlers add to while readers store them: whatever is lost, *)
(* delivered again or stored late, the fields of a total agree, a total is *)
(* wrong about an event only in the ways that the ghosts name, and what is *)
(* acknowledged was published.                                             *)
(***************************************************************************)
EXTENDS CachedTotals, FiniteSetTheorems, TLAPS

--------------------------------------------------------------------------------
(* The inductive invariant.                                                *)

VotePCs == {"getVoted", "fillVoted", "setVoted", "getTypes", "setTypes"}
TotalsPCs == {"getTotals", "fillTotals", "setTotals"}
CallPCs == {"idle", "publish", "ack"} \cup VotePCs \cup TotalsPCs
ReaderPCs == {"idle", "storeTotals", "storeVoted", "search", "storeAnswer"}

Values == [Fields -> [Events -> Nat]]

AddsUp(v, i) == IsFiniteSet(Units(v, i)) /\ v["total"][i] = Cardinality(Units(v, i))

\* Values whose fields agree, and that count no event the chain does not have.
Sound == {v \in Values : \A i \in Events : AddsUp(v, i) /\ (v["total"][i] > 0 => i <= Len(chain))}

\* What the contract has answered at some time.
Snapshots == {v \in Sound : \A i \in Events : v["total"][i] <= 1}

\* Values that deviate from the chain only in the ways the ghosts name.
Explained ==
    {v \in Sound : \A i \in Events :
        /\ i \notin counted => v["total"][i] <= 1 /\ (v["total"][i] > 0 => i \in early)
        /\ i \in counted => /\ v["total"][i] > 1 => i \in early \cup redelivered
                            /\ v["total"][i] = 0 => i \in late}

ChainInv ==
    /\ chain \in Seq(Kinds) /\ Len(chain) <= MaxEvents
    /\ acked \in 0..Len(chain) /\ indexed \in 0..Len(chain)
    /\ failures \in 0..MaxFailures
    /\ voted \in [Events -> {Missing, "yes", "no"}]
    /\ types \in [Events -> {Missing, Unlisted, NotVoted} \cup Kinds]

TotalsInv == totals \in Explained \cup {NoTotals}

\* The fill of the handler is a snapshot; what it adds the event to is explained.
CallInv ==
    /\ call \in [pc : CallPCs, held : Sound \cup {NoTotals}]
    /\ call.pc # "idle" => acked < Len(chain)
    /\ call.pc \in VotePCs => Current \in Voters
    /\ call.pc = "fillTotals" => call.held \in Snapshots
    /\ call.pc = "setTotals" => call.held \in Explained

\* So is the fill of a reader.
ReaderInv ==
    /\ reader \in [pc : ReaderPCs, i : 0..MaxEvents, held : Sound \cup {NoTotals},
                   told : {Missing, "yes", "no", NotVoted} \cup Kinds]
    /\ reader.pc = "storeTotals" => reader.held \in Snapshots
    /\ reader.pc \in {"storeVoted", "search", "storeAnswer"} => reader.i \in Events
    /\ reader.pc = "storeVoted" => reader.told \in {"yes", "no"}
    /\ reader.pc = "storeAnswer" => reader.told \in {NotVoted} \cup Kinds

GhostsInv ==
    /\ counted \subseteq 1..Len(chain) /\ redelivered \subseteq counted
    /\ early \subseteq 1..Len(chain) /\ late \subseteq counted
    /\ call.pc \in VotePCs \cup TotalsPCs /\ Current \in counted => Current \in redelivered

VoteKeys(i) == {<<"voted", i>>, <<"types", i>>}

\* Only keys of the event in hand are stored and not published.  A crash may lose the keys of the
\* buffer, but then the event is handled again, and stores them again.
KeysInv ==
    /\ buffer \subseteq dirty
    /\ dirty # {} => acked < Len(chain)
    /\ \A key \in dirty : key = <<"totals", 0>> \/ (Current \in Voters /\ key \in VoteKeys(Current))
    /\ call.pc \in {"getTypes", "setTypes"} => <<"voted", Current>> \in buffer
    /\ call.pc \in TotalsPCs \cup {"publish"} /\ Current \in Voters => VoteKeys(Current) \subseteq buffer
    /\ call.pc = "publish" => <<"totals", 0>> \in buffer
    /\ call.pc = "ack" => dirty = {}

IInv == ChainInv /\ TotalsInv /\ CallInv /\ ReaderInv /\ GhostsInv /\ KeysInv

--------------------------------------------------------------------------------
(* Values.                                                                 *)

\* The constants as numbers.
LEMMA Constants ==
    /\ MaxEvents \in Nat /\ MaxFailures \in Nat /\ Events \subseteq Nat \ {0} /\ Voters \subseteq Events
    /\ "total" \in Fields /\ Kinds \subseteq Fields /\ "total" \notin Kinds
    /\ \A k \in Kinds : FieldOf(k) \in Kinds
  BY CachedTotalsAssumption DEF Events, Fields, FieldOf

\* The events of the chain, and their kinds.
LEMMA ChainFacts ==
    ASSUME ChainInv
    PROVE  /\ Len(chain) \in Nat /\ 1..Len(chain) \subseteq Events /\ acked \in Nat /\ Current \in Nat \ {0}
           /\ acked < Len(chain) => Current \in 1..Len(chain)
           /\ \A i \in 1..Len(chain) : chain[i] \in Kinds
  <1>1. chain \in Seq(Kinds) /\ Len(chain) <= MaxEvents /\ acked \in 0..Len(chain)
    BY DEF ChainInv
  <1>2. Len(chain) \in Nat /\ \A i \in 1..Len(chain) : chain[i] \in Kinds
    BY <1>1
  <1> QED
    BY <1>1, <1>2, Constants DEF Events, Current

\* No totals are not totals.
LEMMA NoTotalsIsNone == NoTotals \notin Values
  <1>1. DOMAIN NoTotals = {}
    BY DEF NoTotals
  <1>2. \A v \in Values : DOMAIN v = Fields
    BY DEF Values
  <1> QED
    BY <1>1, <1>2, Constants

\* The entries of a value.
LEMMA ValueFields ==
    ASSUME NEW v \in Values, NEW f \in Fields, NEW i \in Events
    PROVE  v[f][i] \in Nat /\ v[f] \in [Events -> Nat]
  <1>1. v[f] \in [Events -> Nat]
    BY DEF Values
  <1> QED
    BY <1>1

\* The contract adds up.
LEMMA OnChainIsSnapshot ==
    ASSUME ChainInv
    PROVE  OnChain \in Snapshots /\ \A i \in Events : OnChain["total"][i] = (IF i <= Len(chain) THEN 1 ELSE 0)
  <1>1. /\ Len(chain) \in Nat /\ \A i \in 1..Len(chain) : chain[i] \in Kinds
        /\ 1..Len(chain) \subseteq Events
    BY ChainFacts
  <1>2. OnChain \in Values
    BY DEF OnChain, Values
  <1>3. \A i \in Events : OnChain["total"][i] = (IF i <= Len(chain) THEN 1 ELSE 0)
    BY Constants DEF OnChain
  <1>4. \A f \in Kinds : \A i \in Events :
            OnChain[f][i] = IF i <= Len(chain) /\ f = chain[i] THEN 1 ELSE 0
    <2> SUFFICES ASSUME NEW f \in Kinds, NEW i \in Events
                 PROVE  OnChain[f][i] = IF i <= Len(chain) /\ f = chain[i] THEN 1 ELSE 0
      OBVIOUS
    <2>1. f # "total" /\ f \in Fields
      BY Constants
    <2> QED
      BY <2>1 DEF OnChain
  <1>5. ASSUME NEW i \in Events
        PROVE  AddsUp(OnChain, i)
    <2>1. i \in Nat \ {0}
      BY Constants
    <2>2. CASE i <= Len(chain)
      <3> DEFINE k == chain[i]
      <3>1. k \in Kinds
        BY <1>1, <2>1, <2>2
      <3>2. Units(OnChain, i) = {<<k, 1>>}
        <4>1. /\ 1..OnChain[k][i] = {1}
              /\ \A f \in Kinds : f # k => 1..OnChain[f][i] = {}
          <5>1. OnChain[k][i] = 1 /\ \A f \in Kinds : f # k => OnChain[f][i] = 0
            BY <1>4, <2>2, <3>1
          <5> QED
            BY <5>1
        <4> HIDE DEF k
        <4>2. \A u : u \in Units(OnChain, i) <=> \E f \in Kinds : u \in {f} \X (1..OnChain[f][i])
          BY DEF Units
        <4>3. ASSUME NEW u
              PROVE  u \in Units(OnChain, i) <=> u \in {k} \X {1}
          <5>1. \A f \in Kinds : f # k => u \notin {f} \X (1..OnChain[f][i])
            BY <4>1
          <5>2. u \in {k} \X (1..OnChain[k][i]) <=> u \in {k} \X {1}
            BY <4>1
          <5> QED
            BY <3>1, <4>2, <5>1, <5>2
        <4>4. {k} \X {1} = {<<k, 1>>}
          OBVIOUS
        <4> QED
          BY <4>3, <4>4
      <3>3. IsFiniteSet(Units(OnChain, i)) /\ Cardinality(Units(OnChain, i)) = 1
        BY <3>2, FS_Singleton
      <3> QED
        BY <1>3, <2>2, <3>3 DEF AddsUp
    <2>3. CASE ~(i <= Len(chain))
      <3>1. \A f \in Kinds : 1..OnChain[f][i] = {}
        BY <1>4, <2>3
      <3>2. Units(OnChain, i) = {}
        BY <3>1 DEF Units
      <3> QED
        BY <1>3, <2>3, <3>2, FS_EmptySet DEF AddsUp
    <2> QED
      BY <2>2, <2>3
  <1> HIDE DEF OnChain
  <1> QED
    BY <1>2, <1>3, <1>5 DEF Snapshots, Sound

\* So does a value to which the handler has added an event.
LEMMA AddIsSound ==
    ASSUME ChainInv, NEW v \in Sound, NEW c \in 1..Len(chain)
    PROVE  /\ Add(v, c) \in Sound
           /\ Add(v, c)["total"][c] = v["total"][c] + 1
           /\ \A i \in Events : i # c => Add(v, c)["total"][i] = v["total"][i]
  <1> DEFINE k == FieldOf(chain[c])
             w == Add(v, c)
  <1>1. k \in Kinds /\ k \in Fields /\ k # "total" /\ "total" \in Fields /\ c \in Events
    BY ChainFacts, Constants
  <1>2. v \in Values
    BY DEF Sound
  <1>3. w = [v EXCEPT !["total"][c] = @ + 1, ![k][c] = @ + 1]
    BY DEF Add
  <1> HIDE DEF k, w
  <1>4. /\ w \in Values
        /\ w["total"][c] = v["total"][c] + 1 /\ w[k][c] = v[k][c] + 1
        /\ \A f \in Fields : \A i \in Events : ~(i = c /\ f \in {"total", k}) => w[f][i] = v[f][i]
    <2> DEFINE y == [v["total"] EXCEPT ![c] = v["total"][c] + 1]
               z == [v[k] EXCEPT ![c] = v[k][c] + 1]
    <2>1. /\ v["total"] \in [Events -> Nat] /\ v["total"][c] + 1 \in Nat
          /\ v[k] \in [Events -> Nat] /\ v[k][c] + 1 \in Nat
      BY <1>1, <1>2, ValueFields
    <2>2. /\ y \in [Events -> Nat] /\ y[c] = v["total"][c] + 1
          /\ \A i \in Events : i # c => y[i] = v["total"][i]
      BY <1>1, <2>1
    <2>3. /\ z \in [Events -> Nat] /\ z[c] = v[k][c] + 1
          /\ \A i \in Events : i # c => z[i] = v[k][i]
      BY <1>1, <2>1
    <2>4. w = [v EXCEPT !["total"] = y, ![k] = z]
      BY <1>1, <1>2, <1>3 DEF Values
    <2> HIDE DEF y, z
    <2>5. w = [f \in Fields |-> IF f = k THEN z ELSE IF f = "total" THEN y ELSE v[f]]
      BY <1>1, <1>2, <2>4 DEF Values
    <2>6. w["total"] = y /\ w[k] = z /\ \A f \in Fields : f # k /\ f # "total" => w[f] = v[f]
      BY <1>1, <2>5
    <2>7. w \in Values
      <3>1. \A f \in Fields : (IF f = k THEN z ELSE IF f = "total" THEN y ELSE v[f]) \in [Events -> Nat]
        <4>1. \A f \in Fields : v[f] \in [Events -> Nat]
          BY <1>2 DEF Values
        <4> QED
          BY <2>2, <2>3, <4>1
      <3> QED
        BY <2>5, <3>1 DEF Values
    <2>9. ASSUME NEW f \in Fields, NEW i \in Events, ~(i = c /\ f \in {"total", k})
          PROVE  w[f][i] = v[f][i]
      <3>1. CASE f = k
        BY <2>3, <2>6, <2>9, <3>1
      <3>2. CASE f = "total"
        BY <2>2, <2>6, <2>9, <3>2
      <3>3. CASE f # k /\ f # "total"
        BY <2>6, <3>3
      <3> QED
        BY <3>1, <3>2, <3>3
    <2> QED
      BY <2>2, <2>3, <2>6, <2>7, <2>9
  <1>5. ASSUME NEW i \in Events, i # c
        PROVE  AddsUp(w, i)
    <2>1. \A f \in Kinds : w[f][i] = v[f][i]
      BY <1>4, <1>5, Constants
    <2>2. Units(w, i) = Units(v, i)
      BY <2>1 DEF Units
    <2>3. w["total"][i] = v["total"][i]
      BY <1>1, <1>4, <1>5
    <2> QED
      BY <2>2, <2>3 DEF Sound, AddsUp
  <1>6. AddsUp(w, c)
    <2> DEFINE n == v[k][c]
               U == Units(v, c)
    <2>1. n \in Nat
      BY <1>1, <1>2, ValueFields
    <2>2. w[k][c] = n + 1 /\ \A f \in Kinds : f # k => w[f][c] = v[f][c]
      BY <1>1, <1>4, Constants
    <2>3. 1..(n + 1) = (1..n) \cup {n + 1} /\ n + 1 \notin 1..n
      <3> HIDE DEF n
      <3> QED
        BY <2>1
    <2>4. \A u : u \in U <=> \E f \in Kinds : u \in {f} \X (1..v[f][c])
      BY DEF Units
    <2>5. \A u : u \in Units(w, c) <=> \E f \in Kinds : u \in {f} \X (1..w[f][c])
      BY DEF Units
    <2>6. <<k, n + 1>> \notin U
      <3> SUFFICES ASSUME <<k, n + 1>> \in U PROVE FALSE
        OBVIOUS
      <3>1. PICK f \in Kinds : <<k, n + 1>> \in {f} \X (1..v[f][c])
        BY <2>4
      <3>2. f = k /\ n + 1 \in 1..n
        BY <3>1
      <3> QED
        BY <2>3, <3>2
    <2>7. Units(w, c) = U \cup {<<k, n + 1>>}
      <3>1. ASSUME NEW u, u \in Units(w, c)
            PROVE  u \in U \cup {<<k, n + 1>>}
        <4>1. PICK f \in Kinds : u \in {f} \X (1..w[f][c])
          BY <2>5, <3>1
        <4>2. CASE f = k
          <5>1. u \in {k} \X ((1..n) \cup {n + 1})
            BY <2>2, <2>3, <4>1, <4>2
          <5>2. u = <<k, n + 1>> \/ u \in {k} \X (1..n)
            BY <5>1
          <5> QED
            BY <1>1, <2>4, <5>2
        <4>3. CASE f # k
          BY <2>2, <2>4, <4>1, <4>3
        <4> QED
          BY <4>2, <4>3
      <3>2. ASSUME NEW u, u \in U \cup {<<k, n + 1>>}
            PROVE  u \in Units(w, c)
        <4>1. CASE u = <<k, n + 1>>
          <5>1. u \in {k} \X (1..w[k][c])
            BY <2>2, <2>3, <4>1
          <5> QED
            BY <1>1, <2>5, <5>1
        <4>2. CASE u \in U
          <5>1. PICK f \in Kinds : u \in {f} \X (1..v[f][c])
            BY <2>4, <4>2
          <5>2. CASE f = k
            <6>1. u \in {k} \X (1..w[k][c])
              BY <2>2, <2>3, <5>1, <5>2
            <6> QED
              BY <1>1, <2>5, <6>1
          <5>3. CASE f # k
            BY <2>2, <2>5, <5>1, <5>3
          <5> QED
            BY <5>2, <5>3
        <4> QED
          BY <3>2, <4>1, <4>2
      <3> QED
        BY <3>1, <3>2
    <2>8. IsFiniteSet(U) /\ v["total"][c] = Cardinality(U)
      BY <1>1 DEF Sound, AddsUp
    <2> HIDE DEF n, U
    <2>9. IsFiniteSet(U \cup {<<k, n + 1>>}) /\ Cardinality(U \cup {<<k, n + 1>>}) = Cardinality(U) + 1
      BY <2>6, <2>8, FS_AddElement
    <2> QED
      BY <1>4, <2>7, <2>8, <2>9 DEF AddsUp
  <1>7. \A i \in Events : AddsUp(w, i)
    BY <1>5, <1>6
  <1>8. \A i \in Events : i # c => w["total"][i] = v["total"][i]
    BY <1>1, <1>4
  <1>9. \A i \in Events : w["total"][i] > 0 => i <= Len(chain)
    <2> SUFFICES ASSUME NEW i \in Events, w["total"][i] > 0 PROVE i <= Len(chain)
      OBVIOUS
    <2>1. CASE i = c
      BY <2>1, ChainFacts
    <2>2. CASE i # c
      BY <1>8, <2>2 DEF Sound
    <2> QED
      BY <2>1, <2>2
  <1>10. w \in Sound
    BY <1>4, <1>7, <1>9 DEF Sound
  <1> QED
    BY <1>4, <1>8, <1>10 DEF w

\* Longer chains, and ghosts that grow, take nothing back.
LEMMA Grows ==
    ASSUME Len(chain) \in Nat, Len(chain') \in Nat, Len(chain) <= Len(chain'), counted' = counted,
           redelivered \subseteq redelivered', early \subseteq early', late \subseteq late'
    PROVE  Sound \subseteq Sound' /\ Snapshots \subseteq Snapshots' /\ Explained \subseteq Explained'
  <1>1. \A i \in Events : i <= Len(chain) => i <= Len(chain')
    BY Constants
  <1>2. Sound \subseteq Sound'
    BY <1>1 DEF Sound
  <1>3. Snapshots \subseteq Snapshots'
    BY <1>2 DEF Snapshots
  <1>4. Explained \subseteq Explained'
    BY <1>2 DEF Explained
  <1> QED
    BY <1>2, <1>3, <1>4

\* A fill is explained as soon as it is stored.
LEMMA FillIsExplained ==
    ASSUME ChainInv, GhostsInv, NEW v \in Snapshots, StoreFill(v), chain' = chain, counted' = counted,
           redelivered' = redelivered
    PROVE  /\ totals' = v /\ v \in Explained'
           /\ Sound' = Sound /\ Snapshots' = Snapshots /\ Explained \subseteq Explained'
           /\ early' \subseteq 1..Len(chain) /\ late' \subseteq counted
  <1>1. v \in Sound /\ v \in Values /\ \A i \in Events : v["total"][i] <= 1 /\ v["total"][i] \in Nat
    <2>1. v \in Values /\ v \in Sound
      BY DEF Snapshots, Sound
    <2> QED
      BY <2>1, ValueFields, Constants DEF Snapshots
  <1>2. /\ totals' = v
        /\ early' = early \cup {i \in Events \ counted : v["total"][i] > 0}
        /\ late' = late \cup {i \in counted : v["total"][i] = 0}
    BY DEF StoreFill
  <1>3. Sound' = Sound
    BY DEF Sound
  <1>4. Snapshots' = Snapshots
    BY <1>3 DEF Snapshots
  <1>5. Explained \subseteq Explained'
    BY <1>2, <1>3 DEF Explained
  <1>6. v \in Explained'
    BY <1>1, <1>2, <1>3 DEF Explained
  <1>7. early' \subseteq 1..Len(chain)
    <2>1. \A i \in Events : v["total"][i] > 0 => i \in 1..Len(chain)
      BY <1>1, ChainFacts, Constants DEF Sound
    <2> QED
      BY <1>2, <2>1 DEF GhostsInv
  <1>8. late' \subseteq counted
    BY <1>2 DEF GhostsInv
  <1> QED
    BY <1>2, <1>3, <1>4, <1>5, <1>6, <1>7, <1>8

--------------------------------------------------------------------------------
(* The steps.                                                              *)

\* What is unchanged with the chain and the ghosts.
LEMMA Same ==
    ASSUME UNCHANGED <<chain, counted, redelivered, early, late>>
    PROVE  Sound' = Sound /\ Snapshots' = Snapshots /\ Explained' = Explained
  <1>1. Sound' = Sound
    BY DEF Sound
  <1>2. Snapshots' = Snapshots
    BY <1>1 DEF Snapshots
  <1>3. Explained' = Explained
    BY <1>1 DEF Explained
  <1> QED
    BY <1>1, <1>2, <1>3

\* The flow of the handler is left alone.
LEMMA CallKept ==
    ASSUME CallInv, UNCHANGED <<acked, call>>, Len(chain) \in Nat, Len(chain') \in Nat, acked \in Nat,
           Len(chain) <= Len(chain'), Sound \subseteq Sound', Snapshots \subseteq Snapshots',
           Explained \subseteq Explained'
    PROVE  CallInv'
  <1>1. call' \in [pc : CallPCs, held : Sound' \cup {NoTotals}]
    BY DEF CallInv
  <1> QED
    BY <1>1 DEF CallInv, Current

\* The flow of a reader is left alone.
LEMMA ReaderKept ==
    ASSUME ReaderInv, UNCHANGED reader, Sound \subseteq Sound', Snapshots \subseteq Snapshots'
    PROVE  ReaderInv'
  <1>1. reader' \in [pc : ReaderPCs, i : 0..MaxEvents, held : Sound' \cup {NoTotals},
                     told : {Missing, "yes", "no", NotVoted} \cup Kinds]
    BY DEF ReaderInv
  <1> QED
    BY <1>1 DEF ReaderInv

\* Keys and ghosts are left alone.
LEMMA KeysKept ==
    ASSUME KeysInv, GhostsInv, Len(chain') = Len(chain),
           UNCHANGED <<acked, call, buffer, dirty, counted, redelivered, early, late>>
    PROVE  KeysInv' /\ GhostsInv'
  BY DEF KeysInv, GhostsInv, Current, VoteKeys

\* Initially nothing is stored.
LEMMA InitInv == ASSUME Init PROVE IInv
  <1>1. chain = <<>> /\ Len(chain) = 0 /\ chain \in Seq(Kinds)
    BY DEF Init
  <1>2. ChainInv
    BY <1>1, Constants DEF ChainInv, Init
  <1>3. call.pc = "idle" /\ reader.pc = "idle"
    BY DEF Init, IdleCall, IdleFlow
  <1>4. CallInv
    <2>1. call \in [pc : CallPCs, held : Sound \cup {NoTotals}]
      BY DEF Init, IdleCall, CallPCs
    <2> QED
      BY <1>3, <2>1 DEF CallInv, VotePCs
  <1>5. ReaderInv
    <2>1. reader \in [pc : ReaderPCs, i : 0..MaxEvents, held : Sound \cup {NoTotals},
                      told : {Missing, "yes", "no", NotVoted} \cup Kinds]
      BY Constants DEF Init, IdleFlow, ReaderPCs
    <2> QED
      BY <1>3, <2>1 DEF ReaderInv
  <1>6. TotalsInv
    BY DEF TotalsInv, Init
  <1>7. GhostsInv
    BY <1>3 DEF GhostsInv, Init, VotePCs, TotalsPCs
  <1>8. KeysInv
    BY <1>3 DEF KeysInv, Init, TotalsPCs
  <1> QED
    BY <1>2, <1>4, <1>5, <1>6, <1>7, <1>8 DEF IInv

\* A transaction makes the chain longer.
LEMMA EmitStep == ASSUME IInv, NEW kind \in Kinds, Emit(kind) PROVE IInv'
  <1> USE DEF IInv
  <1>1. /\ chain \in Seq(Kinds) /\ Len(chain) \in Nat /\ Len(chain) < MaxEvents /\ acked \in Nat
        /\ chain' = Append(chain, kind)
    BY DEF Emit, ChainInv
  <1>2. chain' \in Seq(Kinds) /\ Len(chain') = Len(chain) + 1
    BY <1>1
  <1>3. /\ UNCHANGED <<acked, indexed, totals, voted, types, call, buffer, dirty, reader, failures>>
        /\ UNCHANGED <<counted, redelivered, early, late, Current>>
    BY DEF Emit, ghosts, Current
  <1>4. Sound \subseteq Sound' /\ Snapshots \subseteq Snapshots' /\ Explained \subseteq Explained'
    BY <1>1, <1>2, <1>3, Grows
  <1>5. ChainInv'
    BY <1>1, <1>2, <1>3, Constants DEF ChainInv
  <1>6. CallInv' /\ ReaderInv'
    BY <1>1, <1>2, <1>3, <1>4, CallKept, ReaderKept
  <1>7. TotalsInv'
    BY <1>3, <1>4 DEF TotalsInv
  <1>8. GhostsInv'
    <2>1. 1..Len(chain) \subseteq 1..Len(chain')
      BY <1>1, <1>2
    <2> QED
      BY <1>3, <2>1 DEF GhostsInv
  <1>9. KeysInv'
    <2>1. dirty' # {} => acked' < Len(chain')
      BY <1>1, <1>2, <1>3 DEF KeysInv, ChainInv
    <2> QED
      BY <1>3, <2>1 DEF KeysInv, VoteKeys
  <1> QED
    BY <1>5, <1>6, <1>7, <1>8, <1>9

\* Steps that neither the chain, the handler nor the totals notice, but for totals that expire.
LEMMA AsideStep ==
    ASSUME IInv, UNCHANGED <<chain, acked, call, buffer, dirty, counted, redelivered, early, late>>,
           totals' \in {totals, NoTotals}, ChainInv', ReaderInv'
    PROVE  IInv'
  <1> USE DEF IInv
  <1>1. Sound' = Sound /\ Snapshots' = Snapshots /\ Explained' = Explained
    BY Same
  <1>2. Len(chain) \in Nat /\ acked \in Nat /\ Len(chain') = Len(chain)
    BY DEF ChainInv
  <1>3. CallInv' /\ KeysInv' /\ GhostsInv'
    BY <1>1, <1>2, CallKept, KeysKept
  <1>4. TotalsInv'
    BY <1>1 DEF TotalsInv
  <1> QED
    BY <1>3, <1>4

\* Records expire, the index catches up, and readers read, search and store records.
LEMMA QuietSteps ==
    ASSUME IInv,
           \/ Index \/ ExpireTotals \/ ReadTotals \/ StoreVoted \/ Search \/ StoreAnswer
           \/ \E i \in Events : ReadVoted(i) \/ Ask(i) \/ ExpireVoted(i) \/ ExpireTypes(i)
    PROVE  IInv'
  <1> USE DEF IInv
  <1> DEFINE Flow == [pc : ReaderPCs, i : 0..MaxEvents, held : Sound \cup {NoTotals},
                      told : {Missing, "yes", "no", NotVoted} \cup Kinds]
  <1>1. UNCHANGED <<chain, acked, call, buffer, dirty, failures, counted, redelivered, early, late>>
    BY DEF Index, ExpireTotals, ExpireVoted, ExpireTypes, ReadTotals, ReadVoted, Ask, StoreVoted,
           Search, StoreAnswer, Handler, ghosts
  <1>2. totals' \in {totals, NoTotals}
    BY DEF Index, ExpireTotals, ExpireVoted, ExpireTypes, ReadTotals, ReadVoted, Ask, StoreVoted,
           Search, StoreAnswer
  <1>3. Sound' = Sound /\ Snapshots' = Snapshots
    BY <1>1, Same
  <1>4. IdleFlow \in Flow /\ IdleFlow.pc = "idle"
    BY Constants DEF IdleFlow, ReaderPCs
  <1>5. /\ chain \in Seq(Kinds) /\ Len(chain) \in Nat /\ indexed \in 0..Len(chain)
        /\ Events \subseteq 0..MaxEvents /\ reader \in Flow
    BY Constants DEF ChainInv, ReaderInv, Events
  <1>6. CASE Index
    <2>1. UNCHANGED <<voted, types, reader>> /\ indexed' \in 0..Len(chain)
      BY <1>5, <1>6 DEF Index
    <2>2. ChainInv'
      BY <1>1, <2>1 DEF ChainInv
    <2> QED
      BY <1>1, <1>2, <1>3, <2>1, <2>2, ReaderKept, AsideStep
  <1>7. CASE ExpireTotals \/ \E i \in Events : ExpireVoted(i) \/ ExpireTypes(i)
    <2>1. UNCHANGED <<indexed, reader>>
      BY <1>7 DEF ExpireTotals, ExpireVoted, ExpireTypes
    <2>2. /\ voted' \in [Events -> {Missing, "yes", "no"}]
          /\ types' \in [Events -> {Missing, Unlisted, NotVoted} \cup Kinds]
      BY <1>7 DEF ExpireTotals, ExpireVoted, ExpireTypes, ChainInv
    <2>3. ChainInv'
      BY <1>1, <2>1, <2>2 DEF ChainInv
    <2> QED
      BY <1>1, <1>2, <1>3, <2>1, <2>3, ReaderKept, AsideStep
  <1>8. CASE ReadTotals
    <2>1. OnChain \in Snapshots /\ OnChain \in Sound
      BY OnChainIsSnapshot DEF Snapshots
    <2>2. reader' = [pc |-> "storeTotals", i |-> 0, held |-> OnChain, told |-> Missing]
      BY <1>8 DEF ReadTotals, IdleFlow
    <2>3. reader' \in Flow
      BY <2>1, <2>2, Constants DEF ReaderPCs
    <2>4. ReaderInv'
      BY <1>3, <2>1, <2>2, <2>3 DEF ReaderInv
    <2>5. ChainInv'
      BY <1>1, <1>8 DEF ChainInv, ReadTotals, Handler
    <2> QED
      BY <1>1, <1>2, <2>4, <2>5, AsideStep
  <1>9. ASSUME NEW i \in Events, ReadVoted(i) PROVE IInv'
    <2>1. reader' = [pc |-> "storeVoted", i |-> i, held |-> NoTotals, told |-> VotedOnChain(i)]
      BY <1>9 DEF ReadVoted, IdleFlow
    <2>2. VotedOnChain(i) \in {"yes", "no"}
      BY DEF VotedOnChain
    <2>3. reader' \in Flow
      BY <1>5, <2>1, <2>2 DEF ReaderPCs
    <2>4. ReaderInv'
      BY <1>3, <2>1, <2>2, <2>3 DEF ReaderInv
    <2>5. ChainInv'
      BY <1>1, <1>9 DEF ChainInv, ReadVoted, Handler
    <2> QED
      BY <1>1, <1>2, <2>4, <2>5, AsideStep
  <1>10. ASSUME NEW i \in Events, Ask(i) PROVE IInv'
    <2>1. reader' = [pc |-> "search", i |-> i, held |-> NoTotals, told |-> Missing]
      BY <1>10 DEF Ask, IdleFlow
    <2>2. reader' \in Flow
      BY <1>5, <2>1 DEF ReaderPCs
    <2>3. ReaderInv'
      BY <1>3, <2>1, <2>2 DEF ReaderInv
    <2>4. types' \in [Events -> {Missing, Unlisted, NotVoted} \cup Kinds]
      BY <1>10 DEF Ask, ChainInv
    <2>5. ChainInv'
      BY <1>1, <1>10, <2>4 DEF ChainInv, Ask, Handler
    <2> QED
      BY <1>1, <1>2, <2>3, <2>5, AsideStep
  <1>11. CASE StoreVoted \/ StoreAnswer
    <2>1. reader' = IdleFlow /\ UNCHANGED indexed
      BY <1>11 DEF StoreVoted, StoreAnswer, Handler
    <2>2. ReaderInv'
      BY <1>3, <1>4, <2>1 DEF ReaderInv
    <2>3. /\ voted' \in [Events -> {Missing, "yes", "no"}]
          /\ types' \in [Events -> {Missing, Unlisted, NotVoted} \cup Kinds]
      <3>1. CASE StoreVoted
        <4>1. reader.i \in Events /\ reader.told \in {"yes", "no"}
          BY <3>1 DEF StoreVoted, ReaderInv
        <4> QED
          BY <3>1, <4>1 DEF StoreVoted, ChainInv
      <3>2. CASE StoreAnswer
        <4>1. reader.i \in Events /\ reader.told \in {NotVoted} \cup Kinds
          BY <3>2 DEF StoreAnswer, ReaderInv
        <4> QED
          BY <3>2, <4>1 DEF StoreAnswer, ChainInv
      <3> QED
        BY <1>11, <3>1, <3>2
    <2>4. ChainInv'
      BY <1>1, <2>1, <2>3 DEF ChainInv
    <2> QED
      BY <1>1, <1>2, <2>2, <2>4, AsideStep
  <1>12. CASE Search
    <2> DEFINE answer == IF reader.i <= indexed THEN chain[reader.i] ELSE NotVoted
    <2>1. answer \in {NotVoted} \cup Kinds
      <3>1. reader.i \in Nat \ {0}
        BY <1>12, Constants DEF Search, ReaderInv
      <3> QED
        BY <1>5, <3>1
    <2>2. reader' = [reader EXCEPT !.pc = "storeAnswer", !.told = answer]
      BY <1>12 DEF Search
    <2> HIDE DEF answer
    <2>3. reader' \in Flow
      BY <1>5, <2>1, <2>2 DEF ReaderPCs
    <2>4. reader'.pc = "storeAnswer" /\ reader'.told = answer /\ reader'.i = reader.i
      BY <1>5, <2>2
    <2>5. reader'.i \in Events
      BY <1>12, <2>4 DEF Search, ReaderInv
    <2>6. ReaderInv'
      BY <1>3, <2>1, <2>3, <2>4, <2>5 DEF ReaderInv
    <2>7. ChainInv'
      BY <1>1, <1>12 DEF ChainInv, Search, Handler
    <2> QED
      BY <1>1, <1>2, <2>6, <2>7, AsideStep
  <1> QED
    BY <1>6, <1>7, <1>8, <1>9, <1>10, <1>11, <1>12

\* A reader stores what it read from the chain.
LEMMA StoreTotalsStep == ASSUME IInv, StoreTotals PROVE IInv'
  <1> USE DEF IInv
  <1>1. /\ UNCHANGED <<chain, acked, indexed, call, buffer, dirty, failures, counted, redelivered, voted, types>>
        /\ reader.held \in Snapshots /\ StoreFill(reader.held) /\ reader' = IdleFlow
    BY DEF StoreTotals, Handler, ReaderInv
  <1>2. /\ totals' \in Explained'
        /\ Sound' = Sound /\ Snapshots' = Snapshots /\ Explained \subseteq Explained'
        /\ early' \subseteq 1..Len(chain) /\ late' \subseteq counted
    BY <1>1, FillIsExplained
  <1>3. ChainInv' /\ TotalsInv'
    BY <1>1, <1>2 DEF ChainInv, TotalsInv
  <1>4. CallInv'
    <2>1. Len(chain) \in Nat /\ acked \in Nat
      BY DEF ChainInv
    <2> QED
      BY <1>1, <1>2, <2>1, CallKept
  <1>5. ReaderInv'
    <2>1. /\ IdleFlow \in [pc : ReaderPCs, i : 0..MaxEvents, held : Sound \cup {NoTotals},
                           told : {Missing, "yes", "no", NotVoted} \cup Kinds]
          /\ IdleFlow.pc = "idle"
      BY Constants DEF IdleFlow, ReaderPCs
    <2> QED
      BY <1>1, <1>2, <2>1 DEF ReaderInv
  <1>6. GhostsInv' /\ KeysInv'
    BY <1>1, <1>2 DEF GhostsInv, KeysInv, Current, VoteKeys
  <1> QED
    BY <1>3, <1>4, <1>5, <1>6

\* How the handler moves on.
LEMMA CallMoves ==
    ASSUME CallInv, NEW p \in CallPCs
    PROVE  /\ [call EXCEPT !.pc = p] \in [pc : CallPCs, held : Sound \cup {NoTotals}]
           /\ [call EXCEPT !.pc = p].pc = p /\ [call EXCEPT !.pc = p].held = call.held
           /\ [IdleCall EXCEPT !.pc = p] \in [pc : CallPCs, held : Sound \cup {NoTotals}]
           /\ [IdleCall EXCEPT !.pc = p].pc = p
  <1>1. [call EXCEPT !.pc = p] \in [pc : CallPCs, held : Sound \cup {NoTotals}]
    BY DEF CallInv
  <1>2. [call EXCEPT !.pc = p].pc = p /\ [call EXCEPT !.pc = p].held = call.held
    BY DEF CallInv
  <1>3. [IdleCall EXCEPT !.pc = p] = [pc |-> p, held |-> NoTotals]
    BY DEF IdleCall
  <1> QED
    BY <1>1, <1>2, <1>3

\* The handler looks at, fills and stores the records of the voter.
LEMMA RecordSteps ==
    ASSUME IInv, Deliver \/ GetVoted \/ FillVoted \/ SetVoted \/ GetTypes \/ SetTypes
    PROVE  IInv'
  <1> USE DEF IInv
  <1>1. /\ UNCHANGED <<chain, indexed, reader, failures, acked, totals, counted, early, late, Current>>
        /\ redelivered \subseteq redelivered'
    BY DEF Deliver, GetVoted, FillVoted, SetVoted, GetTypes, SetTypes, Env, ghosts, Current
  <1>2. /\ Len(chain) \in Nat /\ 1..Len(chain) \subseteq Events /\ acked \in Nat
        /\ acked < Len(chain) => Current \in 1..Len(chain)
        /\ \A i \in 1..Len(chain) : chain[i] \in Kinds
    BY ChainFacts
  <1>3. Sound \subseteq Sound' /\ Snapshots \subseteq Snapshots' /\ Explained \subseteq Explained'
    BY <1>1, <1>2, Grows
  <1>4. Current \in 1..Len(chain) /\ Current \in Events /\ acked < Len(chain)
    <2>1. CASE Deliver
      BY <1>2, <2>1 DEF Deliver, Current
    <2>2. CASE call.pc # "idle"
      BY <1>2, <2>2 DEF CallInv
    <2> QED
      BY <2>1, <2>2 DEF GetVoted, FillVoted, SetVoted, GetTypes, SetTypes
  <1>5. ReaderInv' /\ TotalsInv'
    BY <1>1, <1>3, ReaderKept DEF TotalsInv
  <1>6. ChainInv'
    <2>1. /\ voted \in [Events -> {Missing, "yes", "no"}]
          /\ types \in [Events -> {Missing, Unlisted, NotVoted} \cup Kinds]
      BY DEF ChainInv
    <2>2. VotedOnChain(Current) \in {"yes", "no"} /\ chain[Current] \in Kinds
      BY <1>2, <1>4 DEF VotedOnChain
    <2>3. voted' \in [Events -> {Missing, "yes", "no"}]
      <3>1. CASE FillVoted
        BY <2>1, <2>2, <3>1 DEF FillVoted
      <3>2. CASE SetVoted
        BY <2>1, <3>2 DEF SetVoted
      <3>3. CASE UNCHANGED voted
        BY <2>1, <3>3
      <3> QED
        BY <3>1, <3>2, <3>3 DEF Deliver, GetVoted, GetTypes, SetTypes
    <2>4. types' \in [Events -> {Missing, Unlisted, NotVoted} \cup Kinds]
      <3>1. CASE GetTypes
        BY <2>1, <3>1 DEF GetTypes
      <3>2. CASE SetTypes
        BY <2>1, <2>2, <3>2 DEF SetTypes
      <3>3. CASE UNCHANGED types
        BY <2>1, <3>3
      <3> QED
        BY <3>1, <3>2, <3>3 DEF Deliver, GetVoted, FillVoted, SetVoted
    <2> QED
      BY <1>1, <2>3, <2>4 DEF ChainInv
  <1>7. /\ VotePCs \cup {"getTotals"} \subseteq CallPCs
        /\ "getTotals" \notin VotePCs /\ "fillTotals" \notin VotePCs /\ "setTotals" \notin VotePCs
        /\ "idle" \notin VotePCs /\ "publish" \notin VotePCs /\ "ack" \notin VotePCs
    BY DEF CallPCs, VotePCs, TotalsPCs
  <1>8. ASSUME GetVoted \/ FillVoted \/ SetVoted \/ GetTypes \/ SetTypes
        PROVE  /\ Current \in Voters /\ UNCHANGED redelivered
               /\ Current \in counted => Current \in redelivered
    <2>1. call.pc \in VotePCs
      BY <1>8 DEF GetVoted, FillVoted, SetVoted, GetTypes, SetTypes, VotePCs
    <2> QED
      BY <1>8, <2>1 DEF CallInv, GhostsInv, GetVoted, FillVoted, SetVoted, GetTypes, SetTypes, ghosts
  <1>9. \E p \in VotePCs \cup {"getTotals"} :
            /\ call' \in [pc : CallPCs, held : Sound \cup {NoTotals}] /\ call'.pc = p
            /\ p \in VotePCs => Current \in Voters
    <2>1. CASE Deliver
      <3>1. call' = [IdleCall EXCEPT !.pc = FirstStep]
        BY <2>1 DEF Deliver
      <3>2. FirstStep \in VotePCs \cup {"getTotals"} /\ (FirstStep \in VotePCs => Current \in Voters)
        BY DEF FirstStep, VotePCs
      <3> QED
        BY <1>7, <3>1, <3>2, CallMoves
    <2>2. CASE GetVoted \/ FillVoted \/ SetVoted \/ GetTypes \/ SetTypes
      <3>1. \E p \in VotePCs \cup {"getTotals"} : call' = [call EXCEPT !.pc = p]
        <4>1. /\ "fillVoted" \in VotePCs /\ "setVoted" \in VotePCs /\ "getTypes" \in VotePCs
              /\ "setTypes" \in VotePCs
          BY DEF VotePCs
        <4> QED
          BY <2>2, <4>1 DEF GetVoted, FillVoted, SetVoted, GetTypes, SetTypes
      <3> QED
        BY <1>7, <1>8, <2>2, <3>1, CallMoves
    <2> QED
      BY <2>1, <2>2
  <1>10. CallInv'
    BY <1>1, <1>3, <1>4, <1>7, <1>9 DEF CallInv
  <1>11. GhostsInv'
    <2>1. redelivered' \subseteq counted /\ (Current \in counted => Current \in redelivered')
      BY <1>8 DEF Deliver, GhostsInv
    <2> QED
      BY <1>1, <2>1 DEF GhostsInv
  <1>12. KeysInv'
    <2> DEFINE InHand(key) == key = <<"totals", 0>> \/ (Current \in Voters /\ key \in VoteKeys(Current))
    <2>1. CASE SetVoted
      <3>1. /\ buffer' = buffer \cup {<<"voted", Current>>} /\ dirty' = dirty \cup {<<"voted", Current>>}
            /\ call' = [call EXCEPT !.pc = "getTypes"]
        BY <2>1 DEF SetVoted, Pushed
      <3>2. call'.pc = "getTypes"
        BY <3>1, CallMoves DEF CallPCs, VotePCs
      <3>3. <<"voted", Current>> \in VoteKeys(Current)
        BY DEF VoteKeys
      <3>4. VoteKeys(Current)' = VoteKeys(Current)
        BY <1>1 DEF VoteKeys
      <3> QED
        BY <1>1, <1>4, <1>8, <2>1, <3>1, <3>2, <3>3, <3>4 DEF KeysInv, TotalsPCs
    <2>2. CASE SetTypes
      <3>1. /\ buffer' = buffer \cup {<<"types", Current>>} /\ dirty' = dirty \cup {<<"types", Current>>}
            /\ call' = [call EXCEPT !.pc = "getTotals"] /\ call.pc = "setTypes"
        BY <2>2 DEF SetTypes, Pushed
      <3>2. call'.pc = "getTotals"
        BY <3>1, CallMoves DEF CallPCs, TotalsPCs
      <3>3. VoteKeys(Current)' = VoteKeys(Current)
        BY <1>1 DEF VoteKeys
      <3>4. VoteKeys(Current) \subseteq buffer' /\ <<"types", Current>> \in VoteKeys(Current)
        BY <3>1 DEF KeysInv, VoteKeys
      <3> QED
        BY <1>1, <1>4, <1>8, <2>2, <3>1, <3>2, <3>3, <3>4 DEF KeysInv, TotalsPCs
    <2>3. CASE GetTypes
      <3>1. UNCHANGED <<buffer, dirty>> /\ call' = [call EXCEPT !.pc = "setTypes"] /\ call.pc = "getTypes"
        BY <2>3 DEF GetTypes
      <3>2. call'.pc = "setTypes"
        BY <3>1, CallMoves DEF CallPCs, VotePCs
      <3> QED
        BY <1>1, <3>1, <3>2 DEF KeysInv, TotalsPCs, VoteKeys
    <2>4. CASE GetVoted \/ FillVoted
      <3>1. UNCHANGED <<buffer, dirty>> /\ call'.pc \in {"fillVoted", "setVoted"}
        BY <2>4, CallMoves DEF GetVoted, FillVoted, CallPCs, VotePCs
      <3> QED
        BY <1>1, <3>1 DEF KeysInv, TotalsPCs, VoteKeys
    <2>5. CASE Deliver
      <3>1. UNCHANGED <<buffer, dirty>> /\ call' = [IdleCall EXCEPT !.pc = FirstStep]
        BY <2>5 DEF Deliver
      <3>2. call'.pc = FirstStep
        BY <3>1, CallMoves DEF CallPCs, VotePCs, TotalsPCs, FirstStep
      <3>3. FirstStep = "getVoted" \/ (FirstStep = "getTotals" /\ Current \notin Voters)
        BY DEF FirstStep
      <3> QED
        BY <1>1, <3>1, <3>2, <3>3 DEF KeysInv, TotalsPCs, VoteKeys
    <2> QED
      BY <2>1, <2>2, <2>3, <2>4, <2>5
  <1> QED
    BY <1>5, <1>6, <1>10, <1>11, <1>12

\* The handler reads the totals, or fills them.
LEMMA ReadTotalsSteps == ASSUME IInv, GetTotals \/ FillTotals PROVE IInv'
  <1> USE DEF IInv
  <1>1. /\ UNCHANGED <<chain, indexed, reader, failures, acked, voted, types, buffer, dirty, counted, redelivered>>
        /\ Current' = Current /\ call.pc \in {"getTotals", "fillTotals"} /\ call.pc \in TotalsPCs
    BY DEF GetTotals, FillTotals, Env, ghosts, Current, TotalsPCs
  <1>2. Len(chain) \in Nat /\ acked \in Nat
    BY DEF ChainInv
  <1>3. ChainInv'
    BY <1>1 DEF ChainInv
  <1>4. /\ Sound' = Sound /\ Snapshots' = Snapshots /\ Explained \subseteq Explained'
        /\ totals' \in Explained' \cup {NoTotals}
        /\ early' \subseteq 1..Len(chain) /\ late' \subseteq counted
        /\ call' \in [pc : CallPCs, held : Sound \cup {NoTotals}]
        /\ call'.pc \in {"fillTotals", "setTotals"}
        /\ call'.pc = "fillTotals" => call'.held \in Snapshots
        /\ call'.pc = "setTotals" => call'.held \in Explained'
    <2>1. CASE GetTotals
      <3>1. Sound' = Sound /\ Snapshots' = Snapshots /\ Explained' = Explained
        BY <2>1, Same DEF GetTotals, ghosts, Env
      <3>2. OnChain \in Snapshots /\ OnChain \in Sound
        BY OnChainIsSnapshot DEF Snapshots
      <3>3. totals \in Explained \cup {NoTotals} /\ totals' = totals
        BY <2>1 DEF TotalsInv, GetTotals
      <3>4. CASE totals = NoTotals
        <4>1. call' = [pc |-> "fillTotals", held |-> OnChain]
          BY <2>1, <3>4 DEF GetTotals
        <4>2. call' \in [pc : CallPCs, held : Sound \cup {NoTotals}]
          BY <3>2, <4>1 DEF CallPCs, TotalsPCs
        <4> QED
          BY <2>1, <3>1, <3>2, <3>3, <4>1, <4>2 DEF GhostsInv, GetTotals, ghosts
      <3>5. CASE totals # NoTotals
        <4>1. call' = [pc |-> "setTotals", held |-> totals]
          BY <2>1, <3>5 DEF GetTotals
        <4>2. totals \in Explained /\ totals \in Sound
          BY <3>3, <3>5 DEF Explained
        <4>3. call' \in [pc : CallPCs, held : Sound \cup {NoTotals}]
          BY <4>1, <4>2 DEF CallPCs, TotalsPCs
        <4> QED
          BY <2>1, <3>1, <3>3, <4>1, <4>2, <4>3 DEF GhostsInv, GetTotals, ghosts
      <3> QED
        BY <3>4, <3>5
    <2>2. CASE FillTotals
      <3>1. call.held \in Snapshots /\ StoreFill(call.held) /\ call' = [call EXCEPT !.pc = "setTotals"]
        BY <2>2 DEF FillTotals, CallInv
      <3>2. /\ totals' = call.held /\ call.held \in Explained'
            /\ Sound' = Sound /\ Snapshots' = Snapshots /\ Explained \subseteq Explained'
            /\ early' \subseteq 1..Len(chain) /\ late' \subseteq counted
        BY <1>1, <3>1, FillIsExplained
      <3>3. /\ call' \in [pc : CallPCs, held : Sound \cup {NoTotals}]
            /\ call'.pc = "setTotals" /\ call'.held = call.held
        BY <3>1, CallMoves DEF CallPCs, TotalsPCs
      <3> QED
        BY <3>2, <3>3
    <2> QED
      BY <2>1, <2>2
  <1>5. ReaderInv' /\ TotalsInv'
    BY <1>1, <1>4, ReaderKept DEF TotalsInv
  <1>6. CallInv'
    BY <1>1, <1>4 DEF CallInv, VotePCs
  <1>7. GhostsInv'
    BY <1>1, <1>4 DEF GhostsInv
  <1>8. KeysInv'
    <2>1. call'.pc \in TotalsPCs /\ VoteKeys(Current)' = VoteKeys(Current)
      BY <1>1, <1>4 DEF TotalsPCs, VoteKeys
    <2> QED
      BY <1>1, <1>4, <2>1 DEF KeysInv
  <1> QED
    BY <1>3, <1>5, <1>6, <1>7, <1>8

\* The handler stores the totals with the event added.
LEMMA SetTotalsStep == ASSUME IInv, SetTotals PROVE IInv'
  <1> USE DEF IInv
  <1> DEFINE v == call.held
             w == Add(v, Current)
  <1>1. /\ UNCHANGED <<chain, indexed, reader, failures, acked, voted, types, redelivered, early, late>>
        /\ Current' = Current /\ call.pc = "setTotals" /\ totals' = w
        /\ counted' = counted \cup {Current}
        /\ buffer' = buffer \cup {<<"totals", 0>>} /\ dirty' = dirty \cup {<<"totals", 0>>}
        /\ call' = [IdleCall EXCEPT !.pc = "publish"]
    BY DEF SetTotals, Env, Current, Pushed
  <1>2. acked < Len(chain) /\ v \in Explained /\ v \in Sound
    BY <1>1 DEF CallInv, Explained
  <1>3. /\ Len(chain) \in Nat /\ acked \in Nat /\ Current \in 1..Len(chain) /\ Current \in Events
    BY <1>2, ChainFacts
  <1>4. /\ w \in Sound /\ w["total"][Current] = v["total"][Current] + 1
        /\ \A i \in Events : i # Current => w["total"][i] = v["total"][i]
    BY <1>2, <1>3, AddIsSound
  <1>5. \A i \in Events : v["total"][i] \in Nat
    BY <1>2, Constants, ValueFields DEF Sound
  <1>6. Sound' = Sound /\ Snapshots' = Snapshots
    <2>1. Sound' = Sound
      BY <1>1 DEF Sound
    <2> QED
      BY <2>1 DEF Snapshots
  <1>7. call' \in [pc : CallPCs, held : Sound \cup {NoTotals}] /\ call'.pc = "publish"
    BY <1>1, CallMoves DEF CallPCs
  <1> HIDE DEF v, w
  <1>8. w \in Explained'
    <2>1. \A i \in Events : i # Current =>
            /\ i \notin counted' => w["total"][i] <= 1 /\ (w["total"][i] > 0 => i \in early')
            /\ i \in counted' => /\ w["total"][i] > 1 => i \in early' \cup redelivered'
                                 /\ w["total"][i] = 0 => i \in late'
      BY <1>1, <1>2, <1>4 DEF Explained
    <2>2. Current \in counted' /\ w["total"][Current] # 0
      BY <1>1, <1>3, <1>4, <1>5
    <2>3. w["total"][Current] > 1 => Current \in early' \cup redelivered'
      <3> SUFFICES ASSUME w["total"][Current] > 1 PROVE Current \in early \cup redelivered
        BY <1>1
      <3>1. v["total"][Current] > 0
        BY <1>3, <1>4, <1>5
      <3>2. CASE Current \in counted
        BY <1>1, <3>2 DEF GhostsInv, TotalsPCs
      <3>3. CASE Current \notin counted
        BY <1>2, <1>3, <3>1, <3>3 DEF Explained
      <3> QED
        BY <3>2, <3>3
    <2>4. \A i \in Events :
            /\ i \notin counted' => w["total"][i] <= 1 /\ (w["total"][i] > 0 => i \in early')
            /\ i \in counted' => /\ w["total"][i] > 1 => i \in early' \cup redelivered'
                                 /\ w["total"][i] = 0 => i \in late'
      BY <2>1, <2>2, <2>3
    <2> QED
      BY <1>4, <1>6, <2>4 DEF Explained
  <1>9. ChainInv' /\ TotalsInv'
    BY <1>1, <1>8 DEF ChainInv, TotalsInv
  <1>10. CallInv'
    BY <1>1, <1>2, <1>6, <1>7 DEF CallInv, VotePCs
  <1>11. ReaderInv'
    BY <1>1, <1>6, ReaderKept
  <1>12. GhostsInv'
    BY <1>1, <1>3, <1>7 DEF GhostsInv, VotePCs, TotalsPCs
  <1>13. KeysInv'
    <2>1. VoteKeys(Current)' = VoteKeys(Current)
      BY <1>1 DEF VoteKeys
    <2> QED
      BY <1>1, <1>2, <1>7, <2>1 DEF KeysInv, TotalsPCs
  <1> QED
    BY <1>9, <1>10, <1>11, <1>12, <1>13

\* The handler publishes its keys and is done, or it fails.
LEMMA EndSteps ==
    ASSUME IInv, Publish \/ Acknowledge \/ HandlerThrows \/ Crash
    PROVE  IInv'
  <1> USE DEF IInv
  <1>1. UNCHANGED <<chain, indexed, reader, totals, voted, types, counted, redelivered, early, late>>
    BY DEF Publish, Acknowledge, HandlerThrows, Crash, Env, ghosts
  <1>2. /\ Len(chain) \in Nat /\ acked \in 0..Len(chain) /\ failures \in 0..MaxFailures
        /\ MaxFailures \in Nat
    BY Constants DEF ChainInv
  <1>3. Sound' = Sound /\ Snapshots' = Snapshots /\ Explained' = Explained
    BY <1>1, Same
  <1>4. TotalsInv' /\ ReaderInv'
    BY <1>1, <1>3, ReaderKept DEF TotalsInv
  <1>5. acked' \in 0..Len(chain) /\ failures' \in 0..MaxFailures
    <2>1. CASE Acknowledge
      <3>1. acked < Len(chain)
        BY <2>1 DEF Acknowledge, CallInv
      <3> QED
        BY <1>2, <2>1, <3>1 DEF Acknowledge, Env
    <2>2. CASE Publish \/ HandlerThrows \/ Crash
      BY <1>2, <2>2 DEF Publish, HandlerThrows, Crash, Env
    <2> QED
      BY <2>1, <2>2
  <1>6. ChainInv'
    BY <1>1, <1>5 DEF ChainInv
  <1>7. /\ call' \in [pc : CallPCs, held : Sound \cup {NoTotals}] /\ call'.pc \in {"idle", "ack"}
        /\ call'.pc = "ack" => Publish
    <2>1. CASE Publish
      BY <2>1, CallMoves DEF Publish, CallPCs
    <2>2. CASE Acknowledge \/ HandlerThrows \/ Crash
      <3>1. call' = IdleCall
        BY <2>2 DEF Acknowledge, HandlerThrows, Crash
      <3> QED
        BY <3>1 DEF IdleCall, CallPCs
    <2> QED
      BY <2>1, <2>2
  <1>8. CallInv'
    <2>1. ASSUME Publish PROVE acked' < Len(chain')
      BY <1>1, <2>1 DEF Publish, CallInv
    <2> QED
      BY <1>3, <1>7, <2>1 DEF CallInv, VotePCs
  <1>9. GhostsInv'
    BY <1>1, <1>7 DEF GhostsInv, VotePCs, TotalsPCs
  <1>10. KeysInv'
    <2>1. CASE Publish
      <3>1. dirty \subseteq buffer
        BY <2>1 DEF KeysInv, Publish
      <3>2. dirty' = {} /\ buffer' = {}
        BY <2>1, <3>1 DEF Publish
      <3> QED
        BY <1>7, <3>2 DEF KeysInv, TotalsPCs
    <2>2. CASE Acknowledge
      <3>1. dirty' = {} /\ buffer' = {} /\ call'.pc = "idle"
        BY <2>2 DEF KeysInv, Acknowledge, IdleCall
      <3> QED
        BY <3>1 DEF KeysInv, TotalsPCs
    <2>3. CASE HandlerThrows \/ Crash
      <3>1. /\ UNCHANGED <<acked, dirty, Current>> /\ buffer' \subseteq buffer /\ call'.pc = "idle"
        BY <2>3 DEF HandlerThrows, Crash, IdleCall, Current
      <3> QED
        BY <1>1, <3>1 DEF KeysInv, TotalsPCs, VoteKeys
    <2> QED
      BY <2>1, <2>2, <2>3
  <1> QED
    BY <1>4, <1>6, <1>8, <1>9, <1>10

\* Every step keeps the invariant.
LEMMA StepInv == ASSUME IInv, [Next]_vars PROVE IInv'
  <1>1. CASE \E kind \in Kinds : Emit(kind)
    BY <1>1, EmitStep
  <1>2. CASE \E i \in Events : ReadVoted(i) \/ Ask(i) \/ ExpireVoted(i) \/ ExpireTypes(i)
    BY <1>2, QuietSteps
  <1>3. CASE Index \/ ExpireTotals \/ ReadTotals \/ StoreVoted \/ Search \/ StoreAnswer
    BY <1>3, QuietSteps
  <1>4. CASE Deliver \/ GetVoted \/ FillVoted \/ SetVoted \/ GetTypes \/ SetTypes
    BY <1>4, RecordSteps
  <1>5. CASE GetTotals \/ FillTotals
    BY <1>5, ReadTotalsSteps
  <1>6. CASE SetTotals
    BY <1>6, SetTotalsStep
  <1>7. CASE Publish \/ Acknowledge \/ HandlerThrows \/ Crash
    BY <1>7, EndSteps
  <1>8. CASE StoreTotals
    BY <1>8, StoreTotalsStep
  <1>9. CASE UNCHANGED vars
    <2> USE DEF IInv
    <2>1. UNCHANGED <<chain, acked, indexed, totals, voted, types, call, buffer, dirty, reader, failures,
                      counted, redelivered, early, late>>
      BY <1>9 DEF vars
    <2>2. Sound' = Sound /\ Snapshots' = Snapshots
      BY <2>1, Same
    <2> QED
      BY <2>1, <2>2, ReaderKept, AsideStep DEF ChainInv
  <1> QED
    BY <1>1, <1>2, <1>3, <1>4, <1>5, <1>6, <1>7, <1>8, <1>9 DEF Next, HandlerStep, ReaderStep

\* The invariant always holds.
LEMMA AlwaysInv == Spec => []IInv
  <1>1. Init => IInv
    BY InitInv
  <1>2. IInv /\ [Next]_vars => IInv'
    BY StepInv
  <1> QED
    BY <1>1, <1>2, PTL DEF Spec

--------------------------------------------------------------------------------
(* What always holds.                                                      *)

\* Whoever stored them, and after whatever failed, the fields of a total agree with each
\* other, and all variables keep their types: TotalsAddUp for every number of events.
THEOREM TotalsAgree == Spec => []TotalsAddUp
  <1>1. IInv => TotalsAddUp
    <2> SUFFICES ASSUME IInv PROVE TotalsAddUp
      OBVIOUS
    <2> USE DEF IInv
    <2>1. Cached \subseteq Sound
      <3>1. totals \in Sound \cup {NoTotals}
        BY DEF TotalsInv, Explained
      <3>2. call.held \in Sound \cup {NoTotals} /\ reader.held \in Sound \cup {NoTotals}
        BY DEF CallInv, ReaderInv
      <3> QED
        BY <3>1, <3>2 DEF Cached
    <2>2. TypeOK
      <3>1. Cached \subseteq [Fields -> [Events -> Nat]]
        BY <2>1 DEF Sound, Values
      <3>2. buffer \subseteq dirty /\ UNION {counted, redelivered, early, late} \subseteq 1..Len(chain)
        BY DEF KeysInv, GhostsInv
      <3> QED
        BY <3>1, <3>2 DEF TypeOK, ChainInv
    <2> QED
      BY <2>1, <2>2 DEF TotalsAddUp, Sound, AddsUp
  <1> QED
    BY <1>1, AlwaysInv, PTL

\* A cached total counts a handled event twice only if the event was delivered again or the total
\* was read from a contract that had counted it, and misses it only if a reader stored an older value.
THEOREM DeviationsAreKnown == Spec => []OnlyKnownDeviations
  <1>1. IInv => OnlyKnownDeviations
    <2> SUFFICES ASSUME IInv, totals # NoTotals, NEW i \in counted
                 PROVE  /\ totals["total"][i] > 1 => i \in early \cup redelivered
                        /\ totals["total"][i] = 0 => i \in late
      BY DEF OnlyKnownDeviations
    <2>1. totals \in Explained
      BY DEF IInv, TotalsInv
    <2>2. i \in Events
      BY ChainFacts DEF IInv, GhostsInv
    <2> QED
      BY <2>1, <2>2 DEF Explained
  <1> QED
    BY <1>1, AlwaysInv, PTL

\* What the broker has dismissed was published, through every exception, crash and redelivery.
THEOREM AcknowledgedArePublished == Spec => []AckedAreAnnounced
  <1>1. IInv => AckedAreAnnounced
    <2> SUFFICES ASSUME IInv, acked = Len(chain), dirty # {} PROVE FALSE
      BY DEF AckedAreAnnounced
    <2>1. acked < Len(chain) /\ Len(chain) \in Nat
      BY ChainFacts DEF IInv, KeysInv
    <2> QED
      BY <2>1
  <1> QED
    BY <1>1, AlwaysInv, PTL
================================================================================
