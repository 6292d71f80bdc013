------------------------------ MODULE RewardQuotes ------------------------------
(***************************************************************************)
(* What a farm or a staking contract owes a position, quoted from cached   *)
(* values.                                                                 *)
(*                                                                         *)
(* The contract settles the rewards of all positions whenever it is used.  *)
(* Between two settlements the service computes what the contract would    *)
(* settle now, from values it cached at different times, each for a time   *)
(* of its own.  The handlers of events store the supply an event carries,  *)
(* and store the cached reward per share again.                            *)
(*                                                                         *)
(* Time is counted in blocks.  Rewards are counted in units that divide.   *)
(***************************************************************************)
EXTENDS Integers, Sequences

CONSTANTS
    Lives,         \* Lives[k]: blocks an entry of k is served, both times to live together
    MaxLife,       \* the longest of them
    Supplies,      \* supplies of position tokens
    Rates,         \* rewards per block
    Safety,        \* divisionSafetyConstant
    Apr, MaxPercent,      \* annualPercentageRewards per block, MAX_PERCENT
    Boosted,       \* boostedYieldsRewardsPercenatage of MAX_PERCENT
    Liquidity,     \* the position
    Capacities,    \* reward capacities of a staking contract
    MaxNonce,      \* bound: blocks
    LastUse,       \* bound: last block in which the contract is used
    MaxEvents      \* bound: events not handled yet

\* The values of a contract a quote is computed from.
Keys == {"last", "rewardPerShare", "supply", "perBlock", "producing", "accumulated", "capacity"}

Kinds == {"farm", "staking"}

ASSUME RewardQuotesAssumption ==
    /\ Lives \in [Keys \cup {"nonce"} -> Nat]
    /\ MaxLife \in Nat /\ \A k \in Keys \cup {"nonce"} : Lives[k] <= MaxLife
    /\ Supplies \subseteq Nat \ {0} /\ Rates \subseteq Nat /\ Capacities \subseteq Nat
    /\ {Safety, MaxPercent} \subseteq Nat \ {0}
    /\ Boosted \in 0..MaxPercent
    /\ {Apr, Liquidity, MaxNonce, LastUse, MaxEvents} \subseteq Nat

VARIABLES
    kind,       \* farm or staking
    nonce,      \* block of the chain
    contract,   \* the values of the contract, by key
    cache,      \* cache[k]: the cached value and the block it was stored at
    position,   \* reward per share the position was entered with
    events,     \* events of the contract that are not handled yet
    stirred     \* block of the last change, of the contract or by a handler

quotesVars == <<kind, nonce, contract, cache, position, events, stirred>>

--------------------------------------------------------------------------------
(* Rewards of the blocks from v.last to m, from the values v.              *)

Smaller(a, b) == IF a < b THEN a ELSE b

\* FarmComputeServiceV2 leaves out what is distributed by energy.
BaseRewards(rewards) == rewards - ((rewards * Boosted) \div MaxPercent)

Minted(v, m) == IF m > v.last /\ v.producing THEN v.perBlock * (m - v.last) ELSE 0

ExtraRewards(v, m) ==
    IF m > v.last /\ v.producing
    THEN Smaller(v.perBlock * (m - v.last), (v.supply * Apr * (m - v.last)) \div MaxPercent)
    ELSE 0

\* Fault: a contract that has given out its capacity is quoted nothing at all.
WithinCapacityOrNothing(v, extra) ==
    IF extra + v.accumulated > v.capacity THEN 0 ELSE extra

WithinCapacity(v, extra) ==
    IF extra + v.accumulated > v.capacity
    THEN extra - (extra + v.accumulated - v.capacity) ELSE extra

Increase(v, extra) == (extra * Safety) \div v.supply

FutureFarm(v, m) == v.rewardPerShare + Increase(v, BaseRewards(Minted(v, m)))

FutureStaking(v, m) ==
    IF ExtraRewards(v, m) > 0
    THEN v.rewardPerShare + Increase(v, WithinCapacity(v, ExtraRewards(v, m)))
    ELSE v.rewardPerShare

\* In units of 1 / Safety.  Only the farm does not quote less than nothing.
FarmRewards(v, m, entered) ==
    IF FutureFarm(v, m) > entered THEN Liquidity * (FutureFarm(v, m) - entered) ELSE 0
StakingRewards(v, m, entered) == Liquidity * (FutureStaking(v, m) - entered)

Rewards(v, m) == IF kind = "farm" THEN FarmRewards(v, m, position)
                                  ELSE StakingRewards(v, m, position)

Cached == [k \in Keys |-> cache[k].value]
Quote == Rewards(Cached, cache["nonce"].value)

--------------------------------------------------------------------------------
(* The contract.                                                           *)

\* What it adds to the rewards when it is used in block m.
Earned(m) ==
    IF ~contract.producing \/ m <= contract.last THEN 0
    ELSE IF kind = "farm" THEN BaseRewards(contract.perBlock * (m - contract.last))
    ELSE Smaller(Smaller(contract.perBlock * (m - contract.last),
                         (contract.supply * Apr * (m - contract.last)) \div MaxPercent),
                 contract.capacity - contract.accumulated)

Settled == [contract EXCEPT !.last = nonce, !.accumulated = @ + Earned(nonce),
                            !.rewardPerShare = @ + Increase(contract, Earned(nonce))]

\* What the position would be paid in block m.
Owed(m) == Liquidity * (contract.rewardPerShare + Increase(contract, Earned(m)) - position)

QuotesInit ==
    /\ kind \in Kinds
    /\ nonce = 0
    /\ contract \in [last : {0}, rewardPerShare : {0}, supply : Supplies, perBlock : Rates,
                     producing : {TRUE}, accumulated : {0}, capacity : Capacities]
    /\ cache = [k \in Keys \cup {"nonce"} |->
                  [value |-> IF k = "nonce" THEN 0 ELSE contract[k], stored |-> 0]]
    /\ position = 0
    /\ events = <<>>
    /\ stirred = 0

\* An entry that has reached its age is dropped, so it is read again before the next block.
Block ==
    /\ nonce < MaxNonce
    /\ \A k \in Keys \cup {"nonce"} : nonce + 1 - cache[k].stored <= Lives[k]
    /\ nonce' = nonce + 1
    /\ UNCHANGED <<kind, contract, cache, position, events, stirred>>

\* Somebody enters or exits: the event carries the new supply.
ChangeSupply(s) ==
    /\ contract' = [Settled EXCEPT !.supply = s]
    /\ events' = IF kind = "farm" THEN Append(events, [name |-> "supply", supply |-> s]) ELSE events
    /\ stirred' = nonce
    /\ UNCHANGED <<kind, nonce, cache, position>>

\* The owner of the position claims and gets a new one.
Claim ==
    /\ contract' = Settled
    /\ position' = Settled.rewardPerShare
    /\ events' = IF kind = "farm"
                 THEN Append(events, [name |-> "claim", supply |-> contract.supply]) ELSE events
    /\ stirred' = nonce
    /\ UNCHANGED <<kind, nonce, cache>>

\* The owner of the contract changes the rate, or starts or ends the production.
Administer(rate, produce) ==
    /\ contract' = [Settled EXCEPT !.perBlock = rate, !.producing = produce]
    /\ stirred' = nonce
    /\ UNCHANGED <<kind, nonce, cache, position, events>>

\* topUpRewards and withdrawRewards of a staking contract, which keeps what it owes.
SetCapacity(c) ==
    /\ kind = "staking"
    /\ c >= Settled.accumulated
    /\ contract' = [Settled EXCEPT !.capacity = c]
    /\ stirred' = nonce
    /\ UNCHANGED <<kind, nonce, cache, position, events>>

--------------------------------------------------------------------------------
(* The cache.                                                              *)

Entry(k) == IF k = "nonce" THEN nonce ELSE contract[k]

\* Fault: an entry that is read is stored again.
RefreshRenews(k) ==
    /\ cache' = [cache EXCEPT ![k].stored = nonce]
    /\ UNCHANGED <<kind, nonce, contract, position, events, stirred>>

\* A getter fills a missing entry, or a cron stores what it read.
Refresh(k) ==
    /\ cache' = [cache EXCEPT ![k] = [value |-> Entry(k), stored |-> nonce]]
    /\ UNCHANGED <<kind, nonce, contract, position, events, stirred>>

\* handleEnterFarmEvent, handleExitFarmEvent and handleClaimRewardsEventV2 store the supply of
\* the event; handleClaimRewardsEventV1_3 stores the cached reward per share again.
HandleEvent ==
    /\ events # <<>>
    /\ \/ cache' = [cache EXCEPT !["supply"] = [value |-> Head(events).supply, stored |-> nonce]]
       \/ /\ Head(events).name = "claim"
          /\ cache' = [cache EXCEPT !["rewardPerShare"].stored = nonce]
    /\ events' = Tail(events)
    /\ stirred' = nonce
    /\ UNCHANGED <<kind, nonce, contract, position>>

Use == /\ Len(events) < MaxEvents /\ nonce <= LastUse
       /\ \/ \E s \in Supplies : ChangeSupply(s)
          \/ Claim
          \/ \E rate \in Rates, produce \in BOOLEAN : Administer(rate, produce)
          \/ \E c \in Capacities : SetCapacity(c)

QuotesNext == Block \/ Use \/ HandleEvent \/ \E k \in Keys \cup {"nonce"} : Refresh(k)

QuotesSpec == QuotesInit /\ [][QuotesNext]_quotesVars

--------------------------------------------------------------------------------
(* Properties                                                              *)

\* Type correctness; a contract never owes more than its capacity.
QuotesTypeOK ==
    /\ kind \in Kinds
    /\ nonce \in Nat /\ stirred \in 0..nonce
    /\ contract \in [last : 0..nonce, rewardPerShare : Nat, supply : Supplies, perBlock : Rates,
                     producing : BOOLEAN, accumulated : Nat, capacity : Nat]
    /\ kind = "staking" => contract.accumulated <= contract.capacity
    /\ cache["nonce"].value \in 0..nonce
    /\ \A k \in Keys \cup {"nonce"} : cache[k].stored \in 0..nonce
    /\ position \in 0..contract.rewardPerShare

\* Once neither the contract nor a handler has stirred for as long as the entries live, the
\* quote is exactly what the contract would have paid in the block it was quoted for, although
\* its values were read at seven different times.
QuietQuotesAreExact ==
    QuotesTypeOK /\ (nonce - stirred > MaxLife => Quote = Owed(cache["nonce"].value))

\* Time alone never makes a quote smaller: it shrinks only when another value than the block
\* is read again, or where the cached rewards given out exceed the cached capacity, which were
\* read at different times.
WaitingNeverCosts ==
    [][Quote' < Quote =>
         \/ Cached' # Cached \/ position' # position
         \/ Cached.accumulated > Cached.capacity]_quotesVars
================================================================================
