------------------------------ MODULE Requests ------------------------------
(***************************************************************************)
(* A request or a program of the service follows the calls of the tables.  *)
(*                                                                         *)
(* A client's request enters at a resolver; a cron, an event handler or an *)
(* endpoint runs its program step by step.  Whoever computes a value asks  *)
(* other methods; an answer comes back when a source outside the service   *)
(* is reached.  PendingExecuter hands the second caller of a cached method *)
(* the promise of the first, so a method that is asked again by its own    *)
(* computation waits for itself.                                           *)
(***************************************************************************)
EXTENDS PairCalls, RouterCalls, FarmCalls, StakingCalls, EnergyCalls, GovernanceCalls,
        UserCalls, ClientCalls, TransactionCalls, ResolverCalls, CacheStores,
        CronPrograms, HandlerPrograms, FiniteSets

CONSTANT Measured   \* values whose age is followed down to the contract

Rows == UNION {PairRows, RouterRows, FarmRows, StakingRows, EnergyRows, GovernanceRows,
               UserRows, ClientRows, TransactionRows, ResolverRows}
Methods == {r.node : r \in Rows}
Sources == {"contract", "api", "gateway", "elastic", "database", "timescale", "dataApi"}

ASSUME MeasuredAssumption == Measured \subseteq Methods

\* What a method may ask.  The versions of a farm and of a proxy share names: their rows add up.
CallsOf == [m \in Methods |-> UNION {r.calls : r \in {q \in Rows : q.node = m}}]

\* Fault: attempts are not counted.
ShrinkingVisits == {"TokenCompute.computeTokenPriceDerivedEGLD", "Graph.getAllPathsUtil"}

\* Methods that call themselves with less each time: pairs and vertices not yet visited,
\* attempts left.
Shrinking == {"TokenCompute.computeTokenPriceDerivedEGLD", "Graph.getAllPathsUtil",
              "MXApi.doGetGeneric"}

\* The cached methods, and how long their answers live.
Served == {r \in Rows : r.ttl # NotCached}
ServedKeys == {r.node : r \in Served}
TtlOf == [k \in ServedKeys |-> (CHOOSE r \in Served : r.node = k).ttl]

\* Every key a program stores, and how long.
Stored == StoreRows \cup ProxyStores \cup DataApiStores \cup EsdtTokenStores

Programs == AllCrons \cup AllHandlers
NoProgram == [name |-> "none", period |-> 0, steps |-> <<>>]

Idle == "idle"

\* The age of a value that nothing bounds.
Forever == 10000000

\* A copy taken into memory when the entry in Redis is about to expire is as old as both times
\* to live together.
AgeOf(m) == IF m \notin ServedKeys THEN 0
            ELSE IF TtlOf[m].renewed THEN Forever
            ELSE TtlOf[m].remote + TtlOf[m].local
Older(seconds) == IF seconds < Forever THEN seconds ELSE Forever

VARIABLES
    program,   \* the program under way, NoProgram for a client's request
    step,      \* its step
    entry,     \* the measured value a client asked for, or "client"
    at,        \* the method that is computing an answer
    age,       \* how old the answer of at may be when the client gets its own
    turn       \* changes with every call: a method that asks itself takes a step

vars == <<program, step, entry, at, age, turn>>

TypeOK ==
    /\ program \in Programs \cup {NoProgram}
    /\ step \in 0..Len(program.steps)
    /\ entry \in Measured \cup {"client", Idle}
    /\ at \in Methods \cup Sources \cup {Idle}
    /\ age \in 0..Forever
    /\ turn \in BOOLEAN

Init == program = NoProgram /\ step = 0 /\ entry = Idle /\ at = Idle /\ age = 0 /\ turn = FALSE

\* A client asks.
Request == /\ program = NoProgram /\ at = Idle
           /\ \E m \in Measured \cup {r.node : r \in ResolverRows} :
                /\ entry' = IF m \in Measured THEN m ELSE "client"
                /\ at' = m
                /\ age' = AgeOf(m)
           /\ UNCHANGED <<program, step, turn>>

\* A cron fires, an event is consumed, an endpoint is called.
Start == /\ program = NoProgram /\ at = Idle
         /\ \E p \in Programs : program' = p
         /\ step' = 1
         /\ UNCHANGED <<entry, at, age, turn>>

\* A value of the store step is computed: the first call.
Compute == /\ program # NoProgram /\ at = Idle
           /\ \E g \in program.steps[step].gets : \E m \in g.from \ Sources : at' = m
           /\ UNCHANGED <<program, step, entry, age, turn>>

\* The method asks another one.
Ask == /\ at \in Methods
       /\ \E m \in CallsOf[at] \ (IF at \in Shrinking THEN {at} ELSE {}) :
            /\ at' = m
            /\ age' = IF program = NoProgram THEN Older(age + AgeOf(m)) ELSE 0
       /\ turn' = ~turn
       /\ UNCHANGED <<program, step, entry>>

\* A source outside the service, or a method that needs none, answers; the answer is carried
\* back.
Answer == /\ at \in Sources \/ (at \in Methods /\ CallsOf[at] = {})
          /\ at' = Idle /\ entry' = Idle /\ age' = 0 /\ turn' = FALSE
          /\ UNCHANGED <<program, step>>

\* All values of the step are there; they are stored, or announced.
NextStep == /\ program # NoProgram /\ at = Idle
            /\ IF step < Len(program.steps)
               THEN step' = step + 1 /\ UNCHANGED program
               ELSE step' = 0 /\ program' = NoProgram
            /\ UNCHANGED <<entry, at, age, turn>>

Next == Request \/ Start \/ Compute \/ Ask \/ Answer \/ NextStep

\* A method that was asked computes, and a source answers: every client has a timeout.
Spec == Init /\ [][Next]_vars /\ WF_vars(Ask) /\ WF_vars(Answer)

-----------------------------------------------------------------------------
(* Properties.                                                             *)

KeysOf(s) == {g.key : g \in s.gets}
StoredBy(p) == UNION {KeysOf(p.steps[i]) : i \in DOMAIN p.steps} \ Sinks
ChangedBy(p) == StoredBy(p) \cup
    UNION {p.steps[i].keys : i \in {j \in DOMAIN p.steps : p.steps[j].does = "delete"}}
AnnouncedBy(p) ==
    UNION {p.steps[i].keys : i \in {j \in DOMAIN p.steps : p.steps[j].does = "announce"}}
StillToStore == UNION {KeysOf(program.steps[i]) : i \in step..Len(program.steps)} \ Sinks

\* PendingExecuter gives the second caller of a cached method the promise of the first
\* (pending.executor.ts:12), so a computation that comes back to a method it is part of would
\* wait for itself.  None does: every request, cron, handler and endpoint gets to a source.
EveryRequestIsAnswered == at # Idle ~> at = Idle

\* How old, in seconds, what is read from the contract may be in what a client is shown:
\* the value, the method that reads the contract, the limit.
AgeLimits == {
  <<"Pair.getAmountOut", "PairAbi.getPairInfoMetadataRaw", 90>>,
  <<"Pair.getAmountOut", "PairAbi.getTotalFeePercentRaw", 780>>,
  <<"pair.firstTokenPrice", "PairAbi.getPairInfoMetadataRaw", 180>>,
  <<"pair.firstTokenPriceUSD", "PairAbi.getPairInfoMetadataRaw", 270>>,
  <<"token.tokenPriceDerivedUSD", "PairAbi.getPairInfoMetadataRaw", 270>>,
  <<"AutoRouter.swap", "PairAbi.getPairInfoMetadataRaw", 270>>,
  <<"pair.lpTokenPriceUSD", "PairAbi.getPairInfoMetadataRaw", 360>>,
  <<"router.totalLockedValueUSD", "PairAbi.getPairInfoMetadataRaw", 390>>,
  <<"pair.lockedValueUSD", "PairAbi.getPairInfoMetadataRaw", 510>>,
  <<"pair.feesAPR", "PairAbi.getPairInfoMetadataRaw", 1050>>,
  <<"farm.farmAPR", "PairAbi.getPairInfoMetadataRaw", 1170>>,
  <<"farm.farmAPR", "FarmAbi.getFarmTokenSupplyRaw", 360>>,
  <<"analytics.totalValueLockedUSD", "PairAbi.getPairInfoMetadataRaw", 1410>>,
  <<"FarmV1_3.getRewardsForPosition", "FarmAbi.getRewardPerShareRaw", 240>>,
  <<"farm.userRewardsForWeek", "weeklyRewards.totalEnergyForWeek", 870>>,
  <<"stake.stakeFarmAPR", "StakingAbi.getFarmTokenSupplyRaw", 870>>,
  <<"userEnergy.outdatedContract", "weekTimekeeping.currentWeek", 1980>>}

\* A value computed from cached values is as old as all the entries on the way to the contract
\* together, each at the end of both its times to live.  The chains of prices, values and
\* rewards stay within these limits.
AgesAreLimited == TypeOK /\ \A q \in AgeLimits : entry = q[1] /\ at = q[2] => age <= q[3]

\* What a program reads although it stores it in the same step or later.
KnownEarlyReads ==
  \* a price in dollars rests on the price of EGLD in its own pair, the price of the liquidity
  \* token on the two prices stored with it
  ({"cacheTokenPrices", "handleSwapEvents"} \X
    {"pair.firstTokenPrice", "pair.secondTokenPrice", "pair.firstTokenPriceUSD",
     "pair.secondTokenPriceUSD"}) \cup
  {\* yields computed from a rate, a reserve or a fee that is refreshed with them
   <<"cacheFarmsV1_2", "farm.farmingTokenReserve">>,
   <<"cachePairsInfo", "pair.specialFeePercent">>,
   <<"cachePairsInfo", "pair.totalFeePercent">>,
   <<"cachePairsInfo", "pair.state">>,
   <<"cacheStakingInfo", "stake.annualPercentageRewards">>,
   \* an event is added to what is cached
   <<"handleClaimMulti", "weeklyRewards.totalRewardsForWeek">>,
   <<"handleDepositSwapFeesEvent", "feesCollector.accumulatedFees">>,
   <<"handleGovernanceVoteEvent", "governance.userVotedProposals">>,
   <<"handleGovernanceVoteEvent", "governance.userVoteTypesForContract">>,
   <<"handleGovernanceVoteEvent", "governance.proposalVotes">>,
   \* a claim stores the rewards per share it finds in the cache
   <<"handleClaimRewardsEventV1_3", "farm.rewardPerShare">>,
   <<"userVotedProposalsWithVoteType", "governance.userVoteTypesForContract">>}

\* A program that stores several values computes none of them from a cached value that it
\* refreshes at the same time or afterwards: the result would be outdated when it is stored,
\* and would stay for its whole time to live.
InputsBeforeOutputs ==
    program # NoProgram /\ at \in StillToStore => <<program.name, at>> \in KnownEarlyReads

\* Changes other processes do not hear of: their copies in memory live on.
Unannounced ==
  {"token.ID.[type]", "flag.MAINTENANCE", "analytics.NAME"} \X
    {"handleCreatePairEvent", "createToken", "updateToken", "setFlag", "setAnalytics"}
  \cup {<<"governance.userVoteTypesForContract", "userVotedProposalsWithVoteType">>,
        <<"context.shardBlockNonce", "cacheShardCurrentBlockNonce">>}

\* These hand an array of arrays to deleteCacheKeys, which no process can make a key of.
AnnounceInVain == {"cacheTokenPrices", "cacheFarmsTokens", "cacheFarmInfo",
                   "cacheFarmReserves", "cacheFarmTokensPrices"}

\* A program announces every key it has changed before it ends.
ChangesAreAnnounced ==
    program.name \notin AnnounceInVain =>
        \A k \in ChangedBy(program) \ AnnouncedBy(program) : <<k, program.name>> \in Unannounced

\* Only a change is announced: an announcement drops copies in memory, and what was not
\* changed in Redis is filled from there again.  The paths of a new pair's tokens are announced
\* though Redis keeps the old ones, and an unbond announces an entry of an unknown prefix.
AnnouncedAreChanged ==
    AnnouncedBy(program) \subseteq ChangedBy(program) \cup {"auto.route.paths", "ID.userEntry"}

\* What a program announces to the other processes is what it has changed.
Announcements == ChangesAreAnnounced /\ AnnouncedAreChanged

\* Stored, and read by no method under this key.
NeverRead == {
  "priceDiscovery.startEpoch", "priceDiscovery.endEpoch", "feesCollector.SC.userRewardsForWeek",
  "stake.minUnboundEpochs", "stake.perBlockRewards", "token.ID.[type]", "token.ID.[derivedEGLD]",
  "token.ID.[derivedUSD]", "farm.lastRewardBlocknonce", "farm.aprMultiplier", "analytics.NAME",
  "context.tokenID", "proxy.assetTokenID[]", "proxyPair.wrappedLpTokenID[]",
  "proxyPair.intermediatedPairs[]", "proxyFarm.wrappedFarmTokenID[]",
  "proxyFarm.intermediatedFarms[]"} \cup
  {g.key : g \in StakingProxyKept}

\* Read under this key by AnalyticsAWSGetterService, which computes nothing itself.
ReadOnly == {"analytics.latestCompleteValues", "analytics.sumCompleteValues",
             "analytics.values24hSum", "analytics.values24h"}

\* What a program stores is under the key a cached method looks under.
StoresAreRead ==
    \A k \in StoredBy(program) : k \in ServedKeys \cup NeverRead \cup ReadOnly

\* Setters that keep a value for another time than the getter of the same key.
OtherLifetime == {
  "context.currentEpoch", "context.shardBlockNonce",
  "token.tokenLiquidityUSD", "token.tokenPrevious7dPrice",
  "analytics.feeTokenBurned", "analytics.penaltyTokenBurned", "farm.farmLockedValueUSD",
  "farm.farmingTokenReserve", "farm.farmAPR", "stake.lastRewardBlockNonce",
  "feesCollector.accumulatedFees"}

\* What a program stores under a key lives as long as what the getter of the key stores, so
\* the limits of AgesAreLimited hold whoever stored the entry.
StoresLiveAsServed ==
    \A k \in (StoredBy(program) \cap ServedKeys) \ OtherLifetime :
        \A r \in Stored : r.key = k => r.ttl = TtlOf[k]

\* Programs that store something else than the getter of the key computes.
OtherValue == {
  \* the two tokens as the router lists them
  <<"cachePairs", "pair.firstTokenID">>, <<"cachePairs", "pair.secondTokenID">>,
  \* taken out of the reserves and supply the contract answers at once
  <<"cacheTokenPrices", "pair.firstTokenReserve">>,
  <<"cacheTokenPrices", "pair.secondTokenReserve">>,
  <<"cacheTokenPrices", "pair.totalSupply">>,
  \* the reserves of the event with the supply of the cache
  <<"handleSwapEvents", "pair.pairInfoMetadata">>,
  \* priced by the token, where the getter prices by the pair
  <<"handleLiquidityEvent", "pair.firstTokenLockedValueUSD">>,
  <<"handleLiquidityEvent", "pair.secondTokenLockedValueUSD">>,
  <<"handleClaimRewardsEventV1_3", "farm.rewardPerShare">>,
  <<"handleCreatePairEvent", "router.pairCount">>,
  <<"priceDiscovery.handleEvent", "priceDiscovery.launchedTokenPrice">>,
  <<"handleUpdateEnergy", "userEnergy.outdatedContract">>,
  \* an event added to what is cached
  <<"handleDepositSwapFeesEvent", "feesCollector.accumulatedFees">>,
  <<"handleGovernanceVoteEvent", "governance.userVotedProposals">>,
  <<"handleGovernanceVoteEvent", "governance.userVoteTypesForContract">>,
  <<"handleGovernanceVoteEvent", "governance.proposalVotes">>,
  <<"handleClaimMulti", "weeklyRewards.totalRewardsForWeek">>,
  \* straight from the database
  <<"setFlag", "flag.MAINTENANCE">>, <<"setSCAddressesFromDB", "scAddress.STAKING">>,
  <<"userVotedProposalsWithVoteType", "governance.userVoteTypesForContract">>}

\* What a program computes and stores is what the getter of the key would have computed:
\* a value does not depend on who refreshed it last.  Events bring values of their own.
WritersAgree ==
    \A i \in DOMAIN program.steps : \A g \in program.steps[i].gets :
        g.key \in ServedKeys /\ <<program.name, g.key>> \notin OtherValue =>
            g.from \subseteq CallsOf[g.key]

\* Kept for no longer than a round takes to come again: cold for the rest of the hour, and
\* the token values for the length of the computation.
ColdBetweenRounds == {"token.tokenLiquidityUSD", "token.tokenPrevious24hPrice",
                      "token.tokenPrevious7dPrice"}

\* A cron of less than an hour comes again before what it stored expires, so that clients
\* find the key in the cache.
WarmBetweenRounds ==
    program.period \in 1..3599 =>
        \A r \in Stored :
            r.key \in StoredBy(program) \ ColdBetweenRounds => r.ttl.remote > program.period

\* What a program stores is stored under the key, for the time and with the value of the getter
\* of that key, and often enough that clients find it: nobody can tell who refreshed it last.
StoresMatchGetters == StoresAreRead /\ StoresLiveAsServed /\ WritersAgree /\ WarmBetweenRounds
=============================================================================
