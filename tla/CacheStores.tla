---------------------------- MODULE CacheStores ----------------------------
\* The setters: under which key a value is stored, and for how long.  A key is named by its
\* fixed parts; an argument that comes before the field is written in capitals.
EXTENDS ServiceCalls

Stores(keys, ttl) == {[key |-> k, ttl |-> ttl] : k \in keys}

\* MetabondingSetterService: setLockedAssetTokenID .. setUserEntry
MetabondingStores == UNION {
  Stores({"metabonding.lockedAssetTokenID"}, Token),
  Stores({"metabonding.totalLockedAssetSupply"}, ContractState),
  Stores({"metabonding.userEntry"}, ContractInfo)}

\* PriceDiscoverySetterService: setLaunchedTokenID .. setAcceptedTokenPriceUSD
PriceDiscoveryTokenStores == UNION {
  Stores({"priceDiscovery.launchedTokenID", "priceDiscovery.acceptedTokenID",
          "priceDiscovery.redeemTokenID"}, Token),
  Stores({"priceDiscovery.launchedTokenAmount",
          "priceDiscovery.acceptedTokenAmount", "priceDiscovery.launchedTokenRedeemAmount",
          "priceDiscovery.acceptedTokenRedeemAmount"}, ContractBalance),
  Stores({"priceDiscovery.launchedTokenPrice", "priceDiscovery.acceptedTokenPrice",
          "priceDiscovery.launchedTokenPriceUSD", "priceDiscovery.acceptedTokenPriceUSD"}, Price)}

\* PriceDiscoverySetterService: setStartBlock .. setPenaltyMaxPercentage
PriceDiscoveryPhaseStores == UNION {
  Stores({"priceDiscovery.startEpoch", "priceDiscovery.endEpoch",
          "priceDiscovery.currentPhase", "priceDiscovery.minLaunchedTokenPrice",
          "priceDiscovery.noLimitPhaseDurationBlocks",
          "priceDiscovery.linearPenaltyPhaseDurationBlocks",
          "priceDiscovery.fixedPenaltyPhaseDurationBlocks", "priceDiscovery.lockingScAddress",
          "priceDiscovery.unlockEpoch", "priceDiscovery.penaltyMinPercentage",
          "priceDiscovery.penaltyMaxPercentage"}, ContractState)}

\* PriceDiscoverySetterService: setFixedPenaltyPercentage .. setFixedPenaltyPercentage
PriceDiscoveryLimitStores == UNION {
  Stores({"priceDiscovery.fixedPenaltyPercentage"}, ContractState)}

\* UserEnergySetterService: setUserOutdatedContract .. setUserOutdatedContract
UserEnergyStores == UNION {
  Stores({"userEnergy.outdatedContract"}, Ttl(600, 600))}

\* EnergySetterService: setBaseAssetTokenID .. setEnergyEntryForUser
EnergyStores == UNION {
  Stores({"energy.baseAssetTokenID"}, Token),
  Stores({"energy.lockOptions", "energy.isPaused"}, ContractState),
  Stores({"energy.energyEntryForUser"}, Minute)}

\* GovernanceSetterService: userVotedProposals .. proposalStatus
GovernanceStores == UNION {
  Stores({"governance.userVotedProposals", "governance.userVoteTypesForContract",
          "governance.proposalVotes", "governance.proposals", "governance.proposalStatus"},
    ContractState)}

\* StakingProxySetterService: setLpFarmAddress .. setLpFarmTokenID
StakingProxyStores == UNION {
  Stores({"stakeProxy.ADDRESS.lpFarmAddress", "stakeProxy.ADDRESS.stakingFarmAddress",
          "stakeProxy.ADDRESS.pairAddress"}, Hour),
  Stores({"stakeProxy.ADDRESS.stakingTokenID", "stakeProxy.ADDRESS.farmTokenID",
          "stakeProxy.ADDRESS.dualYieldTokenID", "stakeProxy.ADDRESS.lpFarmTokenID"}, Token)}

\* FeesCollectorSetterService: userRewardsForWeek .. accumulatedFees
FeesCollectorStores == UNION {
  Stores({"feesCollector.SC.userRewardsForWeek"}, ContractBalance),
  Stores({"feesCollector.accumulatedFees"}, ContractInfo)}

\* TokenUnstakeSetterService: setUnlockedTokensForUser .. setUnlockedTokensForUser
TokenUnstakeStores == UNION {
  Stores({"tokenUnstake.unlockedTokensForUser"}, ContractBalance)}

\* StakingSetterService: setPairContractManagedAddress .. setPerBlockRewardAmount
StakingStores == UNION {
  Stores({"stake.pairContractAddress"}, Hour),
  Stores({"stake.farmTokenID", "stake.farmingTokenID", "stake.rewardTokenID"}, Token),
  Stores({"stake.farmTokenSupply"}, ContractBalance),
  Stores({"stake.rewardPerShare", "stake.accumulatedRewards",
          "stake.rewardCapacity"}, ContractInfo),
  Stores({"stake.annualPercentageRewards", "stake.stakeFarmAPR",
          "stake.minUnboundEpochs", "stake.perBlockRewards"}, ContractState)}

\* StakingSetterService: setLastRewardBlockNonce .. setState
StakingRewardStores == UNION {
  Stores({"stake.lastRewardBlockNonce"}, ContractInfo),
  Stores({"stake.divisionSafetyConstant", "stake.state"}, ContractState)}

\* RouterSetterService: setAllPairsAddress .. setPairCount
RouterStores == UNION {
  Stores({"router.pairsAddress", "router.pairsMetadata", "router.pairsTokens",
          "router.totalLockedValueUSD", "router.totalVolumeUSD", "router.totalFeesUSD"}, Minute),
  Stores({"router.pairCount"}, Hour)}

\* EscrowSetterService: setScheduledTransfers .. setSCStorageKeys
EscrowStores == UNION {
  Stores({"escrow.scheduledTransfers", "escrow.allSenders", "escrow.allReceivers",
          "escrow.senderLastTransferEpoch", "escrow.receiverLastTransferEpoch"}, Day),
  Stores({"escrow.scKeys"}, ContractState)}

\* PairSetterService: setFirstTokenID .. setSecondTokenPrice
PairTokenStores == UNION {
  Stores({"pair.firstTokenID", "pair.secondTokenID", "pair.lpTokenID"}, Token),
  Stores({"pair.totalFeePercent", "pair.specialFeePercent", "pair.state",
          "pair.feeState"}, ContractState),
  Stores({"pair.firstTokenReserve", "pair.secondTokenReserve",
          "pair.totalSupply", "pair.pairInfoMetadata"}, ContractBalance),
  Stores({"pair.firstTokenPrice", "pair.secondTokenPrice"}, Price)}

\* PairSetterService: setFirstTokenPriceUSD .. setFeesAPR
PairAnalyticsStores == UNION {
  Stores({"pair.firstTokenPriceUSD", "pair.secondTokenPriceUSD", "pair.tokenPriceUSD",
          "pair.lpTokenPriceUSD"}, Price),
  Stores({"pair.firstTokenLockedValueUSD", "pair.secondTokenLockedValueUSD",
          "pair.lockedValueUSD"}, ContractInfo),
  Stores({"pair.firstTokenVolume", "pair.secondTokenVolume", "pair.volumeUSD",
          "pair.feesUSD"}, Analytics),
  Stores({"pair.feesAPR"}, ContractState)}

\* PairSetterService: setType .. setDeployedAt
PairSettingStores == UNION {
  Stores({"pair.type", "pair.feesCollectorAddress",
          "pair.feesCollectorCutPercentage", "pair.hasFarms", "pair.hasDualFarms",
          "pair.tradesCount", "pair.deployedAt"}, ContractState),
  Stores({"pair.routerAddress", "pair.whitelistedAddresses", "pair.feeDestinations"}, Hour)}

\* SimpleLockSetterService: setLockedTokenID .. setLpProxyTokenID
SimpleLockStores == UNION {
  Stores({"simpleLock.lockedTokenID", "simpleLock.lpProxyTokenID"}, Token)}

\* TokenSetterService: setTokenMetadata .. setTrendingScore
TokenStores == UNION {
  Stores({"token.ID.[]", "token.ID.[type]", "token.tokenLast2DaysVolumeUSD",
          "token.allTokensSwapsCount", "token.allTokensSwapsCountPrevious24h",
          "token.tokenTrendingScore"}, Token),
  Stores({"token.ID.[derivedEGLD]", "token.ID.[derivedUSD]",
          "token.tokenPrevious24hPrice", "token.tokenPrevious7dPrice", "token.tokenLiquidityUSD"},
    Price)}

\* FarmSetterService: setFarmTokenID .. setRewardReserve
FarmTokenStores == UNION {
  Stores({"farm.farmTokenID", "farm.farmingTokenID", "farm.farmedTokenID"}, Token),
  Stores({"farm.farmTokenSupply", "farm.farmingTokenReserve",
          "farm.rewardPerShare", "farm.rewardReserve"}, ContractInfo),
  Stores({"farm.rewardsPerBlock", "farm.penaltyPercent",
          "farm.minimumFarmingEpochs", "farm.state", "farm.produceRewardsEnabled"}, ContractState)}

\* FarmSetterService: setLastRewardBlockNonce .. setFarmAPR
FarmValueStores == UNION {
  Stores({"farm.lastRewardBlocknonce", "farm.undistributedFees",
          "farm.currentBlockFee", "farm.unlockedRewardsAPR", "farm.lockedRewardsAPR",
          "farm.farmAPR"}, ContractInfo),
  Stores({"farm.divisionSafetyConstant"}, Hour),
  Stores({"farm.aprMultiplier"}, ContractState),
  Stores({"farm.farmedTokenPriceUSD", "farm.farmingTokenPriceUSD"}, Price),
  Stores({"farm.farmLockedValueUSD"}, ContractBalance)}

\* FarmSetterServiceV2: userRewardsForWeek .. userRewardsForWeek
FarmUserStores == UNION {
  Stores({"farm.userRewardsForWeek"}, ContractBalance)}

\* RemoteConfigSetterService: setFlag .. setAnalytics
RemoteConfigStores == UNION {
  Stores({"flag.MAINTENANCE", "scAddress.STAKING", "analytics.NAME"}, Hour)}

\* AnalyticsAWSSetterService: setLatestCompleteValues .. setValues24h
AnalyticsAWSStores == UNION {
  Stores({"analytics.latestCompleteValues", "analytics.sumCompleteValues",
          "analytics.values24hSum", "analytics.values24h"}, Ttl(3600, 2700))}

\* AnalyticsSetterService: lockedValueUSDFarms .. penaltyTokenBurned
AnalyticsStores == UNION {
  Stores({"analytics.lockedValueUSDFarms", "analytics.totalValueLockedUSD",
          "analytics.totalValueStakedUSD", "analytics.totalAggregatedRewards",
          "analytics.totalLockedMexStakedUSD", "analytics.feeTokenBurned",
          "analytics.penaltyTokenBurned"}, Ttl(600, 300))}

\* WeeklyRewardsSplittingSetterService: currentClaimProgress .. totalLockedTokensForWeek
WeeklyRewardsStores == UNION {
  Stores({"weeklyRewards.currentClaimProgress",
          "weeklyRewards.userEnergyForWeek", "weeklyRewards.lastActiveWeekForUser"},
    ContractBalance),
  Stores({"weeklyRewards.lastGlobalUpdateWeek",
          "weeklyRewards.totalRewardsForWeek", "weeklyRewards.totalEnergyForWeek",
          "weeklyRewards.totalLockedTokensForWeek"}, ContractState)}

\* ContextSetterService: setCurrentEpoch .. setShardCurrentBlockNonce
ContextStores == UNION {
  Stores({"context.currentEpoch", "context.shardBlockNonce"}, Ttl(12, 12))}

\* All setters.
StoreRows == UNION {
  MetabondingStores, PriceDiscoveryTokenStores, PriceDiscoveryPhaseStores,
  PriceDiscoveryLimitStores, UserEnergyStores, EnergyStores,
  GovernanceStores, StakingProxyStores, FeesCollectorStores,
  TokenUnstakeStores, StakingStores, StakingRewardStores,
  RouterStores, EscrowStores, PairTokenStores,
  PairAnalyticsStores, PairSettingStores, SimpleLockStores,
  TokenStores, FarmTokenStores, FarmValueStores,
  FarmUserStores, RemoteConfigStores, AnalyticsAWSStores,
  AnalyticsStores, WeeklyRewardsStores, ContextStores}
==============================================================================
