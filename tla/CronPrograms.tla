---------------------------- MODULE CronPrograms ----------------------------
\* The crons that keep the cache warm (services/crons).  A round over pairs, farms or tokens
\* is shown for one of them; what runs over all of them before the next step is one step.
EXTENDS CachePrograms, Sequences

\* PairCacheWarmerService.cachePairs, per pair.
CachePairs == Program("cachePairs", 60, StoreAndAnnounce(
  Gets({"pair.firstTokenID", "pair.secondTokenID"}, {"router.pairsMetadata"}) \cup
  Get("pair.lpTokenID", {"PairAbi.getLpTokenIDRaw"})))

\* PairCacheWarmerService.cachePairsAnalytics, per pair.
CachePairsAnalytics == Program("cachePairsAnalytics", 300, StoreAndAnnounce(
  Gets({"pair.firstTokenVolume", "pair.secondTokenVolume", "pair.volumeUSD", "pair.feesUSD"},
       {"AnalyticsQuery.getAggregatedValue"})))

\* PairCacheWarmerService.cachePairsInfo, per pair.
CachePairsInfo == Program("cachePairsInfo", 60, StoreAndAnnounce(
  Get("pair.feesAPR", {"PairCompute.computeFeesAPR"}) \cup
  Get("pair.state", {"PairAbi.getStateRaw"}) \cup
  Get("pair.type", {"PairCompute.computeTypeFromTokens"}) \cup
  Get("pair.feeState", {"PairAbi.getFeeStateRaw"}) \cup
  Get("pair.totalFeePercent", {"PairAbi.getTotalFeePercentRaw"}) \cup
  Get("pair.specialFeePercent", {"PairAbi.getSpecialFeePercentRaw"}) \cup
  Get("pair.feesCollectorAddress", {"PairAbi.getFeesCollectorAddressRaw"}) \cup
  Get("pair.feesCollectorCutPercentage", {"PairAbi.getFeesCollectorCutPercentageRaw"}) \cup
  Get("pair.hasFarms", {"PairCompute.computeHasFarms"}) \cup
  Get("pair.hasDualFarms", {"PairCompute.computeHasDualFarms"}) \cup
  Get("pair.tradesCount", {"PairCompute.computeTradesCount"}) \cup
  Get("pair.deployedAt", {"PairCompute.computeDeployedAt"})))

\* PairCacheWarmerService.cacheTokenPrices: the reserves of all pairs, then the prices of all.
TokenPriceReserves == Gets({"pair.firstTokenReserve", "pair.secondTokenReserve",
  "pair.totalSupply", "pair.pairInfoMetadata"}, {"PairAbi.getPairInfoMetadataRaw"})
TokenPricePrices ==
  Get("pair.firstTokenPrice", {"PairCompute.computeFirstTokenPrice"}) \cup
  Get("pair.secondTokenPrice", {"PairCompute.computeSecondTokenPrice"}) \cup
  Get("pair.firstTokenPriceUSD", {"PairCompute.computeFirstTokenPriceUSD"}) \cup
  Get("pair.secondTokenPriceUSD", {"PairCompute.computeSecondTokenPriceUSD"}) \cup
  Get("pair.lpTokenPriceUSD", {"PairCompute.computeLpTokenPriceUSD"})
CacheTokenPrices == Program("cacheTokenPrices", 12,
  <<Store(TokenPriceReserves), Store(TokenPricePrices),
    AnnounceArrays({g.key : g \in TokenPriceReserves \cup TokenPricePrices})>>)

\* FarmCacheWarmerService, per farm.
StoreAndAnnounceArrays(gets) == <<Store(gets), AnnounceArrays({g.key : g \in gets})>>
CacheFarmsTokens == Program("cacheFarmsTokens", 3600, StoreAndAnnounceArrays(
  Get("farm.farmTokenID", {"FarmAbi.getFarmTokenIDRaw"}) \cup
  Get("farm.farmingTokenID", {"FarmAbi.getFarmingTokenIDRaw"}) \cup
  Get("farm.farmedTokenID", {"FarmAbi.getFarmedTokenIDRaw"})))
CacheFarmsV1_2 == Program("cacheFarmsV1_2", 30, StoreAndAnnounce(
  Get("farm.aprMultiplier", {"FarmAbiV1_2.getLockedRewardAprMuliplierRaw"}) \cup
  Get("farm.farmingTokenReserve", {"FarmAbiV1_2.getFarmingTokenReserveRaw"}) \cup
  Get("farm.unlockedRewardsAPR", {"FarmComputeV1_2.computeUnlockedRewardsAPR"}) \cup
  Get("farm.lockedRewardsAPR", {"FarmComputeV1_2.computeLockedRewardsAPR"})))
CacheFarmsV1_3 == Program("cacheFarmsV1_3", 30, StoreAndAnnounce(
  Get("farm.farmAPR", {"FarmComputeV1_3.computeFarmAPR"})))
CacheFarmInfo == Program("cacheFarmInfo", 60, StoreAndAnnounceArrays(
  Get("farm.minimumFarmingEpochs", {"FarmAbi.getMinimumFarmingEpochsRaw"}) \cup
  Get("farm.penaltyPercent", {"FarmAbi.getPenaltyPercentRaw"}) \cup
  Get("farm.rewardsPerBlock", {"FarmAbi.getRewardsPerBlockRaw"}) \cup
  Get("farm.state", {"FarmAbi.getStateRaw"}) \cup
  Get("farm.produceRewardsEnabled", {"FarmAbi.getProduceRewardsEnabledRaw"})))
CacheFarmReserves == Program("cacheFarmReserves", 30, StoreAndAnnounceArrays(
  Get("farm.farmTokenSupply", {"FarmAbi.getFarmTokenSupplyRaw"}) \cup
  Get("farm.lastRewardBlocknonce", {"FarmAbi.getLastRewardBlockNonceRaw"}) \cup
  Get("farm.rewardPerShare", {"FarmAbi.getRewardPerShareRaw"}) \cup
  Get("farm.rewardReserve", {"FarmAbi.getRewardReserveRaw"})))
CacheFarmTokensPrices == Program("cacheFarmTokensPrices", 30, StoreAndAnnounceArrays(
  Get("farm.farmedTokenPriceUSD", {"FarmCompute.computeFarmedTokenPriceUSD"}) \cup
  Get("farm.farmingTokenPriceUSD", {"FarmCompute.computeFarmingTokenPriceUSD"}) \cup
  Get("farm.farmLockedValueUSD", {"FarmComputeV1_2.computeFarmLockedValueUSD",
    "FarmComputeV1_3.computeFarmLockedValueUSD", "FarmComputeV2.computeFarmLockedValueUSD"})))

\* TokensCacheWarmerService.cacheTokens: the swap counts, four values per token, the scores.
CacheTokens == Program("cacheTokens", 60,
  StoreAndAnnounce(Gets({"token.allTokensSwapsCount", "token.allTokensSwapsCountPrevious24h"},
                        {"TokenCompute.computeAllTokensSwapsCount"})) \o
  StoreAndAnnounce(
    Get("token.tokenLast2DaysVolumeUSD", {"TokenCompute.computeTokenLast2DaysVolumeUSD"}) \cup
    Get("token.tokenPrevious24hPrice", {"TokenCompute.computeTokenPrevious24hPrice"}) \cup
    Get("token.tokenPrevious7dPrice", {"TokenCompute.computeTokenPrevious7dPrice"}) \cup
    Get("token.tokenLiquidityUSD", {"TokenCompute.computeTokenLiquidityUSD"})) \o
  StoreAndAnnounce(Get("token.tokenTrendingScore", {"TokenCompute.computeTokenTrendingScore"})))

\* AWSQueryCacheWarmerService, per token and per pair.
HistoricValues ==
  Get("analytics.values24h", {"AnalyticsQuery.getValues24h"}) \cup
  Get("analytics.latestCompleteValues", {"AnalyticsQuery.getLatestCompleteValues"}) \cup
  Get("analytics.values24hSum", {"AnalyticsQuery.getValues24hSum"}) \cup
  Get("analytics.sumCompleteValues", {"AnalyticsQuery.getSumCompleteValues"})
UpdateHistoricTokensData ==
  Program("updateHistoricTokensData", 300, StoreAndAnnounce(HistoricValues))
UpdateHistoricPairsData ==
  Program("updateHistoricPairsData", 300, StoreAndAnnounce(HistoricValues))

\* AnalyticsCacheWarmerService.
CacheAnalytics == Program("cacheAnalytics", 60, StoreAndAnnounce(
  Get("analytics.totalValueLockedUSD", {"AnalyticsCompute.computeTotalValueLockedUSD"}) \cup
  Get("analytics.totalAggregatedRewards", {"AnalyticsCompute.computeTotalAggregatedRewards"}) \cup
  Get("analytics.lockedValueUSDFarms", {"AnalyticsCompute.computeLockedValueUSDFarms"})))

CacheBurnedTokens == Program("cacheBurnedTokens", 300, StoreAndAnnounce(
  Gets({"analytics.feeTokenBurned", "analytics.penaltyTokenBurned"},
       {"AnalyticsCompute.computeTokenBurned"})))

\* The crons of the energy factory, the governance contracts and metabonding.
CacheEnergyContract == Program("cacheEnergyContract", 60,
  StoreAndAnnounce(Get("energy.isPaused", {"EnergyAbi.isPausedRaw"})))

\* Fault: the two results are stored in each other's place.
CacheGovernanceStatusesSwapped == Program("cacheGovernanceStatuses", 12, StoreAndAnnounce(
  Get("governance.proposals", {"GovernanceTokenSnapshotAbi.proposalStatusRaw"}) \cup
  Get("governance.proposalStatus", {"GovernanceTokenSnapshotAbi.proposalsRaw"})))

CacheGovernanceStatuses == Program("cacheGovernanceStatuses", 12, StoreAndAnnounce(
  Get("governance.proposals", {"GovernanceTokenSnapshotAbi.proposalsRaw"}) \cup
  Get("governance.proposalStatus", {"GovernanceTokenSnapshotAbi.proposalStatusRaw"})))
CacheMetabonding == Program("cacheMetabonding", 3600,
  StoreAndAnnounce(Get("metabonding.lockedAssetTokenID",
                       {"MetabondingAbi.getLockedAssetTokenIDRaw"})))

CacheMetabondingInfo == Program("cacheMetabondingInfo", 30,
  StoreAndAnnounce(Get("metabonding.totalLockedAssetSupply",
                       {"MetabondingAbi.getTotalLockedAssetSupplyRaw"})))

\* ProxyCacheWarmerService, per version of the proxy; the keys lack the address.
CacheProxy == Program("cacheProxy", 3600, StoreAndAnnounce(
  Get("proxy.assetTokenID[]", {"ProxyAbi.getAssetTokenIDRaw"}) \cup
  Get("proxyPair.wrappedLpTokenID[]", {"ProxyPairAbi.getWrappedLpTokenIDRaw"}) \cup
  Get("proxyPair.intermediatedPairs[]", {"ProxyPairAbi.getIntermediatedPairsRaw"}) \cup
  Get("proxyFarm.wrappedFarmTokenID[]", {"ProxyFarmAbi.getWrappedFarmTokenIDRaw"}) \cup
  Get("proxyFarm.intermediatedFarms[]", {"ProxyFarmAbi.getIntermediatedFarmsRaw"})))
ProxyStores == {[key |-> k, ttl |-> Token] :
    k \in {"proxy.assetTokenID[]", "proxyPair.wrappedLpTokenID[]",
            "proxyFarm.wrappedFarmTokenID[]"}}
  \cup {[key |-> k, ttl |-> Hour] :
    k \in {"proxyPair.intermediatedPairs[]", "proxyFarm.intermediatedFarms[]"}}
\* PriceDiscoveryCacheWarmerService, per contract.
CachePriceDiscoveryTokens == Program("priceDiscovery.cacheTokens", 3600, StoreAndAnnounce(
  Get("priceDiscovery.launchedTokenID", {"PriceDiscoveryAbi.getLaunchedTokenIDRaw"}) \cup
  Get("priceDiscovery.acceptedTokenID", {"PriceDiscoveryAbi.getAcceptedTokenIDRaw"}) \cup
  Get("priceDiscovery.redeemTokenID", {"PriceDiscoveryAbi.getRedeemTokenIDRaw"})))
CachePriceDiscovery == Program("cachePriceDiscovery", 60, StoreAndAnnounce(
  Get("priceDiscovery.startEpoch", {"PriceDiscoveryAbi.getStartBlockRaw"}) \cup
  Get("priceDiscovery.endEpoch", {"PriceDiscoveryAbi.getEndBlockRaw"}) \cup
  Get("priceDiscovery.minLaunchedTokenPrice",
      {"PriceDiscoveryAbi.getMinLaunchedTokenPriceRaw"}) \cup
  Get("priceDiscovery.noLimitPhaseDurationBlocks",
      {"PriceDiscoveryAbi.getNoLimitPhaseDurationBlocksRaw"}) \cup
  Get("priceDiscovery.linearPenaltyPhaseDurationBlocks",
      {"PriceDiscoveryAbi.getLinearPenaltyPhaseDurationBlocksRaw"}) \cup
  Get("priceDiscovery.fixedPenaltyPhaseDurationBlocks",
      {"PriceDiscoveryAbi.getFixedPenaltyPhaseDurationBlocksRaw"}) \cup
  Get("priceDiscovery.lockingScAddress", {"PriceDiscoveryAbi.getLockingScAddressRaw"}) \cup
  Get("priceDiscovery.unlockEpoch", {"PriceDiscoveryAbi.getUnlockEpochRaw"}) \cup
  Get("priceDiscovery.penaltyMinPercentage",
      {"PriceDiscoveryAbi.getPenaltyMinPercentageRaw"}) \cup
  Get("priceDiscovery.penaltyMaxPercentage",
      {"PriceDiscoveryAbi.getPenaltyMaxPercentageRaw"}) \cup
  Get("priceDiscovery.fixedPenaltyPercentage",
      {"PriceDiscoveryAbi.getFixedPenaltyPercentageRaw"})))
PriceDiscoveryBalancesKept ==
  Get("priceDiscovery.launchedTokenAmount",
      {"PriceDiscoveryAbi.getLaunchedTokenBalanceRaw"}) \cup
  Get("priceDiscovery.acceptedTokenAmount",
      {"PriceDiscoveryAbi.getAcceptedTokenBalanceRaw"}) \cup
  Get("priceDiscovery.launchedTokenRedeemAmount",
      {"PriceDiscoveryAbi.getLaunchedTokenRedeemBalanceRaw"}) \cup
  Get("priceDiscovery.acceptedTokenRedeemAmount",
      {"PriceDiscoveryAbi.getAcceptedTokenRedeemBalanceRaw"}) \cup
  Get("priceDiscovery.currentPhase", {"PriceDiscoveryAbi.getCurrentPhaseRaw"})
PriceDiscoveryPricesKept ==
  Get("priceDiscovery.launchedTokenPrice",
      {"PriceDiscoveryCompute.computeLaunchedTokenPrice"}) \cup
  Get("priceDiscovery.acceptedTokenPrice",
      {"PriceDiscoveryCompute.computeAcceptedTokenPrice"}) \cup
  Get("priceDiscovery.launchedTokenPriceUSD",
      {"PriceDiscoveryCompute.computeLaunchedTokenPriceUSD"})
\* Fault: the prices before the balances they follow from.
CachePriceDiscoveryPricesFirst == Program("priceDiscovery.cacheTokensPrices", 12,
  <<Store(PriceDiscoveryPricesKept), Store(PriceDiscoveryBalancesKept),
    Announce({g.key : g \in PriceDiscoveryBalancesKept \cup PriceDiscoveryPricesKept})>>)

CachePriceDiscoveryPrices == Program("priceDiscovery.cacheTokensPrices", 12,
  <<Store(PriceDiscoveryBalancesKept), Store(PriceDiscoveryPricesKept),
    Announce({g.key : g \in PriceDiscoveryBalancesKept \cup PriceDiscoveryPricesKept})>>)

\* StakingCacheWarmerService, per staking farm.
CacheStakingTokens == Program("staking.cacheFarmsStaking", 3600, StoreAndAnnounce(
  Get("stake.farmTokenID", {"StakingAbi.getFarmTokenIDRaw"}) \cup
  Get("stake.farmingTokenID", {"StakingAbi.getFarmingTokenIDRaw"}) \cup
  Get("stake.rewardTokenID", {"StakingAbi.getRewardTokenIDRaw"})))
CacheStakingInfo == Program("cacheStakingInfo", 60, StoreAndAnnounce(
  Get("stake.annualPercentageRewards", {"StakingAbi.getAnnualPercentageRewardsRaw"}) \cup
  Get("stake.minUnboundEpochs", {"StakingAbi.getMinUnbondEpochsRaw"}) \cup
  Get("stake.divisionSafetyConstant", {"StakingAbi.getDivisionSafetyConstantRaw"}) \cup
  Get("stake.state", {"StakingAbi.getStateRaw"}) \cup
  Get("stake.stakeFarmAPR", {"StakingCompute.computeStakeFarmAPR"})))
CacheStakingRewards == Program("cacheStakingRewards", 30, StoreAndAnnounce(
  Get("stake.farmTokenSupply", {"StakingAbi.getFarmTokenSupplyRaw"}) \cup
  Get("stake.rewardPerShare", {"StakingAbi.getRewardPerShareRaw"}) \cup
  Get("stake.accumulatedRewards", {"StakingAbi.getAccumulatedRewardsRaw"}) \cup
  Get("stake.rewardCapacity", {"StakingAbi.getRewardCapacityRaw"}) \cup
  Get("stake.perBlockRewards", {"StakingAbi.getPerBlockRewardsAmountRaw"}) \cup
  Get("stake.lastRewardBlockNonce", {"StakingAbi.getLastRewardBlockNonceRaw"})))

\* StakingProxyCacheWarmerService, per staking proxy.
StakingProxyKept ==
  Get("stakeProxy.ADDRESS.lpFarmAddress", {"StakingProxyAbi.getlpFarmAddressRaw"}) \cup
  Get("stakeProxy.ADDRESS.stakingFarmAddress",
      {"StakingProxyAbi.getStakingFarmAddressRaw"}) \cup
  Get("stakeProxy.ADDRESS.pairAddress", {"StakingProxyAbi.getPairAddressRaw"}) \cup
  Get("stakeProxy.ADDRESS.stakingTokenID", {"StakingProxyAbi.getStakingTokenIDRaw"}) \cup
  Get("stakeProxy.ADDRESS.farmTokenID", {"StakingProxyAbi.getFarmTokenIDRaw"}) \cup
  Get("stakeProxy.ADDRESS.dualYieldTokenID", {"StakingProxyAbi.getDualYieldTokenIDRaw"}) \cup
  Get("stakeProxy.ADDRESS.lpFarmTokenID", {"StakingProxyAbi.getLpFarmTokenIDRaw"})
CacheStakingProxy ==
  Program("stakingProxy.cacheFarmsStaking", 3600, StoreAndAnnounce(StakingProxyKept))

\* CacheWarmerService: the USDC price and the epoch, stored by hand.  The epoch is kept until
\* the rounds of the epoch have passed; 6 is the least that can be left.
CacheUSDCPrice == Program("cacheUSDCPrice", 300,
  StoreAndAnnounce(Get("token.externalPrice", {"MXDataApi.getTokenPriceRaw"})))
CacheCurrentEpoch == Program("cacheCurrentEpoch", 6,
  StoreAndAnnounce(Get("context.currentEpoch", {"MXApi.getStats"})))

\* The nonces of the shards; their keys never get into the array that is announced.
CacheShardCurrentBlockNonce == Program("cacheShardCurrentBlockNonce", 6,
  <<Store(Get("context.shardBlockNonce", {"MXApi.doGetGeneric"})), Announce({})>>)
DataApiStores == {[key |-> "token.externalPrice", ttl |-> Ttl(600, 420)]}

\* All crons.
AllCrons == UNION {
  CachePairs, CachePairsAnalytics, CachePairsInfo, CacheTokenPrices,
  CacheFarmsTokens, CacheFarmsV1_2, CacheFarmsV1_3, CacheFarmInfo, CacheFarmReserves,
  CacheFarmTokensPrices, CacheTokens, UpdateHistoricTokensData, UpdateHistoricPairsData,
  CacheAnalytics, CacheBurnedTokens, CacheEnergyContract, CacheGovernanceStatuses,
  CacheMetabonding, CacheMetabondingInfo, CacheProxy,
  CachePriceDiscoveryTokens, CachePriceDiscovery, CachePriceDiscoveryPrices,
  CacheStakingTokens, CacheStakingInfo, CacheStakingRewards, CacheStakingProxy,
  CacheUSDCPrice, CacheCurrentEpoch, CacheShardCurrentBlockNonce}
=============================================================================
