---------------------------- MODULE ResolverCalls ----------------------------
\* Calls of the GraphQL resolvers, where the requests of the users come in.
EXTENDS ServiceCalls

\* PairDayDataResolver: firstToken .. pairsDayDatas
PairDayFields == UNION {
  Call("PairDayDataResolver.firstToken", {"Pair.getFirstToken"}),
  Call("PairDayDataResolver.secondToken", {"Pair.getSecondToken"}),
  Call("PairDayDataResolver.pairsDayDatas",
      {"AnalyticsPair.getPairDayDatas", "AnalyticsPair.getPairsDayDatas"})}

\* AnalyticsResolver: getTokenPriceUSD .. getPenaltyTokenBurned
AnalyticsQueriesServed == UNION {
  Call("AnalyticsResolver.getTokenPriceUSD", {"pair.tokenPriceUSD"}),
  Call("AnalyticsResolver.totalValueLockedUSD", {"analytics.totalValueLockedUSD"}),
  Call("AnalyticsResolver.totalValueStakedUSD", {"analytics.totalValueStakedUSD"}),
  Call("AnalyticsResolver.totalLockedValueUSDFarms", {"analytics.lockedValueUSDFarms"}),
  Call("AnalyticsResolver.totalLockedMexStakedUSD", {"analytics.totalLockedMexStakedUSD"}),
  Call("AnalyticsResolver.totalTokenSupply", {"token.metadata"}),
  Call("AnalyticsResolver.totalAggregatedRewards", {"analytics.totalAggregatedRewards"}),
  Call("AnalyticsResolver.getFeeTokenBurned", {"analytics.feeTokenBurned"}),
  Call("AnalyticsResolver.getPenaltyTokenBurned", {"analytics.penaltyTokenBurned"})}

\* AnalyticsResolver: priceCandles .. priceCandles
PriceCandlesServed == UNION {
  Call("AnalyticsResolver.priceCandles", {"AnalyticsPair.getPriceCandles"})}

\* AutoRouterResolver: swap .. swap
AutoRouterQuery == UNION {
  Call("AutoRouterResolver.swap", {"AutoRouter.swap"})}

\* AutoRouterResolver: transactions .. noAuthTransactions
AutoRouterTransactionsServed == UNION {
  Calls({"AutoRouterResolver.transactions", "AutoRouterResolver.noAuthTransactions"},
      {"AutoRouter.getTransactions"})}

\* DistributionResolver: communityDistribution .. distributedLockedAssets
DistributionFields == UNION {
  Call("DistributionResolver.communityDistribution",
      {"communityDistribution.communityDistribution"}),
  Call("DistributionResolver.distributedLockedAssets",
      {"distributedLockedAssets.distributedLockedAssets"})}

\* EnergyResolver: baseAssetToken .. penaltyAmount
EnergyFields == UNION {
  Call("EnergyResolver.baseAssetToken", {"EnergyService.getBaseAssetToken"}),
  Call("EnergyResolver.lockedToken", {"EnergyService.getLockedToken"}),
  Call("EnergyResolver.legacyLockedToken", {"EnergyService.getLegacyLockedToken"}),
  Call("EnergyResolver.tokenUnstakeAddress", {"energy.tokenUnstakeScAddress"}),
  Call("EnergyResolver.lockOptions", {"energy.lockOptions"}),
  Call("EnergyResolver.pauseState", {"energy.isPaused"}),
  Call("EnergyResolver.userEnergy", {"EnergyService.getUserEnergy"}),
  Call("EnergyResolver.penaltyAmount", {"EnergyService.getPenaltyAmount"})}

\* EnergyResolver: updateLockOptions .. userEnergyAmount
EnergyMutations == UNION {
  Calls({"EnergyResolver.updateLockOptions", "EnergyResolver.setPenaltyPercentage",
         "EnergyResolver.setFeesBurnPercentage", "EnergyResolver.setFeesCollectorAddress",
         "EnergyResolver.setOldLockedAssetFactoryAddress"}, {"energy.ownerAddress"}),
  Call("EnergyResolver.userEnergyAmount", {"energy.energyAmountForUser"})}

\* EscrowResolver: energyFactoryAddress .. receiverLastTransferEpoch
EscrowFields == UNION {
  Call("EscrowResolver.energyFactoryAddress", {"escrow.energyFactoryAddress"}),
  Call("EscrowResolver.lockedTokenID", {"escrow.lockedTokenID"}),
  Call("EscrowResolver.minLockEpochs", {"escrow.minLockEpochs"}),
  Call("EscrowResolver.epochsCooldownDuration", {"escrow.epochsCooldownDuration"}),
  Call("EscrowResolver.scheduledTransfers", {"escrow.scheduledTransfers"}),
  Call("EscrowResolver.escrowSenders", {"escrow.allSenders"}),
  Call("EscrowResolver.escrowReceivers", {"escrow.addressPermission", "escrow.allReceivers"}),
  Call("EscrowResolver.senderLastTransferEpoch", {"escrow.senderLastTransferEpoch"}),
  Call("EscrowResolver.receiverLastTransferEpoch", {"escrow.receiverLastTransferEpoch"})}

\* EscrowResolver: escrowPermissions .. escrowPermissions
EscrowPermissionFields == UNION {
  Call("EscrowResolver.escrowPermissions", {"escrow.addressPermission"})}

\* FarmResolver: farmedToken .. lastErrorMessage
FarmFields == UNION {
  Call("FarmResolver.farmedToken", {"FarmBase.getFarmedToken"}),
  Call("FarmResolver.farmToken", {"FarmBase.getFarmToken"}),
  Call("FarmResolver.farmingToken", {"FarmBase.getFarmingToken"}),
  Call("FarmResolver.produceRewardsEnabled", {"farm.produceRewardsEnabled"}),
  Call("FarmResolver.perBlockRewards", {"farm.rewardsPerBlock"}),
  Call("FarmResolver.farmTokenSupply", {"farm.farmTokenSupply"}),
  Call("FarmResolver.farmedTokenPriceUSD", {"farm.farmedTokenPriceUSD"}),
  Call("FarmResolver.farmTokenPriceUSD", {"farm.farmTokenPriceUSD"}),
  Call("FarmResolver.farmingTokenPriceUSD", {"farm.farmingTokenPriceUSD"}),
  Call("FarmResolver.penaltyPercent", {"farm.penaltyPercent"}),
  Call("FarmResolver.minimumFarmingEpochs", {"farm.minimumFarmingEpochs"}),
  Call("FarmResolver.rewardPerShare", {"farm.rewardPerShare"}),
  Call("FarmResolver.rewardReserve", {"farm.rewardReserve"}),
  Call("FarmResolver.lastRewardBlockNonce", {"farm.lastRewardBlockNonce"}),
  Call("FarmResolver.divisionSafetyConstant", {"farm.divisionSafetyConstant"}),
  Call("FarmResolver.totalValueLockedUSD", {"farm.farmLockedValueUSD"}),
  Call("FarmResolver.state", {"farm.state"}),
  Call("FarmResolver.burnGasLimit", {"farm.burnGasLimit"}),
  Call("FarmResolver.pair", {"farm.pairContractAddress"}),
  Call("FarmResolver.transferExecGasLimit", {"farm.transferExecGasLimit"}),
  Call("FarmResolver.lastErrorMessage", {"farm.lastErrorMessage"})}

\* FarmCustomResolver: requireWhitelist .. requireWhitelist
FarmCustomFields == UNION {
  Call("FarmCustomResolver.requireWhitelist", {"farm.whitelist"})}

\* FarmQueryResolver: getRewardsForPosition .. getExitFarmTokens
FarmQueries == UNION {
  Call("FarmQueryResolver.getRewardsForPosition",
      {"FarmBase.getBatchRewardsForPosition", "FarmV2.getBatchRewardsForPosition"}),
  Call("FarmQueryResolver.getExitFarmTokens", {"FarmBase.getTokensForExitFarm"})}

\* FarmTransactionResolver: endProduceRewards .. resumeFarm
FarmAdminFirst == UNION {
  Calls({"FarmTransactionResolver.endProduceRewards",
         "FarmTransactionResolver.setPerBlockRewardAmount",
         "FarmTransactionResolver.startProduceRewards",
         "FarmTransactionResolver.setPenaltyPercent",
         "FarmTransactionResolver.setMinimumFarmingEpochs",
         "FarmTransactionResolver.setTransferExecGasLimit",
         "FarmTransactionResolver.setBurnGasLimit", "FarmTransactionResolver.pauseFarm",
         "FarmTransactionResolver.resumeFarm"}, {"FarmBase.requireOwner"})}

\* FarmTransactionResolver: registerFarmToken .. stopRewardsAndMigrateRps
FarmAdminSecond == UNION {
  Calls({"FarmTransactionResolver.registerFarmToken",
         "FarmTransactionResolver.setLocalRolesFarmToken",
         "FarmTransactionResolver.setFarmMigrationConfig",
         "FarmTransactionResolver.stopRewardsAndMigrateRps"}, {"FarmBase.requireOwner"}),
  Call("FarmTransactionResolver.enterFarm",
      {"FarmTransactionV1_2.enterFarm", "FarmTransactionV1_3.enterFarm",
       "FarmTransactionV2.enterFarm"}),
  Call("FarmTransactionResolver.exitFarm",
      {"FarmTransactionV1_2.exitFarm", "FarmTransactionV1_3.exitFarm",
       "FarmTransactionV2.exitFarm"}),
  Call("FarmTransactionResolver.compoundRewards",
      {"FarmTransactionV1_2.compoundRewards", "FarmTransactionV1_3.compoundRewards"})}

\* FarmResolverV1_2: lockedAssetFactory .. migrationConfig
FarmV12Fields == UNION {
  Call("FarmResolverV1_2.lockedAssetFactory", {"farm.lockedAssetFactoryAddress"}),
  Call("FarmResolverV1_2.farmingTokenReserve", {"farm.farmingTokenReserve"}),
  Call("FarmResolverV1_2.undistributedFees", {"farm.undistributedFees"}),
  Call("FarmResolverV1_2.currentBlockFee", {"farm.currentBlockFee"}),
  Call("FarmResolverV1_2.aprMultiplier", {"farm.lockedRewardAprMuliplier"}),
  Call("FarmResolverV1_2.unlockedRewardsAPR", {"farm.unlockedRewardsAPR"}),
  Call("FarmResolverV1_2.lockedRewardsAPR", {"farm.lockedRewardsAPR"}),
  Call("FarmResolverV1_2.lockedFarmingTokenReserve", {"farm.lockedFarmingTokenReserve"}),
  Call("FarmResolverV1_2.unlockedFarmingTokenReserve", {"farm.unlockedFarmingTokenReserve"}),
  Call("FarmResolverV1_2.lockedFarmingTokenReserveUSD", {"farm.lockedFarmingTokenReserveUSD"}),
  Call("FarmResolverV1_2.unlockedFarmingTokenReserveUSD", {"farm.unlockedFarmingTokenReserveUSD"}),
  Call("FarmResolverV1_2.migrationConfig", {"farm.farmMigrationConfiguration"})}

\* FarmResolverV1_3: apr .. lockedAssetFactory
FarmV13Fields == UNION {
  Call("FarmResolverV1_3.apr", {"farm.farmAPR"}),
  Call("FarmResolverV1_3.lockedAssetFactory", {"farm.lockedAssetFactoryAddress"})}

\* FarmResolverV2: accumulatedRewards .. energyFactoryAddress
FarmV2Fields == UNION {
  Call("FarmResolverV2.accumulatedRewards",
      {"farm.accumulatedRewardsForWeek", "weekTimekeeping.currentWeek"}),
  Call("FarmResolverV2.optimalEnergyPerLp",
      {"farm.optimalEnergyPerLP", "weekTimekeeping.currentWeek"}),
  Call("FarmResolverV2.baseApr", {"farm.farmBaseAPR"}),
  Calls({"FarmResolverV2.boosterRewards", "FarmResolverV2.time"}, {"weekTimekeeping.currentWeek"}),
  Call("FarmResolverV2.boostedYieldsRewardsPercenatage", {"farm.boostedYieldsRewardsPercenatage"}),
  Call("FarmResolverV2.boostedYieldsFactors", {"farm.boostedYieldsFactors"}),
  Call("FarmResolverV2.lockingScAddress", {"farm.lockingScAddress"}),
  Call("FarmResolverV2.lockEpochs", {"farm.lockEpochs"}),
  Call("FarmResolverV2.undistributedBoostedRewards",
      {"farm.undistributedBoostedRewards.week", "weekTimekeeping.currentWeek"}),
  Call("FarmResolverV2.undistributedBoostedRewardsClaimed", {"farm.undistributedBoostedRewards"}),
  Call("FarmResolverV2.lastGlobalUpdateWeek", {"weeklyRewards.lastGlobalUpdateWeek"}),
  Call("FarmResolverV2.energyFactoryAddress", {"farm.energyFactoryAddress"})}

\* FeesCollectorResolver: lastGlobalUpdateWeek .. feesCollector
FeesCollectorFields == UNION {
  Call("FeesCollectorResolver.lastGlobalUpdateWeek", {"weeklyRewards.lastGlobalUpdateWeek"}),
  Call("FeesCollectorResolver.accumulatedFees", {"FeesCollector.getAccumulatedFees"}),
  Call("FeesCollectorResolver.lockedTokenId", {"feesCollector.lockedTokenID"}),
  Call("FeesCollectorResolver.lockedTokensPerBlock", {"feesCollector.lockedTokensPerBlock"}),
  Call("FeesCollectorResolver.allTokens", {"feesCollector.allTokens"}),
  Call("FeesCollectorResolver.knownContracts", {"feesCollector.knownContracts"}),
  Call("FeesCollectorResolver.feesCollector", {"FeesCollector.feesCollector"})}

\* UserEntryFeesCollectorResolver: accumulatedRewards .. userLastWeekRewards
FeesCollectorUserFields == UNION {
  Call("UserEntryFeesCollectorResolver.accumulatedRewards",
      {"FeesCollector.getUserAccumulatedRewards"}),
  Call("UserEntryFeesCollectorResolver.lastActiveWeekForUser",
      {"weeklyRewards.lastActiveWeekForUser"}),
  Call("UserEntryFeesCollectorResolver.claimProgress", {"weeklyRewards.currentClaimProgress"}),
  Call("UserEntryFeesCollectorResolver.userFeesCollector", {"FeesCollector.userFeesCollector"}),
  Call("UserEntryFeesCollectorResolver.claimFeesRewards",
      {"FeesCollectorTransaction.claimRewardsBatch"}),
  Call("UserEntryFeesCollectorResolver.userLastWeekRewards",
      {"FeesCollectorCompute.computeUserRewardsAPR"})}

\* GovernanceTokenSnapshotContractResolver: shard .. proposals
GovernanceFields == UNION {
  Call("GovernanceTokenSnapshotContractResolver.shard", {"governance.getAddressShardID"}),
  Call("GovernanceTokenSnapshotContractResolver.minFeeForPropose",
      {"governance.minFeeForPropose"}),
  Call("GovernanceTokenSnapshotContractResolver.quorum", {"governance.quorum"}),
  Call("GovernanceTokenSnapshotContractResolver.votingDelayInBlocks",
      {"governance.votingDelayInBlocks"}),
  Call("GovernanceTokenSnapshotContractResolver.votingPeriodInBlocks",
      {"governance.votingPeriodInBlocks"}),
  Call("GovernanceTokenSnapshotContractResolver.feeToken", {"GovernanceTokenSnapshot.feeToken"}),
  Call("GovernanceTokenSnapshotContractResolver.withdrawPercentageDefeated",
      {"governance.withdrawPercentageDefeated"}),
  Call("GovernanceTokenSnapshotContractResolver.votingPowerDecimals",
      {"governance.votingPowerDecimals"}),
  Call("GovernanceTokenSnapshotContractResolver.proposals", {"governance.proposals"})}

\* GovernanceProposalResolver: status .. userVotingPower
GovernanceProposalFields == UNION {
  Call("GovernanceProposalResolver.status", {"governance.proposalStatus"}),
  Call("GovernanceProposalResolver.rootHash", {"governance.proposalRootHash"}),
  Call("GovernanceProposalResolver.votes", {"governance.proposalVotes"}),
  Calls({"GovernanceProposalResolver.hasVoted", "GovernanceProposalResolver.userVoteType"},
      {"GovernanceTokenSnapshot.userVote"}),
  Call("GovernanceProposalResolver.userVotingPower", {"governance.userVotingPower"})}

\* GovernanceTransactionService: vote .. vote
GovernanceVoteMutation == UNION {
  Call("GovernanceTransaction.vote", {"GovernanceTokenSnapshotAbi.vote"})}

\* LockedAssetResolver: assetToken .. decodeLockedAssetAttributes
LockedAssetFields == UNION {
  Call("LockedAssetResolver.assetToken", {"LockedAssetGetter.getAssetToken"}),
  Call("LockedAssetResolver.lockedToken", {"LockedAssetGetter.getLockedToken"}),
  Call("LockedAssetResolver.unlockMilestones", {"lockedAssetFactory.defaultUnlockPeriod"}),
  Call("LockedAssetResolver.activationNonce",
      {"lockedAssetFactory.extendedAttributesActivationNonce"}),
  Call("LockedAssetResolver.lockAssets", {"TransactionsLockedAsset.lockAssets"}),
  Call("LockedAssetResolver.mergeLockedAssetTokens",
      {"TransactionsLockedAsset.mergeLockedAssetTokens"}),
  Call("LockedAssetResolver.decodeLockedAssetAttributes",
      {"LockedAsset.decodeLockedAssetAttributes"})}

\* LockedTokenWrapperResolver: lockedTokenId .. unwrapLockedToken
LockedWrapperFields == UNION {
  Call("LockedTokenWrapperResolver.lockedTokenId", {"energy.lockedTokenID"}),
  Call("LockedTokenWrapperResolver.wrappedTokenId", {"lockedTokenWrapper.wrappedTokenId"}),
  Call("LockedTokenWrapperResolver.energyFactoryAddress",
      {"lockedTokenWrapper.energyFactoryAddress"}),
  Call("LockedTokenWrapperResolver.unwrapLockedToken",
      {"LockedTokenWrapperTransaction.unwrapLockedToken"})}

\* MetabondingResolver: lockedAssetToken .. stakeLockedAssetMetabonding
MetabondingFields == UNION {
  Call("MetabondingResolver.lockedAssetToken", {"Metabonding.lockedAssetToken"}),
  Call("MetabondingResolver.lockedAssetTokenSupply", {"metabonding.totalLockedAssetSupply"}),
  Call("MetabondingResolver.metabondingStakedPosition", {"metabonding.userEntry"}),
  Call("MetabondingResolver.stakeLockedAssetMetabonding",
      {"MetabondingTransaction.stakeLockedAsset"})}

\* PairResolver: firstToken .. whitelistedManagedAddresses
PairFields == UNION {
  Call("PairResolver.firstToken", {"Pair.getFirstToken"}),
  Call("PairResolver.secondToken", {"Pair.getSecondToken"}),
  Call("PairResolver.liquidityPoolToken", {"Pair.getLpToken"}),
  Call("PairResolver.firstTokenPrice", {"pair.firstTokenPrice"}),
  Call("PairResolver.firstTokenPriceUSD", {"pair.firstTokenPriceUSD"}),
  Call("PairResolver.secondTokenPriceUSD", {"pair.secondTokenPriceUSD"}),
  Call("PairResolver.secondTokenPrice", {"pair.secondTokenPrice"}),
  Call("PairResolver.liquidityPoolTokenPriceUSD", {"pair.lpTokenPriceUSD"}),
  Call("PairResolver.firstTokenLockedValueUSD", {"pair.firstTokenLockedValueUSD"}),
  Call("PairResolver.secondTokenLockedValueUSD", {"pair.secondTokenLockedValueUSD"}),
  Call("PairResolver.lockedValueUSD", {"pair.lockedValueUSD"}),
  Call("PairResolver.firstTokenVolume24h", {"pair.firstTokenVolume"}),
  Call("PairResolver.secondTokenVolume24h", {"pair.secondTokenVolume"}),
  Call("PairResolver.volumeUSD24h", {"pair.volumeUSD"}),
  Call("PairResolver.feesUSD24h", {"pair.feesUSD"}),
  Call("PairResolver.feesAPR", {"pair.feesAPR"}),
  Call("PairResolver.info", {"pair.pairInfoMetadata"}),
  Call("PairResolver.totalFeePercent", {"pair.totalFeePercent"}),
  Call("PairResolver.specialFeePercent", {"pair.specialFeePercent"}),
  Call("PairResolver.feesCollectorCutPercentage", {"pair.feesCollectorCutPercentage"}),
  Call("PairResolver.type", {"pair.type"}),
  Call("PairResolver.trustedSwapPairs", {"pair.trustedSwapPairs"}),
  Call("PairResolver.state", {"pair.state"}),
  Call("PairResolver.feeState", {"pair.feeState"}),
  Call("PairResolver.lockedTokensInfo", {"Pair.getLockedTokensInfo"}),
  Call("PairResolver.whitelistedManagedAddresses", {"pair.whitelistedAddresses"})}

\* PairResolver: initialLiquidityAdder .. updateAndGetSafePrice
PairQueries == UNION {
  Call("PairResolver.initialLiquidityAdder", {"pair.initialLiquidityAdder"}),
  Call("PairResolver.feeDestinations", {"pair.feeDestinations"}),
  Call("PairResolver.feesCollector", {"pair.feesCollectorAddress"}),
  Call("PairResolver.hasFarms", {"pair.hasFarms"}),
  Call("PairResolver.hasDualFarms", {"pair.hasDualFarms"}),
  Call("PairResolver.tradesCount", {"pair.tradesCount"}),
  Call("PairResolver.deployedAt", {"pair.deployedAt"}),
  Call("PairResolver.getAmountOut", {"Pair.getAmountOut"}),
  Call("PairResolver.getAmountIn", {"Pair.getAmountIn"}),
  Call("PairResolver.getEquivalent", {"Pair.getEquivalentForLiquidity"}),
  Call("PairResolver.getLiquidityPosition", {"Pair.getLiquidityPosition"}),
  Call("PairResolver.getFeeState", {"pair.feeState"}),
  Call("PairResolver.getRouterManagedAddress", {"pair.routerAddress"}),
  Call("PairResolver.addInitialLiquidityBatch", {"PairTransaction.addInitialLiquidityBatch"}),
  Call("PairResolver.addLiquidityBatch", {"PairTransaction.addLiquidityBatch"}),
  Call("PairResolver.updateAndGetSafePrice", {"PairAbi.updateAndGetSafePrice"})}

\* PairResolver: addLiquidity .. setFeePercents
PairMutations == UNION {
  Call("PairResolver.addLiquidity", {"PairTransaction.addLiquidity"}),
  Call("PairResolver.removeLiquidity", {"PairTransaction.removeLiquidity"}),
  Call("PairResolver.swapTokensFixedInput", {"PairTransaction.swapTokensFixedInput"}),
  Call("PairResolver.swapTokensFixedOutput", {"PairTransaction.swapTokensFixedOutput"}),
  Calls({"PairResolver.whitelist", "PairResolver.removeWhitelist",
         "PairResolver.addTrustedSwapPair", "PairResolver.removeTrustedSwapPair",
         "PairResolver.pausePair", "PairResolver.resumePair",
         "PairResolver.setStateActiveNoSwaps", "PairResolver.setFeePercents"},
      {"Pair.requireOwner"})}

\* PairResolver: setLockingDeadlineEpoch .. setUnlockEpoch
PairLockMutations == UNION {
  Calls({"PairResolver.setLockingDeadlineEpoch", "PairResolver.setLockingScAddress",
         "PairResolver.setUnlockEpoch"}, {"Pair.requireOwner"})}

\* PriceDiscoveryResolver: launchedToken .. lockingScAddress
PriceDiscoveryFields == UNION {
  Call("PriceDiscoveryResolver.launchedToken", {"PriceDiscovery.getLaunchedToken"}),
  Call("PriceDiscoveryResolver.acceptedToken", {"PriceDiscovery.getAcceptedToken"}),
  Call("PriceDiscoveryResolver.redeemToken", {"PriceDiscovery.getRedeemToken"}),
  Call("PriceDiscoveryResolver.launchedTokenAmount", {"priceDiscovery.launchedTokenAmount"}),
  Call("PriceDiscoveryResolver.acceptedTokenAmount", {"priceDiscovery.acceptedTokenAmount"}),
  Call("PriceDiscoveryResolver.launchedTokenRedeemBalance",
      {"priceDiscovery.launchedTokenRedeemAmount"}),
  Call("PriceDiscoveryResolver.acceptedTokenRedeemBalance",
      {"priceDiscovery.acceptedTokenRedeemAmount"}),
  Call("PriceDiscoveryResolver.launchedTokenPrice", {"priceDiscovery.launchedTokenPrice"}),
  Call("PriceDiscoveryResolver.acceptedTokenPrice", {"priceDiscovery.acceptedTokenPrice"}),
  Call("PriceDiscoveryResolver.launchedTokenPriceUSD", {"priceDiscovery.launchedTokenPriceUSD"}),
  Call("PriceDiscoveryResolver.acceptedTokenPriceUSD", {"priceDiscovery.acceptedTokenPriceUSD"}),
  Call("PriceDiscoveryResolver.startBlock", {"priceDiscovery.startBlock"}),
  Call("PriceDiscoveryResolver.endBlock", {"priceDiscovery.endBlock"}),
  Call("PriceDiscoveryResolver.currentPhase", {"priceDiscovery.currentPhase"}),
  Call("PriceDiscoveryResolver.minLaunchedTokenPrice", {"priceDiscovery.minLaunchedTokenPrice"}),
  Call("PriceDiscoveryResolver.noLimitPhaseDurationBlocks",
      {"priceDiscovery.noLimitPhaseDurationBlocks"}),
  Call("PriceDiscoveryResolver.linearPenaltyPhaseDurationBlocks",
      {"priceDiscovery.linearPenaltyPhaseDurationBlocks"}),
  Call("PriceDiscoveryResolver.fixedPenaltyPhaseDurationBlocks",
      {"priceDiscovery.fixedPenaltyPhaseDurationBlocks"}),
  Call("PriceDiscoveryResolver.lockingSC", {"PriceDiscovery.getLockingSC"}),
  Call("PriceDiscoveryResolver.lockingScAddress", {"priceDiscovery.lockingScAddress"})}

\* PriceDiscoveryResolver: unlockEpoch .. closingValues
PriceDiscoveryQueries == UNION {
  Call("PriceDiscoveryResolver.unlockEpoch", {"priceDiscovery.unlockEpoch"}),
  Call("PriceDiscoveryResolver.penaltyMinPercentage", {"priceDiscovery.penaltyMinPercentage"}),
  Call("PriceDiscoveryResolver.penaltyMaxPercentage", {"priceDiscovery.penaltyMaxPercentage"}),
  Call("PriceDiscoveryResolver.fixedPenaltyPercentage", {"priceDiscovery.fixedPenaltyPercentage"}),
  Call("PriceDiscoveryResolver.depositBatchOnPriceDiscovery",
      {"PriceDiscoveryTransaction.depositBatch"}),
  Call("PriceDiscoveryResolver.depositOnPriceDiscovery", {"PriceDiscoveryTransaction.deposit"}),
  Calls({"PriceDiscoveryResolver.withdrawBatchFromPriceDiscovery",
         "PriceDiscoveryResolver.redeemTokensBatchFromPriceDiscovery"},
      {"PriceDiscoveryTransaction.genericBatchRedeemInteraction"}),
  Calls({"PriceDiscoveryResolver.withdrawFromPriceDiscovery",
         "PriceDiscoveryResolver.redeemTokensFromPriceDiscovery"},
      {"PriceDiscoveryTransaction.genericRedeemInteraction"}),
  Call("PriceDiscoveryResolver.closingValues", {"priceDiscovery.closingValues"})}

\* ProxyResolver: lockedAssetTokens .. intermediatedFarms
ProxyFields == UNION {
  Call("ProxyResolver.lockedAssetTokens", {"Proxy.getlockedAssetToken"}),
  Call("ProxyResolver.wrappedLpToken", {"Proxy.getwrappedLpToken"}),
  Call("ProxyResolver.wrappedFarmToken", {"Proxy.getwrappedFarmToken"}),
  Call("ProxyResolver.assetToken", {"Proxy.getAssetToken"}),
  Call("ProxyResolver.intermediatedPairs", {"proxyPair.intermediatedPairs"}),
  Call("ProxyResolver.intermediatedFarms", {"proxyFarm.intermediatedFarms"})}

\* ProxyTransactionResolver: addLiquidityProxyBatch .. mergeWrappedFarmTokens
ProxyTransactionsFirst == UNION {
  Call("ProxyTransactionResolver.addLiquidityProxyBatch",
      {"ProxyPairTransactions.addLiquidityProxyBatch"}),
  Call("ProxyTransactionResolver.addLiquidityProxy", {"ProxyPairTransactions.addLiquidityProxy"}),
  Call("ProxyTransactionResolver.removeLiquidityProxy",
      {"Proxy.getProxyAddressByToken", "ProxyPairTransactions.removeLiquidityProxy"}),
  Call("ProxyTransactionResolver.exitFarmProxy",
      {"Proxy.getProxyAddressByToken", "ProxyFarmTransactions.exitFarmProxy"}),
  Calls({"ProxyTransactionResolver.claimFarmRewardsProxy",
         "ProxyTransactionResolver.mergeWrappedLpTokens",
         "ProxyTransactionResolver.mergeWrappedFarmTokens"}, {"Proxy.getProxyAddressByToken"})}

\* ProxyTransactionResolver: compoundRewardsProxy .. migrateToNewFarmProxy
ProxyTransactionsSecond == UNION {
  Calls({"ProxyTransactionResolver.compoundRewardsProxy",
         "ProxyTransactionResolver.migrateToNewFarmProxy"}, {"Proxy.getProxyAddressByToken"})}

\* WrappedFarmTokenResolverV2: farmTokenAttributes .. lockedLpProxyTokenAttributes
WrappedFarmV2Fields == UNION {
  Call("WrappedFarmTokenResolverV2.farmTokenAttributes", {"ID.decodedAttributes"}),
  Call("WrappedFarmTokenResolverV2.lockedLpProxyTokenAttributes",
      {"MXApi.getNftByTokenIdentifier"})}

\* WrappedFarmTokenResolver: farmTokenAttributes .. lockedLpProxyTokenAttributes
WrappedFarmFields == UNION {
  Call("WrappedFarmTokenResolver.farmTokenAttributes",
      {"ID.decodedAttributes", "Proxy.getProxyAddressByToken"}),
  Call("WrappedFarmTokenResolver.lockedAssetsAttributes",
      {"Proxy.getLockedAssetsAttributes", "Proxy.getProxyAddressByToken",
       "proxy.lockedAssetTokenID"}),
  Call("WrappedFarmTokenResolver.lockedLpProxyTokenAttributes",
      {"MXApi.getNftByTokenIdentifier", "Proxy.getProxyAddressByToken",
       "proxyPair.wrappedLpTokenID"})}

\* WrappedLpTokenAttributesResolverV2: lockedAssetsAttributes .. lockedAssetsAttributes
WrappedLpV2Fields == UNION {
  Call("WrappedLpTokenAttributesResolverV2.lockedAssetsAttributes",
      {"ID.decodedAttributes", "Proxy.getLockedAssetsAttributes",
       "lockedAssetFactory.lockedTokenID"})}

\* WrappedLpTokenResolver: lockedAssetsAttributes .. lockedAssetsAttributes
WrappedLpFields == UNION {
  Call("WrappedLpTokenResolver.lockedAssetsAttributes",
      {"Proxy.getLockedAssetsAttributes", "Proxy.getProxyAddressByToken",
       "proxy.lockedAssetTokenID"})}

\* RouterResolver: commonTokensForUserPairs .. temporaryOwnerPeriod
RouterFields == UNION {
  Call("RouterResolver.commonTokensForUserPairs", {"router.commonTokensForUserPairs"}),
  Call("RouterResolver.enableSwapByUserConfig",
      {"router.commonTokensForUserPairs", "router.enableSwapByUserConfig"}),
  Call("RouterResolver.pairCount", {"router.pairCount"}),
  Call("RouterResolver.totalTxCount", {"router.totalTxCount"}),
  Call("RouterResolver.totalValueLockedUSD", {"router.totalLockedValueUSD"}),
  Call("RouterResolver.totalVolumeUSD24h", {"router.totalVolumeUSD"}),
  Call("RouterResolver.totalFeesUSD24h", {"router.totalFeesUSD"}),
  Call("RouterResolver.maintenance", {"flag.MAINTENANCE"}),
  Call("RouterResolver.multiSwapStatus", {"RemoteConfigGetter.getMultiSwapStatus"}),
  Call("RouterResolver.pairCreationEnabled", {"router.pairCreationEnabled"}),
  Call("RouterResolver.state", {"router.state"}),
  Call("RouterResolver.owner", {"router.owner"}),
  Call("RouterResolver.pairTemplateAddress", {"router.pairTemplateAddress"}),
  Call("RouterResolver.temporaryOwnerPeriod", {"router.temporaryOwnerPeriod"})}

\* RouterResolver: pairAddresses .. setPairCreationEnabled
RouterQueries == UNION {
  Call("RouterResolver.pairAddresses", {"router.pairsAddress"}),
  Call("RouterResolver.pairs", {"Router.getAllPairs"}),
  Call("RouterResolver.filteredPairs", {"Router.getFilteredPairs"}),
  Call("RouterResolver.createPair", {"RouterTransaction.createPair"}),
  Call("RouterResolver.upgradePair", {"Router.requireOwner", "RouterTransaction.upgradePair"}),
  Call("RouterResolver.issueLPToken", {"RouterTransaction.issueLpToken"}),
  Calls({"RouterResolver.setState", "RouterResolver.setFee",
         "RouterResolver.setPairCreationEnabled"}, {"Router.requireOwner"})}

\* RouterResolver: clearPairTemporaryOwnerStorage .. setSwapEnabledByUser
RouterMutations == UNION {
  Calls({"RouterResolver.clearPairTemporaryOwnerStorage",
         "RouterResolver.setTemporaryOwnerPeriod", "RouterResolver.setPairTemplateAddress",
         "RouterResolver.setLocalRolesOwner"}, {"Router.requireOwner"}),
  Call("RouterResolver.removePair", {"Router.requireOwner", "RouterTransaction.removePair"}),
  Call("RouterResolver.setSwapEnabledByUser", {"RouterTransaction.setSwapEnabledByUser"})}

\* SwapEnableConfigResolver: lockingSC .. lockingSC
SwapEnableFields == UNION {
  Call("SwapEnableConfigResolver.lockingSC", {"SimpleLock.getSimpleLockAddressByTokenID"})}

\* LockedFarmTokenResolver: farmingTokenAttributes .. farmTokenAttributes
LockedFarmFields == UNION {
  Call("LockedFarmTokenResolver.farmingTokenAttributes", {"ID.decodedAttributes"}),
  Call("LockedFarmTokenResolver.farmTokenAttributes",
      {"ID.decodedAttributes", "SimpleLock.getSimpleLockAddressByTokenID"})}

\* LockedLpTokenResolver: firstTokenLockedAttributes .. secondTokenLockedAttributes
LockedLpFields == UNION {
  Calls({"LockedLpTokenResolver.firstTokenLockedAttributes",
         "LockedLpTokenResolver.secondTokenLockedAttributes"},
      {"SimpleLock.getLockedTokenAttributes"})}

\* SimpleLockResolver: lockedToken .. intermediatedFarms
SimpleLockFields == UNION {
  Call("SimpleLockResolver.lockedToken", {"SimpleLock.getLockedToken"}),
  Call("SimpleLockResolver.lpProxyToken", {"SimpleLock.getLpProxyToken"}),
  Call("SimpleLockResolver.farmProxyToken", {"SimpleLock.getFarmProxyToken"}),
  Call("SimpleLockResolver.intermediatedPairs", {"simpleLock.intermediatedPairs"}),
  Call("SimpleLockResolver.intermediatedFarms", {"simpleLock.intermediatedFarms"})}

\* TransactionResolver: lockTokens .. exitFarmLockedToken
SimpleLockTransactions == UNION {
  Call("TransactionResolver.lockTokens", {"SimpleLockTransaction.lockTokens"}),
  Calls({"TransactionResolver.unlockTokens", "TransactionResolver.enterFarmLockedToken"},
      {"SimpleLock.getSimpleLockAddressFromInputTokens"}),
  Call("TransactionResolver.addLiquidityLockedTokenBatch",
      {"SimpleLock.getSimpleLockAddressFromInputTokens",
       "SimpleLockTransaction.addLiquidityLockedTokenBatch"}),
  Call("TransactionResolver.removeLiquidityLockedToken",
      {"SimpleLock.getSimpleLockAddressFromInputTokens",
       "SimpleLockTransaction.removeLiquidityLockedToken"}),
  Call("TransactionResolver.exitFarmLockedToken",
      {"ID.farmAddress", "SimpleLock.getSimpleLockAddressFromInputTokens",
       "SimpleLockTransaction.exitFarmLockedToken", "SimpleLockTransaction.exitFarmOldToken",
       "simpleLock.lockedTokenID"})}

\* TransactionResolver: claimRewardsFarmLockedToken .. claimRewardsFarmLockedToken
SimpleLockClaims == UNION {
  Call("TransactionResolver.claimRewardsFarmLockedToken",
      {"SimpleLock.getSimpleLockAddressFromInputTokens",
       "SimpleLockTransaction.farmClaimRewardsLockedToken"})}

\* StakingProxyResolver: lpFarmAddress .. getUnstakeTokensReceived
StakingProxyFields == UNION {
  Call("StakingProxyResolver.lpFarmAddress", {"stakeProxy.lpFarmAddress"}),
  Call("StakingProxyResolver.stakingFarmAddress", {"stakeProxy.stakingFarmAddress"}),
  Call("StakingProxyResolver.pairAddress", {"stakeProxy.pairAddress"}),
  Call("StakingProxyResolver.stakingToken", {"StakingProxy.getStakingToken"}),
  Call("StakingProxyResolver.farmToken", {"StakingProxy.getFarmToken"}),
  Call("StakingProxyResolver.dualYieldToken", {"StakingProxy.getDualYieldToken"}),
  Call("StakingProxyResolver.lpFarmToken", {"StakingProxy.getLpFarmToken"}),
  Call("StakingProxyResolver.stakingProxies", {"StakingProxy.getStakingProxies"}),
  Call("StakingProxyResolver.stakeFarmTokens", {"StakingProxyTransaction.stakeFarmTokens"}),
  Call("StakingProxyResolver.claimDualYield", {"StakingProxyTransaction.claimDualYield"}),
  Call("StakingProxyResolver.unstakeFarmTokens", {"StakingProxyTransaction.unstakeFarmTokens"}),
  Call("StakingProxyResolver.getDualYieldRewardsForPosition",
      {"StakingProxy.getBatchRewardsForPosition"}),
  Call("StakingProxyResolver.getUnstakeTokensReceived", {"StakingProxy.getUnstakeTokensReceived"})}

\* StakingResolver: farmToken .. getStakingRewardsForPosition
StakingFields == UNION {
  Call("StakingResolver.farmToken", {"Staking.getFarmToken"}),
  Call("StakingResolver.farmingToken", {"Staking.getFarmingToken"}),
  Call("StakingResolver.rewardToken", {"Staking.getRewardToken"}),
  Call("StakingResolver.farmTokenSupply", {"stake.farmTokenSupply"}),
  Call("StakingResolver.rewardPerShare", {"stake.rewardPerShare"}),
  Call("StakingResolver.accumulatedRewards", {"stake.accumulatedRewards"}),
  Call("StakingResolver.rewardCapacity", {"stake.rewardCapacity"}),
  Call("StakingResolver.annualPercentageRewards", {"stake.annualPercentageRewards"}),
  Call("StakingResolver.apr", {"stake.stakeFarmAPR"}),
  Call("StakingResolver.minUnboundEpochs", {"stake.minUnbondEpochs"}),
  Call("StakingResolver.perBlockRewards", {"stake.perBlockRewardsAmount"}),
  Call("StakingResolver.lastRewardBlockNonce", {"stake.lastRewardBlockNonce"}),
  Call("StakingResolver.rewardsRemainingDays", {"StakingCompute.computeRewardsRemainingDays"}),
  Call("StakingResolver.divisionSafetyConstant", {"stake.divisionSafetyConstant"}),
  Call("StakingResolver.produceRewardsEnabled", {"stake.produceRewardsEnabled"}),
  Call("StakingResolver.lockedAssetFactoryManagedAddress", {"stake.lockedAssetFactoryAddress"}),
  Call("StakingResolver.pairContractManagedAddress", {"stake.pairContractAddress"}),
  Call("StakingResolver.burnGasLimit", {"stake.burnGasLimit"}),
  Call("StakingResolver.transferExecGasLimit", {"stake.transferExecGasLimit"}),
  Call("StakingResolver.state", {"stake.state"}),
  Call("StakingResolver.deployedAt", {"stake.deployedAt"}),
  Call("StakingResolver.getLastErrorMessage", {"stake.lastErrorMessage"}),
  Call("StakingResolver.unboundTokenAttributes", {"Staking.decodeUnboundTokenAttributes"}),
  Call("StakingResolver.getStakingRewardsForPosition", {"Staking.getBatchRewardsForPosition"})}

\* StakingResolver: getOptimalCompoundFrequency .. setMaxApr
StakingQueries == UNION {
  Call("StakingResolver.getOptimalCompoundFrequency",
      {"StakingCompute.computeOptimalCompoundFrequency"}),
  Call("StakingResolver.stakingFarms", {"Staking.getFarmsStaking"}),
  Call("StakingResolver.filteredStakingFarms", {"Staking.getFilteredFarmsStaking"}),
  Call("StakingResolver.stakeFarm", {"StakingTransaction.stakeFarm"}),
  Calls({"StakingResolver.setPenaltyPercent", "StakingResolver.setMinimumFarmingEpochs",
         "StakingResolver.setPerBlockRewardAmount", "StakingResolver.setMaxApr"},
      {"Staking.requireOwner"})}

\* StakingResolver: setMinUnbondEpochs .. resumeStaking
StakingMutations == UNION {
  Calls({"StakingResolver.setMinUnbondEpochs", "StakingResolver.startProduceRewards",
         "StakingResolver.endProduceRewards", "StakingResolver.setBurnGasLimit",
         "StakingResolver.setTransferExecGasLimit", "StakingResolver.addAddressToWhitelist",
         "StakingResolver.removeAddressFromWhitelist", "StakingResolver.registerFarmToken",
         "StakingResolver.pauseStaking", "StakingResolver.resumeStaking"},
      {"Staking.requireOwner"})}

\* StakingResolver: setLocalRolesFarmToken .. setLocalRolesFarmToken
StakingRoles == UNION {
  Call("StakingResolver.setLocalRolesFarmToken", {"Staking.requireOwner"})}

\* StakingResolver: topUpRewards .. topUpRewards
StakingTopUp == UNION {
  Call("StakingResolver.topUpRewards", {"Staking.requireOwner"})}

\* TokenUnstakeResolver: unbondEpochs .. cancelUnbond
TokenUnstakeFields == UNION {
  Call("TokenUnstakeResolver.unbondEpochs", {"tokenUnstake.unbondEpochs"}),
  Call("TokenUnstakeResolver.feesBurnPercentage", {"tokenUnstake.feesBurnPercentage"}),
  Call("TokenUnstakeResolver.feesCollectorAddress", {"tokenUnstake.feesCollectorAddress"}),
  Call("TokenUnstakeResolver.energyFactoryAddress", {"tokenUnstake.energyFactoryAddress"}),
  Call("TokenUnstakeResolver.getUnlockedTokensForUser", {"tokenUnstake.unlockedTokensForUser"}),
  Call("TokenUnstakeResolver.claimUnlockedTokens",
      {"TokenUnstakeTransaction.claimUnlockedTokens"}),
  Call("TokenUnstakeResolver.cancelUnbond", {"TokenUnstakeTransaction.cancelUnbond"})}

\* TokenController: createToken .. updateToken
TokenEndpoints == UNION {
  Call("TokenController.createToken", {"EntityRepository.create"}),
  Call("TokenController.updateToken", {"TokenRepository.updateToken"})}

\* TokensResolver: derivedEGLD .. filteredTokens
TokenFields == UNION {
  Call("TokensResolver.derivedEGLD", {"token.tokenPriceDerivedEGLD"}),
  Call("TokensResolver.price", {"token.tokenPriceDerivedUSD"}),
  Call("TokensResolver.previous24hPrice", {"token.tokenPrevious24hPrice"}),
  Call("TokensResolver.type", {"token.getEsdtTokenType"}),
  Call("TokensResolver.previous7dPrice", {"token.tokenPrevious7dPrice"}),
  Call("TokensResolver.volumeUSD24h", {"token.tokenVolumeUSD24h"}),
  Call("TokensResolver.previous24hVolume", {"token.tokenPrevious24hVolumeUSD"}),
  Call("TokensResolver.liquidityUSD", {"token.tokenLiquidityUSD"}),
  Call("TokensResolver.createdAt", {"token.tokenCreatedAt"}),
  Call("TokensResolver.swapCount24h", {"TokenCompute.tokenSwapCount"}),
  Call("TokensResolver.previous24hSwapCount", {"TokenCompute.tokenPrevious24hSwapCount"}),
  Call("TokensResolver.trendingScore", {"token.tokenTrendingScore"}),
  Call("TokensResolver.tokens", {"Token.getTokens"}),
  Call("TokensResolver.filteredTokens", {"Token.getFilteredTokens"})}

\* UserInfoByWeekResolver: energyForWeek .. rewardsDistributionForWeek
UserWeekFields == UNION {
  Call("UserInfoByWeekResolver.energyForWeek", {"weeklyRewards.userEnergyForWeek"}),
  Call("UserInfoByWeekResolver.apr", {"weeklyRewards.userApr"}),
  Call("UserInfoByWeekResolver.rewardsForWeek",
      {"farm.userRewardsForWeek", "feesCollector.userRewardsForWeek"}),
  Call("UserInfoByWeekResolver.rewardsDistributionForWeek",
      {"farm.userRewardsDistributionForWeek", "feesCollector.userRewardsDistributionForWeek"})}

\* UserNftsResolver: userLockedAssetToken .. userLockedTokenEnergy
UserNftFields == UNION {
  Call("UserNftsResolver.userLockedAssetToken", {"UserMetaEsdt.getUserLockedAssetTokens"}),
  Call("UserNftsResolver.userFarmToken", {"UserMetaEsdt.getUserFarmTokens"}),
  Call("UserNftsResolver.userLockedLPToken", {"UserMetaEsdt.getUserLockedLpTokens"}),
  Call("UserNftsResolver.userLockedFarmToken", {"UserMetaEsdt.getUserLockedFarmTokens"}),
  Call("UserNftsResolver.userLockedLpTokenV2", {"UserMetaEsdt.getUserLockedLpTokensV2"}),
  Call("UserNftsResolver.userLockedFarmTokenV2", {"UserMetaEsdt.getUserLockedFarmTokensV2"}),
  Call("UserNftsResolver.userStakeFarmToken", {"UserMetaEsdt.getUserStakeFarmTokens"}),
  Call("UserNftsResolver.userUnbondFarmToken", {"UserMetaEsdt.getUserUnbondFarmTokens"}),
  Call("UserNftsResolver.userDualYieldToken", {"UserMetaEsdt.getUserDualYieldTokens"}),
  Call("UserNftsResolver.userRedeemToken", {"UserMetaEsdt.getUserRedeemToken"}),
  Call("UserNftsResolver.userLockedEsdtToken", {"UserMetaEsdt.getUserLockedEsdtToken"}),
  Call("UserNftsResolver.userLockedSimpleLpToken", {"UserMetaEsdt.getUserLockedSimpleLpToken"}),
  Call("UserNftsResolver.userLockedSimpleFarmToken",
      {"UserMetaEsdt.getUserLockedSimpleFarmToken"}),
  Call("UserNftsResolver.userLockedTokenEnergy", {"UserMetaEsdt.getUserLockedTokenEnergy"})}

\* UserNftsResolver: userWrappedLockedToken .. userWrappedLockedToken
UserWrappedFields == UNION {
  Call("UserNftsResolver.userWrappedLockedToken",
      {"UserMetaEsdt.getUserWrappedLockedTokenEnergy"})}

\* UserResolver: userTokens .. userCustomNftTokens
UserQueries == UNION {
  Calls({"UserResolver.userTokens", "UserResolver.userCustomTokens"},
      {"UserEsdt.getAllEsdtTokens"}),
  Calls({"UserResolver.nfts", "UserResolver.userCustomNftTokens"},
      {"UserMetaEsdt.getAllNftTokens"}),
  Call("UserResolver.userOutdatedContracts", {"UserEnergyCompute.getUserOutdatedContracts"}),
  Call("UserResolver.updateEnergy", {"UserEnergyTransaction.updateFarmsEnergyForUser"})}

\* UserTokenResolver: type .. type
UserTokenFields == UNION {
  Call("UserTokenResolver.type", {"TokensResolver.type"})}

\* WrapResolver: wrappedToken .. unwrapEgld
WrapFields == UNION {
  Call("WrapResolver.wrappedToken", {"Wrap.wrappedEgldToken"}),
  Call("WrapResolver.unwrapEgld", {"WrapTransactions.unwrapEgld"})}

\* WeekTimekeepingResolver: firstWeekStartEpoch .. weeklyTimekeeping
WeekFields == UNION {
  Call("WeekTimekeepingResolver.firstWeekStartEpoch", {"weekTimekeeping.firstWeekStartEpoch"}),
  Calls({"WeekTimekeepingResolver.currentWeek", "WeekTimekeepingResolver.weeklyTimekeeping"},
      {"weekTimekeeping.currentWeek"}),
  Call("WeekTimekeepingResolver.startEpochForWeek", {"weekTimekeeping.startEpochForWeek"}),
  Call("WeekTimekeepingResolver.endEpochForWeek", {"weekTimekeeping.endEpochForWeek"})}

\* GlobalInfoByWeekResolver: totalRewardsForWeek .. apr
GlobalWeekFields == UNION {
  Call("GlobalInfoByWeekResolver.totalRewardsForWeek", {"weeklyRewards.totalRewardsForWeek"}),
  Call("GlobalInfoByWeekResolver.totalEnergyForWeek", {"weeklyRewards.totalEnergyForWeek"}),
  Call("GlobalInfoByWeekResolver.rewardsDistributionForWeek",
      {"WeeklyRewardsSplittingCompute.computeDistribution", "weeklyRewards.totalRewardsForWeek"}),
  Call("GlobalInfoByWeekResolver.totalLockedTokensForWeek",
      {"weeklyRewards.totalLockedTokensForWeek"}),
  Call("GlobalInfoByWeekResolver.apr", {"weeklyRewards.weekAPR"})}

\* UserInfoByWeekSubResolver: lastActiveWeekForUser .. claimProgress
UserWeekSubFields == UNION {
  Call("UserInfoByWeekSubResolver.lastActiveWeekForUser", {"weeklyRewards.lastActiveWeekForUser"}),
  Call("UserInfoByWeekSubResolver.claimProgress", {"weeklyRewards.currentClaimProgress"})}

\* All rows of the module.
ResolverRows == UNION {
  PairDayFields, AnalyticsQueriesServed, PriceCandlesServed,
  AutoRouterQuery, AutoRouterTransactionsServed, DistributionFields,
  EnergyFields, EnergyMutations, EscrowFields,
  EscrowPermissionFields, FarmFields, FarmCustomFields,
  FarmQueries, FarmAdminFirst, FarmAdminSecond,
  FarmV12Fields, FarmV13Fields, FarmV2Fields,
  FeesCollectorFields, FeesCollectorUserFields, GovernanceFields,
  GovernanceProposalFields, GovernanceVoteMutation, LockedAssetFields,
  LockedWrapperFields, MetabondingFields, PairFields,
  PairQueries, PairMutations, PairLockMutations,
  PriceDiscoveryFields, PriceDiscoveryQueries, ProxyFields,
  ProxyTransactionsFirst, ProxyTransactionsSecond, WrappedFarmV2Fields,
  WrappedFarmFields, WrappedLpV2Fields, WrappedLpFields,
  RouterFields, RouterQueries, RouterMutations,
  SwapEnableFields, LockedFarmFields, LockedLpFields,
  SimpleLockFields, SimpleLockTransactions, SimpleLockClaims,
  StakingProxyFields, StakingFields, StakingQueries,
  StakingMutations, StakingRoles, StakingTopUp,
  TokenUnstakeFields, TokenEndpoints, TokenFields,
  UserWeekFields, UserNftFields, UserWrappedFields,
  UserQueries, UserTokenFields, WrapFields,
  WeekFields, GlobalWeekFields, UserWeekSubFields}
==============================================================================
