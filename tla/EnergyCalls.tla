---------------------------- MODULE EnergyCalls ----------------------------
\* Calls of the energy, fees-collector, week-timekeeping, weekly-rewards, token-unstake,
\* escrow, simple-lock and locked-token-wrapper services.
EXTENDS ServiceCalls

\* EnergyAbiService: baseAssetTokenID .. getEnergyEntryForUserRaw
EnergyTokensAndEntries == UNION {
  Views({"energy.baseAssetTokenID", "energy.lockedTokenID", "energy.legacyLockedTokenID"}, Token,
      {"contract"}),
  Views({"energy.lockOptions", "energy.tokenUnstakeScAddress"}, ContractState, {"contract"}),
  View("energy.ownerAddress", ContractState, {"MXApi.getAccountStats"}),
  View("energy.energyEntryForUser", Minute, {"EnergyAbi.getEnergyEntryForUserRaw"}),
  Call("EnergyAbi.getEnergyEntryForUserRaw", {"contract"})}

\* EnergyAbiService: energyAmountForUser .. isPausedRaw
EnergyAmountsAndState == UNION {
  View("energy.energyAmountForUser", Ttl(1, 1), {"contract"}),
  Calls({"EnergyAbi.getPenaltyAmount", "EnergyAbi.isPausedRaw"}, {"contract"}),
  View("energy.isPaused", ContractState, {"EnergyAbi.isPausedRaw"})}

\* EnergyComputeService: computePenaltyAmount .. computePenaltyPercentagePartialUnlock
EnergyPenalties == UNION {
  Call("EnergyCompute.computePenaltyAmount",
      {"EnergyCompute.computePenaltyPercentageFullUnlock",
       "EnergyCompute.computePenaltyPercentagePartialUnlock"}),
  Call("EnergyCompute.computePenaltyPercentageFullUnlock", {"energy.lockOptions"}),
  Call("EnergyCompute.computePenaltyPercentagePartialUnlock",
      {"EnergyCompute.computePenaltyPercentageFullUnlock"})}

\* EnergyService: getBaseAssetToken .. getPenaltyAmount
EnergyService_ == UNION {
  Call("EnergyService.getBaseAssetToken", {"energy.baseAssetTokenID", "token.metadata"}),
  Call("EnergyService.getLockedToken", {"energy.lockedTokenID", "token.collection"}),
  Call("EnergyService.getLegacyLockedToken", {"energy.legacyLockedTokenID", "token.collection"}),
  Call("EnergyService.getUserEnergy",
      {"EnergyAbi.getEnergyEntryForUserRaw", "context.currentEpoch", "energy.energyEntryForUser"}),
  Call("EnergyService.getPenaltyAmount",
      {"EnergyAbi.getPenaltyAmount", "EnergyCompute.computePenaltyAmount",
       "context.currentEpoch", "energy.lockOptions"})}

\* FeesCollectorAbiService: accumulatedFees .. getKnownContractsRaw
FeesCollectorState == UNION {
  View("feesCollector.accumulatedFees", ContractBalance, {"contract"}),
  Views({"feesCollector.lockedTokenID", "feesCollector.lockedTokensPerBlock",
         "feesCollector.allTokens", "feesCollector.knownContracts"}, ContractInfo, {"contract"})}

\* FeesCollectorComputeService: userRewardsForWeek .. computeAccumulatedFeesUntilNow
FeesCollectorRewards == UNION {
  View("feesCollector.userRewardsForWeek", ContractBalance,
      {"weeklyRewards.totalEnergyForWeek", "weeklyRewards.totalRewardsForWeek",
       "weeklyRewards.userEnergyForWeek"}),
  View("feesCollector.userRewardsDistributionForWeek", ContractState,
      {"WeeklyRewardsSplittingCompute.computeDistribution"}),
  View("feesCollector.accumulatedFeesUntilNow", ContractBalance,
      {"FeesCollectorCompute.computeBlocksInWeek", "feesCollector.lockedTokensPerBlock"})}

\* FeesCollectorComputeService: computeUserRewardsAPR .. computeBlocksInWeek
FeesCollectorAPR == UNION {
  Call("FeesCollectorCompute.computeUserRewardsAPR",
      {"EnergyService.getUserEnergy", "TokenCompute.computeTokenPriceDerivedUSD",
       "energy.baseAssetTokenID", "token.metadata", "weekTimekeeping.currentWeek",
       "weeklyRewards.totalEnergyForWeek", "weeklyRewards.totalRewardsForWeekUSD"}),
  Call("FeesCollectorCompute.computeBlocksInWeek",
      {"context.blocksCountInEpoch", "context.currentEpoch", "weekTimekeeping.startEpochForWeek"})}

\* FeesCollectorService: getAccumulatedFees .. userFeesCollector
FeesCollectorUser == UNION {
  Call("FeesCollector.getAccumulatedFees",
      {"feesCollector.accumulatedFees", "feesCollector.accumulatedFeesUntilNow",
       "feesCollector.lockedTokenID"}),
  Call("FeesCollector.feesCollector", {"feesCollector.allTokens", "weekTimekeeping.currentWeek"}),
  Call("FeesCollector.userFeesCollector",
      {"weekTimekeeping.currentWeek", "weeklyRewards.lastActiveWeekForUser"})}

\* FeesCollectorService: getUserAccumulatedRewards .. getUserAccumulatedRewards
FeesCollectorAccumulated == UNION {
  Call("FeesCollector.getUserAccumulatedRewards",
      {"FeesCollector.getAccumulatedFees", "feesCollector.allTokens",
       "weeklyRewards.currentClaimProgress", "weeklyRewards.totalEnergyForWeek"})}

\* WeekTimekeepingAbiService: currentWeek .. firstWeekStartEpochRaw
WeekEpochs == UNION {
  Views({"weekTimekeeping.currentWeek", "weekTimekeeping.firstWeekStartEpoch"}, ContractState,
      {"contract"})}

\* WeekTimekeepingComputeService: weekForEpoch .. computeEndEpochForWeek
WeekBounds == UNION {
  View("weekTimekeeping.weekForEpoch", ContractState, {"weekTimekeeping.firstWeekStartEpoch"}),
  Views({"weekTimekeeping.startEpochForWeek", "weekTimekeeping.endEpochForWeek"}, ContractState,
      {"WeekTimekeepingCompute.computeStartEpochForWeek"}),
  Call("WeekTimekeepingCompute.computeStartEpochForWeek", {"weekTimekeeping.firstWeekStartEpoch"})}

\* WeeklyRewardsSplittingAbiService: currentClaimProgress .. lastActiveWeekForUser
WeeklyClaimProgress == UNION {
  Views({"weeklyRewards.currentClaimProgress",
         "weeklyRewards.lastActiveWeekForUser"}, ContractBalance, {"contract"}),
  View("weeklyRewards.userEnergyForWeek", ContractBalance, {}),
  Call("WeeklyRewardsSplittingAbi.userEnergyForWeekRaw",
      {"contract", "weekTimekeeping.endEpochForWeek", "weeklyRewards.currentClaimProgress"})}

\* WeeklyRewardsSplittingAbiService: lastActiveWeekForUserRaw .. totalLockedTokensForWeekRaw
WeeklyTotals == UNION {
  Views({"weeklyRewards.lastGlobalUpdateWeek",
         "weeklyRewards.totalRewardsForWeek", "weeklyRewards.totalEnergyForWeek",
         "weeklyRewards.totalLockedTokensForWeek"}, ContractState, {"contract"})}

\* WeeklyRewardsSplittingComputeService: computeDistribution .. totalRewardsForWeekUSD
WeeklyDistribution == UNION {
  Call("WeeklyRewardsSplittingCompute.computeDistribution",
      {"TokenCompute.computeTokenPriceDerivedUSD"}),
  View("weeklyRewards.weekAPR", ContractState, {"WeeklyRewardsSplittingCompute.computeWeekAPR"}),
  Call("WeeklyRewardsSplittingCompute.computeWeekAPR",
      {"WeeklyRewardsSplittingCompute.computeTotalLockedTokensForWeekPriceUSD",
       "WeeklyRewardsSplittingCompute.computeTotalRewardsForWeekUSD",
       "weeklyRewards.totalLockedTokensForWeek"}),
  View("weeklyRewards.userApr", ContractState,
      {"WeeklyRewardsSplittingCompute.computeWeekAPR", "weeklyRewards.totalEnergyForWeek",
       "weeklyRewards.totalLockedTokensForWeek", "weeklyRewards.userEnergyForWeek"}),
  View("weeklyRewards.totalRewardsForWeekUSD", ContractState,
      {"WeeklyRewardsSplittingCompute.computeTotalRewardsForWeekUSD"})}

\* WeeklyRewardsSplittingComputeService:
\* computeTotalRewardsForWeekUSD .. computeTotalLockedTokensForWeekPriceUSD
WeeklyTotalsUSD == UNION {
  Call("WeeklyRewardsSplittingCompute.computeTotalRewardsForWeekUSD",
      {"TokenCompute.computeTokenPriceDerivedUSD", "energy.baseAssetTokenID",
       "energy.lockedTokenID", "token.metadata", "weeklyRewards.totalRewardsForWeek"}),
  Call("WeeklyRewardsSplittingCompute.computeTotalLockedTokensForWeekPriceUSD",
      {"TokenCompute.computeTokenPriceDerivedUSD", "energy.baseAssetTokenID"})}

\* UserEnergyComputeService: getUserOutdatedContracts .. userActiveFarmsV2
UserActiveContracts == UNION {
  Call("UserEnergyCompute.getUserOutdatedContracts", {"userEnergy.outdatedContract"}),
  View("userEnergy.outdatedContract", Ttl(600, 600),
      {"UserEnergyCompute.computeUserOutdatedContract"}),
  Call("UserEnergyCompute.computeUserOutdatedContract",
      {"UserEnergyCompute.computeFarmOutdatedContract",
       "UserEnergyCompute.computeFeesCollectorOutdatedContract"}),
  Calls({"UserEnergyCompute.computeFarmOutdatedContract",
         "UserEnergyCompute.computeFeesCollectorOutdatedContract"},
      {"energy.energyEntryForUser", "weekTimekeeping.currentWeek",
       "weeklyRewards.currentClaimProgress"}),
  View("userEnergy.userActiveFarmsV2", Minute,
      {"UserEnergyCompute.decodeAndGetFarmAddressFarmLockedTokens",
       "UserEnergyCompute.getFarmAddressForDualYieldToken",
       "UserMetaEsdt.getUserDualYieldTokens", "UserMetaEsdt.getUserFarmTokens",
       "UserMetaEsdt.getUserLockedFarmTokensV2"})}

\* UserEnergyComputeService: computeActiveFarmsV2ForUser .. getFarmAddressForDualYieldToken
UserActiveFarms == UNION {
  Call("UserEnergyCompute.decodeAndGetFarmAddressFarmLockedTokens", {"ID.farmAddress"}),
  Call("UserEnergyCompute.getFarmAddressForDualYieldToken",
      {"ID.stakingProxyAddress", "stakeProxy.lpFarmAddress"})}

\* TokenUnstakeAbiService: unbondEpochs .. getUnlockedTokensForUserRaw
TokenUnstakeState == UNION {
  Views({"tokenUnstake.unbondEpochs", "tokenUnstake.feesBurnPercentage",
         "tokenUnstake.feesCollectorAddress", "tokenUnstake.energyFactoryAddress"}, ContractState,
      {"contract"}),
  View("tokenUnstake.unlockedTokensForUser", ContractBalance, {"contract"})}

\* EscrowAbiService: scheduledTransfers .. receiverLastTransferEpoch
EscrowTransfers == UNION {
  View("escrow.scheduledTransfers", Day, {"EscrowAbi.getScheduledTransfersRaw"}),
  Calls({"EscrowAbi.getScheduledTransfersRaw", "EscrowAbi.getAllSendersRaw"}, {"contract"}),
  View("escrow.allSenders", Day, {"EscrowAbi.getAllSendersRaw"}),
  View("escrow.allReceivers", Day, {"EscrowAbi.getAllReceiversRaw"}),
  Call("EscrowAbi.getAllReceiversRaw", {"escrow.scKeys"}),
  Views({"escrow.senderLastTransferEpoch", "escrow.receiverLastTransferEpoch"}, Day,
      {"MXGateway.getSCStorageKeys"}),
  View("escrow.scKeys", ContractState, {"MXGateway.getSCStorageKeys"})}

\* EscrowAbiService: getReceiverLastTransferEpochRaw .. allAddressesWithPermissions
EscrowLimits == UNION {
  Views({"escrow.energyFactoryAddress", "escrow.minLockEpochs",
         "escrow.epochsCooldownDuration"}, ContractInfo, {"MXGateway.getSCStorageKeys"}),
  View("escrow.lockedTokenID", Token, {"MXGateway.getSCStorageKeys"}),
  View("escrow.addressPermission", Day,
      {"EscrowAbi.getAddressPermissionRaw", "escrow.allAddressesWithPermissions"}),
  Call("EscrowAbi.getAddressPermissionRaw", {"contract"}),
  View("escrow.allAddressesWithPermissions", Day, {"escrow.scKeys"})}

\* EscrowAbiService: getAllAddressesWithPermissionsRaw .. getAllAddressesWithPermissionsRaw
EscrowPermissions == UNION {
}

\* EscrowComputeService: isSenderAddressOnCooldown .. isSenderAddressOnCooldown
EscrowCooldown == UNION {
  Call("EscrowCompute.isSenderAddressOnCooldown",
      {"context.currentEpoch", "escrow.epochsCooldownDuration", "escrow.senderLastTransferEpoch"})}

\* SimpleLockAbiService: lockedTokenID .. getIntermediatedFarmsRaw
SimpleLockState == UNION {
  Views({"simpleLock.lockedTokenID", "simpleLock.lpProxyTokenID",
         "simpleLock.farmProxyTokenID", "simpleLock.intermediatedPairs",
         "simpleLock.intermediatedFarms"}, Token, {"contract"})}

\* SimpleLockService: getLockedToken .. getLockedTokenAttributes
SimpleLockTokens == UNION {
  Call("SimpleLock.getLockedToken", {"simpleLock.lockedTokenID", "token.collection"}),
  Call("SimpleLock.getLpProxyToken", {"simpleLock.lpProxyTokenID", "token.collection"}),
  Call("SimpleLock.getFarmProxyToken", {"simpleLock.farmProxyTokenID", "token.collection"}),
  Call("SimpleLock.getLockedTokenAttributes",
      {"MXApi.getNftAttributesByTokenIdentifier", "SimpleLock.getSimpleLockAddressByTokenID",
       "simpleLock.lockedTokenID"})}

\* SimpleLockService: getLpTokenProxyAttributes .. getLpTokenProxyAttributes
SimpleLockLpAttributes == UNION {
  View("ID.decodedAttributes", Attributes,
      {"MXApi.getNftAttributesByTokenIdentifier", "SimpleLock.getSimpleLockAddressByTokenID",
       "simpleLock.lpProxyTokenID"})}

\* SimpleLockService: getFarmTokenAttributes .. getSimpleLockAddressFromInputTokens
SimpleLockFarmAttributes == UNION {
  View("ID.decodedAttributes", Attributes,
      {"ID.farmAddress", "MXApi.getNftAttributesByTokenIdentifier"}),
  Call("SimpleLock.getSimpleLockAddressByTokenID",
      {"simpleLock.farmProxyTokenID", "simpleLock.lockedTokenID", "simpleLock.lpProxyTokenID"}),
  Call("SimpleLock.getSimpleLockAddressFromInputTokens",
      {"SimpleLock.getSimpleLockAddressByTokenID"})}

\* LockedTokenWrapperAbiService: wrappedTokenId .. energyFactoryAddressRaw
LockedTokenWrapperState == UNION {
  Views({"lockedTokenWrapper.wrappedTokenId",
         "lockedTokenWrapper.energyFactoryAddress"}, ContractInfo, {"contract"})}

\* All rows of the module.
EnergyRows == UNION {
  EnergyTokensAndEntries, EnergyAmountsAndState, EnergyPenalties,
  EnergyService_, FeesCollectorState, FeesCollectorRewards,
  FeesCollectorAPR, FeesCollectorUser, FeesCollectorAccumulated,
  WeekEpochs, WeekBounds, WeeklyClaimProgress,
  WeeklyTotals, WeeklyDistribution, WeeklyTotalsUSD,
  UserActiveContracts, UserActiveFarms, TokenUnstakeState,
  EscrowTransfers, EscrowLimits, EscrowPermissions,
  EscrowCooldown, SimpleLockState, SimpleLockTokens,
  SimpleLockLpAttributes, SimpleLockFarmAttributes, LockedTokenWrapperState}
==============================================================================
