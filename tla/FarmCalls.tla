---------------------------- MODULE FarmCalls ----------------------------
\* Calls of the farm services. The three versions of a farm share their cache keys;
\* a row of the base class and the rows of its versions add up.
EXTENDS ServiceCalls

\* FarmAbiFactory: isFarmToken .. getFarmAddressByFarmTokenID
FarmTokenLookup == UNION {
  Call("FarmAbiFactory.isFarmToken", {"farm.farmTokenID"}),
  View("ID.farmAddress", Hour, {"farm.farmTokenID"})}

\* FarmAbiService: farmedTokenID .. getMinimumFarmingEpochsRaw
FarmTokensAndEpochs == UNION {
  View("farm.farmedTokenID", Token, {"FarmAbi.getFarmedTokenIDRaw"}),
  Calls({"FarmAbi.getFarmedTokenIDRaw", "FarmAbi.getFarmTokenIDRaw",
         "FarmAbi.getFarmingTokenIDRaw", "FarmAbi.getFarmTokenSupplyRaw",
         "FarmAbi.getRewardsPerBlockRaw", "FarmAbi.getPenaltyPercentRaw",
         "FarmAbi.getMinimumFarmingEpochsRaw"}, {"contract"}),
  View("farm.farmTokenID", Token, {"FarmAbi.getFarmTokenIDRaw"}),
  View("farm.farmingTokenID", Token, {"FarmAbi.getFarmingTokenIDRaw"}),
  View("farm.farmTokenSupply", ContractInfo, {"FarmAbi.getFarmTokenSupplyRaw"}),
  View("farm.rewardsPerBlock", ContractState, {"FarmAbi.getRewardsPerBlockRaw"}),
  View("farm.penaltyPercent", ContractState, {"FarmAbi.getPenaltyPercentRaw"}),
  View("farm.minimumFarmingEpochs", ContractState, {"FarmAbi.getMinimumFarmingEpochsRaw"})}

\* FarmAbiService: rewardPerShare .. getProduceRewardsEnabledRaw
FarmRewardsPerShare == UNION {
  View("farm.rewardPerShare", ContractInfo, {"FarmAbi.getRewardPerShareRaw"}),
  Calls({"FarmAbi.getRewardPerShareRaw", "FarmAbi.getRewardReserveRaw",
         "FarmAbi.getLastRewardBlockNonceRaw", "FarmAbi.calculateRewardsForGivenPosition",
         "FarmAbi.getStateRaw"}, {"contract"}),
  View("farm.rewardReserve", ContractInfo, {"FarmAbi.getRewardReserveRaw"}),
  View("farm.lastRewardBlockNonce", ContractInfo, {"FarmAbi.getLastRewardBlockNonceRaw"}),
  View("farm.divisionSafetyConstant", Hour, {"contract"}),
  View("farm.state", ContractState, {"FarmAbi.getStateRaw"}),
  View("farm.produceRewardsEnabled", ContractState, {"FarmAbi.getProduceRewardsEnabledRaw"}),
  Call("FarmAbi.getProduceRewardsEnabledRaw", {"MXGateway.getSCStorageKey"})}

\* FarmAbiService: burnGasLimit .. getFarmShardRaw
FarmLimitsAndShard == UNION {
  View("farm.burnGasLimit", ContractState,
      {"FarmAbiV1_3.getBurnGasLimitRaw", "FarmAbiV2.getBurnGasLimitRaw"}),
  Views({"farm.transferExecGasLimit", "farm.pairContractAddress",
         "farm.lastErrorMessage"}, ContractState, {"contract"}),
  View("farm.ownerAddress", ContractState, {"MXApi.getAccountStats"}),
  View("farm.farmShard", ContractInfo, {"MXApi.getAccountStats"})}

\* FarmServiceBase: getFarmedToken .. requireOwner
FarmTokensAndBatches == UNION {
  Call("FarmBase.getFarmedToken", {"farm.farmedTokenID", "token.metadata"}),
  Call("FarmBase.getFarmToken", {"farm.farmTokenID", "token.collection"}),
  Call("FarmBase.getFarmingToken", {"farm.farmingTokenID", "token.metadata"}),
  Call("FarmBase.getRemainingFarmingEpochs",
      {"context.currentEpoch", "farm.minimumFarmingEpochs"}),
  Call("FarmBase.getBatchRewardsForPosition",
      {"FarmV1_2.getRewardsForPosition", "FarmV1_3.getRewardsForPosition",
       "FarmV2.getRewardsForPosition"}),
  Call("FarmBase.getTokensForExitFarm",
      {"FarmV1_2.getRewardsForPosition", "FarmV1_3.getRewardsForPosition",
       "FarmV2.getRewardsForPosition", "farm.penaltyPercent"}),
  Call("FarmBase.requireOwner", {"farm.ownerAddress"})}

\* FarmComputeService: farmLockedValueUSD .. computeMintedRewards
FarmValueAndMint == UNION {
  View("farm.farmLockedValueUSD", ContractState,
      {"FarmComputeV1_2.computeFarmLockedValueUSD", "FarmComputeV1_3.computeFarmLockedValueUSD",
       "FarmComputeV2.computeFarmLockedValueUSD"}),
  View("farm.farmedTokenPriceUSD", Price, {"FarmCompute.computeFarmedTokenPriceUSD"}),
  Call("FarmCompute.computeFarmedTokenPriceUSD",
      {"TokenCompute.computeTokenPriceDerivedUSD", "farm.farmedTokenID"}),
  View("farm.farmTokenPriceUSD", Price, {"farm.farmingTokenPriceUSD"}),
  View("farm.farmingTokenPriceUSD", Price, {"FarmCompute.computeFarmingTokenPriceUSD"}),
  Call("FarmCompute.computeFarmingTokenPriceUSD",
      {"ID.pairAddress", "PairCompute.computeLpTokenPriceUSD",
       "TokenCompute.computeTokenPriceDerivedUSD", "farm.farmingTokenID"}),
  Call("FarmCompute.computeMintedRewards",
      {"context.shardBlockNonce", "farm.farmShard", "farm.lastRewardBlockNonce",
       "farm.produceRewardsEnabled", "farm.rewardsPerBlock"})}

\* FarmComputeService: computeFarmRewardsForPosition .. computeAnualRewardsUSD
FarmRewardsForPosition == UNION {
  Call("FarmCompute.computeFarmRewardsForPosition",
      {"FarmCompute.computeMintedRewards", "FarmComputeV2.computeMintedRewards",
       "farm.divisionSafetyConstant", "farm.farmTokenSupply", "farm.rewardPerShare"}),
  Call("FarmCompute.computeAnualRewardsUSD",
      {"FarmBase.getFarmedToken", "TokenCompute.computeTokenPriceDerivedUSD",
       "farm.rewardsPerBlock"})}

\* FarmCustomAbiService: whitelist .. getWhitelistRaw
FarmWhitelist == UNION {
  View("farm.whitelist", Hour, {"contract"})}

\* FarmAbiServiceV1_2: lockedAssetFactoryAddress .. getFarmMigrationConfigurationRaw
FarmV12State == UNION {
  View("farm.lockedAssetFactoryAddress", ContractState,
      {"FarmAbiV1_2.getLockedAssetFactoryAddressRaw"}),
  Calls({"FarmAbiV1_2.getLockedAssetFactoryAddressRaw", "FarmAbiV1_2.getFarmingTokenReserveRaw",
         "FarmAbiV1_2.getLockedRewardAprMuliplierRaw",
         "FarmAbiV1_2.getFarmMigrationConfigurationRaw"}, {"contract"}),
  View("farm.farmingTokenReserve", ContractBalance, {"FarmAbiV1_2.getFarmingTokenReserveRaw"}),
  Views({"farm.undistributedFees", "farm.currentBlockFee"}, ContractBalance, {"contract"}),
  View("farm.lockedRewardAprMuliplier", ContractBalance,
      {"FarmAbiV1_2.getLockedRewardAprMuliplierRaw"}),
  View("farm.farmMigrationConfiguration", Hour, {"FarmAbiV1_2.getFarmMigrationConfigurationRaw"})}

\* FarmComputeServiceV1_2: computeFarmLockedValueUSD .. unlockedFarmingTokenReserveUSD
FarmV12Values == UNION {
  Call("FarmComputeV1_2.computeFarmLockedValueUSD",
      {"FarmBase.getFarmingToken", "ID.pairAddress", "Pair.getLiquidityPositionUSD",
       "farm.farmingTokenReserve", "pair.tokenPriceUSD"}),
  View("farm.lockedFarmingTokenReserve", ContractBalance,
      {"FarmComputeV1_2.computeLockedFarmingTokenReserve"}),
  Call("FarmComputeV1_2.computeLockedFarmingTokenReserve",
      {"FarmComputeV1_2.computeUnlockedFarmingTokenReserve", "farm.farmingTokenReserve"}),
  View("farm.unlockedFarmingTokenReserve", ContractBalance,
      {"FarmComputeV1_2.computeUnlockedFarmingTokenReserve"}),
  Call("FarmComputeV1_2.computeUnlockedFarmingTokenReserve",
      {"farm.farmTokenSupply", "farm.farmingTokenReserve", "farm.lockedRewardAprMuliplier"}),
  View("farm.lockedFarmingTokenReserveUSD", ContractBalance,
      {"FarmComputeV1_2.computeLockedFarmingTokenReserveUSD"}),
  Call("FarmComputeV1_2.computeLockedFarmingTokenReserveUSD",
      {"FarmBase.getFarmingToken", "FarmComputeV1_2.computeLockedFarmingTokenReserve",
       "ID.pairAddress", "Pair.getLiquidityPositionUSD", "pair.tokenPriceUSD"}),
  View("farm.unlockedFarmingTokenReserveUSD", ContractBalance,
      {"FarmComputeV1_2.computeUnlockedFarmingTokenReserveUSD"})}

\* FarmComputeServiceV1_2: computeUnlockedFarmingTokenReserveUSD .. lockedRewardsAPR
FarmV12Rewards == UNION {
  Call("FarmComputeV1_2.computeUnlockedFarmingTokenReserveUSD",
      {"FarmBase.getFarmingToken", "FarmComputeV1_2.computeUnlockedFarmingTokenReserve",
       "ID.pairAddress", "Pair.getLiquidityPositionUSD", "pair.tokenPriceUSD"}),
  Call("FarmComputeV1_2.computeVirtualValueLockedUSD",
      {"FarmComputeV1_2.computeLockedFarmingTokenReserveUSD",
       "FarmComputeV1_2.computeUnlockedFarmingTokenReserveUSD", "farm.lockedRewardAprMuliplier"}),
  View("farm.unlockedRewardsAPR", ContractInfo, {"FarmComputeV1_2.computeUnlockedRewardsAPR"}),
  Call("FarmComputeV1_2.computeUnlockedRewardsAPR",
      {"FarmCompute.computeAnualRewardsUSD",
       "FarmComputeV1_2.computeUnlockedFarmingTokenReserveUSD",
       "FarmComputeV1_2.computeVirtualValueLockedUSD", "ID.pairAddress", "farm.farmedTokenID",
       "farm.farmingTokenID", "pair.feesAPR"}),
  View("farm.lockedRewardsAPR", ContractInfo, {"FarmComputeV1_2.computeLockedRewardsAPR"})}

\* FarmComputeServiceV1_2: computeLockedRewardsAPR .. computeLockedRewardsAPR
FarmV12LockedAPR == UNION {
  Call("FarmComputeV1_2.computeLockedRewardsAPR",
      {"FarmCompute.computeAnualRewardsUSD",
       "FarmComputeV1_2.computeLockedFarmingTokenReserveUSD",
       "FarmComputeV1_2.computeVirtualValueLockedUSD", "ID.pairAddress", "farm.farmedTokenID",
       "farm.farmingTokenID", "farm.lockedRewardAprMuliplier", "pair.feesAPR"})}

\* FarmServiceV1_2: getRewardsForPosition .. getRewardsForPosition
FarmV12Positions == UNION {
  Call("FarmV1_2.getRewardsForPosition",
      {"FarmAbi.calculateRewardsForGivenPosition", "FarmBase.getRemainingFarmingEpochs",
       "FarmCompute.computeFarmRewardsForPosition"})}

\* FarmAbiServiceV1_3: lockedAssetFactoryAddress .. getBurnGasLimitRaw
FarmV13State == UNION {
  View("farm.lockedAssetFactoryAddress", ContractState,
      {"FarmAbiV1_3.getLockedAssetFactoryAddressRaw"}),
  Calls({"FarmAbiV1_3.getLockedAssetFactoryAddressRaw",
         "FarmAbiV1_3.getFarmMigrationConfigurationRaw", "FarmAbiV1_3.getBurnGasLimitRaw"},
      {"contract"}),
  View("farm.farmMigrationConfiguration", Hour, {"FarmAbiV1_3.getFarmMigrationConfigurationRaw"})}

\* FarmComputeServiceV1_3: computeFarmLockedValueUSD .. computeFarmAPR
FarmV13Values == UNION {
  Call("FarmComputeV1_3.computeFarmLockedValueUSD",
      {"FarmBase.getFarmingToken", "ID.pairAddress", "Pair.getLiquidityPositionUSD",
       "farm.farmTokenSupply", "pair.tokenPriceUSD"}),
  View("farm.farmAPR", Minute, {"FarmComputeV1_3.computeFarmAPR"}),
  Call("FarmComputeV1_3.computeFarmAPR",
      {"FarmCompute.computeAnualRewardsUSD", "FarmComputeV1_3.computeFarmLockedValueUSD",
       "ID.pairAddress", "farm.farmedTokenID", "farm.farmingTokenID", "pair.feesAPR"})}

\* FarmServiceV1_3: getRewardsForPosition .. getRewardsForPosition
FarmV13Positions == UNION {
  Call("FarmV1_3.getRewardsForPosition",
      {"FarmAbi.calculateRewardsForGivenPosition", "FarmBase.getRemainingFarmingEpochs",
       "FarmCompute.computeFarmRewardsForPosition"})}

\* FarmAbiServiceV2:
\* boostedYieldsRewardsPercenatage .. lastUndistributedBoostedRewardsCollectWeek
FarmV2BoostedState == UNION {
  Views({"farm.boostedYieldsRewardsPercenatage", "farm.lockingScAddress",
         "farm.lockEpochs", "farm.remainingBoostedRewardsToDistribute",
         "farm.undistributedBoostedRewards"}, ContractState, {"contract"}),
  View("farm.lastUndistributedBoostedRewardsCollectWeek", ContractState,
      {"MXGateway.getSCStorageKey"})}

\* FarmAbiServiceV2: boostedYieldsFactors .. getEnergyFactoryAddressRaw
FarmV2Factors == UNION {
  Views({"farm.boostedYieldsFactors", "farm.energyFactoryAddress"}, ContractState, {"contract"}),
  View("farm.accumulatedRewardsForWeek", ContractState,
      {"MXGateway.getSCStorageKeys", "contract"})}

\* FarmAbiServiceV2: calculateRewardsForGivenPosition .. getBurnGasLimitRaw
FarmV2RewardsAndGas == UNION {
  Calls({"FarmAbiV2.calculateRewardsForGivenPosition", "FarmAbiV2.getBurnGasLimitRaw"},
      {"contract"})}

\* FarmComputeServiceV2: computeFarmLockedValueUSD .. computeFarmRewardsForPosition
FarmV2Values == UNION {
  Call("FarmComputeV2.computeFarmLockedValueUSD",
      {"Pair.getLiquidityPositionUSD", "farm.farmTokenSupply", "farm.pairContractAddress"}),
  View("farm.farmBaseAPR", ContractState,
      {"FarmCompute.computeAnualRewardsUSD", "farm.boostedYieldsRewardsPercenatage",
       "farm.farmLockedValueUSD"}),
  Call("FarmComputeV2.computeMintedRewards",
      {"FarmCompute.computeMintedRewards", "farm.boostedYieldsRewardsPercenatage"}),
  Call("FarmComputeV2.computeFarmRewardsForPosition",
      {"FarmCompute.computeFarmRewardsForPosition"})}

\* FarmComputeServiceV2: userRewardsDistributionForWeek .. userAccumulatedRewards
FarmV2UserWeek == UNION {
  View("farm.userRewardsDistributionForWeek", ContractBalance,
      {"WeeklyRewardsSplittingCompute.computeDistribution"}),
  View("farm.userAccumulatedRewards", ContractBalance,
      {"FarmComputeV2.computeBlocksInWeek", "farm.accumulatedRewardsForWeek",
       "farm.boostedYieldsFactors", "farm.boostedYieldsRewardsPercenatage",
       "farm.farmTokenSupply", "farm.rewardsPerBlock", "weeklyRewards.totalEnergyForWeek",
       "weeklyRewards.userEnergyForWeek"})}

\* FarmComputeServiceV2: computeUserAccumulatedRewards .. userRewardsForWeek
FarmV2Accumulated == UNION {
  View("farm.userRewardsForWeek", ContractBalance,
      {"farm.boostedYieldsFactors", "farm.boostedYieldsRewardsPercenatage",
       "farm.farmTokenSupply", "farm.rewardsPerBlock", "weeklyRewards.totalEnergyForWeek",
       "weeklyRewards.totalRewardsForWeek", "weeklyRewards.userEnergyForWeek"})}

\* FarmComputeServiceV2: computeUserRewardsForWeek .. optimalEnergyPerLP
FarmV2Energy == UNION {
  View("farm.optimalEnergyPerLP", ContractState,
      {"farm.boostedYieldsFactors", "farm.farmTokenSupply", "weeklyRewards.totalEnergyForWeek"})}

\* FarmComputeServiceV2: computeOptimalEnergyPerLP .. computeBlocksInWeek
FarmV2OptimalEnergy == UNION {
  View("farm.undistributedBoostedRewards.week", ContractState,
      {"farm.lastUndistributedBoostedRewardsCollectWeek",
       "farm.remainingBoostedRewardsToDistribute", "farm.undistributedBoostedRewards"}),
  Call("FarmComputeV2.computeBlocksInWeek",
      {"context.blocksCountInEpoch", "context.currentEpoch", "weekTimekeeping.startEpochForWeek"})}

\* FarmServiceV2: getBatchRewardsForPosition .. getRewardsForPosition
FarmV2Positions == UNION {
  Call("FarmV2.getBatchRewardsForPosition", {"FarmV2.getRewardsForPosition"}),
  Call("FarmV2.getRewardsForPosition",
      {"FarmAbiV2.calculateRewardsForGivenPosition", "FarmBase.getRemainingFarmingEpochs",
       "FarmComputeV2.computeFarmRewardsForPosition", "farm.userAccumulatedRewards",
       "weekTimekeeping.currentWeek", "weeklyRewards.currentClaimProgress",
       "weeklyRewards.lastActiveWeekForUser"})}

\* All rows of the module.
FarmRows == UNION {
  FarmTokenLookup, FarmTokensAndEpochs, FarmRewardsPerShare,
  FarmLimitsAndShard, FarmTokensAndBatches, FarmValueAndMint,
  FarmRewardsForPosition, FarmWhitelist, FarmV12State,
  FarmV12Values, FarmV12Rewards, FarmV12LockedAPR,
  FarmV12Positions, FarmV13State, FarmV13Values,
  FarmV13Positions, FarmV2BoostedState, FarmV2Factors,
  FarmV2RewardsAndGas, FarmV2Values, FarmV2UserWeek,
  FarmV2Accumulated, FarmV2Energy, FarmV2OptimalEnergy,
  FarmV2Positions}
==============================================================================
