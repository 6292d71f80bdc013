---------------------------- MODULE StakingCalls ----------------------------
\* Calls of the staking and staking-proxy services.
EXTENDS ServiceCalls

\* StakingAbiService: pairContractAddress .. getRewardPerShareRaw
StakingTokensAndShares == UNION {
  View("stake.pairContractAddress", Hour, {"contract"}),
  View("stake.farmTokenID", Token, {"StakingAbi.getFarmTokenIDRaw"}),
  Calls({"StakingAbi.getFarmTokenIDRaw", "StakingAbi.getFarmingTokenIDRaw",
         "StakingAbi.getRewardTokenIDRaw", "StakingAbi.getFarmTokenSupplyRaw",
         "StakingAbi.getRewardPerShareRaw"}, {"contract"}),
  View("stake.farmingTokenID", Token, {"StakingAbi.getFarmingTokenIDRaw"}),
  View("stake.rewardTokenID", Token, {"StakingAbi.getRewardTokenIDRaw"}),
  View("stake.farmTokenSupply", ContractBalance, {"StakingAbi.getFarmTokenSupplyRaw"}),
  View("stake.rewardPerShare", ContractInfo, {"StakingAbi.getRewardPerShareRaw"})}

\* StakingAbiService: accumulatedRewards .. divisionSafetyConstant
StakingCapacityAndUnbond == UNION {
  View("stake.accumulatedRewards", ContractInfo, {"StakingAbi.getAccumulatedRewardsRaw"}),
  Calls({"StakingAbi.getAccumulatedRewardsRaw", "StakingAbi.getRewardCapacityRaw",
         "StakingAbi.getAnnualPercentageRewardsRaw", "StakingAbi.getMinUnbondEpochsRaw",
         "StakingAbi.getPerBlockRewardsAmountRaw", "StakingAbi.getLastRewardBlockNonceRaw"},
      {"contract"}),
  View("stake.rewardCapacity", ContractInfo, {"StakingAbi.getRewardCapacityRaw"}),
  View("stake.annualPercentageRewards", ContractState,
      {"StakingAbi.getAnnualPercentageRewardsRaw"}),
  View("stake.minUnbondEpochs", ContractState, {"StakingAbi.getMinUnbondEpochsRaw"}),
  View("stake.perBlockRewardsAmount", ContractState, {"StakingAbi.getPerBlockRewardsAmountRaw"}),
  View("stake.lastRewardBlockNonce", ContractState, {"StakingAbi.getLastRewardBlockNonceRaw"}),
  View("stake.divisionSafetyConstant", ContractState, {"StakingAbi.getDivisionSafetyConstantRaw"})}

\* StakingAbiService: getDivisionSafetyConstantRaw .. getLockedAssetFactoryAddressRaw
StakingShardAndAddresses == UNION {
  Calls({"StakingAbi.getDivisionSafetyConstantRaw", "StakingAbi.getStateRaw",
         "StakingAbi.calculateRewardsForGivenPosition"}, {"contract"}),
  View("stake.produceRewardsEnabled", ContractState, {"MXGateway.getSCStorageKey"}),
  Views({"stake.burnGasLimit", "stake.transferExecGasLimit",
         "stake.lockedAssetFactoryAddress"}, Hour, {"contract"}),
  View("stake.state", ContractState, {"StakingAbi.getStateRaw"})}

\* StakingAbiService: isWhitelisted .. getLastErrorMessageRaw
StakingWhitelistAndErrors == UNION {
  View("stake.isWhitelisted", Hour, {"contract"}),
  View("stake.lastErrorMessage", Minute, {"contract"})}

\* StakingComputeService: computeStakeRewardsForPosition .. stakedValueUSD
StakingRewardsAndValue == UNION {
  Call("StakingCompute.computeStakeRewardsForPosition",
      {"StakingCompute.computeFutureRewardsPerShare", "stake.divisionSafetyConstant"}),
  Call("StakingCompute.computeFutureRewardsPerShare",
      {"StakingCompute.computeExtraRewardsSinceLastAllocation", "stake.accumulatedRewards",
       "stake.divisionSafetyConstant", "stake.farmTokenSupply", "stake.rewardCapacity",
       "stake.rewardPerShare"}),
  Call("StakingCompute.computeExtraRewardsSinceLastAllocation",
      {"StakingCompute.computeExtraRewardsBounded", "context.shardBlockNonce",
       "stake.lastRewardBlockNonce", "stake.perBlockRewardsAmount",
       "stake.produceRewardsEnabled"}),
  Call("StakingCompute.computeExtraRewardsBounded",
      {"stake.annualPercentageRewards", "stake.farmTokenSupply"}),
  Call("StakingCompute.farmingTokenPriceUSD",
      {"stake.farmingTokenID", "token.tokenPriceDerivedUSD"}),
  View("stake.stakedValueUSD", ContractState,
      {"Staking.getFarmingToken", "stake.farmTokenSupply", "token.metadata",
       "token.tokenPriceDerivedUSD"})}

\* StakingComputeService: computeStakedValueUSD .. computeRewardsRemainingDays
StakingAPRAndDays == UNION {
  View("stake.stakeFarmAPR", ContractState, {"StakingCompute.computeStakeFarmAPR"}),
  Call("StakingCompute.computeStakeFarmAPR",
      {"StakingCompute.computeExtraRewardsBounded", "stake.annualPercentageRewards",
       "stake.farmTokenSupply", "stake.perBlockRewardsAmount"}),
  Call("StakingCompute.computeRewardsRemainingDays",
      {"stake.accumulatedRewards", "stake.perBlockRewardsAmount", "stake.rewardCapacity"})}

\* StakingComputeService: computeOptimalCompoundFrequency .. computeDeployedAt
StakingCompoundAndAge == UNION {
  Call("StakingCompute.computeOptimalCompoundFrequency",
      {"Staking.getFarmingToken", "stake.stakeFarmAPR", "token.tokenPriceDerivedEGLD"}),
  View("stake.deployedAt", ContractState, {"MXApi.getAccountStats"})}

\* StakingFilteringService: stakingFarmsByToken .. stakingFarmsByToken
StakingByToken == UNION {
  Call("StakingFiltering.stakingFarmsByToken", {"Staking.getFarmingToken"})}

\* StakingService: getFarmsStaking .. getRewardsForPosition
StakingTokensAndBatches == UNION {
  Call("Staking.getFarmsStaking", {"scAddress.STAKING"}),
  Call("Staking.getFilteredFarmsStaking",
      {"Staking.sortFarms", "StakingFiltering.stakingFarmsByToken", "scAddress.STAKING"}),
  Call("Staking.getFarmToken", {"stake.farmTokenID", "token.collection"}),
  Call("Staking.getFarmingToken", {"stake.farmingTokenID", "token.metadata"}),
  Call("Staking.getRewardToken", {"stake.rewardTokenID", "token.metadata"}),
  Call("Staking.decodeUnboundTokenAttributes", {"Staking.getUnbondigRemaingEpochs"}),
  Call("Staking.getBatchRewardsForPosition", {"Staking.getRewardsForPosition"}),
  Call("Staking.getRewardsForPosition",
      {"StakingAbi.calculateRewardsForGivenPosition",
       "StakingCompute.computeStakeRewardsForPosition"})}

\* StakingService: getUnbondigRemaingEpochs .. sortFarms
StakingAttributesAndOrder == UNION {
  Call("Staking.getUnbondigRemaingEpochs", {"context.currentEpoch"}),
  Call("Staking.getStakeFarmAddressByStakeFarmTokenID",
      {"scAddress.STAKING", "stake.farmTokenID"}),
  Calls({"Staking.isWhitelisted", "Staking.requireWhitelist"}, {"stake.isWhitelisted"}),
  Call("Staking.requireOwner", {"MXApi.getAccountStats"}),
  Call("Staking.sortFarms",
      {"StakingCompute.farmingTokenPriceUSD", "stake.deployedAt", "stake.stakeFarmAPR",
       "stake.stakedValueUSD"})}

\* StakingProxyAbiService: lpFarmAddress .. lpFarmTokenID
StakingProxyState == UNION {
  View("stakeProxy.lpFarmAddress", Hour, {"StakingProxyAbi.getlpFarmAddressRaw"}),
  Calls({"StakingProxyAbi.getlpFarmAddressRaw", "StakingProxyAbi.getStakingFarmAddressRaw",
         "StakingProxyAbi.getPairAddressRaw", "StakingProxyAbi.getStakingTokenIDRaw",
         "StakingProxyAbi.getFarmTokenIDRaw", "StakingProxyAbi.getDualYieldTokenIDRaw"},
      {"contract"}),
  View("stakeProxy.stakingFarmAddress", Hour, {"StakingProxyAbi.getStakingFarmAddressRaw"}),
  View("stakeProxy.pairAddress", Hour, {"StakingProxyAbi.getPairAddressRaw"}),
  View("stakeProxy.stakingTokenID", Hour, {"StakingProxyAbi.getStakingTokenIDRaw"}),
  View("stakeProxy.farmTokenID", Token, {"StakingProxyAbi.getFarmTokenIDRaw"}),
  View("stakeProxy.dualYieldTokenID", Token, {"StakingProxyAbi.getDualYieldTokenIDRaw"}),
  View("stakeProxy.lpFarmTokenID", Token, {"StakingProxyAbi.getLpFarmTokenIDRaw"})}

\* StakingProxyAbiService: getLpFarmTokenIDRaw .. getLpFarmTokenIDRaw
StakingProxyLpToken == UNION {
  Call("StakingProxyAbi.getLpFarmTokenIDRaw", {"contract"})}

\* StakingProxyService: getStakingProxies .. getUnstakeTokensReceived
StakingProxyTokens == UNION {
  Call("StakingProxy.getStakingProxies", {"scAddress.STAKING_PROXY"}),
  Call("StakingProxy.getStakingToken", {"stakeProxy.stakingTokenID", "token.metadata"}),
  Call("StakingProxy.getFarmToken", {"stakeProxy.farmTokenID", "token.collection"}),
  Call("StakingProxy.getDualYieldToken", {"stakeProxy.dualYieldTokenID", "token.collection"}),
  Call("StakingProxy.getLpFarmToken", {"stakeProxy.lpFarmTokenID", "token.collection"}),
  Call("StakingProxy.getBatchRewardsForPosition", {"StakingProxy.getRewardsForPosition"}),
  Call("StakingProxy.getUnstakeTokensReceived",
      {"Pair.getLiquidityPosition", "StakingProxy.getRewardsForPosition",
       "stakeProxy.pairAddress"})}

\* StakingProxyService: getRewardsForPosition .. getStakingProxyAddressByDualYieldTokenID
StakingProxyPositions == UNION {
  Call("StakingProxy.getRewardsForPosition",
      {"FarmBase.getBatchRewardsForPosition", "FarmV2.getBatchRewardsForPosition",
       "MXApi.getNftByTokenIdentifier", "Staking.getRewardsForPosition",
       "stakeProxy.farmTokenID", "stakeProxy.lpFarmAddress", "stakeProxy.lpFarmTokenID",
       "stakeProxy.stakingFarmAddress"}),
  View("ID.stakingProxyAddress", Hour, {"scAddress.STAKING_PROXY", "stakeProxy.dualYieldTokenID"})}

\* All rows of the module.
StakingRows == UNION {
  StakingTokensAndShares, StakingCapacityAndUnbond, StakingShardAndAddresses,
  StakingWhitelistAndErrors, StakingRewardsAndValue, StakingAPRAndDays,
  StakingCompoundAndAge, StakingByToken, StakingTokensAndBatches,
  StakingAttributesAndOrder, StakingProxyState, StakingProxyLpToken,
  StakingProxyTokens, StakingProxyPositions}
==============================================================================
