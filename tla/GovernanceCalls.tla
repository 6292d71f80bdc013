---------------------------- MODULE GovernanceCalls ----------------------------
\* Calls of the governance, price-discovery, metabonding and distribution services.
EXTENDS ServiceCalls

\* GovernanceTokenSnapshotAbiService: getAddressShardID .. proposals
GovernanceParameters == UNION {
  View("governance.getAddressShardID", ContractState, {}),
  Views({"governance.minFeeForPropose", "governance.quorum",
         "governance.votingDelayInBlocks", "governance.votingPeriodInBlocks",
         "governance.feeTokenId", "governance.withdrawPercentageDefeated"}, ContractState,
      {"contract"}),
  View("governance.proposals", ContractState, {"GovernanceTokenSnapshotAbi.proposalsRaw"})}

\* GovernanceTokenSnapshotAbiService: proposalsRaw .. proposalVotes
GovernanceProposals == UNION {
  Calls({"GovernanceTokenSnapshotAbi.proposalsRaw",
         "GovernanceTokenSnapshotAbi.userVotedProposalsRaw"}, {"contract"}),
  View("governance.userVotedProposals", ContractState, {}),
  View("governance.proposalVotes", ContractState, {"contract"})}

\* GovernanceTokenSnapshotAbiService: proposalVotesRaw .. vote
GovernanceVotes == UNION {
  View("governance.proposalStatus", ContractState,
      {"GovernanceTokenSnapshotAbi.proposalStatusRaw"}),
  Call("GovernanceTokenSnapshotAbi.proposalStatusRaw", {"contract"}),
  View("governance.proposalRootHash", ContractState, {"contract"}),
  Call("GovernanceTokenSnapshotAbi.vote", {"governance.proposalRootHash"})}

\* GovernanceEnergyAbiService: minEnergyForPropose .. energyFactoryAddressRaw
GovernanceEnergyParameters == UNION {
  Views({"governance.minEnergyForPropose", "governance.feesCollectorAddress",
         "governance.energyFactoryAddress"}, ContractState, {"contract"})}

\* GovernanceOldEnergyAbiService: feeTokenId .. feeTokenId
GovernanceOldFee == UNION {
  Call("GovernanceOldEnergyAbi.feeTokenId", {"lockedAssetFactory.lockedTokenID"})}

\* GovernanceComputeService: userVotedProposalsWithVoteType .. getVoteLog
GovernanceVoteLog == UNION {
  Call("GovernanceCompute.userVotedProposalsWithVoteType", {"GovernanceCompute.getVoteLog"}),
  View("governance.userVoteTypesForContract", ContractState, {}),
  Call("GovernanceCompute.getVoteLog", {"Elastic.getList"})}

\* GovernanceQuorumService: userQuorum .. userQuorum
GovernanceQuorum == UNION {
  Call("GovernanceQuorum.userQuorum", {"energy.energyAmountForUser"})}

\* GovernanceTokenSnapshotService: hasUserVoted .. userVotingPower
GovernanceVotingPower == UNION {
  Call("GovernanceTokenSnapshot.hasUserVoted", {"governance.userVotedProposals"}),
  Call("GovernanceTokenSnapshot.userVote", {"GovernanceCompute.userVotedProposalsWithVoteType"}),
  Call("GovernanceTokenSnapshot.feeToken",
      {"GovernanceOldEnergyAbi.feeTokenId", "governance.feeTokenId", "token.metadata"}),
  View("governance.votingPowerDecimals", ContractState, {"GovernanceTokenSnapshot.feeToken"}),
  View("governance.userVotingPower", ContractState,
      {"GovernanceQuorum.userQuorum", "governance.proposalRootHash"})}

\* GovernanceEnergyService: userVotingPower .. userVotingPower
GovernanceEnergyVotingPower == UNION {
  View("governance.userVotingPower", ContractState, {"EnergyService.getUserEnergy"})}

\* PriceDiscoveryAbiService: launchedTokenID .. launchedTokenRedeemAmount
PriceDiscoveryTokens == UNION {
  View("priceDiscovery.launchedTokenID", Token, {"PriceDiscoveryAbi.getLaunchedTokenIDRaw"}),
  Calls({"PriceDiscoveryAbi.getLaunchedTokenIDRaw", "PriceDiscoveryAbi.getAcceptedTokenIDRaw",
         "PriceDiscoveryAbi.getRedeemTokenIDRaw", "PriceDiscoveryAbi.getLaunchedTokenBalanceRaw",
         "PriceDiscoveryAbi.getAcceptedTokenBalanceRaw"}, {"contract"}),
  View("priceDiscovery.acceptedTokenID", Token, {"PriceDiscoveryAbi.getAcceptedTokenIDRaw"}),
  View("priceDiscovery.redeemTokenID", Token, {"PriceDiscoveryAbi.getRedeemTokenIDRaw"}),
  View("priceDiscovery.launchedTokenAmount", ContractBalance,
      {"PriceDiscoveryAbi.getLaunchedTokenBalanceRaw"}),
  View("priceDiscovery.acceptedTokenAmount", ContractBalance,
      {"PriceDiscoveryAbi.getAcceptedTokenBalanceRaw"}),
  View("priceDiscovery.launchedTokenRedeemAmount", ContractBalance,
      {"PriceDiscoveryAbi.getLaunchedTokenRedeemBalanceRaw"})}

\* PriceDiscoveryAbiService: getLaunchedTokenRedeemBalanceRaw .. minLaunchedTokenPrice
PriceDiscoveryBalances == UNION {
  Calls({"PriceDiscoveryAbi.getLaunchedTokenRedeemBalanceRaw",
         "PriceDiscoveryAbi.getAcceptedTokenRedeemBalanceRaw",
         "PriceDiscoveryAbi.getStartBlockRaw", "PriceDiscoveryAbi.getEndBlockRaw",
         "PriceDiscoveryAbi.getCurrentPhaseRaw"}, {"contract"}),
  View("priceDiscovery.acceptedTokenRedeemAmount", ContractBalance,
      {"PriceDiscoveryAbi.getAcceptedTokenRedeemBalanceRaw"}),
  View("priceDiscovery.startBlock", ContractState, {"PriceDiscoveryAbi.getStartBlockRaw"}),
  View("priceDiscovery.endBlock", ContractState, {"PriceDiscoveryAbi.getEndBlockRaw"}),
  View("priceDiscovery.currentPhase", ContractState, {"PriceDiscoveryAbi.getCurrentPhaseRaw"}),
  View("priceDiscovery.minLaunchedTokenPrice", ContractState,
      {"PriceDiscoveryAbi.getMinLaunchedTokenPriceRaw"})}

\* PriceDiscoveryAbiService: getMinLaunchedTokenPriceRaw .. getUnlockEpochRaw
PriceDiscoveryPhaseBounds == UNION {
  Calls({"PriceDiscoveryAbi.getMinLaunchedTokenPriceRaw",
         "PriceDiscoveryAbi.getNoLimitPhaseDurationBlocksRaw",
         "PriceDiscoveryAbi.getLinearPenaltyPhaseDurationBlocksRaw",
         "PriceDiscoveryAbi.getFixedPenaltyPhaseDurationBlocksRaw",
         "PriceDiscoveryAbi.getLockingScAddressRaw", "PriceDiscoveryAbi.getUnlockEpochRaw"},
      {"contract"}),
  View("priceDiscovery.noLimitPhaseDurationBlocks", ContractState,
      {"PriceDiscoveryAbi.getNoLimitPhaseDurationBlocksRaw"}),
  View("priceDiscovery.linearPenaltyPhaseDurationBlocks", ContractState,
      {"PriceDiscoveryAbi.getLinearPenaltyPhaseDurationBlocksRaw"}),
  View("priceDiscovery.fixedPenaltyPhaseDurationBlocks", ContractState,
      {"PriceDiscoveryAbi.getFixedPenaltyPhaseDurationBlocksRaw"}),
  View("priceDiscovery.lockingScAddress", ContractState,
      {"PriceDiscoveryAbi.getLockingScAddressRaw"}),
  View("priceDiscovery.unlockEpoch", ContractState, {"PriceDiscoveryAbi.getUnlockEpochRaw"})}

\* PriceDiscoveryAbiService: penaltyMinPercentage .. getFixedPenaltyPercentageRaw
PriceDiscoveryPenalties == UNION {
  View("priceDiscovery.penaltyMinPercentage", ContractState,
      {"PriceDiscoveryAbi.getPenaltyMinPercentageRaw"}),
  Calls({"PriceDiscoveryAbi.getPenaltyMinPercentageRaw",
         "PriceDiscoveryAbi.getPenaltyMaxPercentageRaw",
         "PriceDiscoveryAbi.getFixedPenaltyPercentageRaw"}, {"contract"}),
  View("priceDiscovery.penaltyMaxPercentage", ContractState,
      {"PriceDiscoveryAbi.getPenaltyMaxPercentageRaw"}),
  View("priceDiscovery.fixedPenaltyPercentage", ContractState,
      {"PriceDiscoveryAbi.getFixedPenaltyPercentageRaw"})}

\* PriceDiscoveryComputeService: launchedTokenPrice .. computeLaunchedTokenPriceUSD
PriceDiscoveryPrices == UNION {
  View("priceDiscovery.launchedTokenPrice", Price,
      {"PriceDiscoveryCompute.computeLaunchedTokenPrice"}),
  Calls({"PriceDiscoveryCompute.computeLaunchedTokenPrice",
         "PriceDiscoveryCompute.computeAcceptedTokenPrice"},
      {"AnalyticsQuery.getPDlatestValue", "PriceDiscovery.getAcceptedToken",
       "PriceDiscovery.getLaunchedToken", "priceDiscovery.acceptedTokenAmount",
       "priceDiscovery.currentPhase", "priceDiscovery.launchedTokenAmount"}),
  View("priceDiscovery.acceptedTokenPrice", Price,
      {"PriceDiscoveryCompute.computeAcceptedTokenPrice"}),
  View("priceDiscovery.launchedTokenPriceUSD", Price,
      {"PriceDiscoveryCompute.computeLaunchedTokenPriceUSD"}),
  Call("PriceDiscoveryCompute.computeLaunchedTokenPriceUSD",
      {"AnalyticsQuery.getPDlatestValue", "PriceDiscovery.getAcceptedToken",
       "PriceDiscoveryCompute.computeLaunchedTokenPrice", "pair.tokenPriceUSD",
       "priceDiscovery.currentPhase"})}

\* PriceDiscoveryComputeService: acceptedTokenPriceUSD .. computeClosingValues
PriceDiscoveryHistory == UNION {
  View("priceDiscovery.acceptedTokenPriceUSD", Price,
      {"PriceDiscoveryCompute.computeAcceptedTokenPriceUSD"}),
  Call("PriceDiscoveryCompute.computeAcceptedTokenPriceUSD",
      {"AnalyticsQuery.getPDlatestValue", "pair.tokenPriceUSD", "priceDiscovery.acceptedTokenID",
       "priceDiscovery.currentPhase"}),
  View("priceDiscovery.closingValues", Analytics,
      {"AnalyticsQuery.getPDCloseValues", "MXApi.getBlockByNonce", "priceDiscovery.endBlock",
       "priceDiscovery.startBlock"})}

\* PriceDiscoveryService: getLaunchedToken .. getPriceDiscoveryAddresByRedeemToken
PriceDiscoveryService_ == UNION {
  Call("PriceDiscovery.getLaunchedToken", {"priceDiscovery.launchedTokenID", "token.metadata"}),
  Call("PriceDiscovery.getAcceptedToken", {"priceDiscovery.acceptedTokenID", "token.metadata"}),
  Call("PriceDiscovery.getRedeemToken", {"priceDiscovery.redeemTokenID", "token.collection"}),
  Call("PriceDiscovery.getLockingSC", {"priceDiscovery.lockingScAddress"}),
  Call("PriceDiscovery.getPriceDiscoveryAddresByRedeemToken", {"priceDiscovery.redeemTokenID"})}

\* MetabondingAbiService: lockedAssetTokenID .. getUserEntryRaw
MetabondingState == UNION {
  View("metabonding.lockedAssetTokenID", Token, {"MetabondingAbi.getLockedAssetTokenIDRaw"}),
  Calls({"MetabondingAbi.getLockedAssetTokenIDRaw", "MetabondingAbi.getTotalLockedAssetSupplyRaw"},
      {"contract"}),
  View("metabonding.totalLockedAssetSupply", ContractState,
      {"MetabondingAbi.getTotalLockedAssetSupplyRaw"}),
  Views({"metabonding.stakedAmountForUser", "metabonding.userEntry"}, ContractInfo, {"contract"})}

\* MetabondingService: lockedAssetToken .. lockedAssetToken
MetabondingToken == UNION {
  Call("Metabonding.lockedAssetToken", {"metabonding.lockedAssetTokenID", "token.collection"})}

\* DistributionAbiService: communityDistribution .. getDistributedLockedAssetsRaw
DistributionState == UNION {
  Views({"communityDistribution.communityDistribution",
         "distributedLockedAssets.distributedLockedAssets"}, ContractState, {"contract"})}

\* All rows of the module.
GovernanceRows == UNION {
  GovernanceParameters, GovernanceProposals, GovernanceVotes,
  GovernanceEnergyParameters, GovernanceOldFee, GovernanceVoteLog,
  GovernanceQuorum, GovernanceVotingPower, GovernanceEnergyVotingPower,
  PriceDiscoveryTokens, PriceDiscoveryBalances, PriceDiscoveryPhaseBounds,
  PriceDiscoveryPenalties, PriceDiscoveryPrices, PriceDiscoveryHistory,
  PriceDiscoveryService_, MetabondingState, MetabondingToken,
  DistributionState}
==============================================================================
