-------------------------- MODULE HandlerPrograms --------------------------
\* What the handlers of contract events, and the endpoints of administrators and users,
\* do to the cache.
EXTENDS CachePrograms, Sequences

\* Delete takes the keys out of Redis and of the memory of the process.
Delete(keys) == [does |-> "delete", gets |-> {}, keys |-> keys]

\* PairHandler.updatePairReserves: a swap event carries no supply, the cached one is taken.
ReservesFrom(supply) == IF supply = Event
  THEN Gets({"pair.firstTokenReserve", "pair.secondTokenReserve", "pair.totalSupply",
             "pair.pairInfoMetadata"}, Event)
  ELSE Gets({"pair.firstTokenReserve", "pair.secondTokenReserve"}, Event) \cup
       Get("pair.pairInfoMetadata", supply)

\* PairHandler.getTokenTotalLockedValue: what it asks.
TokenTotalLockedValue ==
  {"router.pairsMetadata", "pair.firstTokenReserve", "pair.secondTokenReserve"}

\* SwapEventHandler.handleSwapEvents.  The ledger's values and the pair prices are computed
\* together, before the pair prices are stored; the token prices come after them.
SwapLedger == {"router.commonTokensForUserPairs", "token.externalPrice", "pair.totalSupply",
  "pair.totalFeePercent", "RouterCompute.computeTotalLockedValueUSD", "Pair.getFirstToken",
  "Pair.getSecondToken"} \cup TokenTotalLockedValue
HandleSwap == Program("handleSwapEvents", 0,
  StoreAndAnnounce(ReservesFrom({"pair.totalSupply"})) \o
  StoreAndAnnounce(
    Get("pair.firstTokenPrice", {"PairCompute.computeFirstTokenPrice"}) \cup
    Get("pair.secondTokenPrice", {"PairCompute.computeSecondTokenPrice"}) \cup
    Get("pair.firstTokenPriceUSD", {"PairCompute.computeFirstTokenPriceUSD"}) \cup
    Get("pair.secondTokenPriceUSD", {"PairCompute.computeSecondTokenPriceUSD"}) \cup
    Get("analytics", SwapLedger)) \o
  StoreAndAnnounce(
    Get("token.ID.[derivedEGLD]", {"TokenCompute.computeTokenPriceDerivedEGLD"}) \cup
    Get("token.ID.[derivedUSD]", {"TokenCompute.computeTokenPriceDerivedUSD"})))

\* LiquidityHandler.handleLiquidityEvent.
HandleLiquidity == Program("handleLiquidityEvent", 0,
  StoreAndAnnounce(ReservesFrom(Event)) \o
  StoreAndAnnounce(
    Gets({"pair.firstTokenLockedValueUSD", "pair.secondTokenLockedValueUSD"},
         {"token.metadata", "token.tokenPriceDerivedUSD"}) \cup
    Get("router.totalLockedValueUSD", {"RouterCompute.computeTotalLockedValueUSD"}) \cup
    Get("analytics", {"token.externalPrice"} \cup TokenTotalLockedValue)))

\* FarmHandlerService: entering and leaving a farm of any version, and a claim of version 2,
\* bring the supply; a claim of an older version stores the cached rewards per share again.
HandleFarmSupply == Program("handleFarmEvent", 0,
  StoreAndAnnounce(Get("farm.farmTokenSupply", Event)))
HandleFarmClaim == Program("handleClaimRewardsEventV1_3", 0,
  StoreAndAnnounce(Get("farm.rewardPerShare", {"farm.rewardPerShare"})))

\* RouterHandlerService.handleCreatePairEvent: the paths of the two tokens are announced, not
\* deleted from Redis.
HandleCreatePair == Program("handleCreatePairEvent", 0,
  <<Store(Get("database", {"router.commonTokensForUserPairs"}) \cup
          Get("token.ID.[type]", {"token.getEsdtTokenType"}) \cup
          Get("router.pairsMetadata", {"RouterAbi.getPairsMetadataRaw"}) \cup
          Gets({"router.pairsAddress", "router.pairCount"},
               {"RouterAbi.getAllPairsAddressRaw"})),
    Announce({"router.pairsMetadata", "router.pairsAddress", "router.pairCount",
              "auto.route.paths"})>>)
HandlePairSwapEnabled == Program("handlePairSwapEnabledEvent", 0,
  StoreAndAnnounce(Get("pair.state", {"PairAbi.getStateRaw"})))

\* PriceDiscoveryEventHandler.handleEvent.
HandlePriceDiscovery == Program("priceDiscovery.handleEvent", 0,
  StoreAndAnnounce(
    Gets({"priceDiscovery.launchedTokenAmount", "priceDiscovery.acceptedTokenAmount",
          "priceDiscovery.currentPhase"}, Event) \cup
    Get("priceDiscovery.launchedTokenPrice", {"PriceDiscovery.getAcceptedToken"})) \o
  StoreAndAnnounce(
    Get("priceDiscovery.acceptedTokenPrice",
        {"PriceDiscoveryCompute.computeAcceptedTokenPrice"}) \cup
    Get("priceDiscovery.launchedTokenPriceUSD",
        {"PriceDiscoveryCompute.computeLaunchedTokenPriceUSD"}) \cup
    Get("analytics", {"PriceDiscoveryCompute.computeAcceptedTokenPriceUSD"})))

\* Fault: announces the entry and not the contract of the user.
HandleUpdateEnergyEntryOnly == Program("handleUpdateEnergy", 0,
  <<Store(Get("energy.energyEntryForUser", Event)),
    Store(Get("userEnergy.outdatedContract",
              {"userEnergy.userActiveFarmsV2", "UserEnergyCompute.computeUserOutdatedContract"})),
    Announce({"energy.energyEntryForUser"})>>)

\* EnergyHandler.handleUpdateEnergy.
HandleUpdateEnergy == Program("handleUpdateEnergy", 0,
  <<Store(Get("energy.energyEntryForUser", Event)),
    Store(Get("userEnergy.outdatedContract",
              {"userEnergy.userActiveFarmsV2", "UserEnergyCompute.computeUserOutdatedContract"})),
    Announce({"energy.energyEntryForUser", "userEnergy.outdatedContract"})>>)

\* FeesCollectorHandlerService and GovernanceHandlerService add the event to what is cached.
HandleDepositSwapFees == Program("handleDepositSwapFeesEvent", 0,
  StoreAndAnnounce(Get("feesCollector.accumulatedFees", {"feesCollector.accumulatedFees"})))
HandleGovernanceVote == Program("handleGovernanceVoteEvent", 0,
  <<Store(Get("governance.userVotedProposals", {"governance.userVotedProposals"})),
    Store(Get("governance.userVoteTypesForContract", {"governance.userVoteTypesForContract"})),
    Store(Get("governance.proposalVotes", {"governance.proposalVotes"})),
    Announce({"governance.userVotedProposals", "governance.userVoteTypesForContract",
              "governance.proposalVotes"})>>)

\* WeeklyRewardsSplittingHandlerService.
HandleUpdateGlobalAmounts == Program("handleUpdateGlobalAmounts", 0, StoreAndAnnounce(
  Gets({"weeklyRewards.totalEnergyForWeek", "weeklyRewards.totalLockedTokensForWeek"}, Event)))
WeeklyUserKeys == {"weeklyRewards.currentClaimProgress", "weeklyRewards.userEnergyForWeek",
  "weeklyRewards.lastActiveWeekForUser"}
HandleUpdateUserEnergy == Program("handleUpdateUserEnergy", 0,
  <<Store(Gets(WeeklyUserKeys, Event)),
    Store(Get("userEnergy.outdatedContract",
              {"UserEnergyCompute.computeUserOutdatedContract"})),
    Announce(WeeklyUserKeys \cup {"userEnergy.outdatedContract"})>>)
HandleClaimMulti == Program("handleClaimMulti", 0, StoreAndAnnounce(
  Gets({"feesCollector.SC.userRewardsForWeek", "farm.userRewardsForWeek"}, Event) \cup
  Get("weeklyRewards.totalRewardsForWeek", {"weeklyRewards.totalRewardsForWeek"})))

\* TokenUnstakeHandlerService, RabbitMQMetabondingHandlerService, RabbitMQEsdtTokenHandlerService.
HandleUnlockedTokens == Program("handleUnlockedTokens", 0,
  StoreAndAnnounce(Get("tokenUnstake.unlockedTokensForUser", Event)))
HandleMetabonding == Program("handleMetabondingEvent", 0,
  StoreAndAnnounce(Get("metabonding.userEntry", Event)))
HandleEsdtToken == Program("handleEsdtTokenEvent", 0,
  StoreAndAnnounce(Get("context.tokenID", {"MXApi.getToken"})))
EsdtTokenStores == {[key |-> "context.tokenID", ttl |-> Hour]}

\* EscrowHandlerService: the storage of the contract, the transfers of the two users, and the
\* epoch of the sender or of the receiver.
EscrowEvent(name, epoch) == Program(name, 0,
  StoreAndAnnounce(Get("escrow.scKeys", {"MXGateway.getSCStorageKeys"})) \o
  StoreAndAnnounce(
    Get("escrow.allSenders", {"EscrowAbi.getAllSendersRaw"}) \cup
    Get("escrow.allReceivers", {"EscrowAbi.getAllReceiversRaw"}) \cup
    Get("escrow.scheduledTransfers", {"EscrowAbi.getScheduledTransfersRaw"})) \o
  StoreAndAnnounce(Get(epoch, Event)))

HandleEscrow == UNION {
  EscrowEvent("handleEscrowLockFundsEvent", "escrow.senderLastTransferEpoch"),
  EscrowEvent("handleEscrowWithdrawEvent", "escrow.receiverLastTransferEpoch"),
  EscrowEvent("handleEscrowCancelTransferEvent", "escrow.senderLastTransferEpoch")}

\* RemoteConfigController and RemoteConfigSetterService: flags and analytics names are stored
\* without an announcement.
SetFlag == Program("setFlag", 0, <<Store(Get("flag.MAINTENANCE", {"database"}))>>)
SetAnalytics == Program("setAnalytics", 0, <<Store(Get("analytics.NAME", {"database"}))>>)
DeleteFlag == Program("deleteFlag", 0,
  <<Delete({"flag.MAINTENANCE"}), Announce({"flag.MAINTENANCE"})>>)
SetSCAddresses == Program("setSCAddressesFromDB", 0,
  StoreAndAnnounce(Get("scAddress.STAKING", {"database"})))

\* TokenController: a token's type is stored without an announcement.
CreateToken == Program("createToken", 0,
  <<Store(Get("database", Event)), Store(Get("token.ID.[type]", Event))>>)
UpdateToken == Program("updateToken", 0,
  <<Store(Get("database", Event)), Store(Get("token.ID.[type]", Event))>>)

\* GovernanceComputeService.userVotedProposalsWithVoteType: a vote found in the logs.
FindVoteType == Program("userVotedProposalsWithVoteType", 0,
  <<Store(Get("governance.userVoteTypesForContract",
              {"governance.userVoteTypesForContract", "GovernanceCompute.getVoteLog"}))>>)

\* MetabondingTransactionService.unbond announces an entry under the name of its sender.
MetabondingUnbond == Program("metabonding.unbond", 0, <<Announce({"ID.userEntry"})>>)

\* All handlers and endpoints.
AllHandlers == UNION {
  HandleSwap, HandleLiquidity, HandleFarmSupply, HandleFarmClaim, HandleCreatePair,
  HandlePairSwapEnabled, HandlePriceDiscovery, HandleUpdateEnergy, HandleDepositSwapFees,
  HandleGovernanceVote, HandleUpdateGlobalAmounts, HandleUpdateUserEnergy, HandleClaimMulti,
  HandleUnlockedTokens, HandleMetabonding, HandleEsdtToken, HandleEscrow,
  SetFlag, SetAnalytics, DeleteFlag, SetSCAddresses,
  CreateToken, UpdateToken, FindVoteType, MetabondingUnbond}
=============================================================================
