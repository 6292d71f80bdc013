---------------------------- MODULE TransactionCalls ----------------------------
\* Calls of the services that build transactions: what the arguments of a transaction depend on.
EXTENDS ServiceCalls

\* PairTransactionService: addInitialLiquidityBatch .. addInitialLiquidity
PairInitialLiquidity == UNION {
  Call("PairTransaction.addInitialLiquidityBatch", {"PairTransaction.addInitialLiquidity"}),
  Call("PairTransaction.addLiquidityBatch", {"PairTransaction.addLiquidity"}),
  Call("PairTransaction.addInitialLiquidity",
      {"PairCompute.computePermanentLockedValueUSD", "PairTransaction.validateTokens",
       "pair.initialLiquidityAdder"})}

\* PairTransactionService: addLiquidity .. removeLiquidity
PairLiquidity == UNION {
  Call("PairTransaction.addLiquidity", {"PairTransaction.validateTokens"}),
  Call("PairTransaction.removeLiquidity",
      {"Pair.getLiquidityPosition", "WrapTransactions.unwrapEgld", "pair.firstTokenID",
       "pair.secondTokenID", "wrap.wrappedEgldTokenID"})}

\* PairTransactionService: swapTokensFixedInput .. swapTokensFixedInput
PairSwapFixedInput == UNION {
  Call("PairTransaction.swapTokensFixedInput",
      {"PairTransaction.validateTokens", "WrapTransactions.unwrapEgld", "pair.trustedSwapPairs",
       "wrap.wrappedEgldTokenID"})}

\* PairTransactionService: swapTokensFixedOutput .. swapTokensFixedOutput
PairSwapFixedOutput == UNION {
  Call("PairTransaction.swapTokensFixedOutput",
      {"PairTransaction.validateTokens", "WrapTransactions.unwrapEgld", "pair.trustedSwapPairs",
       "wrap.wrappedEgldTokenID"})}

\* PairTransactionService: validateTokens .. getTokensInOrder
PairTokenChecks == UNION {
  Call("PairTransaction.validateTokens",
      {"PairTransaction.getTokensWithEGLD", "pair.firstTokenID", "pair.secondTokenID"}),
  Call("PairTransaction.getTokensWithEGLD", {"PairTransaction.getTokensInOrder"}),
  Call("PairTransaction.getTokensInOrder", {"wrap.wrappedEgldTokenID"})}

\* RouterTransactionService: createPair .. issueLpToken
RouterCreatePair == UNION {
  Calls({"RouterTransaction.createPair", "RouterTransaction.upgradePair",
         "RouterTransaction.removePair"}, {"RouterTransaction.checkPairExists"}),
  Call("RouterTransaction.issueLpToken", {"pair.lpTokenID"})}

\* RouterTransactionService: setSwapEnabledByUser .. setSwapEnabledByUser
RouterSwapByUser == UNION {
  Call("RouterTransaction.setSwapEnabledByUser",
      {"RouterTransaction.validateSwapEnableInputTokens", "pair.initialLiquidityAdder"})}

\* RouterTransactionService: multiPairSwap .. unwrapIfNeeded
RouterMultiSwap == UNION {
  Call("RouterTransaction.multiPairSwap", {"RouterTransaction.unwrapIfNeeded"}),
  Call("RouterTransaction.checkPairExists", {"router.pairsMetadata"}),
  Call("RouterTransaction.unwrapIfNeeded", {"WrapTransactions.unwrapEgld"})}

\* RouterTransactionService: validateSwapEnableInputTokens .. validateSwapEnableInputTokens
RouterSwapEnableChecks == UNION {
  Call("RouterTransaction.validateSwapEnableInputTokens",
      {"ID.pairAddress", "Pair.getLiquidityPosition", "context.currentEpoch",
       "pair.firstTokenID", "pair.secondTokenID", "router.commonTokensForUserPairs",
       "router.enableSwapByUserConfig"})}

\* AutoRouterTransactionService: multiPairSwap .. multiPairSwap
AutoRouterMultiPairSwap == UNION {
  Call("AutoRouterTransaction.multiPairSwap", {"AutoRouterTransaction.unwrapIfNeeded"})}

\* AutoRouterTransactionService: unwrapIfNeeded .. unwrapIfNeeded
AutoRouterUnwrap == UNION {
  Call("AutoRouterTransaction.unwrapIfNeeded", {"WrapTransactions.unwrapEgld"})}

\* WrapTransactionsService: unwrapEgld .. unwrapEgld
WrapUnwrap == UNION {
  Call("WrapTransactions.unwrapEgld", {"Wrap.wrappedEgldToken"})}

\* TransactionsFarmService: validateInputTokens .. getExitFarmGasLimit
FarmInputChecks == UNION {
  Call("TransactionsFarm.validateInputTokens", {"farm.farmTokenID", "farm.farmingTokenID"}),
  Call("TransactionsFarm.getExitFarmGasLimit",
      {"ID.pairAddress", "farm.farmedTokenID", "farm.farmingTokenID", "pair.trustedSwapPairs"})}

\* FarmTransactionServiceV1_2: enterFarm .. exitFarm
FarmV12EnterExit == UNION {
  Call("FarmTransactionV1_2.enterFarm", {"TransactionsFarm.validateInputTokens"}),
  Call("FarmTransactionV1_2.exitFarm", {"TransactionsFarm.getExitFarmGasLimit"})}

\* FarmTransactionServiceV1_2: compoundRewards .. compoundRewards
FarmV12Compound == UNION {
  Call("FarmTransactionV1_2.compoundRewards", {"farm.farmedTokenID", "farm.farmingTokenID"})}

\* FarmTransactionServiceV1_3: enterFarm .. exitFarm
FarmV13EnterExit == UNION {
  Call("FarmTransactionV1_3.enterFarm", {"TransactionsFarm.validateInputTokens"}),
  Call("FarmTransactionV1_3.exitFarm", {"TransactionsFarm.getExitFarmGasLimit"})}

\* FarmTransactionServiceV1_3: compoundRewards .. compoundRewards
FarmV13Compound == UNION {
  Call("FarmTransactionV1_3.compoundRewards", {"farm.farmedTokenID", "farm.farmingTokenID"})}

\* FarmTransactionServiceV2: enterFarm .. exitFarm
FarmV2EnterExit == UNION {
  Call("FarmTransactionV2.enterFarm", {"TransactionsFarm.validateInputTokens"}),
  Call("FarmTransactionV2.exitFarm", {"TransactionsFarm.getExitFarmGasLimit"})}

\* StakingTransactionService: stakeFarm .. stakeFarm
StakingStake == UNION {
  Call("StakingTransaction.stakeFarm", {"StakingTransaction.validateInputTokens"})}

\* StakingTransactionService: validateInputTokens .. validateInputTokens
StakingInputChecks == UNION {
  Call("StakingTransaction.validateInputTokens", {"stake.farmTokenID", "stake.farmingTokenID"})}

\* StakingProxyTransactionService: stakeFarmTokens .. claimDualYield
StakingProxyStakeClaim == UNION {
  Call("StakingProxyTransaction.stakeFarmTokens", {"StakingProxyTransaction.validateInputTokens"}),
  Call("StakingProxyTransaction.claimDualYield", {"stakeProxy.dualYieldTokenID"})}

\* StakingProxyTransactionService: unstakeFarmTokens .. validateInputTokens
StakingProxyUnstake == UNION {
  Call("StakingProxyTransaction.unstakeFarmTokens",
      {"FarmBase.getTokensForExitFarm", "MXApi.getNftByTokenIdentifier",
       "Pair.getLiquidityPosition", "stakeProxy.lpFarmAddress", "stakeProxy.lpFarmTokenID",
       "stakeProxy.pairAddress"}),
  Call("StakingProxyTransaction.validateInputTokens",
      {"stakeProxy.dualYieldTokenID", "stakeProxy.lpFarmTokenID"})}

\* ProxyFarmTransactionsService: exitFarmProxy .. exitFarmProxy
ProxyFarmExit == UNION {
  Call("ProxyFarmTransactions.exitFarmProxy", {"ProxyFarmTransactions.getExitFarmProxyGasLimit"})}

\* ProxyFarmTransactionsService: getExitFarmProxyGasLimit .. getExitFarmProxyGasLimit
ProxyFarmExitGas == UNION {
  Call("ProxyFarmTransactions.getExitFarmProxyGasLimit",
      {"ID.pairAddress", "farm.farmedTokenID", "farm.farmingTokenID", "pair.trustedSwapPairs"})}

\* ProxyPairTransactionsService: addLiquidityProxyBatch .. addLiquidityProxy
ProxyPairAdd == UNION {
  Call("ProxyPairTransactions.addLiquidityProxyBatch",
      {"ProxyPairTransactions.addLiquidityProxy"}),
  Call("ProxyPairTransactions.addLiquidityProxy",
      {"ProxyPairTransactions.convertInputTokenstoESDTTokens",
       "ProxyPairTransactions.getLiquidityTokens"})}

\* ProxyPairTransactionsService: removeLiquidityProxy .. removeLiquidityProxy
ProxyPairRemove == UNION {
  Call("ProxyPairTransactions.removeLiquidityProxy",
      {"Pair.getLiquidityPosition", "WrapTransactions.unwrapEgld", "pair.firstTokenID",
       "pair.secondTokenID", "wrap.wrappedEgldTokenID"})}

\* ProxyPairTransactionsService: convertInputTokenstoESDTTokens .. getLiquidityTokens
ProxyPairInputTokens == UNION {
  Call("ProxyPairTransactions.convertInputTokenstoESDTTokens", {"wrap.wrappedEgldTokenID"}),
  Call("ProxyPairTransactions.getLiquidityTokens",
      {"pair.firstTokenID", "proxy.lockedAssetTokenID"})}

\* SimpleLockTransactionService: lockTokens .. lockTokens
SimpleLockLock == UNION {
  Call("SimpleLockTransaction.lockTokens", {"context.currentEpoch"})}

\* SimpleLockTransactionService: addLiquidityLockedTokenBatch .. addLiquidityLockedToken
SimpleLockAddLiquidity == UNION {
  Call("SimpleLockTransaction.addLiquidityLockedTokenBatch",
      {"SimpleLockTransaction.addLiquidityLockedToken", "wrap.wrappedEgldTokenID"}),
  Call("SimpleLockTransaction.addLiquidityLockedToken",
      {"pair.firstTokenID", "pair.secondTokenID"})}

\* SimpleLockTransactionService: removeLiquidityLockedToken .. removeLiquidityLockedToken
SimpleLockRemoveLiquidity == UNION {
  Call("SimpleLockTransaction.removeLiquidityLockedToken",
      {"ID.pairAddress", "Pair.getLiquidityPosition"})}

\* SimpleLockTransactionService: exitFarmLockedToken .. exitFarmOldToken
SimpleLockExitFarm == UNION {
  Calls({"SimpleLockTransaction.exitFarmLockedToken",
         "SimpleLockTransaction.farmClaimRewardsLockedToken",
         "SimpleLockTransaction.exitFarmOldToken"},
      {"SimpleLockTransaction.validateInputFarmProxyToken"})}

\* SimpleLockTransactionService: validateInputFarmProxyToken .. validateInputFarmProxyToken
SimpleLockFarmToken == UNION {
  Call("SimpleLockTransaction.validateInputFarmProxyToken", {"simpleLock.farmProxyTokenID"})}

\* TransactionsLockedAssetService: lockAssets .. validateLockAssetsInputTokens
LockedAssetLockUnlock == UNION {
  Call("TransactionsLockedAsset.lockAssets",
      {"TransactionsLockedAsset.validateLockAssetsInputTokens"}),
  Call("TransactionsLockedAsset.mergeLockedAssetTokens",
      {"TransactionsLockedAsset.validateInputTokens"}),
  Call("TransactionsLockedAsset.validateInputTokens", {"lockedAssetFactory.lockedTokenID"}),
  Call("TransactionsLockedAsset.validateLockAssetsInputTokens",
      {"lockedAssetFactory.assetTokenID"})}

\* LockedTokenWrapperTransactionService: unwrapLockedToken .. unwrapLockedToken
LockedTokenUnwrap == UNION {
  Call("LockedTokenWrapperTransaction.unwrapLockedToken",
      {"MXApi.getNftAttributesByTokenIdentifier", "context.currentEpoch", "energy.lockedTokenID"})}

\* PriceDiscoveryTransactionService: depositBatch .. genericRedeemInteraction
PriceDiscoveryBatches == UNION {
  Call("PriceDiscoveryTransaction.depositBatch",
      {"PriceDiscoveryTransaction.deposit", "wrap.wrappedEgldTokenID"}),
  Call("PriceDiscoveryTransaction.deposit",
      {"PriceDiscoveryTransaction.validateDepositInputTokens"}),
  Call("PriceDiscoveryTransaction.genericBatchRedeemInteraction",
      {"PriceDiscoveryTransaction.genericRedeemInteraction", "WrapTransactions.unwrapEgld",
       "priceDiscovery.acceptedTokenID", "priceDiscovery.currentPhase",
       "wrap.wrappedEgldTokenID"}),
  Call("PriceDiscoveryTransaction.genericRedeemInteraction",
      {"PriceDiscoveryTransaction.validateRedeemInputTokens"})}

\* PriceDiscoveryTransactionService: validateDepositInputTokens .. validateRedeemInputTokens
PriceDiscoveryInputChecks == UNION {
  Call("PriceDiscoveryTransaction.validateDepositInputTokens",
      {"priceDiscovery.acceptedTokenID", "priceDiscovery.launchedTokenID"}),
  Call("PriceDiscoveryTransaction.validateRedeemInputTokens", {"priceDiscovery.redeemTokenID"})}

\* MetabondingTransactionService: stakeLockedAsset .. stakeLockedAsset
MetabondingStake == UNION {
  Call("MetabondingTransaction.stakeLockedAsset", {"metabonding.userEntry"})}

\* FeesCollectorTransactionService: claimRewardsBatch .. claimRewardsBatch
FeesCollectorClaim == UNION {
  Call("FeesCollectorTransaction.claimRewardsBatch",
      {"weekTimekeeping.currentWeek", "weeklyRewards.lastActiveWeekForUser"})}

\* UserEnergyTransactionService: updateFarmsEnergyForUser .. updateFarmsEnergyForUser
UserEnergyUpdate == UNION {
  Call("UserEnergyTransaction.updateFarmsEnergyForUser",
      {"UserEnergyCompute.getUserOutdatedContracts", "userEnergy.userActiveFarmsV2"})}

\* TokenUnstakeTransactionService: claimUnlockedTokens .. cancelUnbond
TokenUnstakeClaim == UNION {
  Calls({"TokenUnstakeTransaction.claimUnlockedTokens", "TokenUnstakeTransaction.cancelUnbond"},
      {"tokenUnstake.unlockedTokensForUser"})}

\* All rows of the module.
TransactionRows == UNION {
  PairInitialLiquidity, PairLiquidity, PairSwapFixedInput,
  PairSwapFixedOutput, PairTokenChecks, RouterCreatePair,
  RouterSwapByUser, RouterMultiSwap, RouterSwapEnableChecks,
  AutoRouterMultiPairSwap, AutoRouterUnwrap, WrapUnwrap,
  FarmInputChecks, FarmV12EnterExit, FarmV12Compound,
  FarmV13EnterExit, FarmV13Compound, FarmV2EnterExit,
  StakingStake, StakingInputChecks, StakingProxyStakeClaim,
  StakingProxyUnstake, ProxyFarmExit, ProxyFarmExitGas,
  ProxyPairAdd, ProxyPairRemove, ProxyPairInputTokens,
  SimpleLockLock, SimpleLockAddLiquidity, SimpleLockRemoveLiquidity,
  SimpleLockExitFarm, SimpleLockFarmToken, LockedAssetLockUnlock,
  LockedTokenUnwrap, PriceDiscoveryBatches, PriceDiscoveryInputChecks,
  MetabondingStake, FeesCollectorClaim, UserEnergyUpdate,
  TokenUnstakeClaim}
==============================================================================
