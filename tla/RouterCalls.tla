---------------------------- MODULE RouterCalls ----------------------------
\* Calls of the router, auto-router, analytics and wrapping services.
EXTENDS ServiceCalls

\* RouterAbiService: pairsAddress .. temporaryOwnerPeriod
RouterPairsAndState == UNION {
  View("router.pairsAddress", Minute, {"RouterAbi.getAllPairsAddressRaw"}),
  Calls({"RouterAbi.getAllPairsAddressRaw", "RouterAbi.getPairsMetadataRaw"}, {"contract"}),
  View("router.pairsMetadata", Minute, {"RouterAbi.getPairsMetadataRaw"}),
  Views({"router.pairCreationEnabled", "router.state", "router.owner",
         "router.allPairTokens", "router.pairTemplateAddress"}, Hour, {"contract"}),
  View("router.temporaryOwnerPeriod", Ttl(600, 600), {"contract"})}

\* RouterAbiService: getTemporaryOwnerPeriodRaw .. getCommonTokensForUserPairsRaw
RouterOwnerAndCommonTokens == UNION {
  Views({"router.enableSwapByUserConfig", "router.commonTokensForUserPairs"}, Hour, {"contract"})}

\* RouterComputeService: totalLockedValueUSD .. computePairCount
RouterTotals == UNION {
  View("router.totalLockedValueUSD", Minute, {"RouterCompute.computeTotalLockedValueUSD"}),
  Call("RouterCompute.computeTotalLockedValueUSD",
      {"PairCompute.computeLockedValueUSD", "router.pairsAddress"}),
  View("router.totalVolumeUSD", Ttl(300, 300), {"pair.volumeUSD", "router.pairsAddress"}),
  View("router.totalFeesUSD", Ttl(300, 300), {"pair.feesUSD", "router.pairsAddress"}),
  View("router.totalTxCount", Minute, {"ESTransactions.computeTxCount", "router.pairsAddress"}),
  View("router.pairCount", Hour, {"router.pairsAddress"})}

\* RouterService: getPairMetadata .. getAllPairs
RouterPairList == UNION {
  Call("Router.getPairMetadata", {"router.pairsMetadata"}),
  Call("Router.getFilteredPairs", {"Router.sortPairs", "router.pairsMetadata"}),
  Call("Router.getAllPairs",
      {"Router.filterPairsByFeeState", "Router.filterPairsByLockedValueUSD",
       "Router.filterPairsByState", "Router.filterPairsByVolume", "router.pairsByIssuedLpToken",
       "router.pairsMetadata"})}

\* RouterService: pairsByIssuedLpToken .. requireOwner
RouterPairFilters == UNION {
  View("router.pairsByIssuedLpToken", Ttl(30, 6), {"pair.lpTokenID"}),
  Call("Router.filterPairsByState", {"pair.state"}),
  Call("Router.filterPairsByFeeState", {"pair.feeState"}),
  Call("Router.filterPairsByVolume", {"pair.volumeUSD"}),
  Call("Router.filterPairsByLockedValueUSD", {"pair.lockedValueUSD"}),
  Call("Router.requireOwner", {"router.owner"})}

\* RouterService: sortPairs .. sortPairs
RouterPairOrder == UNION {
  Call("Router.sortPairs",
      {"pair.deployedAt", "pair.feesUSD", "pair.lockedValueUSD", "pair.tradesCount",
       "pair.volumeUSD"})}

\* AutoRouterService: getAllPaths .. swap
AutoRouterPathsAndSwap == UNION {
  View("auto.route.paths", Ttl(600, 600), {}),
  Call("AutoRouter.swap",
      {"AutoRouter.getAllActivePairs", "AutoRouter.multiSwap", "AutoRouter.singleSwap",
       "AutoRouter.toWrappedIfEGLD", "RemoteConfigGetter.getMultiSwapStatus", "token.metadata"})}

\* AutoRouterService: singleSwap .. singleSwap
AutoRouterSingleSwap == UNION {
  Call("AutoRouter.singleSwap",
      {"AutoRouter.getTokenPriceDeviationPercent", "Pair.getAmountIn", "Pair.getAmountOut",
       "pair.tokenPriceUSD"})}

\* AutoRouterService: multiSwap .. multiSwap
AutoRouterMultiSwap == UNION {
  Call("AutoRouter.multiSwap",
      {"AutoRouter.getTokenPriceDeviationPercent", "Pair.getLockedTokensInfo",
       "auto.route.paths", "pair.tokenPriceUSD"})}

\* AutoRouterService: getAllActivePairs .. toWrappedIfEGLD
AutoRouterActivePairs == UNION {
  Call("AutoRouter.getAllActivePairs",
      {"AutoRouter.getPair", "pair.state", "router.pairsAddress"}),
  Call("AutoRouter.getPair",
      {"Pair.getFirstToken", "Pair.getSecondToken", "pair.pairInfoMetadata",
       "pair.totalFeePercent"}),
  Call("AutoRouter.toWrappedIfEGLD", {"wrap.wrappedEgldTokenID"})}

\* AutoRouterService: getTransactions .. getTokenPriceDeviationPercent
AutoRouterTransactionsAndDeviation == UNION {
  Call("AutoRouter.getTransactions",
      {"AutoRouterTransaction.multiPairSwap", "PairTransaction.swapTokensFixedInput",
       "PairTransaction.swapTokensFixedOutput"}),
  Call("AutoRouter.getTokenPriceDeviationPercent", {"pair.tokenPriceUSD", "token.metadata"})}

\* GraphService: getAllPathsUtil .. getAllPaths
GraphPaths == UNION {
  Calls({"Graph.getAllPathsUtil", "Graph.getAllPaths"}, {"Graph.getAllPathsUtil"})}

\* AnalyticsComputeService: lockedValueUSDFarms .. totalAggregatedRewards
AnalyticsTotals == UNION {
  View("analytics.lockedValueUSDFarms", Ttl(600, 300),
      {"AnalyticsCompute.computeLockedValueUSDFarms"}),
  Call("AnalyticsCompute.computeLockedValueUSDFarms",
      {"FarmComputeV1_2.computeFarmLockedValueUSD", "FarmComputeV1_3.computeFarmLockedValueUSD",
       "FarmComputeV2.computeFarmLockedValueUSD"}),
  View("analytics.totalValueLockedUSD", Ttl(600, 300),
      {"AnalyticsCompute.computeTotalValueLockedUSD"}),
  Call("AnalyticsCompute.computeTotalValueLockedUSD",
      {"AnalyticsCompute.fiterPairsByIssuedLpToken", "pair.lockedValueUSD", "router.pairsAddress"}),
  View("analytics.totalValueStakedUSD", Ttl(600, 300),
      {"AnalyticsCompute.computeTotalLockedMexStakedUSD",
       "FarmComputeV1_2.computeFarmLockedValueUSD", "FarmComputeV1_3.computeFarmLockedValueUSD",
       "FarmComputeV2.computeFarmLockedValueUSD", "scAddress.STAKING", "stake.stakedValueUSD"}),
  View("analytics.totalAggregatedRewards", Ttl(600, 300),
      {"AnalyticsCompute.computeTotalAggregatedRewards"})}

\* AnalyticsComputeService: computeTotalAggregatedRewards .. fiterPairsByIssuedLpToken
AnalyticsRewardsAndTokens == UNION {
  Call("AnalyticsCompute.computeTotalAggregatedRewards", {"farm.rewardsPerBlock"}),
  View("analytics.totalLockedMexStakedUSD", Ttl(600, 300),
      {"AnalyticsCompute.computeTotalLockedMexStakedUSD"}),
  Call("AnalyticsCompute.computeTotalLockedMexStakedUSD",
      {"token.metadata", "token.tokenPriceDerivedUSD", "weekTimekeeping.currentWeek",
       "weeklyRewards.totalLockedTokensForWeek"}),
  Views({"analytics.feeTokenBurned", "analytics.penaltyTokenBurned"}, Ttl(1800, 600),
      {"AnalyticsCompute.computeTokenBurned"}),
  Call("AnalyticsCompute.computeTokenBurned", {"AnalyticsQuery.getAggregatedValue"}),
  Call("AnalyticsCompute.fiterPairsByIssuedLpToken", {"pair.lpTokenID"})}

\* AnalyticsPairService: getPairDayDatas .. getPriceCandles
AnalyticsPairHistory == UNION {
  Call("AnalyticsPair.getPairDayDatas", {"pair.firstTokenID", "pair.secondTokenID"}),
  Call("AnalyticsPair.getPairsDayDatas", {"AnalyticsPair.getPairDayDatas", "router.pairsAddress"}),
  Call("AnalyticsPair.getPriceCandles", {"AnalyticsQuery.getPriceCandles"})}

\* WrapAbiService: wrappedEgldTokenID .. getWrappedEgldTokenIDRaw
WrapTokenID == UNION {
  View("wrap.wrappedEgldTokenID", Token, {"contract"})}

\* WrapService: wrappedEgldToken .. wrappedEgldToken
WrapToken == UNION {
  Call("Wrap.wrappedEgldToken", {"token.metadata", "wrap.wrappedEgldTokenID"})}

\* All rows of the module.
RouterRows == UNION {
  RouterPairsAndState, RouterOwnerAndCommonTokens, RouterTotals,
  RouterPairList, RouterPairFilters, RouterPairOrder,
  AutoRouterPathsAndSwap, AutoRouterSingleSwap, AutoRouterMultiSwap,
  AutoRouterActivePairs, AutoRouterTransactionsAndDeviation, GraphPaths,
  AnalyticsTotals, AnalyticsRewardsAndTokens, AnalyticsPairHistory,
  WrapTokenID, WrapToken}
==============================================================================
