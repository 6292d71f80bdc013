---------------------------- MODULE PairCalls ----------------------------
\* Calls of the pair and token services: what each getter asks, and which of them are cached.
EXTENDS ServiceCalls

\* PairAbiService: firstTokenID .. getTotalSupplyRaw
PairTokensAndReserves == UNION {
  Views({"pair.firstTokenID", "pair.secondTokenID"}, Token, {"contract"}),
  View("pair.lpTokenID", Token, {"PairAbi.getLpTokenIDRaw"}),
  Calls({"PairAbi.getLpTokenIDRaw", "PairAbi.getTokenReserveRaw"}, {"contract"}),
  View("pair.tokenReserve", ContractBalance, {"PairAbi.getTokenReserveRaw"}),
  View("pair.firstTokenReserve", ContractBalance,
      {"PairAbi.getTokenReserveRaw", "pair.firstTokenID"}),
  View("pair.secondTokenReserve", ContractBalance,
      {"PairAbi.getTokenReserveRaw", "pair.secondTokenID"}),
  View("pair.totalSupply", ContractBalance, {"contract"})}

\* PairAbiService: pairInfoMetadata .. getInitialLiquidityAdderRaw
PairFeesAndTrustedPairs == UNION {
  View("pair.pairInfoMetadata", ContractBalance, {"PairAbi.getPairInfoMetadataRaw"}),
  Calls({"PairAbi.getPairInfoMetadataRaw", "PairAbi.getTotalFeePercentRaw",
         "PairAbi.getSpecialFeePercentRaw"}, {"contract"}),
  View("pair.totalFeePercent", ContractState, {"PairAbi.getTotalFeePercentRaw"}),
  View("pair.specialFeePercent", ContractState, {"PairAbi.getSpecialFeePercentRaw"}),
  Views({"pair.trustedSwapPairs", "pair.initialLiquidityAdder"}, ContractState, {"contract"})}

\* PairAbiService: state .. unlockEpoch
PairStateAndLocking == UNION {
  View("pair.state", ContractState, {"PairAbi.getStateRaw"}),
  Calls({"PairAbi.getStateRaw", "PairAbi.getFeeStateRaw"}, {"contract"}),
  View("pair.feeState", ContractState, {"PairAbi.getFeeStateRaw"}),
  Views({"pair.lockingScAddress", "pair.unlockEpoch"}, Hour, {"contract"})}

\* PairAbiService: getUnlockEpochRaw .. getWhitelistedAddressesRaw
PairUnlockAndDestinations == UNION {
  View("pair.lockingDeadlineEpoch", Hour, {"contract"}),
  Views({"pair.feeDestinations", "pair.whitelistedAddresses"}, ContractState, {"contract"})}

\* PairAbiService: routerAddress .. getFeesCollectorCutPercentageRaw
PairRouterAndSafePrice == UNION {
  View("pair.routerAddress", ContractState, {"contract"}),
  View("pair.safePrice", ContractState, {"PairAbi.updateAndGetSafePrice"}),
  Calls({"PairAbi.updateAndGetSafePrice", "PairAbi.getFeesCollectorAddressRaw",
         "PairAbi.getFeesCollectorCutPercentageRaw"}, {"contract"}),
  View("pair.feesCollectorAddress", ContractState, {"PairAbi.getFeesCollectorAddressRaw"}),
  View("pair.feesCollectorCutPercentage", ContractState,
      {"PairAbi.getFeesCollectorCutPercentageRaw"})}

\* PairComputeService: getTokenPrice .. firstTokenPriceUSD
PairPricesInTokens == UNION {
  Call("PairCompute.getTokenPrice",
      {"pair.firstTokenID", "pair.firstTokenPrice", "pair.secondTokenID", "pair.secondTokenPrice"}),
  View("pair.firstTokenPrice", Price, {"PairCompute.computeFirstTokenPrice"}),
  Calls({"PairCompute.computeFirstTokenPrice", "PairCompute.computeSecondTokenPrice"},
      {"Pair.getEquivalentForLiquidity", "Pair.getFirstToken", "Pair.getSecondToken"}),
  View("pair.secondTokenPrice", Price, {"PairCompute.computeSecondTokenPrice"}),
  View("pair.lpTokenPriceUSD", Price, {"PairCompute.computeLpTokenPriceUSD"}),
  Call("PairCompute.computeLpTokenPriceUSD",
      {"Pair.getFirstToken", "Pair.getLiquidityPosition", "Pair.getLpToken",
       "Pair.getSecondToken", "pair.firstTokenPriceUSD", "pair.secondTokenPriceUSD"}),
  View("pair.tokenPriceUSD", Price, {"TokenCompute.computeTokenPriceDerivedUSD"}),
  View("pair.firstTokenPriceUSD", Price, {"PairCompute.computeFirstTokenPriceUSD"})}

\* PairComputeService: computeFirstTokenPriceUSD .. computeLockedValueUSD
PairPricesAndLockedValue == UNION {
  Call("PairCompute.computeFirstTokenPriceUSD",
      {"PairCompute.computeFirstTokenPrice", "TokenCompute.computeTokenPriceDerivedUSD",
       "pair.firstTokenID", "pair.secondTokenID", "token.externalPrice"}),
  View("pair.secondTokenPriceUSD", Price, {"PairCompute.computeSecondTokenPriceUSD"}),
  Call("PairCompute.computeSecondTokenPriceUSD",
      {"PairCompute.computeSecondTokenPrice", "TokenCompute.computeTokenPriceDerivedUSD",
       "pair.firstTokenID", "pair.secondTokenID", "token.externalPrice"}),
  View("pair.firstTokenLockedValueUSD", ContractInfo,
      {"PairCompute.computeFirstTokenLockedValueUSD"}),
  Call("PairCompute.computeFirstTokenLockedValueUSD",
      {"Pair.getFirstToken", "pair.firstTokenPriceUSD", "pair.firstTokenReserve"}),
  View("pair.secondTokenLockedValueUSD", ContractInfo,
      {"PairCompute.computeSecondTokenLockedValueUSD"}),
  Call("PairCompute.computeSecondTokenLockedValueUSD",
      {"Pair.getSecondToken", "pair.secondTokenPriceUSD", "pair.secondTokenReserve"}),
  View("pair.lockedValueUSD", ContractInfo, {"PairCompute.computeLockedValueUSD"}),
  Call("PairCompute.computeLockedValueUSD",
      {"PairCompute.computeFirstTokenLockedValueUSD",
       "PairCompute.computeSecondTokenLockedValueUSD"})}

\* PairComputeService: firstTokenVolume .. type
PairVolumesAndFees == UNION {
  Views({"pair.firstTokenVolume", "pair.secondTokenVolume", "pair.volumeUSD",
         "pair.feesUSD"}, Analytics, {"AnalyticsQuery.getAggregatedValue"}),
  View("pair.feesAPR", ContractState, {"PairCompute.computeFeesAPR"}),
  Call("PairCompute.computeFeesAPR",
      {"PairCompute.computeLockedValueUSD", "pair.feesUSD", "pair.specialFeePercent",
       "pair.totalFeePercent"}),
  View("pair.type", ContractState, {"PairCompute.computeTypeFromTokens"})}

\* PairComputeService: computeTypeFromTokens .. tradesCount
PairTypeAndFarms == UNION {
  Call("PairCompute.computeTypeFromTokens",
      {"pair.firstTokenID", "pair.secondTokenID", "token.getEsdtTokenType"}),
  Call("PairCompute.computePermanentLockedValueUSD",
      {"Pair.getFirstToken", "Pair.getSecondToken", "pair.firstTokenPriceUSD",
       "pair.secondTokenPriceUSD"}),
  View("pair.hasFarms", ContractState, {"PairCompute.computeHasFarms"}),
  Call("PairCompute.computeHasFarms", {"farm.farmingTokenID", "pair.lpTokenID"}),
  View("pair.hasDualFarms", ContractState, {"PairCompute.computeHasDualFarms"}),
  Call("PairCompute.computeHasDualFarms", {"scAddress.STAKING_PROXY", "stakeProxy.pairAddress"}),
  View("pair.tradesCount", ContractState, {"PairCompute.computeTradesCount"})}

\* PairComputeService: computeTradesCount .. computeDeployedAt
PairTradesAndAge == UNION {
  Call("PairCompute.computeTradesCount", {"Elastic.getCount"}),
  View("pair.deployedAt", ContractState, {"PairCompute.computeDeployedAt"}),
  Call("PairCompute.computeDeployedAt", {"MXApi.getAccountStats"})}

\* PairService: getFirstToken .. getEquivalentForLiquidity
PairTokensAndAmounts == UNION {
  Call("Pair.getFirstToken", {"pair.firstTokenID", "token.metadata"}),
  Call("Pair.getSecondToken", {"pair.secondTokenID", "token.metadata"}),
  Call("Pair.getLpToken", {"pair.lpTokenID", "token.metadata"}),
  Calls({"Pair.getAmountOut", "Pair.getAmountIn"},
      {"pair.firstTokenID", "pair.pairInfoMetadata", "pair.secondTokenID",
       "pair.totalFeePercent", "wrap.wrappedEgldTokenID"}),
  Call("Pair.getEquivalentForLiquidity",
      {"pair.firstTokenID", "pair.pairInfoMetadata", "pair.secondTokenID",
       "wrap.wrappedEgldTokenID"})}

\* PairService: getLiquidityPosition .. getLockedTokensInfo
PairPositionsAndLookups == UNION {
  Call("Pair.getLiquidityPosition", {"pair.pairInfoMetadata"}),
  Call("Pair.getLiquidityPositionUSD",
      {"Pair.getFirstToken", "Pair.getLiquidityPosition", "Pair.getSecondToken",
       "pair.firstTokenPriceUSD", "pair.secondTokenPriceUSD"}),
  View("ID.pairAddress", Hour, {"pair.lpTokenID", "router.pairsAddress"}),
  Call("Pair.isPairEsdtToken",
      {"pair.firstTokenID", "pair.lpTokenID", "pair.secondTokenID", "router.pairsAddress"}),
  Call("Pair.requireOwner", {"router.owner"}),
  Call("Pair.getLockedTokensInfo",
      {"context.currentEpoch", "pair.lockingDeadlineEpoch", "pair.lockingScAddress",
       "pair.unlockEpoch"})}

\* PairFilteringService: pairsByIssuedLpToken .. pairsByIssuedLpToken
PairsByLpToken == UNION {
  Call("PairFiltering.pairsByIssuedLpToken", {"pair.lpTokenID"})}

\* PairFilteringService: pairsByWildcardToken .. pairsByLockedValueUSD
PairsByTokensAndValue == UNION {
  Call("PairFiltering.pairsByWildcardToken", {"Pair.getFirstToken", "Pair.getSecondToken"}),
  Call("PairFiltering.pairsByState", {"pair.state"}),
  Call("PairFiltering.pairsByFeeState", {"pair.feeState"}),
  Call("PairFiltering.pairsByVolume", {"pair.volumeUSD"}),
  Call("PairFiltering.pairsByLockedValueUSD", {"pair.lockedValueUSD"})}

\* PairFilteringService: pairsByTradesCount .. pairsByDeployedAt
PairsByTradesAndFarms == UNION {
  Call("PairFiltering.pairsByTradesCount", {"pair.tradesCount"}),
  Call("PairFiltering.pairsByHasFarms", {"pair.hasFarms"}),
  Call("PairFiltering.pairsByHasDualFarms", {"pair.hasDualFarms"}),
  Call("PairFiltering.pairsByDeployedAt", {"pair.deployedAt"})}

\* PairsMetadataBuilder: filterByIssuedLpToken .. filterByDeployedAt
PairsMetadataFilters == UNION {
  Call("PairsMetadataBuilder.filterByIssuedLpToken", {"PairFiltering.pairsByIssuedLpToken"}),
  Call("PairsMetadataBuilder.filterByTokens", {"PairFiltering.pairsByWildcardToken"}),
  Call("PairsMetadataBuilder.filterByState", {"PairFiltering.pairsByState"}),
  Call("PairsMetadataBuilder.filterByFeeState", {"PairFiltering.pairsByFeeState"}),
  Call("PairsMetadataBuilder.filterByVolume", {"PairFiltering.pairsByVolume"}),
  Call("PairsMetadataBuilder.filterByLockedValueUSD", {"PairFiltering.pairsByLockedValueUSD"}),
  Call("PairsMetadataBuilder.filterByTradesCount", {"PairFiltering.pairsByTradesCount"}),
  Call("PairsMetadataBuilder.filterByHasFarms", {"PairFiltering.pairsByHasFarms"}),
  Call("PairsMetadataBuilder.filterByHasDualFarms", {"PairFiltering.pairsByHasDualFarms"}),
  Call("PairsMetadataBuilder.filterByDeployedAt", {"PairFiltering.pairsByDeployedAt"})}

\* TokenService: getTokens .. getNftCollectionMetadata
TokenListsAndMetadata == UNION {
  Call("Token.getTokens", {"Token.getUniqueTokenIDs", "token.getEsdtTokenType", "token.metadata"}),
  Call("Token.getFilteredTokens",
      {"Token.getUniqueTokenIDs", "Token.sortTokens", "TokenFiltering.tokensByLiquidityUSD",
       "TokenFiltering.tokensByType", "token.metadata"}),
  View("token.getEsdtTokenType", ContractState, {"database"}),
  View("token.metadata", Renewed, {"MXApi.getToken"}),
  View("token.collection", Renewed, {"MXApi.doGetGeneric", "contract"})}

\* TokenService: getUniqueTokenIDs .. sortTokens
TokenCollectionsAndOrder == UNION {
  Call("Token.getUniqueTokenIDs", {"pair.state", "router.pairsMetadata"}),
  Call("Token.sortTokens",
      {"TokenCompute.tokenSwapCount", "token.tokenCreatedAt", "token.tokenLiquidityUSD",
       "token.tokenPrevious24hPrice", "token.tokenPrevious24hVolumeUSD",
       "token.tokenPrevious7dPrice", "token.tokenPriceChange24h", "token.tokenPriceDerivedUSD",
       "token.tokenTradeChange24h", "token.tokenTrendingScore", "token.tokenVolumeUSD24h",
       "token.tokenVolumeUSDChange24h"})}

\* TokenComputeService: getEgldPriceInUSD .. tokenPriceDerivedUSD
TokenPricesAndDerivation == UNION {
  Call("TokenCompute.getEgldPriceInUSD", {"pair.firstTokenPrice"}),
  View("token.tokenPriceDerivedEGLD", Price, {"TokenCompute.computeTokenPriceDerivedEGLD"}),
  Call("TokenCompute.computeTokenPriceDerivedEGLD",
      {"Pair.getFirstToken", "Pair.getSecondToken", "TokenCompute.computeTokenPriceDerivedEGLD",
       "TokenCompute.getEgldPriceInUSD", "pair.firstTokenPrice", "pair.firstTokenReserve",
       "pair.secondTokenPrice", "pair.secondTokenReserve", "pair.state", "pair.totalSupply",
       "router.pairsMetadata"}),
  View("token.tokenPriceDerivedUSD", Price, {"TokenCompute.computeTokenPriceDerivedUSD"})}

\* TokenComputeService: computeTokenPriceDerivedUSD .. tokenTradeChange24h
TokenPriceChanges == UNION {
  Call("TokenCompute.computeTokenPriceDerivedUSD",
      {"TokenCompute.computeTokenPriceDerivedEGLD", "TokenCompute.getEgldPriceInUSD",
       "token.externalPrice"}),
  View("token.tokenPrevious24hPrice", Price, {"TokenCompute.computeTokenPrevious24hPrice"}),
  Call("TokenCompute.computeTokenPrevious24hPrice", {"AnalyticsQuery.getValues24h"}),
  View("token.tokenPrevious7dPrice", Token, {"TokenCompute.computeTokenPrevious7dPrice"}),
  Call("TokenCompute.computeTokenPrevious7dPrice", {"AnalyticsQuery.getLatestCompleteValues"}),
  View("token.tokenPriceChange24h", Token,
      {"token.tokenPrevious24hPrice", "token.tokenPriceDerivedUSD"}),
  View("token.tokenVolumeUSDChange24h", Token,
      {"token.tokenPrevious24hVolumeUSD", "token.tokenVolumeUSD24h"}),
  View("token.tokenTradeChange24h", Token,
      {"TokenCompute.tokenPrevious24hSwapCount", "TokenCompute.tokenSwapCount"})}

\* TokenComputeService: computeTokenTradeChange24h .. computeTokenLiquidityUSD
TokenVolumesAndLiquidity == UNION {
  Views({"token.tokenVolumeUSD24h", "token.tokenPrevious24hVolumeUSD"}, Token,
      {"token.tokenLast2DaysVolumeUSD"}),
  View("token.tokenLast2DaysVolumeUSD", Token, {"TokenCompute.computeTokenLast2DaysVolumeUSD"}),
  Call("TokenCompute.computeTokenLast2DaysVolumeUSD", {"AnalyticsQuery.getHourlySumValues"}),
  View("token.tokenLiquidityUSD", Token, {"TokenCompute.computeTokenLiquidityUSD"}),
  Call("TokenCompute.computeTokenLiquidityUSD", {"AnalyticsQuery.getLatestCompleteValues"})}

\* TokenComputeService: tokenCreatedAt .. computeAllTokensSwapsCount
TokenAgeAndSwapCounts == UNION {
  View("token.tokenCreatedAt", Token, {"Elastic.getList"}),
  Calls({"TokenCompute.tokenSwapCount", "TokenCompute.tokenPrevious24hSwapCount"}, {}),
  Views({"token.allTokensSwapsCount", "token.allTokensSwapsCountPrevious24h"}, Token,
      {"TokenCompute.computeAllTokensSwapsCount"}),
  Call("TokenCompute.computeAllTokensSwapsCount",
      {"ESLogs.getTokenSwapsCount", "router.pairsAddress"})}

\* TokenComputeService: tokenTrendingScore .. computeTokenTrendingScore
TokenTrending == UNION {
  View("token.tokenTrendingScore", Token, {"TokenCompute.computeTokenTrendingScore"}),
  Call("TokenCompute.computeTokenTrendingScore",
      {"token.tokenPriceChange24h", "token.tokenTradeChange24h", "token.tokenVolumeUSDChange24h"})}

\* TokenFilteringService: tokensByType .. tokensByType
TokensByType == UNION {
  Call("TokenFiltering.tokensByType", {"token.getEsdtTokenType"})}

\* TokenFilteringService: tokensByLiquidityUSD .. tokensByLiquidityUSD
TokensByLiquidity == UNION {
  Call("TokenFiltering.tokensByLiquidityUSD", {"token.tokenLiquidityUSD"})}

\* All rows of the module.
PairRows == UNION {
  PairTokensAndReserves, PairFeesAndTrustedPairs, PairStateAndLocking,
  PairUnlockAndDestinations, PairRouterAndSafePrice, PairPricesInTokens,
  PairPricesAndLockedValue, PairVolumesAndFees, PairTypeAndFarms,
  PairTradesAndAge, PairTokensAndAmounts, PairPositionsAndLookups,
  PairsByLpToken, PairsByTokensAndValue, PairsByTradesAndFarms,
  PairsMetadataFilters, TokenListsAndMetadata, TokenCollectionsAndOrder,
  TokenPricesAndDerivation, TokenPriceChanges, TokenVolumesAndLiquidity,
  TokenAgeAndSwapCounts, TokenTrending, TokensByType,
  TokensByLiquidity}
==============================================================================
