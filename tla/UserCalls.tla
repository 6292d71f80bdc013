---------------------------- MODULE UserCalls ----------------------------
\* Calls of the proxy and locked-asset services and of the services that value what a user holds.
EXTENDS ServiceCalls

\* ProxyAbiService: assetTokenID .. getLockedAssetTokenIDRaw
ProxyTokens == UNION {
  View("proxy.assetTokenID", Token, {"ProxyAbi.getAssetTokenIDRaw"}),
  Calls({"ProxyAbi.getAssetTokenIDRaw", "ProxyAbi.getLockedAssetTokenIDRaw"}, {"contract"}),
  View("proxy.lockedAssetTokenID", Token,
      {"ProxyAbi.getLockedAssetTokenIDRaw", "ProxyAbiV2.getLockedAssetTokenIDRaw"})}

\* ProxyAbiServiceV2: getLockedAssetTokenIDRaw .. getLockedAssetTokenIDRaw
ProxyV2Tokens == UNION {
  Call("ProxyAbiV2.getLockedAssetTokenIDRaw", {"contract"})}

\* ProxyFarmAbiService: wrappedFarmTokenID .. getIntermediatedFarmsRaw
ProxyFarmTokens == UNION {
  View("proxyFarm.wrappedFarmTokenID", Token, {"ProxyFarmAbi.getWrappedFarmTokenIDRaw"}),
  Calls({"ProxyFarmAbi.getWrappedFarmTokenIDRaw", "ProxyFarmAbi.getIntermediatedFarmsRaw"},
      {"contract"}),
  View("proxyFarm.intermediatedFarms", Hour, {"ProxyFarmAbi.getIntermediatedFarmsRaw"})}

\* ProxyPairAbiService: wrappedLpTokenID .. getIntermediatedPairsRaw
ProxyPairTokens == UNION {
  View("proxyPair.wrappedLpTokenID", Token, {"ProxyPairAbi.getWrappedLpTokenIDRaw"}),
  Calls({"ProxyPairAbi.getWrappedLpTokenIDRaw", "ProxyPairAbi.getIntermediatedPairsRaw"},
      {"contract"}),
  View("proxyPair.intermediatedPairs", Hour, {"ProxyPairAbi.getIntermediatedPairsRaw"})}

\* ProxyService: getAssetToken .. getwrappedFarmToken
ProxyTokenLookups == UNION {
  Call("Proxy.getAssetToken", {"proxy.assetTokenID", "token.metadata"}),
  Call("Proxy.getlockedAssetToken", {"proxy.lockedAssetTokenID", "token.collection"}),
  Call("Proxy.getwrappedLpToken", {"proxyPair.wrappedLpTokenID", "token.collection"}),
  Call("Proxy.getwrappedFarmToken", {"proxyFarm.wrappedFarmTokenID", "token.collection"})}

\* ProxyService: getLockedAssetsAttributes .. getLockedTokenAttributes
ProxyLockedAttributes == UNION {
  Call("Proxy.getLockedAssetsAttributes",
      {"LockedAsset.decodeLockedAssetAttributes", "MXApi.getNftAttributesByTokenIdentifier"}),
  View("ID.decodedAttributes", Attributes, {"MXApi.getNftAttributesByTokenIdentifier"})}

\* ProxyService: getFarmTokenAttributes .. getProxyAddressByToken
ProxyFarmAttributes == UNION {
  View("ID.decodedAttributes", Attributes,
      {"ID.farmAddress", "MXApi.getNftAttributesByTokenIdentifier"}),
  Call("Proxy.getProxyAddressByToken",
      {"proxy.lockedAssetTokenID", "proxyFarm.wrappedFarmTokenID", "proxyPair.wrappedLpTokenID"})}

\* AbiLockedAssetService: getAssetTokenID .. getExtendedAttributesActivationNonce
LockedAssetContract == UNION {
}

\* LockedAssetService: decodeLockedAssetAttributes .. getMonthStartEpoch
LockedAssetDecoding == UNION {
  Call("LockedAsset.decodeLockedAssetAttributes",
      {"LockedAsset.getUnlockMilestones", "lockedAssetFactory.extendedAttributesActivationNonce"}),
  Call("LockedAsset.getUnlockMilestones", {"LockedAsset.getRemainingEpochs"}),
  Call("LockedAsset.getRemainingEpochs",
      {"LockedAsset.getMonthStartEpoch", "context.currentEpoch"}),
  Call("LockedAsset.getMonthStartEpoch", {"lockedAssetFactory.initEpoch"})}

\* LockedAssetGetterService: getAssetTokenID .. getExtendedAttributesActivationNonce
LockedAssetViews == UNION {
  Views({"lockedAssetFactory.assetTokenID", "lockedAssetFactory.lockedTokenID"}, Token,
      {"contract"}),
  Call("LockedAssetGetter.getAssetToken", {"lockedAssetFactory.assetTokenID", "token.metadata"}),
  Call("LockedAssetGetter.getLockedToken",
      {"lockedAssetFactory.lockedTokenID", "token.collection"}),
  Views({"lockedAssetFactory.defaultUnlockPeriod", "lockedAssetFactory.initEpoch",
         "lockedAssetFactory.extendedAttributesActivationNonce"}, Hour, {"contract"})}

\* UserEsdtService: uniquePairTokens .. getEsdtTokenDetails
UserEsdtTokens == UNION {
  View("user.uniquePairTokens", Ttl(6, 6),
      {"Token.getUniqueTokenIDs", "pair.lpTokenID", "router.pairsAddress"}),
  Call("UserEsdt.getAllEsdtTokens",
      {"MXApi.getTokensForUser", "UserEsdt.getEsdtTokenDetails", "user.uniquePairTokens"}),
  Call("UserEsdt.getEsdtTokenDetails",
      {"ID.pairAddress", "UserEsdtCompute.esdtTokenUSD", "UserEsdtCompute.lpTokenUSD"})}

\* UserEsdtComputeService: esdtTokenUSD .. lpTokenUSD
UserEsdtValues == UNION {
  Call("UserEsdtCompute.esdtTokenUSD", {"pair.tokenPriceUSD"}),
  Call("UserEsdtCompute.lpTokenUSD", {"Pair.getLiquidityPositionUSD"})}

\* UserMetaEsdtService: getUserLockedAssetTokens .. getUserLockedLpTokensV2
UserLockedTokens == UNION {
  Call("UserMetaEsdt.getUserLockedAssetTokens",
      {"ContextGetter.getNftsForUser", "UserMetaEsdtCompute.lockedAssetTokenUSD",
       "lockedAssetFactory.lockedTokenID"}),
  Call("UserMetaEsdt.getUserFarmTokens",
      {"ContextGetter.getNftsForUser", "ID.farmTokenUSD", "farm.farmTokenID"}),
  Call("UserMetaEsdt.getUserLockedLpTokens",
      {"ContextGetter.getNftsForUser", "UserMetaEsdtCompute.lockedLpTokenUSD",
       "proxyPair.wrappedLpTokenID"}),
  Call("UserMetaEsdt.getUserLockedFarmTokens",
      {"ContextGetter.getNftsForUser", "UserMetaEsdtCompute.lockedFarmTokenUSD",
       "proxyFarm.wrappedFarmTokenID"}),
  Call("UserMetaEsdt.getUserLockedLpTokensV2",
      {"ContextGetter.getNftsForUser", "UserMetaEsdtCompute.lockedLpTokenV2USD",
       "proxyPair.wrappedLpTokenID"})}

\* UserMetaEsdtService: getUserLockedFarmTokensV2 .. getUserDualYieldTokens
UserFarmTokens == UNION {
  Call("UserMetaEsdt.getUserLockedFarmTokensV2",
      {"ContextGetter.getNftsForUser", "UserMetaEsdtCompute.lockedFarmTokenV2USD",
       "proxyFarm.wrappedFarmTokenID"}),
  Call("UserMetaEsdt.getUserStakeFarmTokens",
      {"ContextGetter.getNftsForUser", "UserMetaEsdtCompute.stakeFarmUSD", "scAddress.STAKING",
       "stake.farmTokenID"}),
  Call("UserMetaEsdt.getUserUnbondFarmTokens",
      {"ContextGetter.getNftsForUser", "UserMetaEsdtCompute.unbondFarmUSD", "scAddress.STAKING",
       "stake.farmTokenID"}),
  Call("UserMetaEsdt.getUserDualYieldTokens",
      {"ContextGetter.getNftsForUser", "UserMetaEsdtCompute.dualYieldTokenUSD",
       "scAddress.STAKING_PROXY", "stakeProxy.dualYieldTokenID"})}

\* UserMetaEsdtService: getUserRedeemToken .. getUserWrappedLockedTokenEnergy
UserLockTokens == UNION {
  Call("UserMetaEsdt.getUserRedeemToken",
      {"ContextGetter.getNftsForUser", "UserMetaEsdtCompute.redeemTokenUSD",
       "priceDiscovery.redeemTokenID"}),
  Call("UserMetaEsdt.getUserLockedEsdtToken",
      {"ContextGetter.getNftsForUser", "UserMetaEsdtCompute.lockedEsdtTokenUSD",
       "simpleLock.lockedTokenID"}),
  Call("UserMetaEsdt.getUserLockedSimpleLpToken",
      {"ContextGetter.getNftsForUser", "UserMetaEsdtCompute.lockedSimpleLpTokenUSD",
       "simpleLock.lpProxyTokenID"}),
  Call("UserMetaEsdt.getUserLockedSimpleFarmToken",
      {"ContextGetter.getNftsForUser", "UserMetaEsdtCompute.lockedSimpleFarmTokenUSD",
       "simpleLock.farmProxyTokenID"}),
  Call("UserMetaEsdt.getUserLockedTokenEnergy",
      {"ContextGetter.getNftsForUser", "UserMetaEsdtCompute.lockedTokenEnergyUSD",
       "energy.lockedTokenID"}),
  Call("UserMetaEsdt.getUserWrappedLockedTokenEnergy",
      {"ContextGetter.getNftsForUser", "UserMetaEsdtCompute.wrappedLockedTokenEnergyUSD",
       "lockedTokenWrapper.wrappedTokenId"})}

\* UserMetaEsdtService: getAllNftTokens .. nftTokenType
UserNfts == UNION {
  Call("UserMetaEsdt.getAllNftTokens",
      {"ContextGetter.getNftsForUser", "ID.farmTokenUSD",
       "UserMetaEsdtCompute.dualYieldTokenUSD", "UserMetaEsdtCompute.lockedAssetTokenUSD",
       "UserMetaEsdtCompute.lockedEsdtTokenUSD", "UserMetaEsdtCompute.lockedFarmTokenUSD",
       "UserMetaEsdtCompute.lockedFarmTokenV2USD", "UserMetaEsdtCompute.lockedLpTokenUSD",
       "UserMetaEsdtCompute.lockedLpTokenV2USD", "UserMetaEsdtCompute.lockedSimpleFarmTokenUSD",
       "UserMetaEsdtCompute.lockedSimpleLpTokenUSD", "UserMetaEsdtCompute.lockedTokenEnergyUSD",
       "UserMetaEsdtCompute.redeemTokenUSD", "UserMetaEsdtCompute.stakeFarmUSD",
       "UserMetaEsdtCompute.unbondFarmUSD", "UserMetaEsdtCompute.wrappedLockedTokenEnergyUSD",
       "user.nftTokenType"}),
  View("user.nftTokenType", Hour,
      {"PriceDiscovery.getPriceDiscoveryAddresByRedeemToken", "energy.lockedTokenID",
       "farm.farmTokenID", "lockedAssetFactory.lockedTokenID",
       "lockedTokenWrapper.wrappedTokenId", "proxyFarm.wrappedFarmTokenID",
       "proxyPair.wrappedLpTokenID", "scAddress.STAKING", "scAddress.STAKING_PROXY",
       "simpleLock.farmProxyTokenID", "simpleLock.lockedTokenID", "simpleLock.lpProxyTokenID",
       "stake.farmTokenID", "stakeProxy.dualYieldTokenID"})}

\* UserMetaEsdtService: getNftTokenTypeRaw .. getNftTokenTypeRaw
UserNftType == UNION {
}

\* UserMetaEsdtComputeService: esdtTokenUSD .. farmTokenUSD
UserTokenValues == UNION {
  Call("UserMetaEsdtCompute.esdtTokenUSD", {"token.tokenPriceDerivedUSD"}),
  Call("UserMetaEsdtCompute.lpTokenUSD", {"Pair.getLiquidityPositionUSD"}),
  Call("UserMetaEsdtCompute.computeUSDValue",
      {"Pair.getLiquidityPositionUSD", "pair.tokenPriceUSD"}),
  View("ID.farmTokenUSD", Attributes,
      {"UserMetaEsdtCompute.computeUSDValue", "farm.farmingTokenID", "farm.pairContractAddress"})}

\* UserMetaEsdtComputeService: lockedAssetTokenUSD .. lockedFarmTokenUSD
UserLockedAssetValues == UNION {
  Call("UserMetaEsdtCompute.lockedAssetTokenUSD",
      {"LockedAsset.decodeLockedAssetAttributes", "lockedAssetFactory.assetTokenID",
       "token.tokenPriceDerivedUSD"}),
  Calls({"UserMetaEsdtCompute.lockedLpTokenUSD", "UserMetaEsdtCompute.lockedLpTokenV2USD"},
      {"ID.pairAddress", "Pair.getLiquidityPositionUSD"}),
  Call("UserMetaEsdtCompute.lockedFarmTokenUSD",
      {"ID.farmTokenUSD", "MXApi.getNftByTokenIdentifier"})}

\* UserMetaEsdtComputeService: lockedFarmTokenV2USD .. unbondFarmUSD
UserFarmValues == UNION {
  Call("UserMetaEsdtCompute.lockedFarmTokenV2USD",
      {"ID.farmTokenUSD", "MXApi.getNftByTokenIdentifier"}),
  Call("UserMetaEsdtCompute.stakeFarmUSD", {"Staking.getFarmingToken", "pair.tokenPriceUSD"}),
  Call("UserMetaEsdtCompute.unbondFarmUSD",
      {"Staking.decodeUnboundTokenAttributes", "Staking.getFarmingToken", "pair.tokenPriceUSD"})}

\* UserMetaEsdtComputeService: dualYieldTokenUSD .. redeemTokenUSD
UserDualYieldValues == UNION {
  Call("UserMetaEsdtCompute.dualYieldTokenUSD",
      {"ID.farmTokenUSD", "MXApi.getNftByTokenIdentifier", "stakeProxy.lpFarmTokenID"}),
  Call("UserMetaEsdtCompute.redeemTokenUSD",
      {"pair.tokenPriceUSD", "priceDiscovery.acceptedTokenID",
       "priceDiscovery.acceptedTokenPriceUSD", "priceDiscovery.launchedTokenID",
       "priceDiscovery.launchedTokenPriceUSD"})}

\* UserMetaEsdtComputeService: lockedEsdtTokenUSD .. lockedTokenEnergyUSD
UserLockedEsdtValues == UNION {
  Call("UserMetaEsdtCompute.lockedEsdtTokenUSD",
      {"ID.pairAddress", "UserEsdtCompute.esdtTokenUSD", "UserEsdtCompute.lpTokenUSD"}),
  Call("UserMetaEsdtCompute.lockedSimpleLpTokenUSD",
      {"ID.pairAddress", "UserEsdtCompute.lpTokenUSD"}),
  Call("UserMetaEsdtCompute.lockedSimpleFarmTokenUSD",
      {"ID.farmTokenUSD", "MXApi.getNftByTokenIdentifier"}),
  Call("UserMetaEsdtCompute.lockedTokenEnergyUSD", {"UserEsdtCompute.esdtTokenUSD"})}

\* UserMetaEsdtComputeService: wrappedLockedTokenEnergyUSD .. wrappedLockedTokenEnergyUSD
UserWrappedEnergyValue == UNION {
  Call("UserMetaEsdtCompute.wrappedLockedTokenEnergyUSD",
      {"MXApi.getNftByTokenIdentifier", "UserMetaEsdtCompute.lockedTokenEnergyUSD",
       "energy.lockedTokenID"})}

\* All rows of the module.
UserRows == UNION {
  ProxyTokens, ProxyV2Tokens, ProxyFarmTokens,
  ProxyPairTokens, ProxyTokenLookups, ProxyLockedAttributes,
  ProxyFarmAttributes, LockedAssetContract, LockedAssetDecoding,
  LockedAssetViews, UserEsdtTokens, UserEsdtValues,
  UserLockedTokens, UserFarmTokens, UserLockTokens,
  UserNfts, UserNftType, UserTokenValues,
  UserLockedAssetValues, UserFarmValues, UserDualYieldValues,
  UserLockedEsdtValues, UserWrappedEnergyValue}
==============================================================================
