---------------------------- MODULE ClientCalls ----------------------------
\* Calls of the clients of the API, the gateway, the data API, Elasticsearch, Timescale and
\* MongoDB, and of the two getters built on them.
EXTENDS ServiceCalls

\* MXApiService: doGetGeneric .. getNftsCountForUser
ApiStatsAndTokens == UNION {
  Call("MXApi.doGetGeneric", {"MXApi.doGetGeneric", "api"}),
  Calls({"MXApi.getStats", "MXApi.getShardBlockCountInEpoch", "MXApi.getAccountStats",
         "MXApi.getTokensCountForUser", "MXApi.getNftsCountForUser"}, {"MXApi.doGetGeneric"}),
  Call("MXApi.getToken", {"MXApi.doGetGeneric", "contract"})}

\* MXApiService: getTokensForUser .. getTransactions
ApiUserTokensAndBlocks == UNION {
  Calls({"MXApi.getTokensForUser", "MXApi.getNftsForUser"}, {"MXApi.doGetGeneric", "contract"}),
  Calls({"MXApi.getTokenForUser", "MXApi.getNftByTokenIdentifier",
         "MXApi.getNftAttributesByTokenIdentifier", "MXApi.getCurrentNonce",
         "MXApi.getBlockByNonce", "MXApi.getShardTimestamp", "MXApi.getTransactions"},
      {"MXApi.doGetGeneric"}),
  Call("MXApi.getTokenBalanceForUser", {"MXApi.getTokenForUser"})}

\* MXApiService: getTransactionsWithOptions .. getTransactionsWithOptions
ApiTransactions == UNION {
  Call("MXApi.getTransactionsWithOptions", {"MXApi.doGetGeneric"})}

\* MXGatewayService: getSCStorageKey .. doGet
GatewayStorage == UNION {
  Calls({"MXGateway.getSCStorageKey", "MXGateway.getSCStorageKeys"}, {"MXGateway.doGetGeneric"}),
  Call("MXGateway.doGetGeneric", {"MXGateway.doGet"}),
  Call("MXGateway.doGet", {"gateway"})}

\* MXDataApiService: get .. getTokenPrice
DataApiPrices == UNION {
  Call("MXDataApi.get", {}),
  Call("MXDataApi.getTokenPriceRaw", {"MXDataApi.get", "dataApi"}),
  View("token.externalPrice", Ttl(600, 420), {"MXDataApi.getTokenPriceRaw"})}

\* ElasticService: getCount .. getList
ElasticSearches == UNION {
  Calls({"Elastic.getCount", "Elastic.scrollSearch"}, {"elastic"}),
  Call("Elastic.getList", {"Elastic.scrollSearch"})}

\* ESLogsService: getTokenSwapsCount .. getTransactionsLogs
ElasticLogs == UNION {
  Call("ESLogs.getTokenSwapsCount", {"ESLogs.getTransactionsLogs"}),
  Call("ESLogs.getTransactionsLogs", {"Elastic.scrollSearch"})}

\* ESTransactionsService: computeTxCount .. computeAvgUserTransactions
ElasticCounts == UNION {
  Calls({"ESTransactions.computeTxCount", "ESTransactions.computePairSwapCount",
         "ESTransactions.computePairAddLiquidityCount",
         "ESTransactions.computePairRemoveLiquidityCount", "ESTransactions.computeEventsCount"},
      {"Elastic.getCount"}),
  Call("ESTransactions.computeUniqueUsers", {"Elastic.getList"}),
  Call("ESTransactions.computeAvgUserTransactions",
      {"ESTransactions.computeTxCount", "ESTransactions.computeUniqueUsers"})}

\* EntityRepository: create .. deleteMany
DatabaseQueries == UNION {
  Calls({"EntityRepository.create", "EntityRepository.findOne", "EntityRepository.find",
         "EntityRepository.findOneAndUpdate", "EntityRepository.findOneAndDelete",
         "EntityRepository.deleteMany"}, {"database"})}

\* TokenRepositoryService: updateToken .. getTokenType
TokenRepository == UNION {
  Call("TokenRepository.updateToken", {"database"})}

\* AnalyticsQueryService: getAggregatedValue .. getPriceCandles
AnalyticsQueries == UNION {
  Call("AnalyticsQuery.getAggregatedValue", {"TimescaleDBQuery.getAggregatedValue"}),
  Call("AnalyticsQuery.getLatestCompleteValues", {"TimescaleDBQuery.getLatestCompleteValues"}),
  Call("AnalyticsQuery.getSumCompleteValues", {"TimescaleDBQuery.getSumCompleteValues"}),
  Call("AnalyticsQuery.getValues24h", {"TimescaleDBQuery.getValues24h"}),
  Call("AnalyticsQuery.getValues24hSum", {"TimescaleDBQuery.getValues24hSum"}),
  Call("AnalyticsQuery.getHourlySumValues", {"TimescaleDBQuery.getHourlySumValues"}),
  Call("AnalyticsQuery.getPDlatestValue", {"TimescaleDBQuery.getPDlatestValue"}),
  Call("AnalyticsQuery.getPDCloseValues", {"TimescaleDBQuery.getPDCloseValues"}),
  Call("AnalyticsQuery.getPriceCandles", {"TimescaleDBQuery.getPriceCandles"})}

\* TimescaleDBQueryService: getAggregatedValue .. createDayHistoricDataModel
TimescaleLatest == UNION {
  Calls({"TimescaleDBQuery.getAggregatedValue", "TimescaleDBQuery.createDayHistoricDataModel"},
      {"timescale"}),
  Call("TimescaleDBQuery.getLatestCompleteValues", {"startDate.series", "timescale"})}

\* TimescaleDBQueryService: getSumCompleteValues .. getValues24hSum
TimescaleSums == UNION {
  Call("TimescaleDBQuery.getSumCompleteValues", {"startDate.series", "timescale"}),
  Calls({"TimescaleDBQuery.getValues24h", "TimescaleDBQuery.getValues24hSum"}, {"timescale"})}

\* TimescaleDBQueryService: getHourlySumValues .. getPDCloseValues
TimescaleDiscovery == UNION {
  Call("TimescaleDBQuery.getHourlySumValues", {"startDate.series", "timescale"}),
  Calls({"TimescaleDBQuery.getPDlatestValue", "TimescaleDBQuery.getPDCloseValues"}, {"timescale"})}

\* TimescaleDBQueryService: getStartDate .. getPriceCandles
TimescaleStartAndCandles == UNION {
  View("startDate.series", Ttl(1800, 1200), {"timescale"}),
  Call("TimescaleDBQuery.getPriceCandles", {"timescale"})}

\* ContextGetterService: getCurrentEpoch .. getNftsForUser
ContextViews == UNION {
  View("context.currentEpoch", Minute, {"MXApi.getStats"}),
  View("context.blocksCountInEpoch", Ttl(2592000, 2592000),
      {"MXApi.getShardBlockCountInEpoch", "context.currentEpoch"}),
  View("context.shardBlockNonce", Minute, {"MXApi.doGetGeneric"}),
  Call("ContextGetter.getNftsForUser", {"MXApi.getNftsForUser"})}

\* RemoteConfigGetterService: getMaintenanceFlagValue .. getStakingProxyAddresses
RemoteConfigViews == UNION {
  View("flag.MAINTENANCE", Hour, {"EntityRepository.findOne"}),
  Call("RemoteConfigGetter.getMultiSwapStatus", {"EntityRepository.findOne", "database"}),
  Views({"scAddress.category", "scAddress.STAKING", "scAddress.STAKING_PROXY"}, Hour,
      {"EntityRepository.find"})}

\* All rows of the module.
ClientRows == UNION {
  ApiStatsAndTokens, ApiUserTokensAndBlocks, ApiTransactions,
  GatewayStorage, DataApiPrices, ElasticSearches,
  ElasticLogs, ElasticCounts, DatabaseQueries,
  TokenRepository, AnalyticsQueries, TimescaleLatest,
  TimescaleSums, TimescaleDiscovery, TimescaleStartAndCandles,
  ContextViews, RemoteConfigViews}
==============================================================================
