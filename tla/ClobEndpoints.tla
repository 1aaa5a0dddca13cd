---------------------------- MODULE ClobEndpoints ----------------------------
(***************************************************************************)
(* The single-request operations of package clob (markets.go, account.go,  *)
(* orders.go, rewards.go, rfq.go).  Operations of one form are one         *)
(* definition each, named as in the code.                                  *)
(***************************************************************************)
EXTENDS Endpoints

GetOk == Public("GET")
GetServerTime == Public("GET")
getTypedPage == Public("GET")   \* the four market listings' pages
GetMarket == Public("GET")
GetOrderBookWithSide == Public("GET")
GetOrderBooks == Public("POST")
GetMidpoint == Public("GET")
GetMidpoints == Public("POST")
GetPrice == Public("GET")
GetPrices == Checked(Public("POST"), {"side of every book"})
GetAllPrices == Public("GET")
GetSpreadWithSide == Public("GET")
GetSpreads == Public("POST")
GetLastTradePrice == Public("GET")
GetTickSize == Public("GET")
GetNegRisk == Public("GET")
GetPricesHistory == Public("GET")
GetMarketTradesEvents == Public("GET")
GetClobMarket == Public("GET")
GetBuilderFeeRate == Public("GET")
GetVersion == Public("GET")
GetMarketByToken == Public("GET")
ListComboMarkets == Public("GET")
GetLastTradesPrices == Public("GET")

\* CheckGeoblock goes to another host through polyhttp: neither the rate
\* limiter nor the retry loop is involved.
CheckGeoblock == Plain("GET")

CreateAPIKey == Signed("POST")
\* A GET, but with a nonce: getJSONWithNonce does not retry.
DeriveAPIKey == Signed("GET")

CreateReadonlyAPIKey == Authenticated("POST", "L2")
GetReadonlyAPIKeys == Authenticated("GET", "L2")
DeleteReadonlyAPIKey == Authenticated("DELETE", "L2")
GetNotifications == Fitting(Authenticated("GET", "L2"), {"every known notification decodes"})
DeleteNotifications == Authenticated("DELETE", "L2")
GetBalanceAllowance == Authenticated("GET", "L2")
UpdateBalanceAllowance == Authenticated("GET", "L2")
IsOrderScoring == Authenticated("GET", "L2")
AreOrdersScoring == Authenticated("POST", "L2")
CancelMarketOrders == Authenticated("DELETE", "L2Builder")
PostHeartbeat == Authenticated("POST", "L2Builder")

GetAPIKeys == Authenticated("GET", "L2")
DeleteAPIKey == Authenticated("DELETE", "L2")
GetClosedOnlyMode == Authenticated("GET", "L2")
GetOpenOrdersPage == Authenticated("GET", "L2Builder")
GetOrder == Authenticated("GET", "L2Builder")
GetPreMigrationOrders == Authenticated("GET", "L2Builder")
GetPreMigrationOrdersPage == Authenticated("GET", "L2Builder")
GetTradesPage == Authenticated("GET", "L2Builder")
CancelOrder == Authenticated("DELETE", "L2Builder")
CancelOrders == Authenticated("DELETE", "L2Builder")
CancelAll == Authenticated("DELETE", "L2Builder")
CreateBuilderAPIKey == Authenticated("POST", "L2")
GetBuilderAPIKeys == Authenticated("GET", "L2")
RevokeBuilderAPIKey ==
    Fitting(Authenticated("DELETE", "builder"), {"empty or OK"})
GetBuilderTradesPage == Checked(Authenticated("GET", "L2"), {"builder code"})

GetEarningsForUserForDayPage == Authenticated("GET", "L2")
GetTotalEarningsForUserForDay == Authenticated("GET", "L2")
GetUserEarningsAndMarketsConfigPage == Authenticated("GET", "L2")
GetRewardPercentages == Authenticated("GET", "L2")
GetCurrentRewardsPage == Authenticated("GET", "L2")
GetRewardsForMarketPage == Authenticated("GET", "L2")
\* rewardMarketsQuery
RewardMarketsChecks ==
    {"page size 0..500", "tag slugs nonempty", "market id positive", "event ids positive",
     "sort field", "sort direction", "bounds nonnegative"}
GetRewardMarketsPage == Checked(Authenticated("GET", "none"), RewardMarketsChecks)
GetCurrentRebates ==
    Checked(Authenticated("GET", "none"), {"calendar date", "hex address", "nonzero address"})

CreateRFQRequest == Authenticated("POST", "L2Builder")
CancelRFQRequest == Authenticated("DELETE", "L2Builder")
GetRFQRequests == Authenticated("GET", "L2Builder")
CreateRFQQuote == Authenticated("POST", "L2Builder")
CancelRFQQuote == Authenticated("DELETE", "L2Builder")
GetRFQQuotes == Authenticated("GET", "L2Builder")
AcceptRFQQuote == Authenticated("POST", "L2Builder")
ApproveRFQOrder == Authenticated("POST", "L2Builder")

\* Two requests, the second one with what the first one answered.
getClobMarketForToken == Then(GetMarketByToken, GetClobMarket)
GetFeeInfo == Then(GetMarketByToken, Fitting(GetClobMarket, {"fee details"}))
GetFeeExponent == Then(GetMarketByToken, GetClobMarket)
\* The second request is made only when the first was answered 400 or 409.
CreateOrDeriveAPIKey == OnConflict(CreateAPIKey, DeriveAPIKey)

ClobCalls ==
    {getClobMarketForToken, GetFeeInfo, GetFeeExponent, CreateOrDeriveAPIKey}

ClobOperations ==
    {GetOk, GetServerTime, getTypedPage, GetMarket, GetOrderBookWithSide, GetOrderBooks,
     GetMidpoint, GetMidpoints, GetPrice, GetPrices, GetAllPrices, GetSpreadWithSide, GetSpreads,
     GetLastTradePrice, GetTickSize, GetNegRisk, GetPricesHistory, GetMarketTradesEvents,
     GetClobMarket, GetBuilderFeeRate, GetVersion, GetMarketByToken,
     ListComboMarkets, GetLastTradesPrices, CheckGeoblock, CreateAPIKey, DeriveAPIKey,
     CreateReadonlyAPIKey, GetReadonlyAPIKeys, DeleteReadonlyAPIKey, GetNotifications,
     DeleteNotifications, GetBalanceAllowance, UpdateBalanceAllowance, IsOrderScoring,
     AreOrdersScoring, CancelMarketOrders, PostHeartbeat, GetAPIKeys, DeleteAPIKey,
     GetClosedOnlyMode, GetOpenOrdersPage, GetOrder, GetPreMigrationOrders,
     GetPreMigrationOrdersPage, GetTradesPage, CancelOrder, CancelOrders, CancelAll,
     CreateBuilderAPIKey, GetBuilderAPIKeys, RevokeBuilderAPIKey, GetBuilderTradesPage,
     GetEarningsForUserForDayPage, GetTotalEarningsForUserForDay,
     GetUserEarningsAndMarketsConfigPage, GetRewardPercentages, GetCurrentRewardsPage,
     GetRewardsForMarketPage, GetRewardMarketsPage, GetCurrentRebates, CreateRFQRequest,
     CancelRFQRequest, GetRFQRequests, CreateRFQQuote, CancelRFQQuote, GetRFQQuotes,
     AcceptRFQQuote, ApproveRFQOrder}
=============================================================================
