---------------------------- MODULE DataEndpoints ----------------------------
(***************************************************************************)
(* The single-request operations of packages data (reads of /v2, repeated  *)
(* while the service is rate limiting), data/legacy and bridge (one        *)
(* request each).                                                          *)
(***************************************************************************)
EXTENDS Endpoints

(* query.go: what each parameter must satisfy *)
requireUser == {"user"}
conditionIDs == {"condition ids nonempty", "condition ids well formed", "at most 20 conditions"}
eventIDs == {"event ids nonempty", "event ids positive"}
selectors == {"conditions or events"} \cup conditionIDs \cup eventIDs
timestampParam == {"timestamps in range"}
window == {"full history without bounds"} \cup timestampParam
enum(field) == {field}
direction == enum("sort direction")
category == {"category nonblank"}
leaderboardWindow == enum("leaderboard window")
amountParam == {"finite nonnegative amount"}

(* getPage, getValue, getList: what an answer must be *)
getPage(checks) ==
    Fitting(Checked(Read, checks \cup {"limit within the maximum"}),
            {"data is a list", "pagination present", "next_cursor valid",
             "has_more agrees with next_cursor", "items decode"})
getValue(checks, nullable) ==
    Fitting(Checked(Read, checks),
            {"data present", "value decodes"} \cup (IF nullable THEN {} ELSE {"data not null"}))
getList(checks) == getValue(checks, FALSE)

GetTrades == getPage(requireUser \cup selectors \cup window \cup amountParam
                        \cup enum("side") \cup enum("filter type"))
GetActivity == getPage(requireUser \cup selectors \cup window \cup direction
                          \cup enum("side") \cup {"types nonempty", "types known"})
GetComboActivity == getPage(requireUser \cup conditionIDs)
GetLeaderboard == getPage(category \cup leaderboardWindow \cup enum("sort"))
GetLeaderboardStanding == getValue(requireUser \cup category \cup leaderboardWindow, TRUE)
GetBiggestWinners == getPage(category \cup leaderboardWindow)
GetBuilderLeaderboard == getPage(leaderboardWindow)
GetBuilderVolume == getList(enum("interval") \cup {"bucket limit 0..90"})
GetValue == getValue(requireUser \cup conditionIDs, FALSE)
GetUserStats == getValue(requireUser, TRUE)
GetUserPnL == getValue(requireUser \cup enum("interval") \cup enum("fidelity"), FALSE)
GetUserVolume == getValue(requireUser \cup window, FALSE)
GetApprovals == getValue(requireUser, FALSE)
\* The archive is copied to a writer, so it is never asked for twice.
WriteAccountingSnapshot == Checked(Plain("GET"), requireUser \cup {"destination"})
GetPositions ==
    getPage(requireUser \cup selectors \cup window \cup amountParam \cup direction
               \cup enum("status") \cup enum("filter type") \cup enum("sort")
               \cup {"user or one condition", "user for event and lost filters",
                     "closed without archived", "title of at most 200 characters"})
GetComboPositions ==
    getPage(requireUser \cup conditionIDs \cup direction \cup timestampParam \cup enum("sort")
               \cup {"bounds ordered", "statuses nonempty", "statuses known", "REDEEMABLE alone"})
GetHolders == getPage(conditionIDs \cup amountParam \cup {"condition", "one condition for pnl"})
GetOpenInterest == getList(conditionIDs)
GetLiveVolume == getValue(eventIDs \cup {"event"}, FALSE)
GetPriceHistory ==
    getPage({"asset", "one of interval, start and as_of", "end with start", "at most 15 days",
             "as_of alone", "bucket in range"} \cup enum("interval") \cup timestampParam)
GetResolutions ==
    getList({"one selector", "at most 20 events"} \cup conditionIDs \cup eventIDs)
tokenAssetIDs == {"digits", "at most 78 digits", "some asset", "at most 50 assets"}
tokenConditionIDs == {"hex of 31 or 32 bytes", "some condition", "at most 10 conditions"}
GetTokenReferences == getList({"assets or conditions"} \cup tokenAssetIDs \cup tokenConditionIDs)

(* data/legacy: limits.go and api.go *)
Legacy == Plain("GET")
validateBound(field) == {field}
validatePagination == validateBound("limit") \cup validateBound("offset")
activityTimeBoundsError == {"start nonnegative", "end nonnegative"}

LegacyGetHealth == Legacy
LegacyGetPositions == Checked(Legacy, validatePagination)
LegacyGetClosedPositions == Checked(Legacy, validatePagination)
LegacyGetValue == Legacy
LegacyGetTrades == Checked(Legacy, validatePagination)
LegacyGetActivity == Checked(Legacy, validatePagination \cup activityTimeBoundsError)
LegacyGetHolders == Checked(Legacy, validateBound("limit") \cup validateBound("min balance"))
LegacyGetTraded == Legacy
LegacyGetOpenInterest == Legacy
LegacyGetLiveVolume == Legacy
LegacyGetLeaderboard == Checked(Legacy, validatePagination)
LegacyGetBuilderLeaderboard == Checked(Legacy, validatePagination)
LegacyGetBuilderVolume == Legacy
LegacyGetMarketPositions == Checked(Legacy, validatePagination)
LegacyDownloadAccountingSnapshot == Legacy
LegacyGetComboPositionsPage ==
    Checked(Legacy, validatePagination
                       \cup validateBound("updated after") \cup validateBound("updated before"))
LegacyGetComboActivityPage == Checked(Legacy, validateBound("limit"))

(* bridge *)
BridgeGetSupportedAssets == Plain("GET")
BridgeCreateDepositAddress == Plain("POST")
BridgeGetStatus == Checked(Plain("GET"), {"address"})
BridgeGetQuote == Checked(Plain("POST"), {"amount in base units"})
BridgeCreateWithdrawalAddress == Plain("POST")

DataOperations ==
    {GetTrades, GetActivity, GetComboActivity, GetLeaderboard, GetLeaderboardStanding,
     GetBiggestWinners, GetBuilderLeaderboard, GetBuilderVolume, GetValue, GetUserStats,
     GetUserPnL, GetUserVolume, GetApprovals, WriteAccountingSnapshot, GetPositions,
     GetComboPositions, GetHolders, GetOpenInterest, GetLiveVolume, GetPriceHistory,
     GetResolutions, GetTokenReferences, LegacyGetHealth, LegacyGetPositions,
     LegacyGetClosedPositions, LegacyGetValue, LegacyGetTrades, LegacyGetActivity,
     LegacyGetHolders, LegacyGetTraded, LegacyGetOpenInterest, LegacyGetLiveVolume,
     LegacyGetLeaderboard, LegacyGetBuilderLeaderboard, LegacyGetBuilderVolume,
     LegacyGetMarketPositions, LegacyDownloadAccountingSnapshot, LegacyGetComboPositionsPage,
     LegacyGetComboActivityPage, BridgeGetSupportedAssets, BridgeCreateDepositAddress,
     BridgeGetStatus, BridgeGetQuote, BridgeCreateWithdrawalAddress}
=============================================================================
