---------------------------- MODULE PerpsEndpoints ----------------------------
(***************************************************************************)
(* The REST operations of package perps: public market reads, account      *)
(* reads with the proxy's headers, commands signed by the delegated key    *)
(* and operations signed by the owner.  Commands and operations are signed *)
(* before the request is made, and their answer carries a status of its    *)
(* own beside the HTTP one.                                                *)
(***************************************************************************)
EXTENDS Endpoints

\* signedREST, makePerpsSignedCommand: proxy headers and a signed body.
signedREST(method) == [Secret(method) EXCEPT !.auth = "command"]
\* OwnerClient.signedOperation and submit: a signed body, no headers.
signedOperation(method) == [Plain(method) EXCEPT !.auth = "owner"]
\* validation.go
commandRejection == {"status is ok"}
validInstrumentID == {"instrument id"}
executionIdentity == validInstrumentID \cup {"side", "client order id"}

GetInstruments == Checked(Plain("GET"), validInstrumentID)
getStatistics == Plain("GET")
GetTickers == Then(Checked(Plain("GET"), validInstrumentID), getStatistics)
GetTicker == Then(Checked(Plain("GET"), validInstrumentID), Fitting(getStatistics, {"a ticker"}))
GetBook == Checked(Plain("GET"), validInstrumentID \cup {"depth"})
GetFees == Plain("GET")
\* candlesState, tradesState, fundingState: the cursor, or the parameters
MarketRange == validInstrumentID \cup {"cursor decodes", "cursor of this endpoint", "range"}
candlesState == MarketRange \cup {"interval"}
tradesState == MarketRange \cup {"seen trade ids"}
fundingState == MarketRange
candlesPage == Fitting(Checked(Plain("GET"), candlesState), {"progress"})
tradesPage == Fitting(Checked(Plain("GET"), tradesState), {"progress"})
fundingPage == Fitting(Checked(Plain("GET"), fundingState), {"progress"})
snapshotSelection ==
    {"1-20 instruments or 1-4 fills", "instruments distinct", "fills valid", "fills distinct"}
validateSnapshots ==
    {"as many results as selected", "payload present exactly when ok", "status known",
     "instrument as selected", "fill as selected"}
GetPositionSnapshots ==
    Fitting(Checked(Plain("POST"), snapshotSelection \cup {"address"}), validateSnapshots)
GetRegistration == Checked(Plain("GET"), {"address"})
GetBuilderStatus == Checked(Plain("GET"), {"address"})

GetBalances == Secret("GET")
GetPortfolio == Secret("GET")
GetAccountStats == Secret("GET")
GetAutoCancelStatus == Secret("GET")
GetAccountConfig == Secret("GET")
GetOpenOrders == Secret("GET")
GetOrders == Secret("GET")
GetFillsPage == Fitting(Checked(Secret("GET"), {"sort direction"}), {"progress"})
GetTWAPs == Secret("GET")
GetChases == Secret("GET")
GetCredentials == Secret("GET")
GetBuilderApprovals == Checked(Secret("GET"), {"address"})
builderReportingQuery == {"bounds nonnegative", "window"}
GetBuilderEarningsPage == Fitting(Checked(Secret("GET"), builderReportingQuery), {"progress"})
GetBuilderEarningsSummary == Checked(Secret("GET"), builderReportingQuery \cup {"no cursor"})
GetNotificationsPage ==
    Fitting(Checked(Secret("GET"), {"since nonnegative", "limit nonnegative"}), {"progress"})
GetUnreadNotificationsCount == Secret("GET")
MarkNotificationsRead ==
    Fitting(Checked(Secret("POST"), {"ids or boundary", "ids nonempty", "boundary valid"}),
            commandRejection)
\* The owner's address comes from GetCredentials, then the snapshots are asked for.
GetOwnPositionSnapshots ==
    Then(Fitting(Checked(GetCredentials, snapshotSelection), {"owner address"}),
         Fitting(Secret("POST"), validateSnapshots))

CreateTWAP ==
    Fitting(Checked(signedREST("POST"),
                    executionIdentity \cup {"quantity", "duration and slippage", "interval",
                                            "price bounds", "bounds ordered"}),
            commandRejection \cup {"identity"})
ControlTWAP(action) ==
    Fitting(Checked(signedREST(IF action = "cancel" THEN "DELETE" ELSE "PATCH"), {"id and action"}),
            commandRejection)
CreateChase ==
    Fitting(Checked(signedREST("POST"),
                    executionIdentity \cup {"quantity", "limit", "distance", "distance in bps",
                                            "one distance"}),
            commandRejection \cup {"identity"})
CancelChase == Fitting(Checked(signedREST("DELETE"), {"id"}), commandRejection)
CancelAllOrders == Fitting(Checked(signedREST("DELETE"), validInstrumentID), commandRejection)
updateAutoCancel == Fitting(Checked(signedREST("PATCH"), {"expiration"}), commandRejection)
ArmAutoCancel == Checked(updateAutoCancel, {"at least five seconds ahead"})
DisarmAutoCancel == updateAutoCancel

Withdraw ==
    Fitting(Checked(signedOperation("POST"), {"token and contract", "amount"}),
            commandRejection \cup {"identity"})
TransferCollateral ==
    Fitting(Checked(signedOperation("POST"), {"token", "recipient", "label", "amount"}),
            commandRejection \cup {"identity"})
RevokeCredentials ==
    Fitting(Checked(signedOperation("DELETE"), {"proxy"}), commandRejection)

PerpsCalls == {GetTickers, GetTicker, GetOwnPositionSnapshots}

PerpsOperations ==
    {GetInstruments, GetBook, GetFees, candlesPage, tradesPage, fundingPage,
     GetPositionSnapshots, GetRegistration, GetBuilderStatus, GetBalances, GetPortfolio,
     GetAccountStats, GetAutoCancelStatus, GetAccountConfig, GetOpenOrders, GetOrders,
     GetFillsPage, GetTWAPs, GetChases, GetCredentials, GetBuilderApprovals,
     GetBuilderEarningsPage, GetBuilderEarningsSummary, GetNotificationsPage,
     GetUnreadNotificationsCount, MarkNotificationsRead, CreateTWAP, CreateChase, CancelChase,
     CancelAllOrders, ArmAutoCancel, DisarmAutoCancel, Withdraw, TransferCollateral,
     RevokeCredentials}
        \cup {ControlTWAP(action) : action \in {"pause", "resume", "cancel"}}
=============================================================================
