------------------------------ MODULE MCServices ------------------------------
(***************************************************************************)
(* The operations of the client packages, one at a time: every behaviour   *)
(* is one of a family's, and the run explores them all.                    *)
(***************************************************************************)
EXTENDS Requests, Pages, PerpsHistory, OrderPosting, OrderSettlement, OrderMath, Relay,
        WalletCalls, ComboQuoter, ComboRfq, Heartbeats, SportsStream, PerpsTrading,
        PerpsBuilders

Init ==
    \/ RequestInit \/ PagesInit \/ HistoryInit \/ PostInit \/ SettleInit \/ AmountsInit
    \/ RelayInit \/ WalletInit \/ QuoterInit \/ ComboInit \/ HeartbeatInit \/ SportsInit
    \/ CancelInit \/ GroupInit \/ BuilderInit

Next ==
    \/ RequestNext \/ PagesNext \/ HistoryNext \/ PostNext \/ SettleNext \/ AmountsNext
    \/ RelayNext \/ WalletNext \/ QuoterNext \/ ComboNext \/ HeartbeatNext \/ SportsNext
    \/ CancelNext \/ GroupNext \/ BuilderNext

Spec == Init /\ [][Next]_st
=============================================================================
