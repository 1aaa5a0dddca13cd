------------------------- MODULE MCWsSubscriptions -------------------------
(* Instances of WsSubscriptions.                                           *)
EXTENDS WsSubscriptions

CONSTANTS a, b, m

\* Two assets that overlap, one of them with custom features; all user markets
\* and one of them.
Registrations == {
    [channel |-> "order_book", target |-> "market", ids |-> {a}, custom |-> FALSE],
    [channel |-> "best_bid_ask", target |-> "market", ids |-> {a, b}, custom |-> TRUE],
    [channel |-> "user_events", target |-> "user", ids |-> {}, custom |-> FALSE],
    [channel |-> "orders", target |-> "user", ids |-> {m}, custom |-> FALSE] }
=============================================================================
