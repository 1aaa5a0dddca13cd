--------------------------- MODULE OrderSettlement ---------------------------
(***************************************************************************)
(* Waiting for the fills of accepted orders (order_resolution.go): the     *)
(* trades named in the answers to one or more posted orders are polled     *)
(* until they are confirmed or failed, or time is up.                      *)
(***************************************************************************)
EXTENDS Integers, Sequences, SequencesExt, TLC, OneCaller

CONSTANTS Trades        \* ids of trades

\* PostOrderRequest.DeferExec, PostOrderResponse.TransactionsHashes and TradeIDs.
PostedOrders ==
    [deferred : {FALSE}, given : {<<>>},
     ids : {<<>>, <<"">>} \cup {<<t>> : t \in Trades} \cup {<<t, u>> : t, u \in Trades}]
    \cup [deferred : BOOLEAN, given : {<<"mined">>}, ids : {<<t>> : t \in Trades}]
    \cup [deferred : {TRUE}, given : {<<>>}, ids : {<<t>> : t \in Trades}]

\* The transactions of the trades: one each, one for both, or none yet known.
Settlements ==
    {[t \in Trades |-> t], [t \in Trades |-> "shared"],
     [t \in Trades |-> IF t = CHOOSE u \in Trades : TRUE THEN "" ELSE t]}

SettleInit ==
    \E strict \in BOOLEAN, orders \in {<<o>> : o \in PostedOrders} \cup (PostedOrders \X PostedOrders),
       hash \in Settlements :
        /\ strict => Len(orders) = 1
        /\ st = [part |-> "settle", strict |-> strict, orders |-> orders, hash |-> hash,
                 trade |-> [t \in Trades |-> "pending"], resolved |-> <<>>, ids |-> <<>>,
                 at |-> 1, expired |-> FALSE, cancelled |-> FALSE, pc |-> "begin",
                 hashes |-> [i \in DOMAIN orders |-> orders[i].given], result |-> "none"]

LOCAL Waiting(pc) == st.part = "settle" /\ st.pc = pc
LOCAL End(result) == st' = [st EXCEPT !.pc = "done", !.result = result]

\* tradeIsFailed, of a resolved trade; tradeIsResolved, of one at the service.
tradeIsFailed(id) == st.resolved[id] = "failed"
tradeIsResolved(id) == st.trade[id] \in {"confirmed", "failed"}

uniqueNonEmptyStrings(ids) ==
    FoldLeft(LAMBDA u, id : IF id = "" \/ Contains(u, id) THEN u ELSE Append(u, id), <<>>, ids)

shouldResolvePostOrder(order) ==
    ~order.deferred /\ order.given = <<>> /\ order.ids # <<>>

\* WaitForOrderFillSettlement, PostOrder and PostOrders: which trades to poll.
TradeIDs ==
    IF st.strict THEN st.orders[1].ids
    ELSE FlattenSeq([i \in DOMAIN st.orders |->
             IF shouldResolvePostOrder(st.orders[i]) THEN st.orders[i].ids ELSE <<>>])

BeginWait ==
    /\ Waiting("begin")
    /\ LET ids == uniqueNonEmptyStrings(TradeIDs) IN
       IF ids = <<>> THEN End("ok") ELSE st' = [st EXCEPT !.ids = ids, !.pc = "poll"]

unresolvedTradeIDs == {i \in DOMAIN st.ids : st.ids[i] \notin DOMAIN st.resolved}

LOCAL Over == st.expired \/ st.cancelled

\* One trade of a round is asked for; a trade already resolved is not.
pollTrade ==
    /\ Waiting("poll")
    /\ st.at \in unresolvedTradeIDs
    /\ ~Over
    /\ LET id == st.ids[st.at] IN
       st' = [st EXCEPT !.at = @ + 1,
                 !.resolved = IF tradeIsResolved(id) THEN (id :> st.trade[id]) @@ @ ELSE @]

skipResolved ==
    /\ Waiting("poll")
    /\ st.at \in DOMAIN st.ids \ unresolvedTradeIDs
    /\ st' = [st EXCEPT !.at = @ + 1]

\* A request fails, by itself or because time is up: waitForResolvedTrades goes
\* on with the next trade, waitForResolvedTradesStrict returns.
pollFails ==
    /\ Waiting("poll")
    /\ st.at \in unresolvedTradeIDs
    /\ IF ~st.strict THEN st' = [st EXCEPT !.at = @ + 1]
       ELSE End(IF st.cancelled THEN "cancelled" ELSE IF st.expired THEN "timeout" ELSE "failed")

\* The end of a round.
roundEnds ==
    /\ Waiting("poll")
    /\ st.at > Len(st.ids)
    /\ IF unresolvedTradeIDs = {} THEN st' = [st EXCEPT !.pc = "collect"]
       ELSE IF ~Over THEN st' = [st EXCEPT !.pc = "sleep"]
       ELSE IF st.strict THEN End("timeout")
       ELSE st' = [st EXCEPT !.pc = "collect"]

nextRound ==
    /\ Waiting("sleep")
    /\ st' = [st EXCEPT !.pc = "poll", !.at = 1]

\* Woken by the end of the context; the best-effort wait polls a last round.
sleepEnds ==
    /\ Waiting("sleep")
    /\ Over
    /\ IF st.strict THEN End(IF st.cancelled THEN "cancelled" ELSE "timeout")
       ELSE st' = [st EXCEPT !.pc = "poll", !.at = 1]

\* Faulty variant: an order gets the transactions of the whole batch.
hashesOfBatch(ids) ==
    [i \in DOMAIN st.ids |-> st.hash[st.ids[i]]]

\* transactionHashesForTradeIDs
transactionHashesForTradeIDs(ids) ==
    LET settled == SelectSeq(ids, LAMBDA id : id \in DOMAIN st.resolved /\ ~tradeIsFailed(id))
    IN  SelectSeq([i \in DOMAIN settled |-> st.hash[settled[i]]], LAMBDA h : h # "")

(***************************************************************************)
(* The outcome: transactionHashesForSettledTrades without repetition for   *)
(* one order, transactionHashesForTradeIDs for each order of a batch that  *)
(* was waited for.                                                         *)
(***************************************************************************)
collectHashes ==
    /\ Waiting("collect")
    /\ IF st.strict /\ \A i \in DOMAIN st.ids : tradeIsFailed(st.ids[i])
       THEN End("all failed")
       ELSE st' = [st EXCEPT !.pc = "done", !.result = "ok",
                     !.hashes = IF st.strict
                                THEN <<uniqueNonEmptyStrings(transactionHashesForTradeIDs(st.ids))>>
                                ELSE [i \in DOMAIN @ |->
                                        IF shouldResolvePostOrder(st.orders[i])
                                        THEN transactionHashesForTradeIDs(st.orders[i].ids)
                                        ELSE @[i]]]

(* The service and the caller *)

LOCAL Unfinished == st.part = "settle" /\ st.pc \notin {"begin", "done"}

tradeSettles ==
    /\ Unfinished
    /\ \E i \in DOMAIN st.ids, outcome \in {"confirmed", "failed"} :
        /\ st.trade[st.ids[i]] = "pending"
        /\ st' = [st EXCEPT !.trade[st.ids[i]] = outcome]

waitExpires == Unfinished /\ ~st.expired /\ st' = [st EXCEPT !.expired = TRUE]
waitCancelled == Unfinished /\ ~st.cancelled /\ st' = [st EXCEPT !.cancelled = TRUE]

SettleNext ==
    \/ BeginWait \/ pollTrade \/ skipResolved \/ pollFails \/ roundEnds \/ nextRound
    \/ sleepEnds \/ collectHashes \/ tradeSettles \/ waitExpires \/ waitCancelled

LOCAL Confirmed(ids) == {id \in ToSet(ids) \ {""} : st.trade[id] = "confirmed"}

(***************************************************************************)
(* WaitForOrderFillSettlement answers truthfully: hashes come back only    *)
(* when every listed fill has settled and one of them succeeded, they are  *)
(* those of the fills that succeeded, each once, and "all failed" is       *)
(* reported only when all did.                                             *)
(***************************************************************************)
SettlementTruthful ==
    (st.part = "settle" /\ st.strict /\ st.ids # <<>>) =>
        /\ st.result = "ok" =>
              /\ \A i \in DOMAIN st.ids : tradeIsResolved(st.ids[i])
              /\ Confirmed(st.ids) # {}
              /\ ToSet(st.hashes[1]) = {st.hash[id] : id \in Confirmed(st.ids)} \ {""}
              /\ IsInjective(st.hashes[1])
        /\ st.result = "all failed" => \A i \in DOMAIN st.ids : st.trade[st.ids[i]] = "failed"

(***************************************************************************)
(* PostOrders waits once for the fills of the whole batch and still gives  *)
(* every order its own: an order's hashes are those the server sent with   *)
(* it, or those of its own confirmed fills, and a deferred order or one    *)
(* with hashes is left as it was answered.  The wait itself never fails.   *)
(***************************************************************************)
HashesBelongToOrder ==
    (st.part = "settle" /\ ~st.strict /\ st.pc = "done") =>
        /\ st.result = "ok"
        /\ \A i \in DOMAIN st.orders :
              IF shouldResolvePostOrder(st.orders[i])
              THEN ToSet(st.hashes[i]) \subseteq {st.hash[id] : id \in Confirmed(st.orders[i].ids)} \ {""}
              ELSE st.hashes[i] = st.orders[i].given

(***************************************************************************)
(* The transaction hashes returned for an order are those of its own       *)
(* settled fills.                                                          *)
(***************************************************************************)
FillsAttributed == SettlementTruthful /\ HashesBelongToOrder
=============================================================================
