----------------------------- MODULE OrderPosting -----------------------------
(***************************************************************************)
(* Building, signing and posting an order (order_post.go, orders.go,       *)
(* order_signing.go).                                                      *)
(*                                                                         *)
(* An order is signed for the exchange of the server's protocol version,   *)
(* which the client caches.  The server may move to a new version at any   *)
(* time, and other goroutines of the same client fill and clear the cache. *)
(* Prices, amounts and typed data are left out.                            *)
(***************************************************************************)
EXTENDS Integers, OneCaller

CONSTANTS MaxUpgrades  \* changes of the server's version since the client cached it

\* OrderArgs, MarketOrderArgs and the options: what decides the course, one
\* order for each way through the checks.
PlainOrder == [market |-> FALSE, position |-> FALSE, poly1271 |-> FALSE, postOnly |-> FALSE,
          expires |-> FALSE, type |-> ""]
OrderKinds ==
    {PlainOrder, [PlainOrder EXCEPT !.position = TRUE], [PlainOrder EXCEPT !.poly1271 = TRUE]}
    \cup {[PlainOrder EXCEPT !.market = TRUE, !.type = t] : t \in {"", "GTC", "FAK"}}
    \cup {[PlainOrder EXCEPT !.expires = TRUE, !.type = t] : t \in {"", "GTD"}}
    \cup {[PlainOrder EXCEPT !.postOnly = TRUE, !.type = t] : t \in {"GTC", "FOK"}}

PostInit ==
    \E order \in OrderKinds, via \in {"create", "build"}, server \in 1..2, cached \in 0..2 :
        /\ cached <= server
        /\ st = [part |-> "post", order |-> order, via |-> via, pc |-> "begin",
                 server |-> server, cached |-> cached, other |-> 0, upgrades |-> IF cached \in {0, server} THEN 0 ELSE 1,
                 version |-> 0, then |-> "", before |-> 0, signed |-> 0, posts |-> 0,
                 live |-> 0, unknown |-> FALSE, disturbed |-> FALSE, result |-> "none"]

PostAt(pc) == st.part = "post" /\ st.pc = pc
PostReturns(result) == st' = [st EXCEPT !.pc = "done", !.result = result]
PostGoes(pc) == st' = [st EXCEPT !.pc = pc]

\* The order type of a market order, and of any other.
MarketType(order) == IF order.type = "" THEN "FOK" ELSE order.type
PostedType(order) ==
    IF order.market THEN MarketType(order) ELSE IF order.type = "" THEN "GTC" ELSE order.type

\* CreateAndPostOrder, CreateAndPostMarketOrder and the BuildAndPost functions
\* up to the first thing they ask of the server.
BeginPost ==
    /\ PostAt("begin")
    /\ IF st.order.market /\ MarketType(st.order) \notin {"FOK", "FAK"}
       THEN PostReturns("invalid")
       ELSE IF st.via = "build"
            THEN st' = [st EXCEPT !.pc = IF st.order.position THEN "after version" ELSE "version",
                                  !.then = "before", !.version = 0]
            ELSE PostGoes("create")

(***************************************************************************)
(* resolveServerVersion: the cached version, or the server's, which is     *)
(* stored in a step of its own.                                            *)
(***************************************************************************)
versionCached ==
    /\ PostAt("version")
    /\ st.cached # 0
    /\ st' = [st EXCEPT !.pc = "after version", !.version = st.cached]

versionFetched ==
    /\ PostAt("version")
    /\ st.cached = 0
    /\ \/ st' = [st EXCEPT !.pc = "store version", !.version = st.server]
       \/ st' = [st EXCEPT !.pc = "after version", !.version = 0, !.unknown = TRUE]

versionStored ==
    /\ PostAt("store version")
    /\ st' = [st EXCEPT !.pc = "after version", !.cached = st.version]

beforeVersion ==
    /\ PostAt("after version")
    /\ st.then = "before"
    /\ st' = [st EXCEPT !.pc = "create", !.before = st.version]

(***************************************************************************)
(* CreateOrder, CreateMarketOrder: validation, market metadata and amounts *)
(* come first (see OrderCaches and OrderMath), then the exchange.          *)
(***************************************************************************)
createOrder ==
    /\ PostAt("create")
    /\ \/ PostReturns("invalid")
       \/ IF st.order.position
          THEN st' = [st EXCEPT !.pc = "after version", !.then = "sign", !.version = 3]
          ELSE st' = [st EXCEPT !.pc = "version", !.then = "sign"]

(***************************************************************************)
(* resolveOrderExchange and signOrder.  A version 1 order needs the legacy *)
(* fee rate and cannot be signed by a deposit wallet; the signer may fail. *)
(***************************************************************************)
signOrder ==
    /\ PostAt("after version")
    /\ st.then = "sign"
    /\ \/ PostReturns("invalid")
       \/ /\ st.version \in 1..3
          /\ ~(st.version = 1 /\ st.order.poly1271)
          /\ st' = [st EXCEPT !.pc = "request", !.signed = st.version]

\* BuildPostOrderRequest
BuildPostOrderRequest ==
    /\ PostAt("request")
    /\ LET type == PostedType(st.order) IN
       IF \/ st.order.expires /\ type # "GTD"
          \/ st.order.postOnly /\ type \notin {"GTC", "GTD"}
       THEN PostReturns("invalid")
       ELSE PostGoes("send")

postOrder ==
    /\ PostAt("send")
    /\ st' = [st EXCEPT !.pc = "flight", !.posts = @ + 1]

\* Faulty variant: an order whose answer was lost is posted again.
answeredEager ==
    /\ PostAt("flight")
    /\ IF st.signed = st.server \/ st.order.position
       THEN \/ st' = [st EXCEPT !.pc = "done", !.live = @ + 1, !.result = "accepted"]
            \/ st' = [st EXCEPT !.pc = IF st.posts = 1 THEN "send" ELSE "done", !.live = @ + 1, !.result = "failed"]
            \/ PostReturns("rejected")
       ELSE st' = [st EXCEPT !.pc = "mismatch", !.cached = 0]

(***************************************************************************)
(* The answer to PostOrder: accepted, rejected for its version, rejected   *)
(* otherwise, or lost although the server took the order.  PostOrder       *)
(* clears the cached version on a mismatch.                                *)
(***************************************************************************)
answered ==
    /\ PostAt("flight")
    /\ IF st.signed = st.server \/ st.order.position
       THEN \/ st' = [st EXCEPT !.pc = "done", !.live = @ + 1, !.result = "accepted"]
            \/ st' = [st EXCEPT !.pc = "done", !.live = @ + 1, !.result = "failed"]
            \/ PostReturns("rejected")
       ELSE st' = [st EXCEPT !.pc = "mismatch", !.cached = 0]

(***************************************************************************)
(* BuildAndPostOrder after a mismatch: the cache is cleared once more and  *)
(* the version resolved again; only a changed version posts again.         *)
(***************************************************************************)
retryMismatch ==
    /\ PostAt("mismatch")
    /\ IF st.via = "build" /\ st.posts = 1
       THEN st' = [st EXCEPT !.pc = IF st.order.position THEN "after version" ELSE "version",
                             !.then = "after", !.version = 0, !.cached = 0]
       ELSE PostReturns("mismatch")

afterVersion ==
    /\ PostAt("after version")
    /\ st.then = "after"
    /\ IF st.version # st.before THEN PostGoes("create") ELSE PostReturns("mismatch")

(* The server and other goroutines *)

Underway == st.part = "post" /\ st.pc # "done"

Upgrade ==
    /\ Underway
    /\ st.upgrades < MaxUpgrades
    /\ st' = [st EXCEPT !.server = @ + 1, !.upgrades = @ + 1]

otherFetches ==
    /\ Underway
    /\ st.other = 0
    /\ st.cached = 0
    /\ st' = [st EXCEPT !.other = st.server]

otherStores ==
    /\ Underway
    /\ st.other # 0
    /\ st' = [st EXCEPT !.cached = st.other, !.other = 0,
                        !.disturbed = @ \/ st.other # st.server]

otherInvalidates ==
    /\ Underway
    /\ st.cached # 0
    /\ st' = [st EXCEPT !.cached = 0]

PostNext ==
    \/ BeginPost \/ versionCached \/ versionFetched \/ versionStored \/ beforeVersion
    \/ createOrder \/ signOrder \/ BuildPostOrderRequest \/ postOrder \/ answered
    \/ retryMismatch \/ afterVersion
    \/ Upgrade \/ otherFetches \/ otherStores \/ otherInvalidates

PostSpec == PostInit /\ [][PostNext]_st

(***************************************************************************)
(* However often the version changes and whatever is lost on the way, one  *)
(* call puts at most one order on the book: BuildAndPostOrder posts again  *)
(* only what the server has refused.                                       *)
(***************************************************************************)
OneLiveOrder == st.part = "post" => st.live <= 1 /\ st.posts <= 2

(***************************************************************************)
(* BuildAndPostOrder recovers from one change of the protocol version: it  *)
(* reports a mismatch only if the version could not be read, the version   *)
(* changed again, or another goroutine stored a version it had read before *)
(* the change (resolveServerVersion stores without looking).               *)
(***************************************************************************)
UpgradeIsFollowed ==
    (st.part = "post" /\ st.result = "mismatch" /\ st.via = "build" /\ ~st.order.position) =>
        st.unknown \/ st.disturbed \/ st.upgrades > 1

(***************************************************************************)
(* BuildAndPostOrder follows a change of the protocol version without      *)
(* posting an order twice.                                                 *)
(***************************************************************************)
PostedOnce == OneLiveOrder /\ UpgradeIsFollowed
=============================================================================
