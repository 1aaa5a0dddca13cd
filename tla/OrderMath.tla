------------------------------- MODULE OrderMath -------------------------------
(***************************************************************************)
(* The amounts of limit and market orders (limit_order.go, market_order.go,*)
(* order_math.go, order_pricing.go, order_validation.go), with the tick    *)
(* size of the market, which is cached and may be refined at any time.     *)
(*                                                                         *)
(* Decimals are integers.  A price counts thousandths, an amount base      *)
(* units, of which a token has 10^4 (10^6 in the code), and sizes have one *)
(* decimal (two in the code): each tick keeps Amount = Price + Size and    *)
(* the finest tick still fills the base unit.  Ticks of four decimals are  *)
(* left out.  What the caller asks to spend may be finer than a base unit  *)
(* and counts tenths of it.                                                *)
(***************************************************************************)
EXTENDS Integers, Sequences, OneCaller

CONSTANTS Amounts,   \* amounts asked for, in tenths of a base unit
          Bounds,    \* prices and price bounds; 0 is none
          Budgets    \* MaxSpend in base units; 0 is none

One == 1000          \* the price 1
FinestTick == 1      \* the next price a market could ever quote
SizeStep == 1000     \* base units in the last decimal of a size

\* TickSize and roundingConfig: the tick itself and its decimals.
TickSizes == {"tenth", "hundredth", "halfcent", "thousandth"}
parseTickSize ==
    [tenth |-> 100, hundredth |-> 10, halfcent |-> 5, thousandth |-> 1]
PricePlaces ==
    [tenth |-> 1, hundredth |-> 2, halfcent |-> 3, thousandth |-> 3]

\* Base units in the last decimal of an amount: Amount = Price + Size places.
AmountStep(tick) == 10 ^ (3 - PricePlaces[tick])

roundDown(value, step) == (value \div step) * step

(***************************************************************************)
(* roundToAmount of the quotient n / d, in steps: rounded up with four     *)
(* more decimals, then down.                                               *)
(***************************************************************************)
roundToAmount(n, d, step) ==
    LET q == n \div (d * step)
        r == n % (d * step)
    IN  step * IF r * 10000 > 9999 * d * step THEN q + 1 ELSE q

-----------------------------------------------------------------------------
(* Validation *)

\* validatePrice, validateLimitPricePrecision, validateTickAlignment
validatePrice(price, tick) ==
    LET minimum == parseTickSize[tick] IN price \in minimum..(One - minimum)
validateLimitPricePrecision(price, tick) == price % (10 ^ (3 - PricePlaces[tick])) = 0
validateTickAlignment(price, tick) == price % parseTickSize[tick] = 0
validate(price, tick) ==
    /\ validatePrice(price, tick)
    /\ validateLimitPricePrecision(price, tick)
    /\ validateTickAlignment(price, tick)

isTickSizeSmaller(a, b) == parseTickSize[a] < parseTickSize[b]

\* marketOrderPriceBound, and the stricter of it and an explicit price.
StricterPrice(side, price, bound) ==
    IF bound # 0 /\ (\/ price = 0
                     \/ side = "BUY" /\ price > bound
                     \/ side = "SELL" /\ price < bound)
    THEN bound ELSE price

-----------------------------------------------------------------------------
(* The order book: levels [price, size], the best one last. *)

Books ==
    {<<>>,
     <<[price |-> 600, size |-> 300], [price |-> 500, size |-> 250]>>,
     <<[price |-> 400, size |-> 1000], [price |-> 450, size |-> 2500], [price |-> 455, size |-> 200]>>}

\* What the levels from i to the best one offer, in the unit of the amount asked.
Depth(side, book, i) ==
    LET offer[j \in i..(Len(book) + 1)] ==
          IF j > Len(book) THEN 0
          ELSE offer[j + 1] + IF side = "BUY" THEN (book[j].size * book[j].price * 10) \div One
                              ELSE book[j].size * 10
    IN  offer[i]

\* CalculateMarketPrice; 0 stands for its errors.
CalculateMarketPrice(side, book, amount, type) ==
    LET enough == {i \in DOMAIN book : Depth(side, book, i) >= amount}
    IN  IF enough # {} THEN book[CHOOSE i \in enough : \A j \in enough : j <= i].price
        ELSE IF book = <<>> \/ type = "FOK" THEN 0
        ELSE book[1].price

-----------------------------------------------------------------------------
(* Fees: a record of the platform's rate and exponent and the builder's    *)
(* rate, in per cent.                                                      *)

Fees == [rate : {0, 7}, exponent : {0, 1}, builder : {0, 1}]

(***************************************************************************)
(* The cost of spending one unit at a price, fees included, as a fraction: *)
(* 1 + rate * (price * (1 - price)) ^ exponent / price + builder.          *)
(***************************************************************************)
CostNum(fee, price) ==
    IF fee.exponent = 0 THEN 100 * price + One * fee.rate + fee.builder * price
    ELSE 100 * One + fee.rate * (One - price) + One * fee.builder
CostDen(fee, price) == IF fee.exponent = 0 THEN 100 * price ELSE 100 * One

\* Faulty variant: the platform's fee is left out of the divisor.
adjustWithoutFee(amount, budget, price, fee) ==
    IF budget * 10 * CostDen(fee, price) <= amount * CostNum(fee, price)
    THEN (budget * 100) \div (100 + fee.builder)
    ELSE amount \div 10

\* adjustMarketBuyAmount, amount in tenths; 0 stands for its error.
adjustMarketBuyAmount(amount, budget, price, fee) ==
    IF budget * 10 * CostDen(fee, price) <= amount * CostNum(fee, price)
    THEN (budget * CostDen(fee, price)) \div CostNum(fee, price)
    ELSE amount \div 10

-----------------------------------------------------------------------------
(* Amounts: [maker, taker] in base units. *)

NoAmounts == [maker |-> 0, taker |-> 0]

\* buildSignedLimitOrder
limitAmounts(side, size, price, budget, fee) ==
    LET paid(shares) == (shares * price) \div One
        shares == IF budget = 0 THEN size
                  ELSE roundDown((adjustMarketBuyAmount(10 * paid(size), budget, price, fee) * One)
                                   \div price, SizeStep)
    IN  IF side = "BUY" THEN [maker |-> paid(shares), taker |-> shares]
        ELSE [maker |-> size, taker |-> paid(size)]

\* buildSignedMarketOrder: a protected purchase derives the shares from what is
\* signed and rounds them down.
marketAmounts(side, amount, price, bound, budget, fee, tick) ==
    LET step == AmountStep(tick)
        spent == IF budget = 0 THEN amount
                 ELSE 10 * adjustMarketBuyAmount(amount, budget, price, fee)
        sold == roundDown(amount \div 10, SizeStep)
    IN  IF side = "SELL" THEN [maker |-> sold, taker |-> roundToAmount(sold * price, One, step)]
        ELSE [maker |-> spent \div 10,
              taker |-> IF bound # 0
                        THEN roundDown(((spent \div 10) * One) \div price, step)
                        ELSE roundToAmount(spent * (One \div 10), price, step)]

\* validateProtectedMarketAmounts
validateProtectedMarketAmounts(order, side, price) ==
    /\ order.maker # 0 /\ order.taker # 0
    /\ IF side = "SELL" THEN order.taker * One >= price * order.maker
       ELSE /\ order.maker * One >= price * order.taker
            /\ order.maker * One < (price + FinestTick) * order.taker

-----------------------------------------------------------------------------
(***************************************************************************)
(* CreateOrder and CreateMarketOrder.  A budget and a bound are only valid *)
(* on the side they protect (validateLimitOrderArgs,                       *)
(* validateMarketOrderArgs).                                               *)
(***************************************************************************)
AmountsInit ==
    \E kind \in {"limit", "market"}, side \in {"BUY", "SELL"}, amount \in Amounts,
       price \in Bounds, bound \in Bounds, budget \in Budgets, fee \in Fees, book \in Books,
       type \in {"FOK", "FAK"}, option \in {"", "hundredth"},
       cached \in {"", "tenth", "thousandth"}, tick \in {"tenth", "halfcent"} :
        /\ side = "SELL" => budget = 0
        /\ budget = 0 => fee = [rate |-> 0, exponent |-> 0, builder |-> 0]
        /\ kind = "limit" => price # 0 /\ bound = 0
        /\ price # 0 \/ bound # 0 => book = <<>> /\ type = "FAK"
        /\ book # <<>> => (side = "BUY" <=> book[1].price > book[2].price)
        /\ st = [part |-> "amounts", kind |-> kind, side |-> side, amount |-> amount,
                 price |-> StricterPrice(side, price, bound), bound |-> bound, budget |-> budget,
                 fee |-> fee, book |-> book, type |-> type, option |-> option,
                 cached |-> cached, market |-> tick, tick |-> "", refined |-> FALSE,
                 rebuilt |-> FALSE, pc |-> "tick", order |-> NoAmounts, result |-> "none"]

LOCAL At(pc) == st.part = "amounts" /\ st.pc = pc
LOCAL Reject == st' = [st EXCEPT !.pc = "done", !.result = "invalid"]

\* resolveTickSize: cached or asked for; an option may not be finer.
resolveTickSize ==
    /\ At("tick")
    /\ LET tick == IF st.cached = "" THEN st.market ELSE st.cached IN
       IF st.option # "" /\ isTickSizeSmaller(st.option, tick) THEN Reject
       ELSE st' = [st EXCEPT !.cached = tick, !.pc = "bound",
                             !.tick = IF st.option = "" THEN tick ELSE st.option]

(***************************************************************************)
(* validateLimitPriceWithRefresh: a price the tick does not admit is       *)
(* checked once more with the market's tick, unless the caller chose it.   *)
(***************************************************************************)
LOCAL Validated(price, next) ==
    \/ /\ validate(price, st.tick)
       /\ st' = [st EXCEPT !.pc = next]
    \/ /\ ~validate(price, st.tick)
       /\ \/ Reject
          \/ /\ st.option = ""
             /\ validate(price, st.market)
             /\ st' = [st EXCEPT !.pc = next, !.tick = st.market, !.cached = st.market]

validateBound ==
    /\ At("bound")
    /\ IF st.bound = 0 THEN st' = [st EXCEPT !.pc = "price"] ELSE Validated(st.bound, "price")

marketPrice ==
    /\ At("price")
    /\ LET price == IF st.price # 0 THEN st.price
                    ELSE CalculateMarketPrice(st.side, st.book, st.amount, st.type)
       IN IF price = 0 THEN Reject ELSE st' = [st EXCEPT !.price = price, !.pc = "check"]

validateLimitPriceWithRefresh == At("check") /\ Validated(st.price, "build")

(***************************************************************************)
(* The amounts, and validateOrderAmounts before they are signed.  Amounts  *)
(* that break a bound are computed again with the market's tick, once.     *)
(***************************************************************************)
buildOrder ==
    /\ At("build")
    /\ LET order ==
             IF st.kind = "limit"
             THEN limitAmounts(st.side, st.amount \div 10, st.price, st.budget, st.fee)
             ELSE marketAmounts(st.side, st.amount, st.price, st.bound, st.budget, st.fee, st.tick)
       IN IF st.kind = "limit" /\ st.amount % (10 * SizeStep) # 0 THEN Reject
          ELSE IF st.bound # 0 /\ ~validateProtectedMarketAmounts(order, st.side, st.price)
          THEN IF st.option # "" \/ st.rebuilt THEN Reject
               ELSE st' = [st EXCEPT !.pc = "refresh"]
          ELSE IF order.maker = 0 \/ order.taker = 0 THEN Reject
          ELSE st' = [st EXCEPT !.pc = "done", !.order = order, !.result = "signed"]

\* Refresh the market's metadata, check bound and price, rebuild.
refreshProtected ==
    /\ At("refresh")
    /\ \/ Reject
       \/ /\ validatePrice(st.bound, st.market) /\ validateTickAlignment(st.bound, st.market)
          /\ validatePrice(st.price, st.market) /\ validateTickAlignment(st.price, st.market)
          /\ st' = [st EXCEPT !.pc = "build", !.rebuilt = TRUE, !.tick = st.market,
                              !.cached = st.market]

\* The market's tick size changes.
RefineTick ==
    /\ st.part = "amounts"
    /\ st.pc # "done"
    /\ ~st.refined
    /\ \E tick \in TickSizes :
        /\ tick # st.market
        /\ st' = [st EXCEPT !.market = tick, !.refined = TRUE]

AmountsNext ==
    \/ resolveTickSize \/ validateBound \/ marketPrice \/ validateLimitPriceWithRefresh
    \/ buildOrder \/ refreshProtected \/ RefineTick

LOCAL Signed == st.part = "amounts" /\ st.result = "signed"

(***************************************************************************)
(* A protected market order keeps its bound, whichever tick sizes were     *)
(* cached, refreshed or refined on the way: a purchase reaches the ask at  *)
(* its price and cannot reach an ask one finest tick above MaxPrice; a     *)
(* sale never asks for less than MinPrice.                                 *)
(***************************************************************************)
BoundIsKept ==
    (Signed /\ st.bound # 0) =>
        IF st.side = "BUY"
        THEN /\ st.order.maker * One < (st.bound + FinestTick) * st.order.taker
             /\ st.order.maker * One >= st.price * st.order.taker
        ELSE st.order.taker * One >= st.bound * st.order.maker

(***************************************************************************)
(* An order with MaxSpend never costs more than that, the platform's and   *)
(* the builder's fees included, for a limit order whose shares are rounded *)
(* after the adjustment as for a market order.                             *)
(***************************************************************************)
BudgetIsKept ==
    (Signed /\ st.budget # 0) =>
        st.order.maker * CostNum(st.fee, st.price) <= st.budget * CostDen(st.fee, st.price)

(***************************************************************************)
(* A fill-or-kill market order priced from the book (CalculateMarketPrice) *)
(* takes the best price at which the book holds the whole amount: the      *)
(* levels down to that price fill it, and those before it do not.          *)
(***************************************************************************)
BookFillsOrder ==
    (Signed /\ st.book # <<>> /\ st.type = "FOK") =>
        LET reach == {i \in DOMAIN st.book :
                        IF st.side = "BUY" THEN st.book[i].price <= st.price
                        ELSE st.book[i].price >= st.price}
            better == {i \in reach : st.book[i].price # st.price}
            holds(levels) == levels # {} /\
                Depth(st.side, st.book, CHOOSE i \in levels : \A j \in levels : i <= j) >= st.amount
        IN  holds(reach) /\ ~holds(better)

(***************************************************************************)
(* The signed amounts keep the caller's price bound and budget, and a      *)
(* price taken from the book fills the order.                              *)
(***************************************************************************)
LimitsKept == BoundIsKept /\ BudgetIsKept /\ BookFillsOrder
=============================================================================
