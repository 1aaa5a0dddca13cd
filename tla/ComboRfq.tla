------------------------------- MODULE ComboRfq -------------------------------
(***************************************************************************)
(* The requester's side of a combo RFQ (clob/combo_rfq.go,                 *)
(* combo_rfq_response.go, combo_fill.go): ask for a quote, accept it, wait *)
(* for the maker's last look and for settlement.  Also the amounts of the  *)
(* order a quoter signs (combo_quoter_quote.go).                           *)
(*                                                                         *)
(* Amounts are decimals with Places places (six in the code), written as   *)
(* integers of base units on the wire.  Identifiers and signatures are     *)
(* left out; a gateway that changes the request it echoes is kept.         *)
(***************************************************************************)
EXTENDS Integers, Sequences, OneCaller

CONSTANTS Places,      \* decimal places of an amount
          QuotedUnits, \* amounts in base units
          MaxAccepts   \* calls of AcceptComboQuote for one quote

Scale == 10 ^ Places

-----------------------------------------------------------------------------
(* Amounts *)

\* Faulty variant: the zeros in front of the fraction are dropped.
unpaddedToDecimal(raw) ==
    LET rem == raw % Scale
        drop == CHOOSE n \in 0..Places : rem % (10 ^ n) = 0 /\ (n = Places \/ rem % (10 ^ (n + 1)) # 0)
        frac == rem \div (10 ^ drop)
    IN [whole |-> raw \div Scale, frac |-> frac,
        places |-> CHOOSE n \in 0..Places : frac < 10 ^ n /\ (n = 0 \/ frac >= 10 ^ (n - 1))]

\* e6ToDecimal: whole units and the fraction without its trailing zeros.
e6ToDecimal(raw) ==
    LET rem == raw % Scale
        drop == CHOOSE n \in 0..Places : rem % (10 ^ n) = 0 /\ (n = Places \/ rem % (10 ^ (n + 1)) # 0)
    IN [whole |-> raw \div Scale, frac |-> rem \div (10 ^ drop), places |-> Places - drop]

\* decimalToE6String and comboPositiveE6
decimalToE6(value) == value.whole * Scale + value.frac * 10 ^ (Places - value.places)
validAmount(value) == decimalToE6(value) > 0 /\ value.places <= Places

(***************************************************************************)
(* buildComboQuoterQuote: a maker that sells inventory gives size tokens   *)
(* for the price rounded down; one that buys with collateral pays the      *)
(* price rounded up.  The complement outcome trades at one minus the price.*)
(***************************************************************************)
quoterAmounts(price, size, direction, source) ==
    LET complement == (direction = "BUY") = (source = "collateral")
        collateral == (IF complement THEN Scale - price ELSE price) * size
    IN [complement |-> complement,
        paid |-> IF source = "inventory" THEN size ELSE (collateral + Scale - 1) \div Scale,
        received |-> IF source = "inventory" THEN collateral \div Scale ELSE size]

\* The size of a quote: the maker's, or the request's, in shares or notional.
quoteSize(own, unit, value, price) ==
    CASE own # 0 -> own
      [] own = 0 /\ unit = "shares" -> value
      [] own = 0 /\ unit = "notional" -> (value * Scale) \div price

-----------------------------------------------------------------------------
(* The requester *)

Failed == {"FAILED", "EXPIRED", "CANCELED"}

ComboInit ==
    \/ \E legs \in {<<1, 2>>, <<2, 1>>, <<1, 1>>, <<1>>}, direction \in {"BUY", "SELL"},
          maker, taker \in QuotedUnits :
          st = [part |-> "combo", pc |-> "request", legs |-> legs, direction |-> direction,
                quote |-> [maker |-> maker, taker |-> taker], shown |-> <<>>, order |-> <<>>,
                gateway |-> "NONE", hash |-> FALSE, accepts |-> 0, taken |-> 0, seen |-> "NONE",
                result |-> "none"]
    \/ \E price \in 1..(Scale - 1), own \in {0, 7}, unit \in {"shares", "notional"}, value \in QuotedUnits,
          direction \in {"BUY", "SELL"}, source \in {"collateral", "inventory"} :
          /\ quoteSize(own, unit, value, price) > 0
          /\ st = [part |-> "combo", pc |-> "quoted", price |-> price,
                   size |-> quoteSize(own, unit, value, price), direction |-> direction, source |-> source]

LOCAL At(pc) == st.part = "combo" /\ st.pc = pc
LOCAL Return(result) == st' = [st EXCEPT !.pc = "returned", !.result = result]

\* normalizeComboQuoteRequest: at least two legs, none twice.
normalizeComboQuoteRequest(legs) ==
    Len(legs) >= 2 /\ \A i, j \in DOMAIN legs : i # j => legs[i] # legs[j]

(***************************************************************************)
(* RequestComboQuote: the gateway returns no quote, a quote for another    *)
(* request (validateComboQuoteEcho refuses it), or the quote, whose        *)
(* amounts are converted for the caller.                                   *)
(***************************************************************************)
RequestComboQuote ==
    /\ At("request")
    /\ IF ~normalizeComboQuoteRequest(st.legs)
       THEN Return("invalid")
       ELSE \/ Return("failed")
            \/ Return("no quotes")
            \/ Return("echo mismatch")
            \/ st' = [st EXCEPT !.pc = "accept", !.gateway = "AWAITING_REQUESTER",
                                !.shown = [maker |-> e6ToDecimal(st.quote.maker),
                                           taker |-> e6ToDecimal(st.quote.taker)]]

\* AcceptComboQuote up to the answer of the gateway, which takes the first
\* acceptance of an open request and holds it through the maker's last look.
AcceptComboQuote ==
    /\ At("accept")
    /\ st.accepts < MaxAccepts
    /\ LET order == [maker |-> decimalToE6(st.shown.maker), taker |-> decimalToE6(st.shown.taker)]
           next == [st EXCEPT !.accepts = @ + 1, !.order = order]
           took == [next EXCEPT !.taken = @ + 1, !.gateway = "AWAITING_MAKER"]
       IN IF ~(validAmount(st.shown.maker) /\ validAmount(st.shown.taker))
          THEN Return("invalid")
          ELSE CASE st.gateway = "AWAITING_REQUESTER" ->
                    \/ st' = [next EXCEPT !.pc = "accept"]     \* the request is lost
                    \/ st' = [took EXCEPT !.pc = "accept"]     \* its answer is lost
                    \/ st' = [took EXCEPT !.pc = "outcome", !.seen = "AWAITING_MAKER"]
                 [] st.gateway = "EXPIRED" /\ st.taken = 0 ->
                    st' = [next EXCEPT !.pc = "returned", !.seen = "EXPIRED", !.result = "EXPIRED"]
                 [] OTHER -> st' = [next EXCEPT !.pc = "outcome", !.seen = st.gateway]

\* Faulty variant: a read that fails ends the acceptance as a failed one.
outcomeGivesUp ==
    /\ At("outcome")
    /\ IF st.seen = "AWAITING_MAKER"
       THEN \/ Return("FAILED")
            \/ st' = [st EXCEPT !.seen = st.gateway]
       ELSE Return(IF st.seen \in Failed THEN st.seen ELSE "executing")

\* The rest of AcceptComboQuote: poll while the maker is to confirm, then
\* report.  The wait may time out and a read may fail.
acceptOutcome ==
    /\ At("outcome")
    /\ IF st.seen = "AWAITING_MAKER"
       THEN \/ Return("error")
            \/ st' = [st EXCEPT !.seen = st.gateway]
       ELSE Return(IF st.seen \in Failed THEN st.seen ELSE "executing")

\* WaitForComboFill after an acceptance that goes ahead or whose outcome is
\* unknown; a settled trade without a valid hash is an error.
WaitForComboFill ==
    /\ At("returned")
    /\ st.result \in {"executing", "error"}
    /\ \/ Return("timeout")
       \/ CASE st.gateway \in {"FILLED", "CONFIRMED"} -> Return(IF st.hash THEN "filled" ELSE "bad response")
            [] st.gateway \in Failed -> Return(st.gateway)
            [] OTHER -> UNCHANGED st

\* The gateway: expiry, the maker's answer, execution.
gatewayMoves ==
    /\ st.part = "combo"
    /\ st.pc # "quoted"
    /\ \E next \in CASE st.gateway = "AWAITING_REQUESTER" -> {"EXPIRED"}
                     [] st.gateway = "AWAITING_MAKER" -> {"EXECUTING", "FAILED", "EXPIRED", "CANCELED"}
                     [] st.gateway = "EXECUTING" -> {"MINED", "RETRYING", "FAILED"}
                     [] st.gateway = "RETRYING" -> {"MINED", "FAILED"}
                     [] st.gateway = "MINED" -> {"FILLED", "CONFIRMED", "FAILED"}
                     [] OTHER -> {} :
          \E hash \in BOOLEAN : st' = [st EXCEPT !.gateway = next, !.hash = hash]

ComboNext ==
    RequestComboQuote \/ AcceptComboQuote \/ acceptOutcome \/ WaitForComboFill \/ gatewayMoves

-----------------------------------------------------------------------------

(***************************************************************************)
(* What the requester is told is so for good: a failed, expired or         *)
(* canceled outcome is the gateway's final state, "executing" means the    *)
(* maker confirmed, "filled" that the trade settled with a hash; and the   *)
(* gateway never holds two acceptances, however often one is repeated.     *)
(***************************************************************************)
ComboOutcomeTruthful ==
    st.part = "combo" /\ st.pc # "quoted" =>
        /\ st.result \in Failed => st.gateway = st.result
        /\ st.result = "executing" => st.gateway \notin {"AWAITING_REQUESTER", "AWAITING_MAKER", "CANCELED"}
        /\ st.result = "filled" => st.gateway \in {"FILLED", "CONFIRMED"} /\ st.hash
        /\ st.taken <= 1

(***************************************************************************)
(* The acceptance order is signed for exactly the quoted base units,       *)
(* although the amounts pass through decimals on the way.                  *)
(***************************************************************************)
AcceptedAmountsExact ==
    st.part = "combo" /\ st.pc # "quoted" /\ st.order # <<>> => st.order = st.quote

(***************************************************************************)
(* A quoter's order never costs the requester more than the quote: with    *)
(* the maker's collateral a set of both outcomes is fully paid for, from   *)
(* inventory the maker asks for no more than price times size, and the     *)
(* maker loses less than one base unit to rounding.                        *)
(***************************************************************************)
QuoteIsHonoured ==
    st.part = "combo" /\ st.pc = "quoted" =>
        LET a == quoterAmounts(st.price, st.size, st.direction, st.source)
            fair == (IF a.complement THEN Scale - st.price ELSE st.price) * st.size
        IN IF st.source = "collateral"
           THEN a.paid * Scale >= fair /\ (a.paid - 1) * Scale < fair
           ELSE a.received * Scale <= fair /\ (a.received + 1) * Scale > fair

(***************************************************************************)
(* The amounts a requester or a quoter signs are those of the quote.       *)
(***************************************************************************)
AmountsHonoured == AcceptedAmountsExact /\ QuoteIsHonoured
=============================================================================
