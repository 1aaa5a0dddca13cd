----------------------------- MODULE PerpsTrading -----------------------------
(***************************************************************************)
(* Trading operations of a perps session (perps/cancellation.go,           *)
(* trading.go, advanced_orders.go), each on top of one signed command of   *)
(* the session (see PerpsSession):                                         *)
(*   cancel   CancelOrdersWithRetry, a batch of cancellations repeated for *)
(*            the orders still in flight;                                  *)
(*   group    PostOrders, PlaceOrderWithTPSL and PostPositionTPSL, orders  *)
(*            signed together while another goroutine changes the builder  *)
(*            terms of the session (see PerpsBuilders).                    *)
(* Prices, quantities, signatures and identifiers of orders are left out;  *)
(* an order is its index in the request.                                   *)
(***************************************************************************)
EXTENDS Integers, Sequences, SequencesExt, FiniteSetsExt, OneCaller

CONSTANTS BatchSize,        \* orders in a batch of cancellations
          CancelAttempts,   \* CancelRetry.MaxAttempts
          CancelDeadlines,  \* ends of the retries, in units of 100 ms
          MaxClock          \* largest time

-----------------------------------------------------------------------------
(* Cancellation *)

\* The answer to a batch is a sequence of [id, status]; an id of 0 is absent.
\* truth: where each order is; said: the exchange's last answer about it.
CancelInit ==
    \E truth \in [1..BatchSize -> {"inflight", "open"}], deadline \in CancelDeadlines,
       disable \in BOOLEAN :
        st = [part |-> "cancel", pc |-> "loop", attempts |-> IF disable THEN 1 ELSE CancelAttempts,
              deadline |-> deadline, attempt |-> 0, now |-> 0, wake |-> 0, cancelled |-> FALSE,
              pending |-> [i \in 1..BatchSize |-> i], results |-> [i \in 1..BatchSize |-> "none"],
              answer |-> <<>>, truth |-> truth, said |-> [i \in 1..BatchSize |-> "none"],
              resent |-> {}, err |-> "none"]

LOCAL In(pc) == st.part = "cancel" /\ st.pc = pc

\* fail: without results in the first attempt, later with a CancelRetryError
\* that holds the results so far and the unresolved indexes.
cancelFails(s, err) ==
    [s EXCEPT !.pc = "done", !.err = err,
              !.results = IF s.attempt = 0 THEN [i \in 1..BatchSize |-> "none"] ELSE @]

\* The delay before a repeated attempt, doubled up to a second.
cancelDelay(attempt) == Min({2 ^ Min({attempt - 1, 4}), 10})

\* The head of the loop, and waitCancelRetry up to its timer: no attempt is
\* left, or it could not begin before the deadline.
cancelLoop ==
    /\ In("loop")
    /\ st' = CASE st.pending = <<>> \/ st.attempt = st.attempts -> [st EXCEPT !.pc = "done"]
               [] st.cancelled -> cancelFails(st, "context")
               [] st.attempt = 0 -> [st EXCEPT !.pc = "send"]
               [] OTHER -> LET wake == st.now + cancelDelay(st.attempt) IN
                           IF wake > st.deadline THEN [st EXCEPT !.pc = "done"]
                           ELSE [st EXCEPT !.pc = "wait", !.wake = wake]

\* waitCancelRetry after its timer or the context: both are looked at again.
waitCancelRetry ==
    /\ In("wait")
    /\ st.cancelled \/ st.now >= st.wake
    /\ st' = CASE st.cancelled -> cancelFails(st, "context")
               [] st.now >= st.deadline -> [st EXCEPT !.pc = "done"]
               [] OTHER -> [st EXCEPT !.pc = "send"]

\* sendSignedCommand: it fails before the command is written, or it is sent.
cancelSend ==
    /\ In("send")
    /\ \/ st' = cancelFails(st, "send")
       \/ st' = [st EXCEPT !.pc = "sent",
                           !.resent = @ \cup {i \in Range(st.pending) :
                                                st.results[i] \notin {"none", "order_in_flight"}}]

\* The exchange handles the batch: an open order is cancelled, an order in
\* flight is not found yet.
exchangeCancels ==
    /\ In("sent")
    /\ LET outcome(i) == CASE st.truth[i] = "open" -> "ok"
                           [] st.truth[i] = "inflight" -> "order_in_flight"
                           [] st.truth[i] = "gone" -> "order_not_found"
           all == [k \in DOMAIN st.pending |-> [id |-> st.pending[k], status |-> outcome(st.pending[k])]]
           bare == [k \in DOMAIN all |-> [all[k] EXCEPT !.id = 0]]
       IN \E answer \in {all, bare, Reverse(all), Tail(all)} :
             st' = [st EXCEPT !.pc = "answered", !.answer = answer,
                              !.said = [i \in DOMAIN @ |-> IF i \in Range(st.pending) THEN outcome(i) ELSE @[i]],
                              !.truth = [i \in DOMAIN @ |-> IF i \in Range(st.pending) /\ @[i] = "open"
                                                            THEN "gone" ELSE @[i]]]

\* The command is rejected as a whole, or its answer does not arrive.
exchangeRejects ==
    /\ In("sent")
    /\ st' = cancelFails(st, "rejected")

cancelAnswerLost ==
    /\ In("answered")
    /\ st' = cancelFails(st, "lost")

\* An answer with one failure that names no order speaks of the command.
CommandRefused(answer) == Len(answer) = 1 /\ answer[1].id = 0 /\ answer[1].status # "ok"

\* Faulty variant: the results are stored where they stand in the answer.
takeCancelAnswerInOrder ==
    /\ In("answered")
    /\ LET n == Len(st.answer)
           retry == SelectSeq(st.pending, LAMBDA i : \E k \in 1..n : st.pending[k] = i
                                                       /\ st.answer[k].status = "order_in_flight") IN
       IF CommandRefused(st.answer) THEN st' = cancelFails(st, "rejected")
       ELSE IF n # Len(st.pending) THEN st' = cancelFails(st, "count")
       ELSE IF \E k \in 1..n : st.answer[k].id \notin {0, st.pending[k]} THEN st' = cancelFails(st, "identity")
       ELSE st' = [st EXCEPT !.pc = "loop", !.attempt = @ + 1, !.pending = retry,
                             !.results = [i \in DOMAIN @ |-> IF i <= n THEN st.answer[i].status ELSE @[i]]]

(***************************************************************************)
(* The answer is taken item by item: an item that names another order (or  *)
(* is malformed, which ends in the same way) ends the call after the items *)
(* before it were stored; the orders still in flight are the next batch.   *)
(***************************************************************************)
takeCancelAnswer ==
    /\ In("answered")
    /\ LET n == Len(st.answer)
           alien == {k \in 1..n : k > Len(st.pending) \/ st.answer[k].id \notin {0, st.pending[k]}}
           taken == IF alien = {} THEN 1..n ELSE 1..(Min(alien) - 1)
           stored == [i \in 1..BatchSize |->
                        IF \E k \in taken : st.pending[k] = i
                        THEN st.answer[CHOOSE k \in taken : st.pending[k] = i].status
                        ELSE st.results[i]]
           retry == SelectSeq(st.pending, LAMBDA i : stored[i] = "order_in_flight")
       IN IF CommandRefused(st.answer) THEN st' = cancelFails(st, "rejected")
          ELSE IF n # Len(st.pending) THEN st' = cancelFails(st, "count")
          ELSE IF alien # {} THEN st' = cancelFails([st EXCEPT !.results = stored], "identity")
          ELSE st' = [st EXCEPT !.pc = "loop", !.attempt = @ + 1, !.pending = retry,
                                !.results = stored]

\* An order in flight reaches the book, or an open one is filled.
orderMoves ==
    /\ st.part = "cancel"
    /\ st.pc # "done"
    /\ \E i \in DOMAIN st.truth :
          /\ st.truth[i] # "gone"
          /\ st' = [st EXCEPT !.truth[i] = IF @ = "inflight" THEN "open" ELSE "gone"]

cancelContextEnds ==
    /\ st.part = "cancel"
    /\ st.pc # "done"
    /\ ~st.cancelled
    /\ st' = [st EXCEPT !.cancelled = TRUE]

cancelClock ==
    /\ st.part = "cancel"
    /\ st.pc # "done"
    /\ st.now < MaxClock
    /\ st' = [st EXCEPT !.now = @ + 1]

CancelNext ==
    \/ cancelLoop \/ waitCancelRetry \/ cancelSend \/ exchangeCancels \/ exchangeRejects
    \/ cancelAnswerLost \/ takeCancelAnswer \/ orderMoves \/ cancelContextEnds \/ cancelClock

-----------------------------------------------------------------------------

(***************************************************************************)
(* What CancelOrdersWithRetry reports about an order is the exchange's     *)
(* last answer about that order, wherever it stood in a repeated batch;    *)
(* after a failure this holds for every index that CancelRetryError does   *)
(* not list as pending, and none of those is still in flight.              *)
(***************************************************************************)
CancelResultsOwn ==
    st.part = "cancel" /\ st.pc = "done" =>
        IF st.err = "none"
        THEN \A i \in 1..BatchSize : st.results[i] = st.said[i]
        ELSE st.attempt > 0 =>
                \A i \in (1..BatchSize) \ Range(st.pending) :
                    st.results[i] = st.said[i] /\ st.results[i] \notin {"none", "order_in_flight"}

(***************************************************************************)
(* CancelRetry bounds only explicit order_in_flight items: an order whose  *)
(* cancellation was answered definitely is in no later batch.              *)
(***************************************************************************)
OnlyInFlightResent == st.part = "cancel" => st.resent = {}

(***************************************************************************)
(* CancelOrdersWithRetry repeats only orders in flight and reports each    *)
(* order's own last answer.                                                *)
(***************************************************************************)
CancelsSettled == CancelResultsOwn /\ OnlyInFlightResent

-----------------------------------------------------------------------------
(* Orders sent together *)

\* An entry order may come with exits; a position's exits come alone.
GroupLegs(kind) ==
    CASE kind = "orders" -> {<<"entry">>, <<"entry", "entry">>}
      [] kind = "entry" -> {<<"entry", "tp">>, <<"entry", "sl">>, <<"entry", "tp", "sl">>}
      [] kind = "position" -> {<<"tp">>, <<"sl">>, <<"tp", "sl">>}

\* terms: the session's builder terms; position: the sign of the position;
\* seen: that sign as PostPositionTPSL read it; buy: the entry's side.
GroupInit ==
    \E kind \in {"orders", "entry", "position"}, buy \in BOOLEAN, position \in -1..1 :
        \E legs \in GroupLegs(kind) :
            st = [part |-> "group", kind |-> kind, buy |-> buy, legs |-> legs, position |-> position,
                  seen |-> 0, pc |-> "begin", terms |-> 1, captured |-> 0, batch |-> <<>>,
                  accepted |-> {}, acks |-> <<>>, update |-> "none", moves |-> 0, err |-> "none"]

InGroup(pc) == st.part = "group" /\ st.pc = pc
GroupEnds(err) == st' = [st EXCEPT !.pc = "done", !.err = err]

\* PlaceOrderWithTPSL and PostPositionTPSL up to the group: the arguments,
\* the watch on the client order id, or the position from the portfolio.
beginGroup ==
    /\ InGroup("begin")
    /\ \/ GroupEnds("invalid")
       \/ IF st.kind = "position"
          THEN \/ GroupEnds("portfolio")
               \/ IF st.position = 0 THEN GroupEnds("no position")
                  ELSE st' = [st EXCEPT !.pc = "terms", !.seen = st.position]
          ELSE st' = [st EXCEPT !.pc = "terms"]

\* builderTerms: one copy for the whole batch.
builderTerms ==
    /\ InGroup("terms")
    /\ st' = [st EXCEPT !.pc = "wire", !.captured = st.terms]

\* The side of a leg: an exit's is opposite to the entry's or the position's.
legBuys(leg) ==
    CASE leg = "entry" -> st.buy
      [] leg # "entry" /\ st.kind = "entry" -> ~st.buy
      [] leg # "entry" /\ st.kind # "entry" -> st.seen < 0

\* perpsOrderWire or triggerOrder.wire with appendBuilder: one leg.
appendLeg ==
    /\ InGroup("wire")
    /\ LET leg == st.legs[Len(st.batch) + 1]
           batch == Append(st.batch, [leg |-> leg, buy |-> legBuys(leg), terms |-> st.captured]) IN
       \/ GroupEnds("invalid")
       \/ st' = [st EXCEPT !.batch = batch, !.pc = IF Len(batch) = Len(st.legs) THEN "send" ELSE "wire"]

groupSend ==
    /\ InGroup("send")
    /\ GroupEnds("send") \/ st' = [st EXCEPT !.pc = "sent"]

\* The exchange accepts some of the orders.
exchangeAccepts ==
    /\ InGroup("sent")
    /\ \E accepted \in SUBSET DOMAIN st.batch :
          st' = [st EXCEPT !.pc = "answered", !.accepted = accepted]

\* Faulty variant: the first acknowledgement speaks for the group.
validatePerpsFirstAck(acks) == acks[1] = "ok"

\* validatePerpsPostOrderAck of every acknowledgement.
validatePerpsPostOrderAcks(acks) == \A k \in DOMAIN acks : acks[k] = "ok"

\* postOrderGroup after the answer, and its callers: PostOrders returns the
\* acknowledgements as they are, the others fail on a rejected one.
takeAcks ==
    /\ InGroup("answered")
    /\ LET acks == [k \in DOMAIN st.batch |-> IF k \in st.accepted THEN "ok" ELSE "err"]
           with(seq, err) == [st EXCEPT !.acks = seq, !.err = err, !.pc = "done"] IN
       \/ GroupEnds("lost")
       \/ st' = with(Append(acks, "err"), "count")
       \/ CASE st.kind = "orders" -> st' = with(acks, "none")
            [] st.kind = "position" ->
               st' = with(acks, IF validatePerpsPostOrderAcks(acks) THEN "none" ELSE "rejected")
            [] st.kind = "entry" ->
               st' = IF validatePerpsPostOrderAcks(acks) THEN [with(acks, "none") EXCEPT !.pc = "watch"]
                     ELSE with(acks, "rejected")

\* waitWatchedOrder: the entry's update, the end of the wait or of the session.
waitEntryUpdate ==
    /\ InGroup("watch")
    /\ \/ st' = [st EXCEPT !.pc = "done", !.update = "entry"]
       \/ GroupEnds("update")

\* Another goroutine refreshes the builder, or the position is traded.
sessionChanges ==
    /\ st.part = "group"
    /\ st.pc # "done"
    /\ st.moves = 0
    /\ \/ st' = [st EXCEPT !.terms = 2, !.moves = 1]
       \/ st' = [st EXCEPT !.position = -@, !.moves = 1]

GroupNext ==
    \/ beginGroup \/ builderTerms \/ appendLeg \/ groupSend \/ exchangeAccepts \/ takeAcks
    \/ waitEntryUpdate \/ sessionChanges

-----------------------------------------------------------------------------

(***************************************************************************)
(* The orders of one postOrderGroup carry the same builder terms although  *)
(* the session's are refreshed meanwhile, and every exit is on the side    *)
(* that closes the entry, or the position that was read.                   *)
(***************************************************************************)
GroupIsConsistent ==
    st.part = "group" =>
        /\ \A j, k \in DOMAIN st.batch : st.batch[j].terms = st.batch[k].terms
        /\ \A k \in DOMAIN st.batch : st.batch[k].leg # "entry" =>
              st.batch[k].buy = IF st.kind = "entry" THEN ~st.buy ELSE st.seen = -1

(***************************************************************************)
(* PlaceOrderWithTPSL and PostPositionTPSL succeed only if the exchange    *)
(* accepted every order of the group; and unless the answer was lost, the  *)
(* acknowledgements returned, with or without an error, name every order   *)
(* the exchange accepted.                                                  *)
(***************************************************************************)
GroupOutcomeTruthful ==
    st.part = "group" /\ st.pc = "done" =>
        /\ st.err = "none" /\ st.kind # "orders" => st.accepted = DOMAIN st.batch
        /\ st.err # "lost" => \A k \in st.accepted : k \in DOMAIN st.acks /\ st.acks[k] = "ok"

(***************************************************************************)
(* A group of orders is consistent and its outcome is what the exchange    *)
(* did.                                                                    *)
(***************************************************************************)
GroupSafe == GroupIsConsistent /\ GroupOutcomeTruthful
=============================================================================
