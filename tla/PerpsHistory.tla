----------------------------- MODULE PerpsHistory -----------------------------
(***************************************************************************)
(* The perps listings whose continuation is a time: the account histories  *)
(* (descendingHistory, intervalHistory) and the market's candles, trades   *)
(* and funding rates.  The service answers a query for a range of          *)
(* milliseconds with at most limit rows and says whether there are more;   *)
(* the client derives the next range from the last row and filters the     *)
(* rows it has already delivered.                                          *)
(*                                                                         *)
(* A row is its position in rows, which holds its time in half             *)
(* milliseconds, never decreasing.  Only internal transfers are stored     *)
(* with times between two milliseconds, and candles and intervals have one *)
(* row per step.  A wayward service answers any run of rows with any flag. *)
(***************************************************************************)
EXTENDS Integers, Sequences, SequencesExt, FiniteSetsExt, OneCaller

CONSTANTS MaxRows,      \* rows stored by the service
          MaxMillis     \* milliseconds are 0..MaxMillis

Step == 2               \* the candle or history interval, in milliseconds

Descending == {"payments", "transfers", "trades", "funding"}
Ascending == {"interval", "candles"}

LOCAL NonDecreasing(times) == \A i \in 1..(Len(times) - 1) : times[i] <= times[i + 1]
LOCAL Increasing(times) == \A i \in 1..(Len(times) - 1) : times[i] < times[i + 1]

\* What the service may store for a listing.
Stored(kind) ==
    LET whole == {2 * t : t \in 0..MaxMillis}
        aligned == {2 * t : t \in {u \in 0..MaxMillis : u % Step = 0}}
        lists(times) == UNION {[1..n -> times] : n \in 0..MaxRows}
    IN  CASE kind = "transfers" -> {r \in lists(0..(2 * MaxMillis)) : NonDecreasing(r)}
          [] kind \in {"payments", "trades"} -> {r \in lists(whole) : NonDecreasing(r)}
          [] kind = "funding" -> {r \in lists(whole) : Increasing(r)}
          [] OTHER -> {r \in lists(aligned) : Increasing(r)}

(***************************************************************************)
(* historyCursor, intervalCursor, candlesCursor, fundingCursor and         *)
(* tradesCursor: the range still to be read and, where rows can share a    *)
(* time, the rows already delivered at its end.                            *)
(***************************************************************************)
Cursor(start, end, seen) == [start |-> start, end |-> end, seen |-> seen]

HistoryInit ==
    \E kind \in Descending \cup Ascending, start \in 0..1, limit \in 1..3, wayward \in BOOLEAN :
        /\ wayward => limit = 1 /\ start = 0
        /\ \E rows \in Stored(kind) :
            st = [part |-> "history", kind |-> kind, rows |-> rows, limit |-> limit,
                  wayward |-> wayward, first |-> start, cursor |-> Cursor(start, MaxMillis, {}),
                  got |-> <<>>, result |-> "none"]

Ts(row) == st.rows[row] \div 2

InRange(start, end) ==
    {row \in DOMAIN st.rows : 2 * start <= st.rows[row] /\ st.rows[row] <= 2 * end}

\* Neighbouring rows in the order of the listing.
Ordered(rows) ==
    [k \in 1..Cardinality(rows) |->
        IF st.kind \in Ascending THEN Min(rows) + k - 1 ELSE Max(rows) - k + 1]

Answers(start, end) ==
    IF st.wayward
    THEN {[data |-> Ordered(i..j), more |-> more] :
            i \in 1..(Len(st.rows) + 1), j \in 0..Len(st.rows), more \in BOOLEAN}
    ELSE LET all == Ordered(InRange(start, end))
             n == IF Len(all) <= st.limit THEN Len(all) ELSE st.limit
         IN  {[data |-> SubSeq(all, 1, n), more |-> n < Len(all)]}

Unseen(data) == SelectSeq(data, LAMBDA row : row \notin st.cursor.seen)

LOCAL Reading(kinds) == st.part = "history" /\ st.kind \in kinds /\ st.result = "none"
\* What a wayward service delivers is not recorded.
LOCAL Received(items) == IF st.wayward THEN <<>> ELSE st.got \o items
LOCAL Ends(items, result) == st' = [st EXCEPT !.got = Received(items), !.result = result]
LOCAL Resumes(items, cursor) == st' = [st EXCEPT !.got = Received(items), !.cursor = cursor]
LOCAL NonProgress == Ends(<<>>, "nonprogress")

-----------------------------------------------------------------------------
Overlap == st.kind = "transfers"

\* Faulty variant: only rows at the bound itself are remembered.
ContinueForgetful(items, next, boundary) ==
    LET c == st.cursor
        kept == IF next < c.end THEN {} ELSE c.seen
        cursor == Cursor(c.start, next,
                         kept \cup {row \in ToSet(boundary) : Ts(row) >= next})
    IN  IF next < c.start THEN NonProgress
        ELSE IF cursor = c THEN Ends(items, "nonprogress") ELSE Resumes(items, cursor)

(***************************************************************************)
(* The continuation of descendingHistory: the range ends at next, and the  *)
(* rows of the page that the next query can return again are remembered,   *)
(* beside those remembered before if the end did not move.  iterateHistory *)
(* stops when the cursor is the one it used.                               *)
(***************************************************************************)
ContinueAt(items, next, boundary) ==
    LET c == st.cursor
        kept == IF next < c.end THEN {} ELSE c.seen
        cutoff == IF Overlap THEN next - 1 ELSE next
        cursor == Cursor(c.start, next,
                         kept \cup {row \in ToSet(boundary) : Ts(row) >= cutoff})
    IN  IF next < c.start THEN NonProgress
        ELSE IF cursor = c THEN Ends(items, "nonprogress") ELSE Resumes(items, cursor)

(***************************************************************************)
(* A page of transfers without new rows at an unmoved end: the last two    *)
(* milliseconds are read again as a whole before the end is moved.         *)
(***************************************************************************)
Probe(next) ==
    \E tail \in Answers(Max({st.cursor.start, next - 1}), next) :
        LET items == Unseen(tail.data) IN
        CASE tail.more -> NonProgress
          [] ~tail.more /\ next - 1 < st.cursor.start -> Ends(items, "ok")
          [] OTHER -> ContinueAt(items, next - 1, tail.data)

(***************************************************************************)
(* descendingHistory with iterateHistory: funding payments, deposits,      *)
(* withdrawals ("payments") and internal transfers.                        *)
(***************************************************************************)
descendingHistory ==
    /\ Reading({"payments", "transfers"})
    /\ \E page \in Answers(st.cursor.start, st.cursor.end) :
          LET items == Unseen(page.data)
              next == Min({st.cursor.end, Ts(Last(page.data)) + (IF Overlap THEN 1 ELSE 0)})
          IN  CASE ~page.more -> Ends(items, "ok")
                [] page.more /\ page.data = <<>> -> NonProgress
                [] OTHER -> IF next = st.cursor.end /\ items = <<>>
                            THEN IF Overlap THEN Probe(next) ELSE NonProgress
                            ELSE ContinueAt(items, next, page.data)

\* GetTradesPage and tradesPage with IterTrades.
tradesPage ==
    /\ Reading({"trades"})
    /\ \E page \in Answers(st.cursor.start, st.cursor.end) :
          LET c == st.cursor
              items == Unseen(page.data)
              more == page.more /\ ~(page.data # <<>> /\ Ts(Last(page.data)) <= c.start)
              last == Ts(Last(items))
              kept == IF last < c.end THEN {} ELSE c.seen
          IN  CASE ~more -> Ends(items, "ok")
                [] more /\ items = <<>> -> NonProgress
                [] OTHER -> IF last > c.end
                            THEN NonProgress
                            ELSE Resumes(items,
                                    Cursor(c.start, last,
                                           kept \cup {row \in ToSet(items) : Ts(row) = last}))

\* GetFundingHistoryPage and fundingPage with IterFundingHistory.
fundingPage ==
    /\ Reading({"funding"})
    /\ \E page \in Answers(st.cursor.start, st.cursor.end) :
          LET c == st.cursor
              last == Ts(Last(page.data))
          IN  CASE page.data = <<>> -> IF page.more THEN NonProgress ELSE Ends(<<>>, "ok")
                [] page.data # <<>> /\ page.more /\ last - 1 >= c.end -> NonProgress
                [] OTHER -> IF page.more /\ last > c.start
                            THEN Resumes(page.data, Cursor(c.start, last - 1, {}))
                            ELSE Ends(page.data, "ok")

\* intervalHistory with iterateInterval, GetCandlesPage and candlesPage with
\* IterCandles: the next range starts one step after the last row.
ascendingPage ==
    /\ Reading({"interval", "candles"})
    /\ \E page \in Answers(st.cursor.start, st.cursor.end) :
          LET c == st.cursor
              next == Ts(Last(page.data)) + Step
          IN  CASE page.data = <<>> -> IF page.more THEN NonProgress ELSE Ends(<<>>, "ok")
                [] page.data # <<>> /\ page.more /\ next <= c.start -> NonProgress
                [] OTHER -> IF page.more /\ next <= c.end
                            THEN Resumes(page.data, Cursor(next, c.end, {}))
                            ELSE Ends(page.data, "ok")

\* A query fails; the error ends the iteration.
queryFails ==
    /\ Reading(Descending \cup Ascending)
    /\ Ends(<<>>, "failed")

HistoryNext ==
    \/ descendingHistory \/ tradesPage \/ fundingPage \/ ascendingPage \/ queryFails

-----------------------------------------------------------------------------
(***************************************************************************)
(* An iteration over a truthful service that ends without an error has     *)
(* delivered every row of the range exactly once and in order, however     *)
(* many rows share a time and wherever the pages break.  IterTrades drops  *)
(* the rest of the rows at the start of the range when a page breaks among *)
(* them, so for it this holds of the later rows.                           *)
(***************************************************************************)
HistoryWhole ==
    (st.part = "history" /\ st.result = "ok" /\ ~st.wayward) =>
        IF st.kind = "trades"
        THEN /\ IsInjective(st.got)
             /\ {row \in InRange(st.first, MaxMillis) : Ts(row) > st.first} \subseteq ToSet(st.got)
        ELSE st.got = Ordered(InRange(st.first, MaxMillis))

(***************************************************************************)
(* An iteration over a truthful service gives up as not progressing only   *)
(* if a whole page of rows can share the time at which a page breaks       *)
(* (for transfers, two neighbouring milliseconds).                         *)
(***************************************************************************)
StallsOnlyOnFullMillisecond ==
    (st.part = "history" /\ st.result = "nonprogress" /\ ~st.wayward) =>
        \E ms \in 0..MaxMillis :
            Cardinality({row \in DOMAIN st.rows :
                            Ts(row) = ms \/ (Overlap /\ Ts(row) = ms + 1)}) >= st.limit

(***************************************************************************)
(* Whatever the service answers, an iteration that goes on has narrowed    *)
(* its range or delivered a row it had not delivered at the same bound, so *)
(* it ends.                                                                *)
(***************************************************************************)
HistoryAdvances ==
    [][(st.part = "history" /\ st'.result = "none") =>
          \/ st'.cursor.start > st.cursor.start
          \/ st'.cursor.end < st.cursor.end
          \/ st.cursor.seen \subseteq st'.cursor.seen /\ st.cursor.seen # st'.cursor.seen]_st

(***************************************************************************)
(* An iteration over a history by time ends, and ends with every row       *)
(* unless a whole page of rows shares a time.                              *)
(***************************************************************************)
HistoryComplete == [](HistoryWhole /\ StallsOnlyOnFullMillisecond) /\ HistoryAdvances
=============================================================================
