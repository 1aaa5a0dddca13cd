-------------------------------- MODULE Pages --------------------------------
(***************************************************************************)
(* The iterators over paginated listings of packages clob, gamma, data,    *)
(* data/legacy and perps (the perps histories whose cursor is a time are   *)
(* in PerpsHistory).                                                       *)
(*                                                                         *)
(* An iterator is one of a few loops with its parameters.  A listing is    *)
(* either linked by the service's cursors or addressed by offset or page.  *)
(* The service may link its pages in any way, cycles included, may ignore  *)
(* the offset, and a fetch may fail.                                       *)
(***************************************************************************)
EXTENDS Integers, Sequences, SequencesExt, OneCaller

CONSTANTS LastCursor,   \* the service's cursors are 1..LastCursor
          MaxItems,     \* the largest offset listing
          MaxFetches    \* where the walk of an endless listing is cut off


LOCAL Empty == 0      \* the empty cursor: the first page
LOCAL End == -1       \* clob's endCursor
LOCAL None == -2      \* clob: an answer with an empty next_cursor

(***************************************************************************)
(* loop is the traversal; limit, largest the page size and the largest     *)
(* offset (or page) of the offset loops, unbounded when largest is -1;     *)
(* collect what the Get or List function around it returns on an error.    *)
(***************************************************************************)
LOCAL Walker(loop, largest) == [loop |-> loop, largest |-> largest, collect |-> "none"]

Collect(walker) == [walker EXCEPT !.collect = "nothing"]
collect(walker) == [walker EXCEPT !.collect = "partial"]

paginate == Walker("paginate", -1)
walkPages == Walker("walkPages", -1)
dataWalk == Walker("dataWalk", -1)
offsetItems(largest) == Walker("offsetItems", largest)
offsetPages(largest) == Walker("offsetPages", largest)
LegacyOffsets(largest) == Walker("legacyOffsets", largest)

\* The boundary of an offset listing, smaller than in the code.
LOCAL Boundary == 3
ClobIterSamplingSimplifiedMarkets == paginate
ClobIterSamplingMarkets == paginate
ClobIterSimplifiedMarkets == paginate
ClobIterMarkets == paginate
ClobIterOpenOrders == paginate
ClobIterPreMigrationOrders == paginate
ClobIterTrades == paginate
ClobIterBuilderTrades == paginate
ClobIterEarningsForUserForDay == paginate
ClobIterUserEarningsAndMarketsConfig == paginate
ClobIterCurrentRewards == paginate
ClobIterRewardsForMarket == paginate
ClobIterRewardMarkets == paginate
ClobGetSamplingSimplifiedMarkets == Collect(ClobIterSamplingSimplifiedMarkets)
ClobGetSamplingMarkets == Collect(ClobIterSamplingMarkets)
ClobGetSimplifiedMarkets == Collect(ClobIterSimplifiedMarkets)
ClobGetMarkets == Collect(ClobIterMarkets)
ClobGetOpenOrders == Collect(ClobIterOpenOrders)
ClobGetTrades == Collect(ClobIterTrades)
ClobGetBuilderTrades == Collect(ClobIterBuilderTrades)
ClobGetEarningsForUserForDay == Collect(ClobIterEarningsForUserForDay)
ClobGetUserEarningsAndMarketsConfig == Collect(ClobIterUserEarningsAndMarketsConfig)
ClobGetCurrentRewards == Collect(ClobIterCurrentRewards)
ClobGetRewardsForMarket == Collect(ClobIterRewardsForMarket)
ClobGetRewardMarkets == Collect(ClobIterRewardMarkets)
\* A loop of its own: only the empty cursor ends it.
ClobIterComboMarkets == Walker("untilEmpty", -1)
ClobGetAllComboMarkets == Collect(ClobIterComboMarkets)

GammaIterMarketClarifications == offsetItems(-1)
GammaIterEvents == offsetItems(-1)
GammaIterMarkets == offsetItems(-1)
GammaIterSeries == offsetItems(-1)
GammaListSeries == collect(GammaIterSeries)
GammaIterTeams == offsetItems(-1)
GammaListTeams == collect(GammaIterTeams)
GammaIterTags == offsetItems(-1)
GammaListTags == collect(GammaIterTags)
GammaIterMarketPages == walkPages
GammaIterMarketsKeyset == GammaIterMarketPages
GammaIterEventPages == walkPages
GammaIterEventsKeyset == GammaIterEventPages
\* Comments of a thread come by keyset, by offset pages or, from an explicit
\* offset, item by item.
GammaIterCommentPages == {walkPages, offsetPages(Boundary)}
GammaIterComments == GammaIterCommentPages \cup {offsetItems(Boundary)}
GammaListComments == {collect(walker) : walker \in GammaIterComments}
GammaIterUserCommentPages == offsetPages(Boundary)
GammaIterCommentsByUserAddress == GammaIterUserCommentPages
GammaListCommentsByUserAddress == collect(GammaIterCommentsByUserAddress)
GammaIterSearchPages == Walker("searchPages", Boundary)
GammaIterSearch == GammaIterSearchPages

DataIterTrades == dataWalk
DataIterActivity == dataWalk
DataIterComboActivity == dataWalk
DataIterLeaderboard == dataWalk
DataIterBiggestWinners == dataWalk
DataIterBuilderLeaderboard == dataWalk
DataIterHolders == dataWalk
DataIterPriceHistory == dataWalk
DataIterPositions == dataWalk
DataIterComboPositions == dataWalk

LegacyIterPositions == LegacyOffsets(Boundary)
LegacyIterClosedPositions == LegacyOffsets(Boundary)
LegacyIterTrades == LegacyOffsets(Boundary)
LegacyIterActivity == LegacyOffsets(Boundary)
LegacyIterLeaderboard == LegacyOffsets(Boundary)
LegacyIterBuilderLeaderboard == LegacyOffsets(Boundary)
LegacyIterMarketPositions == LegacyOffsets(Boundary)
\* These stop without an error when the service repeats the cursor.
LegacyIterComboPositions == Walker("legacyCombo", -1)
LegacyIterComboActivity == Walker("legacyCombo", -1)

PerpsIterNotifications == Walker("notifications", -1)
PerpsIterBuilderEarnings == Walker("earnings", -1)
PerpsIterFills == Walker("iterateHistory", -1)

Walkers ==
    {ClobIterMarkets, ClobGetMarkets, ClobIterComboMarkets, ClobGetAllComboMarkets,
     GammaIterEvents, GammaListTags, GammaIterMarketsKeyset, GammaIterCommentsByUserAddress,
     GammaListCommentsByUserAddress, GammaIterSearch, DataIterTrades, LegacyIterPositions,
     LegacyIterComboPositions, PerpsIterNotifications, PerpsIterBuilderEarnings, PerpsIterFills}
        \cup GammaIterComments \cup GammaListComments

(***************************************************************************)
(* The service.  A cursor listing says for every page which cursor comes   *)
(* next and whether there is more; the loops that know no such flag, or    *)
(* whose page function insists that the two agree, see only the cursor.    *)
(***************************************************************************)
CursorLoops ==
    {"paginate", "untilEmpty", "walkPages", "dataWalk", "legacyCombo", "notifications",
     "earnings", "iterateHistory"}
FlagLoops == {"legacyCombo", "notifications", "earnings"}

LOCAL Pages == Empty..LastCursor

CursorListings(loop) ==
    {[next |-> next, more |-> [page \in Pages |-> next[page] \notin {Empty, None, End}]] :
        next \in [Pages -> IF loop = "paginate" THEN Pages \cup {None, End} ELSE Pages]}
        \cup IF loop \in FlagLoops
             THEN [next : [Pages -> Pages], more : [Pages -> BOOLEAN]]
             ELSE {}

\* An offset listing: its size, and whether the service heeds the offset.
OffsetListings == [size : 0..MaxItems, stuck : BOOLEAN]

LOCAL Fresh(walker, start, limit) ==
    [part |-> "walk", walker |-> walker, start |-> start, limit |-> limit, at |-> start,
     seen |-> {}, previous |-> <<>>, asked |-> <<>>, got |-> <<>>, result |-> "none"]

PagesInit ==
    \E walker \in Walkers :
        \/ /\ walker.loop \in CursorLoops
           /\ \E listing \in CursorListings(walker.loop), start \in {Empty, 1} :
                 st = Fresh(walker, start, 0) @@ [listing |-> listing]
        \/ /\ walker.loop \notin CursorLoops
           /\ \E listing \in OffsetListings, limit \in 1..2,
                 start \in IF walker.loop = "searchPages" THEN {1} ELSE 0..1 :
                 st = Fresh(walker, start, limit) @@ [listing |-> listing]

LOCAL Running == st.part = "walk" /\ st.result = "none" /\ Len(st.asked) < MaxFetches
LOCAL In(loops) == Running /\ st.walker.loop \in loops

LOCAL Done(w, result) == st' = [w EXCEPT !.result = result]
LOCAL Continue(w, at) == st' = [w EXCEPT !.at = at]

\* The page at the cursor was fetched, and then its items were yielded.
LOCAL Fetched == [st EXCEPT !.asked = Append(@, st.at)]
LOCAL Yielded(w) == [w EXCEPT !.got = Append(@, w.at)]

LOCAL NextCursor == st.listing.next[st.at]
LOCAL HasMore == st.listing.more[st.at]

-----------------------------------------------------------------------------
(* The cursor loops, one step per page *)

\* Faulty variant: a repeated cursor ends the listing.
PaginateQuiet ==
    /\ In({"paginate"})
    /\ CASE NextCursor \in {None, End, st.at} -> Done(Yielded(Fetched), "ok")
         [] OTHER -> Continue(Yielded(Fetched), NextCursor)

(***************************************************************************)
(* paginate, nextPageCursor: the items are yielded before the next cursor  *)
(* is looked at; the end cursor is found at the head of the loop.          *)
(***************************************************************************)
Paginate ==
    /\ In({"paginate"})
    /\ CASE NextCursor \in {None, End} -> Done(Yielded(Fetched), "ok")
         [] NextCursor = st.at -> Done(Yielded(Fetched), "stalled")
         [] OTHER -> Continue(Yielded(Fetched), NextCursor)

UntilEmpty ==
    /\ In({"untilEmpty"})
    /\ IF NextCursor = Empty THEN Done(Yielded(Fetched), "ok")
                             ELSE Continue(Yielded(Fetched), NextCursor)

(***************************************************************************)
(* walkPages over keysetPage, which refuses the cursor it was given.       *)
(***************************************************************************)
WalkPages ==
    /\ In({"walkPages"})
    /\ IF st.at \in st.seen
       THEN Done(st, "stalled")
       ELSE LET w == [Fetched EXCEPT !.seen = @ \cup {st.at}] IN
            CASE NextCursor = Empty -> Done(Yielded(w), "ok")
              [] NextCursor = st.at /\ NextCursor # Empty -> Done(w, "stalled")
              [] OTHER -> Continue(Yielded(w), NextCursor)

(***************************************************************************)
(* data walk: a cycle is reported before the page's items are yielded.     *)
(***************************************************************************)
DataWalk ==
    /\ In({"dataWalk"})
    /\ LET seen == st.seen \cup ({st.start} \ {Empty})
           w == [Fetched EXCEPT !.seen = seen \cup {NextCursor}]
       IN  CASE NextCursor = Empty -> Done(Yielded(Fetched), "ok")
             [] NextCursor \in seen -> Done(Fetched, "stalled")
             [] OTHER -> Continue(Yielded(w), NextCursor)

LegacyCombo ==
    /\ In({"legacyCombo"})
    /\ IF ~HasMore \/ NextCursor \in {Empty, st.at}
       THEN Done(Yielded(Fetched), "ok")
       ELSE Continue(Yielded(Fetched), NextCursor)

\* IterNotifications and IterBuilderEarnings with their page functions: the
\* second refuses an empty cursor too.
PerpsSeen ==
    /\ In({"notifications", "earnings"})
    /\ LET refused == {st.at} \cup (IF st.walker.loop = "earnings" THEN {Empty} ELSE {})
           w == [Yielded(Fetched) EXCEPT !.seen = @ \cup {NextCursor}]
       IN  CASE ~HasMore -> Done(Yielded(Fetched), "ok")
             [] HasMore /\ NextCursor \in refused -> Done(Fetched, "stalled")
             [] HasMore /\ NextCursor \notin refused /\ NextCursor \in st.seen ->
                    Done(Yielded(Fetched), "stalled")
             [] OTHER -> Continue(w, NextCursor)

\* iterateHistory over GetFillsPage: the cursor is the last fill's id.
IterateHistory ==
    /\ In({"iterateHistory"})
    /\ CASE NextCursor = Empty -> Done(Yielded(Fetched), "ok")
         [] NextCursor = st.at /\ NextCursor # Empty -> Done(Fetched, "stalled")
         [] OTHER -> Continue(Yielded(Fetched), NextCursor)

-----------------------------------------------------------------------------
(* The offset loops *)

\* The service's answer to a limit and an offset: the items' positions.
LOCAL Answer(offset) ==
    LET from == IF st.listing.stuck THEN 0 ELSE offset
        upTo == IF from + st.limit < st.listing.size THEN from + st.limit
                                                         ELSE st.listing.size
    IN  [i \in 1..(IF upTo > from THEN upTo - from ELSE 0) |-> from + i]

LOCAL TooFar(offset) == st.walker.largest >= 0 /\ offset > st.walker.largest

LOCAL WithItems(items) == [Fetched EXCEPT !.got = @ \o items, !.previous = items]

(***************************************************************************)
(* offsetItems: the bound is tested before every fetch, the page must      *)
(* differ from the one before it, and a short page is the last.            *)
(***************************************************************************)
OffsetItems ==
    /\ In({"offsetItems"})
    /\ LET items == Answer(st.at) IN
       CASE TooFar(st.at) -> Done(st, "limit")
         [] ~TooFar(st.at) /\ items = <<>> -> Done(Fetched, "ok")
         [] ~TooFar(st.at) /\ items # <<>> /\ items = st.previous -> Done(Fetched, "stalled")
         [] OTHER -> IF Len(items) < st.limit
                     THEN Done(WithItems(items), "ok")
                     ELSE Continue(WithItems(items), st.at + st.limit)

(***************************************************************************)
(* walkPages over offsetCommentPage, and pageItems around it: a full page  *)
(* whose successor lies beyond the boundary is yielded and then reported.  *)
(***************************************************************************)
OffsetPages ==
    /\ In({"offsetPages"})
    /\ LET items == Answer(st.at) IN
       CASE TooFar(st.at) -> Done(st, "limit")
         [] ~TooFar(st.at) /\ Len(items) < st.limit -> Done(WithItems(items), "ok")
         [] OTHER -> IF TooFar(st.at + st.limit)
                     THEN Done(WithItems(items), "limit")
                     ELSE Continue(WithItems(items), st.at + st.limit)

(***************************************************************************)
(* IterSearchPages, IterSearch: pages are numbered from 1, the service     *)
(* says whether there are more, and the last page it serves is reported.   *)
(***************************************************************************)
SearchPages ==
    /\ In({"searchPages"})
    /\ LET offset == (st.at - 1) * st.limit
           w == WithItems(Answer(offset))
       IN  CASE offset + st.limit >= st.listing.size -> Done(w, "ok")
             [] OTHER -> IF st.at = st.walker.largest THEN Done(w, "limit")
                                                          ELSE Continue(w, st.at + 1)

(***************************************************************************)
(* The Iter functions of data/legacy: validatePagination before every      *)
(* page, and the offset moves by what was received.                        *)
(***************************************************************************)
LegacyPages ==
    /\ In({"legacyOffsets"})
    /\ LET items == Answer(st.at) IN
       CASE TooFar(st.at) -> Done(st, "limit")
         [] ~TooFar(st.at) /\ items = <<>> -> Done(Fetched, "ok")
         [] OTHER -> IF Len(items) < st.limit
                     THEN Done(WithItems(items), "ok")
                     ELSE Continue(WithItems(items), st.at + Len(items))

-----------------------------------------------------------------------------
\* A fetch fails, or finds the context cancelled: the error is yielded.
FetchFails ==
    /\ Running
    /\ ~(st.walker.loop = "walkPages" /\ st.at \in st.seen)
    /\ Done(Fetched, "failed")

\* The consumer leaves the loop.
Break == Running /\ st.got # <<>> /\ st.walker.collect = "none" /\ Done(st, "left")

PagesNext ==
    \/ Paginate \/ UntilEmpty \/ WalkPages \/ DataWalk \/ LegacyCombo \/ PerpsSeen
    \/ IterateHistory
    \/ OffsetItems \/ OffsetPages \/ SearchPages \/ LegacyPages
    \/ FetchFails \/ Break

-----------------------------------------------------------------------------
LOCAL Walking == st.part = "walk"

(***************************************************************************)
(* A listing that ends without an error is whole: the last page fetched    *)
(* had no successor, or every item from the first offset on was yielded    *)
(* exactly once and in order.  In particular the boundary of a listing is  *)
(* never taken for its end ("Stopping silently instead would truncate the  *)
(* listing").  The combo iterators of data/legacy are the exception: they  *)
(* stop silently when the service repeats a cursor.                        *)
(***************************************************************************)
NoSilentTruncation ==
    (Walking /\ st.result = "ok") =>
        IF st.walker.loop \in CursorLoops
        THEN \/ st.walker.loop = "legacyCombo"
             \/ ~st.listing.more[Last(st.asked)]
        ELSE LET skipped == IF st.walker.loop = "searchPages" THEN 0 ELSE st.start IN
             \/ st.listing.stuck
             \/ st.got = [i \in 1..Len(st.got) |-> skipped + i]
                    /\ skipped + Len(st.got) >= st.listing.size

(***************************************************************************)
(* The loops that remember cursors ask for no page twice, so they end      *)
(* whatever cursors the service answers.  IterNotifications does not       *)
(* remember the cursor it starts with and may come back to it once.        *)
(***************************************************************************)
EachPageAskedOnce ==
    (Walking /\ st.walker.loop \in {"walkPages", "dataWalk", "notifications", "earnings"}) =>
        \A i, j \in 1..Len(st.asked) :
            (i < j /\ st.asked[i] = st.asked[j]) =>
                st.walker.loop \in {"notifications", "earnings"} /\ i = 1

(***************************************************************************)
(* A listing without a cycle and below its boundary is never reported as   *)
(* stalled or beyond a limit.                                              *)
(***************************************************************************)
NoFalseAlarm ==
    (Walking /\ st.result \in {"stalled", "limit"}) =>
        IF st.walker.loop \in CursorLoops
        THEN \E i \in 1..Len(st.asked) :
                \/ st.listing.next[Last(st.asked)] = st.asked[i]
                \/ st.listing.next[Last(st.asked)] = Empty
        ELSE \/ st.listing.stuck
             \/ st.result = "limit" /\ st.start + st.listing.size >= st.walker.largest

(***************************************************************************)
(* An iterator either delivers the whole listing or says that it could     *)
(* not, and it says so only when it could not.                             *)
(***************************************************************************)
ListingsWhole == NoSilentTruncation /\ EachPageAskedOnce /\ NoFalseAlarm
=============================================================================
