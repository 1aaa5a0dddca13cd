----------------------------- MODULE SportsStream -----------------------------
(***************************************************************************)
(* The sports result stream (sports/stream.go): one goroutine reads a      *)
(* connection into a bounded queue, replaces the connection when it fails  *)
(* or falls silent, and ends with the stream's context.                    *)
(*                                                                         *)
(* The frames the server sends on the connection are numbered events,      *)
(* malformed messages and application pings.  Time passes in ticks; a      *)
(* deadline that has expired is noticed before time moves on.  "silence"   *)
(* is the time since the last ping or connect, "cause" what cancelled the  *)
(* context first.                                                          *)
(***************************************************************************)
EXTENDS Integers, Sequences, OneCaller

CONSTANTS BufferSize, StaleTimeout, ReconnectMin, ReconnectMax,
          MaxSportsEvents,  \* events the server sends
          MaxFailures       \* failed upgrades and broken connections

\* configure refuses anything else and gives zero a default.
ASSUME SportsAssumption ==
    /\ {BufferSize, StaleTimeout, MaxSportsEvents, MaxFailures} \subseteq Nat
    /\ {ReconnectMin, ReconnectMax} \subseteq Nat \ {0}
    /\ ReconnectMin <= ReconnectMax

\* Dial: configured, connected, and the context has not ended.
SportsInit ==
    st = [part |-> "sports", pc |-> "read", cause |-> "none", queue |-> <<>>, got |-> <<>>,
          sent |-> 0, accepted |-> 0, deadline |-> StaleTimeout, silence |-> 0, delay |-> 0,
          failures |-> 0, err |-> "none", gaps |-> {}]

SportsAt(pc) == st.part = "sports" /\ st.pc = pc

\* The deferred end of run: the context is cancelled, the error stored, and
\* the events and done channels are closed.
runEnds(s, err) == [s EXCEPT !.pc = "done", !.err = err, !.cause = IF @ = "none" THEN "ended" ELSE @]

\* The terminal error of a stream whose context has ended: none if Close
\* ended it.
terminalOf(s) == IF s.cause = "closed" THEN "none" ELSE "context"

\* run, after read returned err: the connection is closed; an ended context
\* and a slow consumer end the stream, everything else is retried.
readReturns(s, err) ==
    IF s.cause # "none" THEN runEnds(s, terminalOf(s))
    ELSE IF err = "slow" THEN [s EXCEPT !.pc = "slow"]
    ELSE [s EXCEPT !.pc = "wait", !.delay = ReconnectMin, !.gaps = @ \cup {s.accepted}]

-----------------------------------------------------------------------------
(* read *)

\* Faulty variant: any frame shows that the connection is alive.
readEventRefreshing ==
    /\ SportsAt("read")
    /\ st.sent < MaxSportsEvents
    /\ LET s == [st EXCEPT !.sent = @ + 1, !.deadline = StaleTimeout] IN
       IF st.cause # "none" THEN st' = readReturns(s, "context")
       ELSE IF Len(st.queue) = BufferSize THEN st' = readReturns(s, "slow")
       ELSE st' = [s EXCEPT !.queue = Append(@, s.sent), !.accepted = s.sent]

\* An event is queued, or ends the stream if the queue is full; it does not
\* move the deadline.
readEvent ==
    /\ SportsAt("read")
    /\ st.sent < MaxSportsEvents
    /\ LET s == [st EXCEPT !.sent = @ + 1] IN
       IF st.cause # "none" THEN st' = readReturns(s, "context")
       ELSE IF Len(st.queue) = BufferSize THEN st' = readReturns(s, "slow")
       ELSE st' = [s EXCEPT !.queue = Append(@, s.sent), !.accepted = s.sent]

\* An application ping moves the deadline and is answered; the answer may
\* fail to be written.
readPing ==
    /\ SportsAt("read")
    /\ LET s == [st EXCEPT !.deadline = StaleTimeout, !.silence = 0] IN
       \/ st' = s
       \/ /\ st.failures < MaxFailures \/ st.cause # "none"
          /\ st' = readReturns([s EXCEPT !.failures = IF st.cause # "none" THEN @ ELSE @ + 1], "pong")

\* The read fails: the deadline has expired, the context has ended, or the
\* connection is broken.
readFailsNow ==
    /\ SportsAt("read")
    /\ \/ /\ st.deadline = 0 \/ st.cause # "none"
          /\ st' = readReturns(st, "stale")
       \/ /\ st.failures < MaxFailures
          /\ st' = readReturns([st EXCEPT !.failures = @ + 1], "read")

-----------------------------------------------------------------------------
(* run between two connections *)

\* The next delay limit after a failed upgrade, doubled up to ReconnectMax.
grown(delay) == IF delay > ReconnectMax \div 2 THEN ReconnectMax ELSE 2 * delay

\* The stream of a slow consumer ends, also if Close has come meanwhile.
endSlow ==
    /\ SportsAt("slow")
    /\ st' = runEnds(st, "slow")

\* wait: the delay is over, or the context has ended.
waited ==
    /\ SportsAt("wait")
    /\ st' = IF st.cause # "none" THEN runEnds(st, terminalOf(st)) ELSE [st EXCEPT !.pc = "connect"]

\* connect: a new connection starts with a fresh deadline and without replay.
\* A context that ends during the upgrade is noticed by the next wait.
reconnect ==
    /\ SportsAt("connect")
    /\ \/ /\ st.cause = "none"
          /\ st' = [st EXCEPT !.pc = "read", !.deadline = StaleTimeout, !.silence = 0, !.delay = 0]
       \/ /\ st.failures < MaxFailures \/ st.cause # "none"
          /\ st' = [st EXCEPT !.pc = "wait", !.delay = grown(@),
                              !.failures = IF st.cause # "none" THEN @ ELSE @ + 1]

-----------------------------------------------------------------------------
(* The caller, the server and time *)

\* Close cancels with errClosed; a context is cancelled once.
CloseStream ==
    /\ st.part = "sports"
    /\ st.cause = "none"
    /\ st' = [st EXCEPT !.cause = "closed"]

\* The context given to Dial ends.
parentContextEnds ==
    /\ st.part = "sports"
    /\ st.cause = "none"
    /\ st' = [st EXCEPT !.cause = "parent"]

consume ==
    /\ st.part = "sports"
    /\ st.queue # <<>>
    /\ st' = [st EXCEPT !.got = Append(@, Head(st.queue)), !.queue = Tail(@)]

\* Results published while there is no connection are not replayed.
missedEvent ==
    /\ st.part = "sports"
    /\ st.pc \in {"wait", "connect"}
    /\ st.sent < MaxSportsEvents
    /\ st' = [st EXCEPT !.sent = @ + 1]

timePasses ==
    /\ SportsAt("read")
    /\ st.deadline > 0
    /\ st.silence <= StaleTimeout
    /\ st' = [st EXCEPT !.deadline = @ - 1, !.silence = @ + 1]

SportsNext ==
    \/ readEvent \/ readPing \/ readFailsNow \/ endSlow \/ waited \/ reconnect
    \/ CloseStream \/ parentContextEnds \/ consume \/ missedEvent \/ timePasses

SportsSpec == SportsInit /\ [][SportsNext]_st

-----------------------------------------------------------------------------

(***************************************************************************)
(* A result is skipped only across a replaced connection: whatever the     *)
(* consumer has and will read is in order, and between two consecutive     *)
(* results nothing is missing unless the connection was replaced there.    *)
(***************************************************************************)
NoResultDropped ==
    st.part = "sports" =>
        LET all == st.got \o st.queue IN
        \A i \in 1..Len(all) :
            LET before == IF i = 1 THEN 0 ELSE all[i - 1] IN
            before < all[i] /\ (all[i] # before + 1 => before \in st.gaps)

(***************************************************************************)
(* A connection that sends no application ping for StaleTimeout is given   *)
(* up, however many results it delivers.                                   *)
(***************************************************************************)
SilenceIsNoticed == st.part = "sports" => st.silence <= StaleTimeout

(***************************************************************************)
(* Err of an ended stream tells why: nil only if Close ended it before the *)
(* parent did, the context's error only if the parent ended it before any  *)
(* Close, and ErrSlowConsumer only with a result that was not queued.      *)
(***************************************************************************)
StreamErrorTruthful ==
    st.part = "sports" /\ st.pc = "done" =>
        /\ st.err = "none" => st.cause = "closed"
        /\ st.err = "context" => st.cause = "parent"
        /\ st.err = "slow" => st.sent > st.accepted

(***************************************************************************)
(* The delay before an upgrade is drawn below a limit that never leaves    *)
(* ReconnectMin..ReconnectMax, whatever the sequence of failures.          *)
(***************************************************************************)
BackoffWithinLimits ==
    st.part = "sports" /\ st.pc \in {"wait", "connect"} => st.delay \in ReconnectMin..ReconnectMax

(***************************************************************************)
(* The sports stream skips results only across a replaced connection,      *)
(* replaces one that is silent, within the backoff's limits, and says why  *)
(* it ended.                                                               *)
(***************************************************************************)
SportsFaithful ==
    NoResultDropped /\ SilenceIsNoticed /\ StreamErrorTruthful /\ BackoffWithinLimits
=============================================================================
