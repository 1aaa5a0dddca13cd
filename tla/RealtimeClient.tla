--------------------------- MODULE RealtimeClient ---------------------------
(***************************************************************************)
(* realtime/client.go and realtime/socket.go: a pool of sockets shared by   *)
(* all subscriptions of a client.  A price key in use is placed on one      *)
(* session; its worker makes the filters on its socket follow the keys      *)
(* placed on it.                                                            *)
(*                                                                          *)
(* Everything under client.mu is the record c, and one critical section is  *)
(* one step.  A keyState (an incarnation of a key) is compared only with    *)
(* the one now in session.keys, so a filter is kept as "current" or "stale" *)
(* in place of a pointer.  The placement target, halved when the server     *)
(* reports dropped messages, is a constant: a key may be placed on a new    *)
(* session although another has room.  One provider is modelled, and        *)
(* subscriptions that ask for every event type.                             *)
(***************************************************************************)
EXTENDS Naturals, FiniteSets

CONSTANTS
    Subs,       \* subscriptions that may exist at once
    Keys,       \* price keys
    Sessions,   \* sessions that may exist at once
    None,       \* no session
    Requests,   \* for each subscription, the sets of keys it may ask for
    Target,     \* keys placed on one session
    BufferSize  \* capacity of a subscription's queue

ASSUME SetAssumption ==
    /\ None \notin Sessions
    /\ \A ks \in SUBSET Keys : Cardinality(ks) \in Nat    \* sets of keys are finite
    /\ Requests \in [Subs -> SUBSET ((SUBSET Keys) \ {{}})]
ASSUME SizeAssumption == Target \in Nat \ {0} /\ BufferSize \in Nat \ {0}

VARIABLE c
vars == <<c>>

Tag == {"none", "current", "stale"}

NoSub == [pc |-> "idle", keys |-> {}, cancelled |-> FALSE, ended |-> FALSE,
          ready |-> FALSE, queue |-> 0]

\* A session: its context, worker, filters, the operation in flight (its keys,
\* those of an ended incarnation, those unanswered and rejected), and the server.
NoSession == [phase |-> "free", cancelled |-> FALSE, wake |-> FALSE,
              filters |-> [k \in Keys |-> "none"], server |-> [k \in Keys |-> "none"],
              op |-> "none", keys |-> {}, stale |-> {}, todo |-> {}, rejected |-> {}]

Init ==
    c = [closed |-> "open",
         place |-> [k \in Keys |-> None],      \* c.keys: the session of the key in use
         listeners |-> [k \in Keys |-> {}],
         confirmed |-> {}, accepted |-> {},    \* keyState.confirmation, .accepted
         snapshot |-> {},
         sub |-> [u \in Subs |-> NoSub],
         ses |-> [s \in Sessions |-> NoSession]]

On(x, s) == {k \in Keys : x.place[k] = s}
Alive(s) == ~c.ses[s].cancelled
Connected(s) == c.ses[s].phase \in {"top", "select", "pacing", "sent"}

SetSub(x, u, r) == [x EXCEPT !.sub = [@ EXCEPT ![u] = r]]
SetSession(x, s, r) == [x EXCEPT !.ses = [@ EXCEPT ![s] = r]]

-----------------------------------------------------------------------------
(* What the critical sections do to the client x.                           *)

Outdated(tags, ks) == [k \in Keys |-> IF k \in ks /\ tags[k] = "current" THEN "stale" ELSE tags[k]]

\* Faulty variant: a session that keeps other keys is not woken.
ReleaseAsleep(r, ks, on) ==
    IF ks = {} THEN r
    ELSE [r EXCEPT !.filters = Outdated(@, ks), !.server = Outdated(@, ks),
                   !.stale = @ \cup (ks \cap r.keys), !.cancelled = @ \/ on \subseteq ks]

\* Session r with the keys on loses the incarnations ks: it is cancelled when it
\* has no other key, and woken.
Release(r, ks, on) ==
    IF ks = {} THEN r
    ELSE [r EXCEPT !.filters = Outdated(@, ks), !.server = Outdated(@, ks),
                   !.stale = @ \cup (ks \cap r.keys),
                   !.cancelled = @ \/ on \subseteq ks, !.wake = TRUE]

\* c.end for every subscription of us.
end(x, us) ==
    LET gone == {k \in Keys : x.place[k] # None /\ x.listeners[k] \subseteq us}
    IN  [x EXCEPT
            !.sub = [u \in Subs |-> IF u \in us THEN [x.sub[u] EXCEPT !.ended = TRUE, !.ready = TRUE]
                                    ELSE x.sub[u]],
            !.listeners = [k \in Keys |-> x.listeners[k] \ us],
            !.place = [k \in Keys |-> IF k \in gone THEN None ELSE x.place[k]],
            !.confirmed = @ \ gone, !.accepted = @ \ gone, !.snapshot = @ \ gone,
            !.ses = [s \in Sessions |->
                        Release(x.ses[s], gone \cap On(x, s), On(x, s))]]

\* c.reject: the whole fan-out of the keys ends.
reject(x, ks) == end(x, UNION {x.listeners[k] : k \in ks})

\* c.deliver of n events to the subscriptions us; a full queue ends its owner.
deliver(x, us, n) ==
    LET full == {u \in us : x.sub[u].queue + n > BufferSize}
    IN  end([x EXCEPT !.sub = [u \in Subs |->
                IF u \in us \ full THEN [x.sub[u] EXCEPT !.queue = @ + n] ELSE x.sub[u]]], full)

markReady(x, us) ==
    [x EXCEPT !.sub = [u \in Subs |->
        IF u \in us /\ x.sub[u].keys \subseteq x.confirmed
        THEN [x.sub[u] EXCEPT !.ready = TRUE] ELSE x.sub[u]]]

-----------------------------------------------------------------------------
(* Callers.                                                                 *)

\* Faulty variant: a session whose context is cancelled is still used.
PlaceableAlways(s) == TRUE

\* place: a session that is not cancelled, or a new one.
Placeable(s) == c.ses[s].phase = "free" \/ Alive(s)

\* The first critical section of Subscribe.
Subscribe(u, ks) ==
    /\ c.sub[u].pc = "idle" /\ c.closed = "open"
    /\ LET new == {k \in ks : c.place[k] = None}
       IN \E at \in [new -> {s \in Sessions : Placeable(s)}] :
            LET cached == Cardinality(ks \cap c.confirmed) + Cardinality(ks \cap c.snapshot)
                placed == [c EXCEPT
                    !.place = [k \in Keys |-> IF k \in new THEN at[k] ELSE c.place[k]],
                    !.listeners = [k \in Keys |-> IF k \in ks THEN c.listeners[k] \cup {u}
                                                   ELSE c.listeners[k]],
                    !.sub = [@ EXCEPT ![u] = [NoSub EXCEPT !.pc = "waiting", !.keys = ks]]]
                woken == [placed EXCEPT !.ses = [s \in Sessions |->
                    IF ~\E k \in ks : placed.place[k] = s THEN c.ses[s]
                    ELSE IF c.ses[s].phase = "free" THEN [NoSession EXCEPT !.phase = "dial"]
                    ELSE [c.ses[s] EXCEPT !.wake = TRUE]]]
                opened == {at[k] : k \in new} \cap {s \in Sessions : c.ses[s].phase = "free"}
                full == {s \in Sessions : Cardinality(On(placed, s)) = Target}
            IN /\ \A s \in Sessions : Cardinality(On(placed, s)) <= Target
               /\ Cardinality(opened \ full) <= 1
               /\ c' = markReady(deliver(woken, {u}, cached), {u})

\* The caller's context ends; its AfterFunc ends the subscription later.
CancelContext(u) ==
    /\ c.sub[u].pc \in {"waiting", "checking", "live"} /\ ~c.sub[u].cancelled
    /\ c' = SetSub(c, u, [c.sub[u] EXCEPT !.cancelled = TRUE])

AfterFunc(u) ==
    /\ c.sub[u].cancelled /\ ~c.sub[u].ended
    /\ c' = end(c, {u})

\* Subscribe's select: ready, or the context or the timer ends the subscription.
Selected(u) ==
    /\ c.sub[u].pc = "waiting"
    /\ LET next(x) == c' = SetSub(x, u, [x.sub[u] EXCEPT !.pc = "checking"])
       IN \/ c.sub[u].ready /\ next(c)
          \/ ~c.sub[u].ended /\ next(end(c, {u}))

\* The last critical section of Subscribe.
SubscribeReturns(u) ==
    /\ c.sub[u].pc = "checking"
    /\ LET x == IF c.sub[u].cancelled /\ ~c.sub[u].ended THEN end(c, {u}) ELSE c
       IN c' = SetSub(x, u, IF x.sub[u].ended THEN NoSub ELSE [x.sub[u] EXCEPT !.pc = "live"])

\* Subscription.Close, or the caller drops a subscription that has ended.
CloseSubscription(u) ==
    /\ c.sub[u].pc = "live"
    /\ c' = SetSub(IF c.sub[u].ended THEN c ELSE end(c, {u}), u, NoSub)

Consume(u) ==
    /\ c.sub[u].pc = "live" /\ c.sub[u].queue > 0
    /\ c' = SetSub(c, u, [c.sub[u] EXCEPT !.queue = @ - 1])

\* Client.Close ends every subscription and cancels every session; it returns
\* when all workers have left.
Close ==
    /\ c.closed = "open"
    /\ LET x == end(c, {u \in Subs : c.sub[u].pc # "idle" /\ ~c.sub[u].ended})
       IN c' = [x EXCEPT !.closed = "closing",
                         !.ses = [s \in Sessions |->
                            IF x.ses[s].phase = "free" THEN x.ses[s]
                            ELSE [x.ses[s] EXCEPT !.cancelled = TRUE]]]

CloseReturns ==
    /\ c.closed = "closing"
    /\ \A s \in Sessions : c.ses[s].phase = "free"
    /\ c' = [c EXCEPT !.closed = "done"]

-----------------------------------------------------------------------------
(* The worker of session s.                                                 *)

Move(s, phase) == SetSession(c, s, [c.ses[s] EXCEPT !.phase = phase])

\* connected returns: the transport and what it knew are dropped.
Disconnect(s, phase) ==
    SetSession(c, s, [NoSession EXCEPT !.phase = phase, !.wake = c.ses[s].wake])

\* connected: dialling and authenticating.  A failed dial rejects the keys that
\* were never accepted.
DialFails(s) ==
    /\ c.ses[s].phase = "dial" /\ Alive(s)
    /\ c' = reject(Disconnect(s, "lost"), On(c, s) \ c.accepted)

DialSucceeds(s) ==
    /\ c.ses[s].phase = "dial" /\ Alive(s)
    /\ c' = Move(s, "auth")

AuthSucceeds(s) ==
    /\ c.ses[s].phase = "auth" /\ Alive(s)
    /\ c' = Move(s, "top")

\* The server refuses the credentials or closes the socket for good.
Refused(s) ==
    /\ (c.ses[s].phase = "auth" \/ Connected(s)) /\ Alive(s)
    /\ c' = Disconnect(s, "refused")

\* The top of connected's loop: filters of ended incarnations are removed first,
\* then the keys placed here are added.
Reconcile(s) ==
    /\ c.ses[s].phase = "top" /\ Alive(s)
    /\ LET r == c.ses[s]
           removes == {k \in Keys : r.filters[k] = "stale"}
           adds == {k \in On(c, s) : r.filters[k] # "current"}
           change(op, ks) == SetSession(c, s, [r EXCEPT
                !.phase = "pacing", !.op = op, !.keys = ks, !.todo = ks,
                !.stale = {}, !.rejected = {}])
       IN c' = IF removes # {} THEN change("unsubscribe", removes)
               ELSE IF adds # {} THEN change("subscribe", adds)
               ELSE Move(s, "select")

Woken(s) ==
    /\ c.ses[s].phase = "select" /\ c.ses[s].wake /\ Alive(s)
    /\ c' = SetSession(c, s, [c.ses[s] EXCEPT !.wake = FALSE, !.phase = "top"])

\* request: the frame is written.  From now on the filters are those of the
\* incarnations that were asked for.
Send(s) ==
    /\ c.ses[s].phase = "pacing" /\ Alive(s)
    /\ LET r == c.ses[s]
       IN c' = SetSession(c, s, [r EXCEPT
                !.phase = "sent",
                !.filters = IF r.op = "unsubscribe" THEN r.filters
                            ELSE [k \in Keys |-> IF k \notin r.keys THEN r.filters[k]
                                                 ELSE IF k \in r.stale THEN "stale" ELSE "current"]])

\* The server begins to serve a key, before it says so.
ServerSubscribes(s, k) ==
    /\ c.ses[s].phase = "sent" /\ c.ses[s].op = "subscribe"
    /\ k \in c.ses[s].todo /\ c.ses[s].server[k] = "none"
    /\ LET r == c.ses[s]
       IN c' = SetSession(c, s, [r EXCEPT !.server = [@ EXCEPT ![k] = r.filters[k]]])

\* After the last answer: rejected and removed filters are forgotten.
Answered(r, k) ==
    LET rest == r.todo \ {k}
        drop == IF r.op = "unsubscribe" THEN r.keys ELSE r.rejected
    IN  IF rest # {} THEN [r EXCEPT !.todo = rest]
        ELSE [r EXCEPT !.phase = "top", !.todo = {}, !.keys = {}, !.stale = {}, !.rejected = {},
                       !.op = "none",
                       !.filters = [j \in Keys |-> IF j \in drop THEN "none" ELSE r.filters[j]]]

\* The server answers the filters of an operation in the order of the frame, which
\* is the order of a map: any order.
\* request: the server accepts key k, which confirms it unless its incarnation
\* has ended meanwhile.
AckAccepted(s, k) ==
    /\ c.ses[s].phase = "sent" /\ k \in c.ses[s].todo /\ Alive(s)
    /\ LET r == c.ses[s]
           told == [c EXCEPT !.confirmed = @ \cup {k}, !.accepted = @ \cup {k}]
           current == r.op = "subscribe" /\ k \notin r.stale
           x == IF current THEN markReady(deliver(told, c.listeners[k], 1), c.listeners[k]) ELSE c
           now == x.ses[s]
           served == IF r.op = "subscribe" THEN now
                     ELSE [now EXCEPT !.server = [@ EXCEPT ![k] = "none"]]
       IN /\ r.server[k] # "none"
          /\ c' = SetSession(x, s, Answered(served, k))

\* request: the server rejects key k.  Its listeners fail; a rejected removal
\* gives the socket up.
AckRejected(s, k) ==
    /\ c.ses[s].phase = "sent" /\ k \in c.ses[s].todo /\ Alive(s)
    /\ c.ses[s].op = "subscribe" => c.ses[s].server[k] = "none"
    /\ c' = IF c.ses[s].op = "unsubscribe" THEN Disconnect(s, "lost")
            ELSE LET x == IF k \in c.ses[s].stale THEN c ELSE reject(c, {k})
                     now == x.ses[s]
                 IN SetSession(x, s, Answered([now EXCEPT !.rejected = @ \cup {k}], k))

\* request: the whole operation is rejected.
OperationRejected(s) ==
    /\ c.ses[s].phase = "sent" /\ Alive(s)
    /\ LET failed == IF c.ses[s].op = "subscribe" THEN c.ses[s].keys \ c.ses[s].stale ELSE {}
       IN c' = reject(Disconnect(s, "lost"), failed)

\* handle: an event of a filter of the current incarnation reaches its listeners.
Event(s, k) ==
    /\ Connected(s) /\ Alive(s) /\ c.ses[s].phase # "top"
    /\ c.ses[s].server[k] # "none"
    /\ LET x == IF c.ses[s].filters[k] = "current"
                THEN deliver([c EXCEPT !.snapshot = @ \cup {k}], c.listeners[k], 1) ELSE c
       IN c' = IF c.ses[s].phase = "select" THEN SetSession(x, s, [x.ses[s] EXCEPT !.phase = "top"])
               ELSE x

\* The socket fails or the peer is silent.
Lost(s) ==
    /\ (c.ses[s].phase = "auth" \/ Connected(s)) /\ Alive(s)
    /\ c' = Disconnect(s, "lost")

\* request: the answer is overdue.
AckTimeout(s) ==
    /\ c.ses[s].phase \in {"auth", "sent"} /\ Alive(s)
    /\ c' = Disconnect(s, "lost")

\* terminate: the session takes no more keys and all its listeners end.
terminate(s) ==
    /\ c.ses[s].phase = "refused" /\ Alive(s)
    /\ c' = reject(SetSession(c, s, [c.ses[s] EXCEPT !.cancelled = TRUE]), On(c, s))

\* Faulty variant: what the lost socket had confirmed is kept.
ResetNothing(s) ==
    /\ c.ses[s].phase = "lost" /\ Alive(s)
    /\ c' = Move(s, "backoff")

\* reset: what the lost socket had confirmed and sent is forgotten.
Reset(s) ==
    /\ c.ses[s].phase = "lost" /\ Alive(s)
    /\ c' = [Move(s, "backoff") EXCEPT !.confirmed = @ \ On(c, s), !.snapshot = @ \ On(c, s)]

Retry(s) ==
    /\ c.ses[s].phase = "backoff" /\ Alive(s)
    /\ c' = Move(s, "dial")

\* The worker finds its context cancelled, wherever it waits, and leaves.
Exit(s) ==
    /\ c.ses[s].phase # "free" /\ c.ses[s].cancelled
    /\ c' = SetSession(c, s, NoSession)

-----------------------------------------------------------------------------

Caller(u) ==
    \/ \E ks \in Requests[u] : Subscribe(u, ks)
    \/ CancelContext(u) \/ AfterFunc(u) \/ Selected(u) \/ SubscribeReturns(u)
    \/ CloseSubscription(u) \/ Consume(u)

Worker(s) ==
    \/ DialFails(s) \/ DialSucceeds(s) \/ AuthSucceeds(s) \/ Refused(s)
    \/ Reconcile(s) \/ Woken(s) \/ Send(s) \/ OperationRejected(s)
    \/ \E k \in Keys : ServerSubscribes(s, k) \/ AckAccepted(s, k) \/ AckRejected(s, k) \/ Event(s, k)
    \/ Lost(s) \/ AckTimeout(s) \/ terminate(s) \/ Reset(s) \/ Retry(s) \/ Exit(s)

Next ==
    \/ \E u \in Subs : Caller(u)
    \/ Close \/ CloseReturns
    \/ \E s \in Sessions : Worker(s)

Spec == Init /\ [][Next]_vars

\* What the runtime and the timers (of the dial, of an operation, of the pause
\* before a retry, of Subscribe) make sure of.
CallerProceeds(u) == Selected(u) \/ SubscribeReturns(u) \/ AfterFunc(u)
WorkerProceeds(s) ==
    \/ DialFails(s) \/ DialSucceeds(s) \/ Reconcile(s) \/ Woken(s) \/ Send(s)
    \/ AckTimeout(s) \/ terminate(s) \/ Reset(s) \/ Retry(s) \/ Exit(s)

\* Nothing is assumed of callers and of the server.
Fairness ==
    /\ \A u \in Subs : WF_vars(CallerProceeds(u))
    /\ \A s \in Sessions : WF_vars(WorkerProceeds(s))
    /\ WF_vars(CloseReturns)

FairSpec == Spec /\ Fairness

-----------------------------------------------------------------------------
(* Properties.                                                              *)

\* The shape of the client's state; queues are within BufferSize.
TypeOK ==
    /\ c.closed \in {"open", "closing", "done"}
    /\ c.place \in [Keys -> Sessions \cup {None}]
    /\ c.listeners \in [Keys -> SUBSET Subs]
    /\ c.confirmed \subseteq Keys /\ c.accepted \subseteq Keys /\ c.snapshot \subseteq Keys
    /\ c.sub \in [Subs -> [pc : {"idle", "waiting", "checking", "live"}, keys : SUBSET Keys,
                           cancelled : BOOLEAN, ended : BOOLEAN, ready : BOOLEAN,
                           queue : 0..BufferSize]]
    /\ c.ses \in [Sessions -> [
            phase : {"free", "dial", "auth", "top", "select", "pacing", "sent",
                     "refused", "lost", "backoff"},
            cancelled : BOOLEAN, wake : BOOLEAN,
            filters : [Keys -> Tag], server : [Keys -> Tag],
            op : {"none", "subscribe", "unsubscribe"},
            keys : SUBSET Keys, stale : SUBSET Keys, todo : SUBSET Keys, rejected : SUBSET Keys]]

\* A subscription that has not ended listens on each of its keys, and each is
\* placed on a session whose worker goes on (place, end, terminate): none is
\* stranded on a worker that is about to exit.
NoneStranded ==
    \A u \in Subs : c.sub[u].pc # "idle" /\ ~c.sub[u].ended =>
        \A k \in c.sub[u].keys :
            /\ c.place[k] # None /\ u \in c.listeners[k]
            /\ Alive(c.place[k]) /\ c.ses[c.place[k]].phase # "free"

\* What handle passes on as a price of the current incarnation of a key comes from
\* a filter that this incarnation asked for, never from the one it replaces.
OwnFramesOnly ==
    \A s \in Sessions, k \in Keys :
        c.ses[s].filters[k] = "current" => c.ses[s].server[k] # "stale" /\ c.place[k] = s

\* A cached confirmation, which lets a new subscription return at once, is about
\* the socket in use: the server serves the key there (confirm, reset).
ConfirmedIsServed ==
    \A k \in c.confirmed :
        /\ c.place[k] # None
        /\ c.ses[c.place[k]].phase \notin {"dial", "auth", "backoff"}
        /\ Connected(c.place[k]) => c.ses[c.place[k]].server[k] = "current"

\* Subscribe returns a subscription only after the server accepted all of its keys.
LiveWasAccepted ==
    \A u \in Subs : c.sub[u].pc = "live" /\ ~c.sub[u].ended => c.sub[u].keys \subseteq c.accepted

\* A filter nobody listens to any more is removed from the socket, without waiting
\* for a frame, or the socket is given up (end, wakeUp, connected).
StaleRemoved ==
    \A s \in Sessions, k \in Keys :
        c.ses[s].filters[k] = "stale" ~> c.ses[s].filters[k] # "stale"

\* Subscribe returns, whatever the server does.
SubscribeEnds ==
    \A u \in Subs : c.sub[u].pc = "waiting" ~> c.sub[u].pc \in {"idle", "live"}

\* Close returns: every worker leaves.
CloseEnds == c.closed = "closing" ~> c.closed = "done"

\* place, end and terminate keep the client's state well formed and every open
\* subscription on a session that goes on.
SubscriptionsPlaced == TypeOK /\ NoneStranded

\* What the client reports agrees with the server: prices are of the filters asked
\* for, confirmations of the socket in use, and live subscriptions were accepted.
ServedAsReported == OwnFramesOnly /\ ConfirmedIsServed /\ LiveWasAccepted

\* Stale filters are removed, and Subscribe and Close return.
EverythingEnds == StaleRemoved /\ SubscribeEnds /\ CloseEnds
=============================================================================
