---------------------------- MODULE PerpsSession ----------------------------
(***************************************************************************)
(* The authenticated perps account session (perps/session.go,               *)
(* perps/session_commands.go, and PlaceOrder in perps/trading.go): the      *)
(* handshake with the updates that overtake it, the read loop, the          *)
(* heartbeat, reconnection, commands matched to their answers, orders       *)
(* matched to their first update, and Close.                                *)
(*                                                                         *)
(* Atomicity.  A section under a mutex is one step; rejectPending and       *)
(* rejectOrderWaiters, always called together, are one step, since a caller *)
(* waits for one of them at a time; the sends that follow a                 *)
(* removal from pending or orderWaiters go to channels of capacity one that *)
(* nobody else can reach any more and belong to the removal's step.         *)
(*                                                                         *)
(* One wire holds the frames in flight on the connection the reader reads:  *)
(* the published one, or the one in its handshake.  A frame is an answer,   *)
(* an orders update with its sequence number, or an account update without  *)
(* one ("note").  The server, the network and time are external.            *)
(***************************************************************************)
EXTENDS Naturals, Sequences, FiniteSets

CONSTANTS
    Calls,      \* PlaceOrder calls, each made once; also the ids of their commands
    Coids,      \* client order ids the calls choose from
    None,       \* no client order id, no call
    EventCap,   \* capacity of s.events, and the limit of queuedPayloads
    WireCap,    \* frames in flight
    Loads       \* what a behaviour contains: the calls made, whether there are notes,
                \* whether Close is called, how many updates and how many faults
                \* (failed dials and handshakes, lost connections, silences, timeouts)

ASSUME CapAssumption == EventCap \in Nat \ {0} /\ WireCap \in Nat \ {0}
ASSUME LoadAssumption ==
    \A l \in Loads : l.calls \subseteq Calls /\ {l.notes, l.close} \subseteq BOOLEAN
                       /\ {l.updates, l.faults} \subseteq Nat
ASSUME NoneAssumption == None \notin Calls \cup Coids

VARIABLES
    ctxDone,     \* s.ctx is cancelled
    conn,        \* s.conn: "nil", "open", "lost" (peer gone) or "closed" (closed here)
    new,         \* the connection in its handshake: "none", "open" or "lost"
    wire,        \* frames in flight
    queued,      \* s.queuedPayloads
    batch,       \* frames the reader has taken and not handled yet
    seqs,        \* s.sequences["orders"], 0 when absent
    events,      \* events waiting in s.events
    stream,      \* what went into s.events: last number, resync since, unannounced hole
    recent,      \* s.lastMessage is not stale
    reader, beat, closer, \* where readLoop, heartbeatLoop and Close are
    pending,     \* keys of s.pending
    waiters,     \* s.orderWaiters
    call,        \* each PlaceOrder call and its two channels
    srv,         \* the server: last number, commands received; updates left, notes
    faults       \* faults left

sessionVars == <<ctxDone, conn, new, queued, seqs, recent>>
queueVars == <<events, stream>>
tableVars == <<pending, waiters>>
procVars == <<reader, beat, closer>>
vars == <<sessionVars, queueVars, tableVars, procVars, wire, batch, call, srv, faults>>

Answer(k, ok) == [kind |-> "answer", id |-> k, ok |-> ok]
Update(n, k, coid) == [kind |-> "update", seq |-> n, id |-> k, coid |-> coid]
Note == [kind |-> "note"]

Idle == [pc |-> "idle", coid |-> None, resp |-> <<>>, upd |-> <<>>]

Init ==
    /\ ctxDone = FALSE /\ conn = "nil" /\ new = "open"
    /\ wire = <<>> /\ queued = <<>> /\ batch = <<>> /\ seqs = 0
    /\ events = 0 /\ stream = [last |-> 0, marked |-> FALSE, hole |-> FALSE]
    /\ recent = TRUE
    /\ reader = "open" /\ beat = "off"
    /\ pending = {} /\ waiters = [x \in Coids |-> None]
    /\ \E l \in Loads :
         /\ call = [k \in Calls |-> [Idle EXCEPT !.pc = IF k \in l.calls THEN "idle" ELSE "unused"]]
         /\ srv = [seq |-> 0, got |-> {}, left |-> l.updates, notes |-> l.notes]
         /\ closer = IF l.close THEN "off" ELSE "unused"
         /\ faults = l.faults

Fault == faults > 0 /\ faults' = faults - 1

-----------------------------------------------------------------------------
(* The server and the network.                                             *)

\* Somebody reads: the published connection, or one whose handshake is under way.
Reading == (conn = "open" /\ reader \notin {"dial", "leave", "drain", "done"}) \/ new = "open"

Room(n) == Len(wire) + n <= WireCap

NextUpdate(k) == Update(srv.seq + 1, k, IF k = None THEN None ELSE call[k].coid)
Numbered == [srv EXCEPT !.seq = @ + 1, !.left = @ - 1]

\* The server executes the order of command k, or refuses it, and answers; the
\* first update of the order may overtake the answer, follow it or be lost.
Serve(k) ==
    /\ k \in srv.got /\ conn = "open"
    /\ \/ /\ Room(1) /\ \E ok \in BOOLEAN : wire' = Append(wire, Answer(k, ok))
          /\ srv' = [srv EXCEPT !.got = @ \ {k}]
       \/ /\ Room(2) /\ srv.left > 0
          /\ wire' \in {wire \o <<NextUpdate(k), Answer(k, TRUE)>>, wire \o <<Answer(k, TRUE), NextUpdate(k)>>}
          /\ srv' = [Numbered EXCEPT !.got = @ \ {k}]
    /\ UNCHANGED <<sessionVars, queueVars, tableVars, procVars, batch, call, faults>>

\* An update of an order placed elsewhere; it may be lost on its way.
Other ==
    /\ srv.left > 0 /\ srv' = Numbered
    /\ \/ Reading /\ Room(1) /\ wire' = Append(wire, NextUpdate(None))
       \/ UNCHANGED wire
    /\ UNCHANGED <<sessionVars, queueVars, tableVars, procVars, batch, call, faults>>

\* A balance, a fill, a notification: as many as the account causes.
Notify ==
    /\ srv.notes /\ Reading /\ wire = <<>>
    /\ wire' = <<Note>>
    /\ UNCHANGED <<sessionVars, queueVars, tableVars, procVars, batch, call, srv, faults>>

Lose ==
    /\ \/ conn = "open" /\ conn' = "lost" /\ UNCHANGED new
       \/ new = "open" /\ new' = "lost" /\ UNCHANGED conn
    /\ wire' = <<>> /\ srv' = [srv EXCEPT !.got = {}]
    /\ Fault
    /\ UNCHANGED <<ctxDone, queued, seqs, recent, queueVars, tableVars, procVars, batch, call>>

\* perpsHeartbeatStale passes without a message.
Age ==
    /\ recent /\ recent' = FALSE /\ beat # "off"
    /\ Fault
    /\ UNCHANGED <<ctxDone, conn, new, queued, seqs, queueVars, tableVars, procVars, wire, batch, call, srv>>

Consume ==
    /\ events > 0 /\ events' = events - 1
    /\ UNCHANGED <<sessionVars, stream, tableVars, procVars, wire, batch, call, srv, faults>>

-----------------------------------------------------------------------------
(* Pending commands and order waiters.                                     *)

Reply(k, r) == [call EXCEPT ![k].resp = Append(@, r)]

\* rejectPending and rejectOrderWaiters.
RejectAll ==
    /\ call' = [k \in Calls |->
         [call[k] EXCEPT !.resp = IF k \in pending THEN Append(@, "lost") ELSE @,
                         !.upd = IF \E x \in Coids : waiters[x] = k THEN Append(@, None) ELSE @]]
    /\ pending' = {}
    /\ waiters' = [x \in Coids |-> None]

\* resolvePending: an answer nobody waits for is dropped.
ResolvePending(f) ==
    /\ call' = IF f.id \in pending THEN Reply(f.id, IF f.ok THEN "ok" ELSE "err") ELSE call
    /\ pending' = pending \ {f.id}

\* resolveOrderWaiters: the update goes to the watch of its client order id.
ResolveOrderWaiters(f) ==
    IF f.kind = "update" /\ f.coid # None /\ waiters[f.coid] # None
    THEN /\ call' = [call EXCEPT ![waiters[f.coid]].upd = Append(@, f.id)]
         /\ waiters' = [waiters EXCEPT ![f.coid] = None]
    ELSE UNCHANGED <<call, waiters>>

-----------------------------------------------------------------------------
(* The event queue.                                                        *)

\* The stream after an event went into the queue.
Extend(e) ==
    CASE e.kind = "resync" -> [stream EXCEPT !.marked = TRUE]
      [] e.kind = "note" -> stream
      [] e.kind = "update" ->
           [last |-> e.seq, marked |-> FALSE,
            hole |-> stream.hole \/ (stream.last # 0 /\ ~stream.marked /\ e.seq # stream.last + 1)]

\* emitEvent: with the queue full the session is cancelled; once it is cancelled
\* the select may still choose the queue.
EmitEvent(e) ==
    \/ events < EventCap /\ events' = events + 1 /\ stream' = Extend(e) /\ UNCHANGED ctxDone
    \/ ctxDone /\ UNCHANGED <<queueVars, ctxDone>>
    \/ events = EventCap /\ ctxDone' = TRUE /\ UNCHANGED queueVars

Resync == [kind |-> "resync"]

-----------------------------------------------------------------------------
(* The handshake, for OpenSession and for reconnect.                       *)

Opening == conn = "nil" /\ beat = "off"

\* The connection is closed; OpenSession fails, reconnect waits and dials again.
HandshakeFails ==
    /\ new' = "none" /\ wire' = <<>>
    /\ reader' = IF Opening THEN "failed" ELSE "dial"

\* The authentication is acknowledged, or refused.
Authenticate ==
    /\ reader \in {"open", "auth"}
    /\ \/ new = "open" /\ reader' = "sub" /\ UNCHANGED <<new, wire, faults>>
       \/ new = "open" /\ HandshakeFails /\ Fault
       \/ new = "lost" /\ HandshakeFails /\ UNCHANGED faults
    /\ UNCHANGED <<ctxDone, conn, queued, seqs, recent, queueVars, tableVars, beat, closer, batch, call, srv>>

\* readAckConn: a frame that arrives before the acknowledgement is kept, up to
\* the limit; what is kept survives a handshake that fails.
QueueEarly ==
    /\ reader = "sub" /\ new = "open" /\ wire # <<>>
    /\ IF Len(queued) >= EventCap
       THEN HandshakeFails /\ UNCHANGED queued
       ELSE queued' = Append(queued, Head(wire)) /\ wire' = Tail(wire) /\ UNCHANGED <<new, reader>>
    /\ UNCHANGED <<ctxDone, conn, seqs, recent, queueVars, tableVars, beat, closer, batch, call, srv, faults>>

\* The subscription is acknowledged: OpenSession starts the two loops, reconnect
\* goes on to publish the connection.  Or it is refused, or the connection is lost.
Subscribed ==
    /\ reader = "sub" /\ wire = <<>>
    /\ \/ /\ new = "open" /\ Opening
          /\ conn' = "open" /\ new' = "none" /\ batch' = queued /\ queued' = <<>>
          /\ reader' = "handle" /\ beat' = "wait" /\ UNCHANGED <<wire, faults>>
       \/ /\ new = "open" /\ ~Opening
          /\ reader' = "publish" /\ UNCHANGED <<conn, new, queued, batch, beat, wire, faults>>
       \/ /\ HandshakeFails
          /\ IF new = "lost" THEN UNCHANGED faults ELSE Fault
          /\ UNCHANGED <<conn, queued, batch, beat>>
    /\ UNCHANGED <<ctxDone, seqs, recent, queueVars, tableVars, closer, call, srv>>

-----------------------------------------------------------------------------
(* readLoop and reconnect.                                                 *)

\* conn.Read fails or there is no connection: with the session cancelled the
\* loop ends, otherwise reconnect begins.  A cancelled read closes the connection.
ReadFails ==
    /\ reader = "read"
    /\ ctxDone \/ conn # "open"
    /\ RejectAll
    /\ reader' = IF ctxDone \/ conn = "nil" THEN "leave" ELSE "dial"
    /\ conn' = IF ctxDone /\ conn # "nil" THEN "closed" ELSE conn
    /\ wire' = <<>>
    /\ UNCHANGED <<ctxDone, new, queued, seqs, recent, queueVars, beat, closer, batch, srv, faults>>

\* A payload is one message or an array of them.
Read ==
    /\ reader = "read" /\ conn = "open" /\ ~ctxDone
    /\ \E n \in 1..Len(wire) :
         /\ batch' = SubSeq(wire, 1, n)
         /\ wire' = SubSeq(wire, n + 1, Len(wire))
    /\ recent' = TRUE /\ reader' = "handle"
    /\ UNCHANGED <<ctxDone, conn, new, queued, seqs, queueVars, tableVars, beat, closer, call, srv, faults>>

\* Faulty variant: the number is recorded and a gap goes unannounced.
SequenceResyncSilent(f) == FALSE

\* sequenceResync: the number does not follow the last one of the channel.
SequenceResync(f) == f.kind = "update" /\ seqs # 0 /\ f.seq # seqs + 1

\* handlePayload up to the gap announcement.
HandleGap ==
    /\ reader = "handle" /\ batch # <<>> /\ SequenceResync(Head(batch))
    /\ EmitEvent(Resync)
    /\ seqs' = Head(batch).seq /\ reader' = "event"
    /\ UNCHANGED <<conn, new, queued, recent, tableVars, beat, closer, wire, batch, call, srv, faults>>

\* handlePayload of an answer, and of an update once its gap is announced.
Handle ==
    /\ batch # <<>>
    /\ LET f == Head(batch) IN
         \/ /\ reader = "handle" /\ f.kind = "answer"
            /\ ResolvePending(f) /\ UNCHANGED <<queueVars, ctxDone, waiters, seqs>>
         \/ /\ f.kind # "answer"
            /\ reader = "event" \/ (reader = "handle" /\ ~SequenceResync(f))
            /\ ResolveOrderWaiters(f) /\ EmitEvent(f)
            /\ seqs' = IF f.kind = "update" THEN f.seq ELSE seqs
            /\ UNCHANGED pending
    /\ batch' = Tail(batch) /\ reader' = "handle"
    /\ UNCHANGED <<conn, new, queued, recent, beat, closer, wire, srv, faults>>

\* The payload is handled; readLoop takes what the handshake queued, then reads.
NextRead ==
    /\ reader = "handle" /\ batch = <<>>
    /\ batch' = queued /\ queued' = <<>>
    /\ reader' = IF queued = <<>> THEN "read" ELSE "handle"
    /\ UNCHANGED <<ctxDone, conn, new, seqs, recent, queueVars, tableVars, beat, closer, wire, call, srv, faults>>

\* The wait before an attempt and the dial.
Dial ==
    /\ reader = "dial"
    /\ \/ ctxDone /\ reader' = "reject" /\ UNCHANGED <<new, faults>>
       \/ ~ctxDone /\ reader' = "auth" /\ new' = "open" /\ UNCHANGED faults
       \/ ~ctxDone /\ Fault /\ UNCHANGED <<reader, new>>
    /\ UNCHANGED <<ctxDone, conn, queued, seqs, recent, queueVars, tableVars, beat, closer, wire, batch, call, srv>>

\* A handshake under a cancelled context fails.
HandshakeCancelled ==
    /\ reader \in {"auth", "sub"} /\ ctxDone
    /\ new' = "none" /\ wire' = <<>> /\ reader' = "reject"
    /\ UNCHANGED <<ctxDone, conn, queued, seqs, recent, queueVars, tableVars, beat, closer, batch, call, srv, faults>>

\* Faulty variant: the connection that is not wanted any more is not closed.
PublishConnForgetful ==
    /\ reader = "publish"
    /\ IF ctxDone
       THEN reader' = "reject" /\ wire' = <<>> /\ UNCHANGED <<conn, new, seqs>>
       ELSE conn' = new /\ new' = "none" /\ seqs' = 0 /\ reader' = "store" /\ UNCHANGED wire
    /\ UNCHANGED <<ctxDone, queued, recent, queueVars, tableVars, beat, closer, batch, call, srv, faults>>

\* reconnect publishes the connection under connMu unless the session is
\* cancelled, and forgets the sequence numbers.
PublishConn ==
    /\ reader = "publish"
    /\ IF ctxDone
       THEN reader' = "reject" /\ wire' = <<>> /\ UNCHANGED <<conn, seqs>>
       ELSE conn' = new /\ seqs' = 0 /\ reader' = "store" /\ UNCHANGED wire
    /\ new' = "none"
    /\ UNCHANGED <<ctxDone, queued, recent, queueVars, tableVars, beat, closer, batch, call, srv, faults>>

\* lastMessage is stored after the connection is published; readLoop announces
\* the reconnection before it handles what the handshake queued.
Reconnected ==
    /\ reader = "store"
    /\ recent' = TRUE /\ reader' = "handle"
    /\ EmitEvent(Resync)
    /\ UNCHANGED <<conn, new, queued, seqs, tableVars, beat, closer, wire, batch, call, srv, faults>>

\* reconnect gave up: readLoop rejects what was registered in the meantime.
GiveUp ==
    /\ reader = "reject" /\ reader' = "leave"
    /\ RejectAll
    /\ UNCHANGED <<sessionVars, queueVars, beat, closer, wire, batch, srv, faults>>

\* The deferred calls of readLoop: the channels are closed and the session is
\* cancelled; done is closed once the heartbeat has ended.
Leave ==
    /\ reader = "leave" /\ reader' = "drain"
    /\ ctxDone' = TRUE
    /\ UNCHANGED <<conn, new, queued, seqs, recent, queueVars, tableVars, beat, closer, wire, batch, call, srv, faults>>

Done ==
    /\ reader = "drain" /\ beat = "done" /\ reader' = "done"
    /\ UNCHANGED <<sessionVars, queueVars, tableVars, beat, closer, wire, batch, call, srv, faults>>

-----------------------------------------------------------------------------
(* heartbeatLoop.                                                          *)

Closed(c) == IF c = "nil" THEN c ELSE "closed"

\* A tick: a silent connection is closed in a later step, after the time was
\* read; otherwise a ping is written, and a failed write closes the connection.
Tick ==
    /\ beat = "wait"
    /\ \/ ctxDone /\ beat' = "done" /\ UNCHANGED <<conn, wire>>
       \/ ~ctxDone /\ ~recent /\ beat' = "stale" /\ UNCHANGED <<conn, wire>>
       \/ /\ ~ctxDone /\ recent /\ conn # "open"
          /\ conn' = Closed(conn) /\ UNCHANGED <<beat, wire>>
    /\ UNCHANGED <<ctxDone, new, queued, seqs, recent, queueVars, tableVars, reader, closer, batch, call, srv, faults>>

CloseStale ==
    /\ beat = "stale" /\ beat' = "wait"
    /\ conn' = Closed(conn)
    /\ wire' = IF conn = "open" THEN <<>> ELSE wire
    /\ UNCHANGED <<ctxDone, new, queued, seqs, recent, queueVars, tableVars, reader, closer, batch, call, srv, faults>>

-----------------------------------------------------------------------------
(* PlaceOrder with watchOrder, sendCommand and waitWatchedOrder.           *)

Goto(k, where) == call' = [call EXCEPT ![k].pc = where]

\* watchOrder: one watch for each client order id.  Then sendCommand looks at the
\* session, before it registers.
Watch(k) ==
    /\ call[k].pc = "idle" /\ beat # "off"
    /\ \E x \in Coids :
         IF waiters[x] # None
         THEN Goto(k, "refused") /\ UNCHANGED waiters
         ELSE /\ call' = [call EXCEPT ![k] = [@ EXCEPT !.pc = IF ctxDone THEN "failed" ELSE "checked",
                                                           !.coid = x]]
              /\ waiters' = [waiters EXCEPT ![x] = k]
    /\ UNCHANGED <<sessionVars, queueVars, pending, procVars, wire, batch, srv, faults>>

Register(k) ==
    /\ call[k].pc = "checked"
    /\ pending' = pending \cup {k} /\ Goto(k, "registered")
    /\ UNCHANGED <<sessionVars, queueVars, waiters, procVars, wire, batch, srv, faults>>

\* writeRaw: without a connection, or on a closed one, it fails; the write to a
\* lost peer may succeed.
Write(k) ==
    /\ call[k].pc = "registered"
    /\ \/ /\ conn \in {"open", "lost"} /\ Goto(k, "sent") /\ UNCHANGED pending
          /\ srv' = IF conn = "open" THEN [srv EXCEPT !.got = @ \cup {k}] ELSE srv
       \/ /\ conn # "open" /\ Goto(k, "failed") /\ pending' = pending \ {k}
          /\ UNCHANGED srv
    /\ UNCHANGED <<sessionVars, queueVars, waiters, procVars, wire, batch, faults>>

\* Faulty variant: the wait for the answer does not look at the session.
AnsweredOnly(k) ==
    /\ call[k].pc = "sent"
    /\ call[k].resp # <<>>
    /\ Goto(k, IF Head(call[k].resp) = "ok" THEN "acked" ELSE "failed")
    /\ pending' = pending \ {k}
    /\ UNCHANGED <<sessionVars, queueVars, waiters, procVars, wire, batch, srv, faults>>

\* The select of sendCommand: the answer or a rejection, or the session's
\* context.  The command leaves the table however it ends.
Answered(k) ==
    /\ call[k].pc = "sent"
    /\ \/ /\ call[k].resp # <<>>
          /\ Goto(k, IF Head(call[k].resp) = "ok" THEN "acked" ELSE "failed")
       \/ ctxDone /\ Goto(k, "failed")
    /\ pending' = pending \ {k}
    /\ UNCHANGED <<sessionVars, queueVars, waiters, procVars, wire, batch, srv, faults>>

\* waitWatchedOrder: the first update of the client order id must be of the
\* order that was acknowledged.
Updated(k) ==
    /\ call[k].pc = "acked"
    /\ \/ call[k].upd # <<>> /\ Goto(k, IF Head(call[k].upd) = k THEN "placed" ELSE "failed")
       \/ ctxDone /\ Goto(k, "failed")
    /\ UNCHANGED <<sessionVars, queueVars, tableVars, procVars, wire, batch, srv, faults>>

\* The caller's context ends, or the two seconds PlaceOrder waits for an update.
CallerGivesUp(k) ==
    /\ call[k].pc \in {"sent", "acked"}
    /\ pending' = pending \ {k} /\ Goto(k, "failed")
    /\ UNCHANGED <<sessionVars, queueVars, waiters, procVars, wire, batch, srv, faults>>

\* Faulty variant: whoever holds the client order id is removed.
UnwatchAny(k) ==
    /\ call[k].pc \in {"placed", "failed"}
    /\ waiters' = [waiters EXCEPT ![call[k].coid] = None]
    /\ Goto(k, IF call[k].pc = "placed" THEN "order" ELSE "error")
    /\ UNCHANGED <<sessionVars, queueVars, pending, procVars, wire, batch, srv, faults>>

\* unwatchOrder, deferred: only the call's own watch is removed.
Unwatch(k) ==
    /\ call[k].pc \in {"placed", "failed"}
    /\ waiters' = [waiters EXCEPT ![call[k].coid] = IF @ = k THEN None ELSE @]
    /\ Goto(k, IF call[k].pc = "placed" THEN "order" ELSE "error")
    /\ UNCHANGED <<sessionVars, queueVars, pending, procVars, wire, batch, srv, faults>>

-----------------------------------------------------------------------------
(* Close.                                                                  *)

CloseCancel ==
    /\ closer = "off" /\ beat # "off"
    /\ ctxDone' = TRUE /\ closer' = "reject"
    /\ UNCHANGED <<conn, new, queued, seqs, recent, queueVars, tableVars, reader, beat, wire, batch, call, srv, faults>>

CloseReject ==
    /\ closer = "reject" /\ closer' = "take"
    /\ RejectAll
    /\ UNCHANGED <<sessionVars, queueVars, reader, beat, wire, batch, srv, faults>>

CloseTake ==
    /\ closer = "take" /\ closer' = "wait"
    /\ conn' = "nil"
    /\ UNCHANGED <<ctxDone, new, queued, seqs, recent, queueVars, tableVars, reader, beat, wire, batch, call, srv, faults>>

CloseReturns ==
    /\ closer = "wait" /\ reader = "done" /\ closer' = "returned"
    /\ UNCHANGED <<sessionVars, queueVars, tableVars, reader, beat, wire, batch, call, srv, faults>>

-----------------------------------------------------------------------------
Server == Other \/ Notify \/ \E k \in Calls : Serve(k)

ReadLoop ==
    \/ ReadFails \/ Read \/ HandleGap \/ Handle \/ NextRead
    \/ PublishConn \/ Reconnected \/ GiveUp \/ Leave \/ Done

Connecting == Authenticate \/ QueueEarly \/ Subscribed \/ Dial \/ HandshakeCancelled

Heartbeat == Tick \/ CloseStale

PlaceOrder(k) ==
    Watch(k) \/ Register(k) \/ Write(k) \/ Answered(k) \/ Updated(k) \/ Unwatch(k)

Close == CloseCancel \/ CloseReject \/ CloseTake \/ CloseReturns

Next ==
    \/ Server \/ Lose \/ Age \/ Consume
    \/ ReadLoop \/ Connecting \/ Heartbeat \/ Close
    \/ \E k \in Calls : PlaceOrder(k) \/ CallerGivesUp(k)

Spec == Init /\ [][Next]_vars

\* The goroutines of the session run; a caller goes on with its call.  Nothing is
\* assumed of the server, the network, the consumer or the callers' contexts.
Fairness ==
    /\ WF_vars(ReadLoop) /\ WF_vars(Dial) /\ WF_vars(HandshakeCancelled)
    /\ WF_vars(Heartbeat) /\ WF_vars(CloseReject \/ CloseTake \/ CloseReturns)
    /\ \A k \in Calls : WF_vars(call[k].pc # "idle" /\ PlaceOrder(k))

FairSpec == Spec /\ Fairness

-----------------------------------------------------------------------------
TypeOK ==
    /\ ctxDone \in BOOLEAN /\ recent \in BOOLEAN
    /\ conn \in {"nil", "open", "lost", "closed"} /\ new \in {"none", "open", "lost"}
    /\ Len(wire) <= WireCap /\ Len(queued) <= EventCap /\ events \in 0..EventCap
    /\ seqs \in 0..srv.seq
    /\ pending \subseteq Calls /\ waiters \in [Coids -> Calls \cup {None}]
    /\ srv.got \subseteq Calls /\ faults \in Nat

\* A gap in the numbers of the updates that reach the application is announced
\* by a resync event that comes first, also across a reconnection and for the
\* updates a handshake queued, as long as the session has not been cancelled
\* (handlePayload, sequenceResync and reconnect).
GapsAnnounced == stream.hole => ctxDone

\* At most one message is ever sent to a call's channel of capacity one, whoever
\* of the reader, reconnect and Close gets there first: the send after the
\* removal never blocks (resolvePending, rejectPending and their order twins).
SendNeverBlocks == \A k \in Calls : Len(call[k].resp) <= 1 /\ Len(call[k].upd) <= 1

\* A call that watches its client order id and has got nothing is in the table,
\* also when an earlier call with the same id ends late (unwatchOrder compares
\* the channels); a command that waits is in its table.
NobodyForgotten ==
    \A k \in Calls :
        /\ call[k].pc \in {"checked", "registered", "sent", "acked"} /\ call[k].upd = <<>>
              => waiters[call[k].coid] = k
        /\ call[k].pc = "sent" /\ call[k].resp = <<>> => k \in pending

\* PlaceOrder returns the order it placed and not another one that has used the
\* same client order id (waitWatchedOrder).
OwnOrder == \A k \in Calls : call[k].pc \in {"placed", "order"} => Head(call[k].upd) = k

\* Once the reader has ended, and so once Close has returned, no connection is
\* open, whenever Close met reconnect (PublishConn looks at the context under
\* connMu and closes the connection it does not publish; Close cancels before it
\* takes the connection; a cancelled read closes the connection it reads).
NothingLeaks == reader = "done" => conn # "open" /\ new = "none"

\* Whatever cancels the session - Close, a full queue, the end of the reader -
\* every call returns, one that registers after the rejections included.
CallsEnd ==
    ctxDone ~> \A k \in Calls : call[k].pc \in {"idle", "unused", "refused", "order", "error"}

\* Close returns: the reader leaves its read, its waits and its handshake, and
\* the heartbeat ends.
CloseEnds == closer = "reject" ~> closer = "returned"

\* The tables of commands and watched orders are well formed, lose no call, never
\* block who delivers an answer, and give each call the order it placed.
CallsTracked == TypeOK /\ SendNeverBlocks /\ NobodyForgotten /\ OwnOrder

\* A cancelled session releases every call, and Close returns.
SessionEnds == CallsEnd /\ CloseEnds
=============================================================================
