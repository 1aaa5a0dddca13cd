----------------------------- MODULE RtdsClient -----------------------------
(***************************************************************************)
(* The real-time data stream client (clob/ws/rtds/client.go and            *)
(* subscriptions.go): one published WebSocket connection, a reader and a    *)
(* heartbeat per connection, one reconnecting goroutine, and the list of   *)
(* registrations from which the server's subscriptions are derived.        *)
(*                                                                         *)
(* Atomicity.  A section under c.mu is one step.  c.subsMu is a variable,   *)
(* because connect, Subscribe and Unsubscribe hold it across a WebSocket    *)
(* write.  Message contents are abstracted away; the reader's dispatch is   *)
(* kept because it takes subsMu.                                           *)
(***************************************************************************)
EXTENDS Naturals, Sequences, FiniteSets

CONSTANTS
    User,         \* application goroutines that call the client's methods
    Reconnector,  \* the goroutine running attemptReconnect
    Conn,         \* identities of WebSocket connections, reused once unreferenced
    NoConn,       \* the nil *websocket.Conn
    NoProc,       \* nobody holds subsMu
    Registration, \* what callers pass to Subscribe: topic, type, filters, auth
    KeyOf,        \* the topic/type of a registration
    AuthOf,       \* the credentials of a registration
    MaxSubs,      \* bound on the number of local registrations
    MaxFaults     \* bound on dial failures, lost connections and failed writes

Proc == User \cup {Reconnector}

Key == {KeyOf[r] : r \in Registration}
Auth == {AuthOf[r] : r \in Registration}

\* A Subscription as it is sent to the server: sub.Filters = nil.
Subscription == [key : Key, auth : Auth]

ASSUME ProcAssumption == /\ Reconnector \notin User
                         /\ NoProc \notin User \cup {Reconnector}
                         /\ NoConn \notin Conn
ASSUME BoundAssumption == MaxSubs \in Nat /\ MaxFaults \in Nat

VARIABLES
    conn,         \* c.conn
    last,         \* c.connDone and c.connCancel: the connection published last
    closed,       \* c.closed
    ctxDone,      \* c.ctx is cancelled
    reconnecting, \* c.reconnecting
    retries,      \* exits of attemptReconnect that still have to reschedule
    subs,         \* c.subs
    subsMu,       \* the holder of c.subsMu, or NoProc
    link,         \* each socket: "free", "open", "silent" (peer gone, no error) or "dead"
    cancelled,    \* each connection's loopCtx
    reader,       \* each connection's readLoop: "off", "reading", "dispatch", "schedule"
    server,       \* external: what the server is subscribed to, per connection
    pc,           \* where each process is
    held,         \* the connection a process dialled, or captured in Close
    request,      \* the delta a process is about to send
    faults        \* faults so far

clientVars == <<conn, last, closed, ctxDone, reconnecting, retries, subs, subsMu>>
connVars == <<link, cancelled, reader, server>>
procVars == <<pc, held, request>>
vars == <<clientVars, connVars, procVars, faults>>

Request == [action : {"none", "subscribe", "unsubscribe"}, delta : SUBSET Subscription]
NoRequest == [action |-> "none", delta |-> {}]

Init ==
    /\ conn = NoConn /\ last = NoConn
    /\ closed = FALSE /\ ctxDone = FALSE
    /\ reconnecting = FALSE /\ retries = 0
    /\ subs = <<>> /\ subsMu = NoProc
    /\ link = [c \in Conn |-> "free"]
    /\ cancelled = [c \in Conn |-> FALSE]
    /\ reader = [c \in Conn |-> "off"]
    /\ server = [c \in Conn |-> {}]
    /\ pc = [p \in Proc |-> "idle"]
    /\ held = [p \in Proc |-> NoConn]
    /\ request = [p \in Proc |-> NoRequest]
    /\ faults = 0

-----------------------------------------------------------------------------
(* Server subscriptions as a function of the registrations                 *)

\* The first entry of each topic/type stands for all of them.
serverSubscriptions(entries) ==
    {[key |-> KeyOf[entries[i]], auth |-> AuthOf[entries[i]]] :
        i \in {k \in DOMAIN entries :
                 \A j \in DOMAIN entries : j < k => KeyOf[entries[j]] # KeyOf[entries[k]]}}

serverDifference(left, right) ==
    {sub \in left : \A other \in right : other.key # sub.key}

\* slices.Delete(entries, i, i+1)
Delete(entries, i) ==
    [k \in 1..(Len(entries) - 1) |-> IF k < i THEN entries[k] ELSE entries[k + 1]]

\* Two registrations of one topic/type with different credentials.
Conflicting(entries, r) ==
    \E i \in DOMAIN entries : KeyOf[entries[i]] = KeyOf[r] /\ AuthOf[entries[i]] # AuthOf[r]

\* What the server makes of a request (external: the RTDS service).
Applied(current, req) ==
    IF req.action = "subscribe" THEN current \cup req.delta
    ELSE {sub \in current : \A gone \in req.delta : gone.key # sub.key}

-----------------------------------------------------------------------------
(* Writing and scheduling                                                  *)

Fault == faults < MaxFaults /\ faults' = faults + 1

\* conn.Write reports success.  A peer that is silently gone reads nothing.
WriteOK(c, req) ==
    /\ link[c] \in {"open", "silent"}
    /\ server' = IF link[c] = "open" THEN [server EXCEPT ![c] = Applied(@, req)] ELSE server
    /\ UNCHANGED <<link, faults>>

\* Faulty variant: sendJSON returns the error and leaves the connection open.
WriteFailsOpen(c, req) ==
    /\ link[c] \in {"open", "silent"} /\ Fault
    /\ UNCHANGED <<link, server>>

\* conn.Write fails: what the server saw of the request is uncertain, and
\* sendJSON closes the connection.
WriteFails(c, req) ==
    \/ /\ link[c] \in {"free", "dead"}
       /\ UNCHANGED <<link, server, faults>>
    \/ /\ link[c] \in {"open", "silent"} /\ Fault
       /\ link' = [link EXCEPT ![c] = "dead"]
       /\ \/ UNCHANGED server
          \/ link[c] = "open" /\ server' = [server EXCEPT ![c] = Applied(@, req)]

scheduleReconnect ==
    IF closed \/ reconnecting
    THEN UNCHANGED <<reconnecting, pc>>
    ELSE /\ reconnecting' = TRUE
         /\ pc' = [pc EXCEPT ![Reconnector] = "loop"]

Goto(p, where) == pc' = [pc EXCEPT ![p] = where]

\* Where connect returns to: the caller, or the loop of attemptReconnect.
AfterConnect(p, ok) ==
    IF p # Reconnector THEN "idle" ELSE IF ok THEN "exit" ELSE "backoff"

-----------------------------------------------------------------------------
(* connect, run by Connect and by attemptReconnect                         *)

Connect(u) ==
    /\ pc[u] = "idle" /\ ~closed
    /\ Goto(u, "dial")
    /\ UNCHANGED <<clientVars, connVars, held, request, faults>>

DialFails(p) ==
    /\ pc[p] = "dial"
    /\ \/ ctxDone /\ p = Reconnector /\ UNCHANGED faults
       \/ Fault
    /\ Goto(p, AfterConnect(p, FALSE))
    /\ UNCHANGED <<clientVars, connVars, held, request>>

Dial(p) ==
    /\ pc[p] = "dial"
    /\ \E c \in Conn \ {last} :
         /\ link[c] = "free"
         /\ link' = [link EXCEPT ![c] = "open"]
         /\ cancelled' = [cancelled EXCEPT ![c] = FALSE]
         /\ server' = [server EXCEPT ![c] = {}]
         /\ held' = [held EXCEPT ![p] = c]
    /\ Goto(p, "publish")
    /\ UNCHANGED <<clientVars, reader, request, faults>>

\* connect finds the client closed or connected and drops its connection.
Discard(p) ==
    /\ pc[p] = "publish" /\ subsMu = NoProc
    /\ closed \/ conn # NoConn
    /\ link' = [link EXCEPT ![held[p]] = "free"]
    /\ held' = [held EXCEPT ![p] = NoConn]
    /\ Goto(p, AfterConnect(p, FALSE))
    /\ UNCHANGED <<clientVars, cancelled, reader, server, request, faults>>

\* connect publishes the connection, cancels the previous one and starts the
\* loops; with registrations to replay it keeps subsMu for the write.
Publish(p) ==
    /\ pc[p] = "publish" /\ subsMu = NoProc
    /\ ~closed /\ conn = NoConn
    /\ conn' = held[p] /\ last' = held[p]
    /\ cancelled' = IF last = NoConn THEN cancelled ELSE [cancelled EXCEPT ![last] = TRUE]
    /\ reader' = [reader EXCEPT ![held[p]] = "reading"]
    /\ held' = [held EXCEPT ![p] = NoConn]
    /\ IF subs = <<>>
       THEN Goto(p, AfterConnect(p, TRUE)) /\ UNCHANGED <<subsMu, request>>
       ELSE /\ subsMu' = p
            /\ request' = [request EXCEPT ![p] = [action |-> "subscribe",
                                                  delta |-> serverSubscriptions(subs)]]
            /\ Goto(p, "replay")
    /\ UNCHANGED <<closed, ctxDone, reconnecting, retries, subs, link, server, faults>>

\* sendJSON in connect, and the deferred unlock.
Replay(p) ==
    /\ pc[p] = "replay"
    /\ subsMu' = NoProc
    /\ request' = [request EXCEPT ![p] = NoRequest]
    /\ \/ conn # NoConn /\ WriteOK(conn, request[p]) /\ Goto(p, AfterConnect(p, TRUE))
       \/ conn # NoConn /\ WriteFails(conn, request[p]) /\ Goto(p, AfterConnect(p, FALSE))
       \/ conn = NoConn /\ Goto(p, AfterConnect(p, FALSE)) /\ UNCHANGED <<link, server, faults>>
    /\ UNCHANGED <<conn, last, closed, ctxDone, reconnecting, retries, subs,
                   cancelled, reader, held>>

-----------------------------------------------------------------------------
(* Subscribe and Unsubscribe                                               *)

\* Subscribe up to syncSubscriptions.  A cancelled ctx, a closed client and
\* conflicting credentials return early and change nothing.
Subscribe(u, r) ==
    /\ pc[u] = "idle" /\ subsMu = NoProc
    /\ ~closed /\ ~Conflicting(subs, r)
    /\ Len(subs) < MaxSubs
    /\ subs' = Append(subs, r)
    /\ subsMu' = u
    /\ request' = [request EXCEPT ![u] =
          [action |-> "subscribe",
           delta |-> serverDifference(serverSubscriptions(subs'), serverSubscriptions(subs))]]
    /\ Goto(u, "sync")
    /\ UNCHANGED <<conn, last, closed, ctxDone, reconnecting, retries, connVars, held, faults>>

\* Unsubscribe up to syncSubscriptions: the first equal registration goes.
Unsubscribe(u, r) ==
    /\ pc[u] = "idle" /\ subsMu = NoProc
    /\ \E i \in DOMAIN subs :
         /\ subs[i] = r /\ \A j \in DOMAIN subs : j < i => subs[j] # r
         /\ subs' = Delete(subs, i)
    /\ subsMu' = u
    /\ request' = [request EXCEPT ![u] =
          [action |-> "unsubscribe",
           delta |-> serverDifference(serverSubscriptions(subs), serverSubscriptions(subs'))]]
    /\ Goto(u, "sync")
    /\ UNCHANGED <<conn, last, closed, ctxDone, reconnecting, retries, connVars, held, faults>>

\* syncSubscriptions: nothing to send or not connected is not an error.
syncSubscriptions(u) ==
    /\ pc[u] = "sync"
    /\ IF request[u].delta = {} \/ conn = NoConn \/ closed
       THEN UNCHANGED <<link, server, faults>>
       ELSE WriteOK(conn, request[u]) \/ WriteFails(conn, request[u])
    /\ subsMu' = NoProc
    /\ request' = [request EXCEPT ![u] = NoRequest]
    /\ Goto(u, "idle")
    /\ UNCHANGED <<conn, last, closed, ctxDone, reconnecting, retries, subs,
                   cancelled, reader, held>>

-----------------------------------------------------------------------------
(* readLoop and heartbeatLoop                                              *)

ReadMessage(c) ==
    /\ reader[c] = "reading" /\ link[c] = "open"
    /\ reader' = [reader EXCEPT ![c] = "dispatch"]
    /\ UNCHANGED <<clientVars, link, cancelled, server, procVars, faults>>

\* dispatch matches the message against c.subs under subsMu.RLock.
dispatch(c) ==
    /\ reader[c] = "dispatch" /\ subsMu = NoProc
    /\ reader' = [reader EXCEPT ![c] = "reading"]
    /\ UNCHANGED <<clientVars, link, cancelled, server, procVars, faults>>

\* conn.Read fails.  Only the reader of the published connection, under a
\* live context, clears c.conn and goes on to schedule a reconnect.
ReadError(c) ==
    /\ reader[c] = "reading"
    /\ link[c] = "dead" \/ cancelled[c] \/ ctxDone
    /\ LET stop == cancelled[c] \/ ctxDone \/ conn # c
       IN  /\ reader' = [reader EXCEPT ![c] = IF stop THEN "off" ELSE "schedule"]
           /\ link' = IF stop THEN [link EXCEPT ![c] = "free"] ELSE link
           /\ conn' = IF stop THEN conn ELSE NoConn
    /\ UNCHANGED <<last, closed, ctxDone, reconnecting, retries, subs, subsMu,
                   cancelled, server, procVars, faults>>

\* The reader's scheduleReconnect; its goroutine then closes the socket.
ReaderSchedules(c) ==
    /\ reader[c] = "schedule"
    /\ scheduleReconnect
    /\ reader' = [reader EXCEPT ![c] = "off"]
    /\ link' = [link EXCEPT ![c] = "free"]
    /\ UNCHANGED <<conn, last, closed, ctxDone, retries, subs, subsMu,
                   cancelled, server, held, request, faults>>

\* Faulty variant: the heartbeat gives up without closing the connection.
heartbeatLoopPassive(c) ==
    /\ link[c] = "silent"
    /\ UNCHANGED vars

\* No PONG within heartbeatTimeout, or a PING that cannot be written.
heartbeatLoop(c) ==
    /\ reader[c] \in {"reading", "dispatch"} /\ ~cancelled[c] /\ ~ctxDone
    /\ link[c] = "silent"
    /\ link' = [link EXCEPT ![c] = "dead"]
    /\ UNCHANGED <<clientVars, cancelled, reader, server, procVars, faults>>

\* The network (external): the peer closes, or vanishes without a word.
ConnectionLost(c) ==
    /\ link[c] = "open" /\ reader[c] # "off"
    /\ Fault
    /\ \E state \in {"silent", "dead"} : link' = [link EXCEPT ![c] = state]
    /\ UNCHANGED <<clientVars, cancelled, reader, server, procVars>>

-----------------------------------------------------------------------------
(* attemptReconnect                                                        *)

ReconnectLoop ==
    /\ pc[Reconnector] = "loop"
    /\ Goto(Reconnector, IF closed THEN "exit" ELSE "dial")
    /\ UNCHANGED <<clientVars, connVars, held, request, faults>>

ReconnectBackoff ==
    /\ pc[Reconnector] = "backoff"
    /\ Goto(Reconnector, IF ctxDone THEN "exit" ELSE "loop")
    /\ UNCHANGED <<clientVars, connVars, held, request, faults>>

\* Faulty variant: the deferred function only clears the flag.
ReconnectExitForgetful ==
    /\ pc[Reconnector] = "exit"
    /\ reconnecting' = FALSE
    /\ Goto(Reconnector, "idle")
    /\ UNCHANGED <<conn, last, closed, ctxDone, retries, subs, subsMu, connVars, held,
                   request, faults>>

\* The deferred function: connection loss that scheduleReconnect ignored while
\* this goroutine was still marked as reconnecting is picked up here.
ReconnectExit ==
    /\ pc[Reconnector] = "exit"
    /\ reconnecting' = FALSE
    /\ retries' = IF ~closed /\ conn = NoConn THEN retries + 1 ELSE retries
    /\ Goto(Reconnector, "idle")
    /\ UNCHANGED <<conn, last, closed, ctxDone, subs, subsMu, connVars, held, request, faults>>

ReconnectRetry ==
    /\ retries > 0
    /\ retries' = retries - 1
    /\ scheduleReconnect
    /\ UNCHANGED <<conn, last, closed, ctxDone, subs, subsMu, connVars, held, request, faults>>

-----------------------------------------------------------------------------
(* Close                                                                   *)

Close(u) ==
    /\ pc[u] = "idle" /\ ~closed
    /\ closed' = TRUE
    /\ held' = [held EXCEPT ![u] = conn]
    /\ Goto(u, "cancel")
    /\ UNCHANGED <<conn, last, ctxDone, reconnecting, retries, subs, subsMu,
                   connVars, request, faults>>

CloseCancel(u) ==
    /\ pc[u] = "cancel"
    /\ ctxDone' = TRUE
    /\ link' = IF held[u] # NoConn /\ reader[held[u]] # "off"
               THEN [link EXCEPT ![held[u]] = "dead"] ELSE link
    /\ held' = [held EXCEPT ![u] = NoConn]
    /\ Goto(u, "wait")
    /\ UNCHANGED <<conn, last, closed, reconnecting, retries, subs, subsMu,
                   cancelled, reader, server, request, faults>>

\* <-done: the reader of the connection published last has returned.
CloseWait(u) ==
    /\ pc[u] = "wait"
    /\ last # NoConn => reader[last] = "off"
    /\ Goto(u, "clear")
    /\ UNCHANGED <<clientVars, connVars, held, request, faults>>

CloseClear(u) ==
    /\ pc[u] = "clear" /\ subsMu = NoProc
    /\ subs' = <<>>
    /\ Goto(u, "closed")
    /\ UNCHANGED <<conn, last, closed, ctxDone, reconnecting, retries, subsMu,
                   connVars, held, request, faults>>

-----------------------------------------------------------------------------
UserCall(u) ==
    \/ Connect(u) \/ Close(u)
    \/ \E r \in Registration : Subscribe(u, r) \/ Unsubscribe(u, r)

ConnectStep(p) == DialFails(p) \/ Dial(p) \/ Discard(p) \/ Publish(p) \/ Replay(p)

CloseStep(u) == CloseCancel(u) \/ CloseWait(u) \/ CloseClear(u)

ReaderStep(c) == dispatch(c) \/ ReadError(c) \/ ReaderSchedules(c)

ReconnectStep == ReconnectLoop \/ ReconnectBackoff \/ ReconnectExit \/ ReconnectRetry

\* The client is closed and every goroutine of it has returned.
Terminated ==
    /\ closed /\ retries = 0
    /\ \A p \in Proc : pc[p] \in {"idle", "closed"}
    /\ \A c \in Conn : reader[c] = "off"
    /\ UNCHANGED vars

Next ==
    \/ \E u \in User : UserCall(u) \/ syncSubscriptions(u) \/ CloseStep(u)
    \/ \E p \in Proc : ConnectStep(p)
    \/ \E c \in Conn : ReadMessage(c) \/ ReaderStep(c) \/ heartbeatLoop(c) \/ ConnectionLost(c)
    \/ ReconnectStep
    \/ Terminated

Spec == Init /\ [][Next]_vars

\* Every goroutine of the client keeps running; users call what they like.
\* Steps that lock subsMu are strongly fair: Go's mutex does not starve a
\* waiter.  Writes return, because a dead peer or an expired context ends them.
Fairness ==
    /\ \A u \in User : /\ WF_vars(syncSubscriptions(u))
                       /\ WF_vars(CloseCancel(u)) /\ WF_vars(CloseWait(u))
                       /\ SF_vars(CloseClear(u))
    /\ \A p \in Proc : /\ WF_vars(Dial(p) \/ DialFails(p)) /\ WF_vars(Replay(p))
                       /\ SF_vars(Discard(p) \/ Publish(p))
    /\ \A c \in Conn : /\ SF_vars(dispatch(c))
                       /\ WF_vars(ReadError(c)) /\ WF_vars(ReaderSchedules(c))
                       /\ WF_vars(heartbeatLoop(c))
    /\ WF_vars(ReconnectStep)

FairSpec == Spec /\ Fairness

-----------------------------------------------------------------------------
(* Properties                                                              *)

Where == {"idle", "dial", "publish", "replay", "sync", "loop", "backoff", "exit",
          "cancel", "wait", "clear", "closed"}

\* The type invariant: every field holds what its Go type and its use allow.
TypeOK ==
    /\ conn \in Conn \cup {NoConn} /\ last \in Conn \cup {NoConn}
    /\ closed \in BOOLEAN /\ ctxDone \in BOOLEAN
    /\ reconnecting \in BOOLEAN /\ retries \in Nat
    /\ subs \in Seq(Registration) /\ subsMu \in Proc \cup {NoProc}
    /\ link \in [Conn -> {"free", "open", "silent", "dead"}]
    /\ cancelled \in [Conn -> BOOLEAN]
    /\ reader \in [Conn -> {"off", "reading", "dispatch", "schedule"}]
    /\ server \in [Conn -> SUBSET Subscription]
    /\ pc \in [Proc -> Where]
    /\ held \in [Proc -> Conn \cup {NoConn}]
    /\ request \in [Proc -> Request]
    /\ faults \in Nat

Serving(c) == reader[c] \in {"reading", "dispatch"}

\* Whenever nobody is in the middle of changing registrations, a healthy
\* published connection is subscribed to exactly what the registrations ask
\* for, with their credentials: deltas, replays and failed writes of all
\* callers and of the reconnecting goroutine never leave the two apart.
InSync ==
    (~closed /\ subsMu = NoProc /\ conn # NoConn /\ link[conn] = "open")
        => server[conn] = serverSubscriptions(subs)

\* A client that lost its connection always has somebody who will reconnect:
\* the reconnecting goroutine, a reader about to schedule it, or an exit of
\* attemptReconnect about to re-schedule.  No loss is ever forgotten.
ReconnectPending ==
    (~closed /\ last # NoConn /\ conn = NoConn)
        => reconnecting \/ retries > 0 \/ \E c \in Conn : reader[c] = "schedule"

\* Only the published connection has a running reader, and while the client
\* is open the published connection does have one: two readers never feed
\* Messages at once, and a published connection never goes unread.
OneReader ==
    /\ \A c \in Conn : Serving(c) => conn = c
    /\ (~closed /\ conn # NoConn) => Serving(conn)

\* Once the Close that closed the client has returned, no registration is left,
\* nothing reads and none is ever added, whatever raced with it.
CloseIsFinal ==
    (\E u \in User : pc[u] = "closed")
        => subs = <<>> /\ \A c \in Conn : ~Serving(c)

\* After finitely many faults a client that was connected once is connected
\* to a healthy server for good, unless it is closed.
Recovers == <>[](closed \/ last = NoConn \/ (conn # NoConn /\ link[conn] = "open"))

\* Close returns: no interleaving of it with calls, reads and reconnects leaves
\* it waiting for the reader or for subsMu forever.
CloseReturns == \A u \in User : pc[u] = "cancel" ~> pc[u] = "closed"

\* The life cycle of the client (connect, readLoop, attemptReconnect and Close): its
\* fields stay well formed, one reader serves the published connection, no loss of
\* a connection is forgotten, and Close is final.
LifeCycleSafe == TypeOK /\ OneReader /\ ReconnectPending /\ CloseIsFinal

\* Whatever is interleaved with them, the reconnecting goroutine gets the client
\* back to a healthy server and Close returns.
RecoversAndCloses == Recovers /\ CloseReturns
=============================================================================
