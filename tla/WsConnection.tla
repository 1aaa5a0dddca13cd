---------------------------- MODULE WsConnection ----------------------------
(***************************************************************************)
(* The connection life cycle of the CLOB WebSocket client                   *)
(* (clob/ws/client.go): Connect and Close calls, the published connection   *)
(* with its reader and its heartbeat, and the one reconnecting goroutine.   *)
(*                                                                         *)
(* Atomicity.  A section under c.mu is one step.  What is sent on c.conn is *)
(* the subject of WsSubscriptions; here replayTrackedSubscriptions is the   *)
(* time between publishing a connection and returning from connect, in      *)
(* which everything else may move.  A frame is one event or a batch of two, *)
(* decoding left out.  The fields nobody reads (c.stop, c.errs) are left    *)
(* out too.                                                                *)
(***************************************************************************)
EXTENDS Naturals

CONSTANTS
    User,         \* application goroutines
    Reconnector,  \* the goroutine running attemptReconnect
    Conn, NoConn, \* WebSocket connections, reused once unreferenced; nil
    EventCap,     \* capacity of c.events
    MaxFaults     \* bound on dial failures and lost connections

Proc == User \cup {Reconnector}

ASSUME ProcAssumption == Reconnector \notin User /\ NoConn \notin Conn
ASSUME BoundAssumption == EventCap \in Nat /\ MaxFaults \in Nat

VARIABLES
    conn, last,   \* c.conn; the connection of c.connDone and c.connCancel
    closed,       \* c.closed
    ctxDone,      \* c.ctx is cancelled
    reconnecting, \* c.reconnecting
    events,       \* events waiting in c.events
    link,         \* each socket: "free", "open", "silent" (peer gone, no error) or "dead"
    cancelled,    \* each connection's loopCtx
    reader, beat, \* each connection's readLoop and heartbeatLoop
    pc,           \* where each process is
    held,         \* the connection a process dialled, or captured in Close
    faults        \* faults so far

clientVars == <<conn, last, closed, ctxDone, reconnecting>>
connVars == <<link, cancelled, reader, beat, events>>
vars == <<clientVars, connVars, pc, held, faults>>

Init ==
    /\ conn = NoConn /\ last = NoConn
    /\ closed = FALSE /\ ctxDone = FALSE /\ reconnecting = FALSE
    /\ events = 0
    /\ link = [c \in Conn |-> "free"] /\ cancelled = [c \in Conn |-> FALSE]
    /\ reader = [c \in Conn |-> "off"] /\ beat = [c \in Conn |-> "off"]
    /\ pc = [p \in Proc |-> "idle"] /\ held = [p \in Proc |-> NoConn]
    /\ faults = 0

Fault == faults < MaxFaults /\ faults' = faults + 1

Goto(p, where) == pc' = [pc EXCEPT ![p] = where]

-----------------------------------------------------------------------------
(* connect                                                                 *)

AfterConnect(p, ok) ==
    IF p # Reconnector THEN "idle" ELSE IF ok THEN "exit" ELSE "backoff"

Connect(u) ==
    /\ pc[u] = "idle" /\ ~closed
    /\ Goto(u, "dial")
    /\ UNCHANGED <<clientVars, connVars, held, faults>>

\* Dial fails; the reconnecting goroutine dials under c.ctx.
DialFails(p) ==
    /\ pc[p] = "dial"
    /\ (ctxDone /\ p = Reconnector /\ UNCHANGED faults) \/ Fault
    /\ Goto(p, AfterConnect(p, FALSE))
    /\ UNCHANGED <<clientVars, connVars, held>>

Unreferenced(c) ==
    link[c] = "free" /\ reader[c] = "off" /\ beat[c] = "off" /\ c \notin {conn, last}
        /\ \A p \in Proc : held[p] # c

Dial(p) ==
    /\ pc[p] = "dial"
    /\ \E c \in Conn :
         /\ Unreferenced(c)
         /\ link' = [link EXCEPT ![c] = "open"]
         /\ cancelled' = [cancelled EXCEPT ![c] = FALSE]
         /\ held' = [held EXCEPT ![p] = c]
    /\ Goto(p, "publish")
    /\ UNCHANGED <<clientVars, reader, beat, events, faults>>

\* connect finds the client closed or connected and closes what it dialled.
Discard(p) ==
    /\ pc[p] = "publish" /\ (closed \/ conn # NoConn)
    /\ link' = [link EXCEPT ![held[p]] = "free"]
    /\ held' = [held EXCEPT ![p] = NoConn]
    /\ Goto(p, AfterConnect(p, FALSE))
    /\ UNCHANGED <<clientVars, cancelled, reader, beat, events, faults>>

\* Faulty variant: the published connection is not looked at.
PublishBlindly(p) ==
    /\ pc[p] = "publish" /\ ~closed
    /\ conn' = held[p] /\ last' = held[p]
    /\ cancelled' = IF last = NoConn THEN cancelled ELSE [cancelled EXCEPT ![last] = TRUE]
    /\ reader' = [reader EXCEPT ![held[p]] = "reading"]
    /\ beat' = [beat EXCEPT ![held[p]] = "on"]
    /\ held' = [held EXCEPT ![p] = NoConn]
    /\ Goto(p, "replay")
    /\ UNCHANGED <<closed, ctxDone, reconnecting, link, events, faults>>

\* connect publishes the connection, cancels the loops of the one before it
\* and starts its own.
Publish(p) ==
    /\ pc[p] = "publish" /\ ~closed /\ conn = NoConn
    /\ conn' = held[p] /\ last' = held[p]
    /\ cancelled' = IF last = NoConn THEN cancelled ELSE [cancelled EXCEPT ![last] = TRUE]
    /\ reader' = [reader EXCEPT ![held[p]] = "reading"]
    /\ beat' = [beat EXCEPT ![held[p]] = "on"]
    /\ held' = [held EXCEPT ![p] = NoConn]
    /\ Goto(p, "replay")
    /\ UNCHANGED <<closed, ctxDone, reconnecting, link, events, faults>>

ReplayDone(p) ==
    /\ pc[p] = "replay"
    /\ Goto(p, AfterConnect(p, TRUE))
    /\ UNCHANGED <<clientVars, connVars, held, faults>>

-----------------------------------------------------------------------------
(* readLoop                                                                *)

Cancelled(c) == cancelled[c] \/ ctxDone

Emitting == {"emitFirst", "emit"}

\* A frame: a book with its midpoint, a batch, or a single event.
ReadMessage(c) ==
    /\ reader[c] = "reading" /\ link[c] = "open" /\ ~Cancelled(c)
    /\ \E where \in Emitting : reader' = [reader EXCEPT ![c] = where]
    /\ UNCHANGED <<clientVars, link, cancelled, beat, events, pc, held, faults>>

Emitted(c) == reader' = [reader EXCEPT ![c] = IF @ = "emitFirst" THEN "emit" ELSE "reading"]

\* emitEvent blocks while c.events is full, until its connection is cancelled.
emitEvent(c) ==
    /\ reader[c] \in Emitting /\ Emitted(c)
    /\ \/ events < EventCap /\ events' = events + 1
       \/ Cancelled(c) /\ UNCHANGED events
    /\ UNCHANGED <<clientVars, link, cancelled, beat, pc, held, faults>>

\* The application receives from Events().
ReceiveEvent ==
    /\ events > 0
    /\ events' = events - 1
    /\ UNCHANGED <<clientVars, link, cancelled, reader, beat, pc, held, faults>>

\* conn.Read fails; a cancelled Read has closed the connection.
ReadError(c) ==
    /\ reader[c] = "reading" /\ (link[c] = "dead" \/ Cancelled(c))
    /\ reader' = [reader EXCEPT ![c] = IF Cancelled(c) THEN "off" ELSE "mark"]
    /\ link' = [link EXCEPT ![c] = "dead"]
    /\ UNCHANGED <<clientVars, cancelled, beat, events, pc, held, faults>>

-----------------------------------------------------------------------------
(* heartbeatLoop                                                           *)

\* Faulty variant: a silent peer is given up without closing the socket.
HeartbeatExpiredOpen(c) ==
    /\ beat[c] = "on" /\ ~Cancelled(c)
    /\ link[c] \in {"dead", "silent"} \/ reader[c] \in Emitting
    /\ beat' = [beat EXCEPT ![c] = "mark"]
    /\ UNCHANGED <<clientVars, link, cancelled, reader, events, pc, held, faults>>

\* A PING that cannot be written, or no PONG in time: the peer is gone, or the
\* reader is stuck behind a full c.events and does not see it.
HeartbeatExpired(c) ==
    /\ beat[c] = "on" /\ ~Cancelled(c)
    /\ link[c] \in {"dead", "silent"} \/ reader[c] \in Emitting
    /\ link' = [link EXCEPT ![c] = "dead"]
    /\ beat' = [beat EXCEPT ![c] = "mark"]
    /\ UNCHANGED <<clientVars, cancelled, reader, events, pc, held, faults>>

HeartbeatCancelled(c) ==
    /\ beat[c] = "on" /\ Cancelled(c)
    /\ beat' = [beat EXCEPT ![c] = "off"]
    /\ UNCHANGED <<clientVars, link, cancelled, reader, events, pc, held, faults>>

-----------------------------------------------------------------------------
(* markDisconnected and scheduleReconnect, the end of both loops           *)

\* A loop withdraws only its own connection: by now another may be published.
markDisconnected(c) == conn' = IF conn = c THEN NoConn ELSE conn

scheduleReconnect ==
    IF closed \/ reconnecting
    THEN UNCHANGED <<reconnecting, pc>>
    ELSE reconnecting' = TRUE /\ pc' = [pc EXCEPT ![Reconnector] = "loop"]

ReaderMarks(c) ==
    /\ reader[c] = "mark" /\ markDisconnected(c)
    /\ reader' = [reader EXCEPT ![c] = "schedule"]
    /\ UNCHANGED <<last, closed, ctxDone, reconnecting, link, cancelled, beat, events,
                   pc, held, faults>>

HeartbeatMarks(c) ==
    /\ beat[c] = "mark" /\ markDisconnected(c)
    /\ beat' = [beat EXCEPT ![c] = "schedule"]
    /\ UNCHANGED <<last, closed, ctxDone, reconnecting, link, cancelled, reader, events,
                   pc, held, faults>>

ReaderSchedules(c) ==
    /\ reader[c] = "schedule" /\ scheduleReconnect
    /\ reader' = [reader EXCEPT ![c] = "off"]
    /\ UNCHANGED <<conn, last, closed, ctxDone, link, cancelled, beat, events, held, faults>>

HeartbeatSchedules(c) ==
    /\ beat[c] = "schedule" /\ scheduleReconnect
    /\ beat' = [beat EXCEPT ![c] = "off"]
    /\ UNCHANGED <<conn, last, closed, ctxDone, link, cancelled, reader, events, held, faults>>

-----------------------------------------------------------------------------
(* The network (external)                                                  *)

\* The peer closes, or vanishes without a word.
ConnectionLost(c) ==
    /\ link[c] = "open" /\ reader[c] # "off" /\ Fault
    /\ \E state \in {"silent", "dead"} : link' = [link EXCEPT ![c] = state]
    /\ UNCHANGED <<clientVars, cancelled, reader, beat, events, pc, held>>

\* A dead connection nobody refers to is collected.
Collect(c) ==
    /\ link[c] = "dead" /\ reader[c] = "off" /\ beat[c] = "off" /\ c \notin {conn, last}
    /\ \A p \in Proc : held[p] # c
    /\ link' = [link EXCEPT ![c] = "free"]
    /\ UNCHANGED <<clientVars, cancelled, reader, beat, events, pc, held, faults>>

-----------------------------------------------------------------------------
(* attemptReconnect                                                        *)

ReconnectLoop ==
    /\ pc[Reconnector] = "loop"
    /\ Goto(Reconnector, IF closed THEN "exit" ELSE "dial")
    /\ UNCHANGED <<clientVars, connVars, held, faults>>

ReconnectBackoff ==
    /\ pc[Reconnector] = "backoff"
    /\ \E where \in (IF ctxDone THEN {"exit", "loop"} ELSE {"loop"}) : Goto(Reconnector, where)
    /\ UNCHANGED <<clientVars, connVars, held, faults>>

\* The deferred function clears the flag and looks at nothing else.
ReconnectExit ==
    /\ pc[Reconnector] = "exit"
    /\ reconnecting' = FALSE
    /\ Goto(Reconnector, "idle")
    /\ UNCHANGED <<conn, last, closed, ctxDone, connVars, held, faults>>

-----------------------------------------------------------------------------
(* Close                                                                   *)

\* A second Close returns at once and is left out.
Close(u) ==
    /\ pc[u] = "idle" /\ ~closed
    /\ closed' = TRUE
    /\ held' = [held EXCEPT ![u] = conn]
    /\ Goto(u, "cancel")
    /\ UNCHANGED <<conn, last, ctxDone, reconnecting, connVars, faults>>

\* c.ctx is the parent of every loopCtx; conn.Close ends the connection.
CloseCancel(u) ==
    /\ pc[u] = "cancel"
    /\ ctxDone' = TRUE
    /\ link' = IF held[u] # NoConn THEN [link EXCEPT ![held[u]] = "dead"] ELSE link
    /\ Goto(u, "wait")
    /\ UNCHANGED <<conn, last, closed, reconnecting, cancelled, reader, beat, events,
                   held, faults>>

\* <-done, only if there was a connection to close.
CloseWait(u) ==
    /\ pc[u] = "wait"
    /\ held[u] # NoConn => reader[held[u]] = "off"
    /\ held' = [held EXCEPT ![u] = NoConn]
    /\ Goto(u, "closed")
    /\ UNCHANGED <<clientVars, connVars, faults>>

-----------------------------------------------------------------------------
CloseStep(u) == CloseCancel(u) \/ CloseWait(u)

ConnectStep(p) == DialFails(p) \/ Dial(p) \/ Discard(p) \/ Publish(p) \/ ReplayDone(p)

ReaderStep(c) == emitEvent(c) \/ ReadError(c) \/ ReaderMarks(c) \/ ReaderSchedules(c)

HeartbeatStep(c) ==
    HeartbeatExpired(c) \/ HeartbeatCancelled(c) \/ HeartbeatMarks(c) \/ HeartbeatSchedules(c)

ReconnectStep == ReconnectLoop \/ ReconnectBackoff \/ ReconnectExit

Terminated ==
    /\ closed
    /\ \A p \in Proc : pc[p] \in {"idle", "closed"}
    /\ \A c \in Conn : reader[c] = "off" /\ beat[c] = "off"
    /\ UNCHANGED vars

Next ==
    \/ \E u \in User : Connect(u) \/ Close(u) \/ CloseStep(u)
    \/ \E p \in Proc : ConnectStep(p)
    \/ \E c \in Conn : \/ ReadMessage(c) \/ ReaderStep(c) \/ HeartbeatStep(c)
                       \/ ConnectionLost(c) \/ Collect(c)
    \/ ReceiveEvent \/ ReconnectStep \/ Terminated

Spec == Init /\ [][Next]_vars

-----------------------------------------------------------------------------
(* Properties                                                              *)

Where == {"idle", "dial", "publish", "replay", "loop", "backoff", "exit", "cancel", "wait",
          "closed"}
Loop == {"off", "mark", "schedule"}

\* The type invariant: every field holds what its Go type and its use allow.
TypeOK ==
    /\ conn \in Conn \cup {NoConn} /\ last \in Conn \cup {NoConn}
    /\ closed \in BOOLEAN /\ ctxDone \in BOOLEAN /\ reconnecting \in BOOLEAN
    /\ events \in 0..EventCap /\ faults \in 0..MaxFaults
    /\ link \in [Conn -> {"free", "open", "silent", "dead"}] /\ cancelled \in [Conn -> BOOLEAN]
    /\ reader \in [Conn -> Loop \cup Emitting \cup {"reading"}] /\ beat \in [Conn -> Loop \cup {"on"}]
    /\ pc \in [Proc -> Where] /\ held \in [Proc -> Conn \cup {NoConn}]

\* Every open socket has an owner: the process that dialled it, or its reader.
\* A connection dialled too late, replaced or given up is never left behind.
OpenIsOwned ==
    \A c \in Conn : link[c] \in {"open", "silent"} =>
        reader[c] # "off" \/ \E p \in Proc : held[p] = c

\* Of the connections that still deliver under a live context, only the
\* published one is open: no two streams are merged into Events.
OneOpenStream ==
    \A c \in Conn : (link[c] = "open" /\ reader[c] \in Emitting \cup {"reading"} /\ ~Cancelled(c))
                        => conn = c

\* The published connection as WsLink describes it.
Link == INSTANCE WsLink WITH wire <- IF conn = NoConn THEN "none" ELSE link[conn]

\* connect, markDisconnected and Close together implement WsLink: a stale
\* reader or heartbeat never withdraws a connection that is not its own, and
\* none is replaced while it is published.
ImplementsLink == Link!LinkSpec

\* A client that lost its connection has somebody who will reconnect, as
\* readLoop means it to ("try to reconnect"): the reconnecting goroutine, or a
\* loop that has still to schedule it.
ReconnectPending ==
    (~closed /\ last # NoConn /\ conn = NoConn) =>
        reconnecting \/ \E c \in Conn : reader[c] # "off" \/ beat[c] # "off"

\* connect, the loops and Close never lose track of a socket: each open one has an
\* owner, and only the published one feeds Events.
ConnectionsOwned == TypeOK /\ OpenIsOwned /\ OneOpenStream
=============================================================================
