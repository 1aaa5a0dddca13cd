-------------------------- MODULE WsConnectionProofs --------------------------
(* Proofs about WsConnection, for every number of callers, connections and  *)
(* faults and every capacity of Events.                                     *)
EXTENDS WsConnection, TLAPS

(***************************************************************************)
(* The inductive invariant: what OpenIsOwned, OneOpenStream and the mapping *)
(* to WsLink rest on.                                                       *)
(***************************************************************************)

\* c.conn is nil or the connection published last, whose socket is not reused.
LastInv ==
    /\ conn \in {NoConn, last}
    /\ last # NoConn => link[last] # "free"

\* A loop reaches markDisconnected and scheduleReconnect only with its socket dead.
LoopsInv ==
    \A c \in Conn :
        reader[c] \in {"mark", "schedule"} \/ beat[c] \in {"mark", "schedule"} => link[c] = "dead"

\* A dialled connection belongs to its dialler until it is published.
HeldInv ==
    \A p \in Proc : pc[p] = "publish" =>
        /\ held[p] \in Conn /\ held[p] # last
        /\ link[held[p]] = "open" /\ reader[held[p]] = "off" /\ beat[held[p]] = "off"

\* Two processes never hold the same dialled connection.
DistinctInv ==
    \A p, q \in Proc : (pc[p] = "publish" /\ pc[q] = "publish" /\ p # q) => held[p] # held[q]

\* Close holds the connection published last, if any: once closed is set, no
\* other is published.  After conn.Close its socket stays dead.
CloserInv ==
    \A p \in Proc : pc[p] \in {"cancel", "wait"} =>
        /\ closed /\ held[p] \in {NoConn, last}
        /\ pc[p] = "wait" /\ held[p] # NoConn => link[held[p]] = "dead"

\* Nobody else holds a connection.
NoneInv == \A p \in Proc : pc[p] \notin {"publish", "cancel", "wait"} => held[p] = NoConn

\* c.reconnecting is set while attemptReconnect runs, so a second is never started.
ReconnectorInv == pc[Reconnector] # "idle" => reconnecting

IInv ==
    /\ TypeOK /\ ReconnectorInv /\ NoneInv /\ LastInv /\ LoopsInv /\ HeldInv /\ DistinctInv
    /\ CloserInv /\ OpenIsOwned /\ OneOpenStream

-----------------------------------------------------------------------------
(* Every step preserves each part.                                         *)

\* Every step keeps the fields within their types.
LEMMA TypeStep ==
    TypeOK /\ [Next]_vars => TypeOK'
<1> SUFFICES ASSUME TypeOK, [Next]_vars PROVE TypeOK'
  OBVIOUS
<1> DEFINE Goal == TypeOK'
<1> SUFFICES Goal
  OBVIOUS
<1>t1. TypeOK
  OBVIOUS
<1>t2. Reconnector \in Proc /\ Reconnector \notin User /\ User \subseteq Proc
  BY ProcAssumption DEF Proc
<1>t3. EventCap \in Nat /\ MaxFaults \in Nat
  BY BoundAssumption
<1>1. ASSUME UNCHANGED <<conn, last, closed, ctxDone, reconnecting, events, link, cancelled, reader, beat, pc, held, faults>> PROVE Goal
  BY <1>1, <1>t1, <1>t2, <1>t3 DEF TypeOK, Where, Loop, Emitting
<1>2. ASSUME NEW u \in User, Connect(u) PROVE Goal
  BY <1>2, <1>t1, <1>t2, <1>t3 DEF Connect, Goto, clientVars, connVars, TypeOK, Where, Loop,
     Emitting
<1>3. ASSUME NEW u \in User, Close(u) PROVE Goal
  BY <1>3, <1>t1, <1>t2, <1>t3 DEF Close, Goto, connVars, TypeOK, Where, Loop, Emitting
<1>4. ASSUME NEW u \in User, CloseCancel(u) PROVE Goal
  BY <1>4, <1>t1, <1>t2, <1>t3 DEF CloseCancel, Goto, TypeOK, Where, Loop, Emitting
<1>5. ASSUME NEW u \in User, CloseWait(u) PROVE Goal
  BY <1>5, <1>t1, <1>t2, <1>t3 DEF CloseWait, Goto, clientVars, connVars, TypeOK, Where, Loop,
     Emitting
<1>6. ASSUME NEW p \in Proc, DialFails(p) PROVE Goal
  BY <1>6, <1>t1, <1>t2, <1>t3 DEF DialFails, Fault, AfterConnect, Goto, clientVars, connVars,
     TypeOK, Where, Loop, Emitting
<1>7. ASSUME NEW p \in Proc, Dial(p) PROVE Goal
  BY <1>7, <1>t1, <1>t2, <1>t3 DEF Dial, Unreferenced, Goto, clientVars, TypeOK, Where, Loop,
     Emitting
<1>8. ASSUME NEW p \in Proc, Discard(p) PROVE Goal
  BY <1>8, <1>t1, <1>t2, <1>t3 DEF Discard, AfterConnect, Goto, clientVars, TypeOK, Where,
     Loop, Emitting
<1>9. ASSUME NEW p \in Proc, Publish(p) PROVE Goal
  BY <1>9, <1>t1, <1>t2, <1>t3 DEF Publish, Goto, TypeOK, Where, Loop, Emitting
<1>10. ASSUME NEW p \in Proc, ReplayDone(p) PROVE Goal
  BY <1>10, <1>t1, <1>t2, <1>t3 DEF ReplayDone, AfterConnect, Goto, clientVars, connVars,
     TypeOK, Where, Loop, Emitting
<1>11. ASSUME NEW c \in Conn, ReadMessage(c) PROVE Goal
  BY <1>11, <1>t1, <1>t2, <1>t3 DEF ReadMessage, Emitting, clientVars, TypeOK, Where, Loop,
     Emitting
<1>12. ASSUME NEW c \in Conn, emitEvent(c) PROVE Goal
  BY <1>12, <1>t1, <1>t2, <1>t3 DEF emitEvent, Emitted, Emitting, clientVars, TypeOK, Where,
     Loop, Emitting
<1>13. ASSUME NEW c \in Conn, ReadError(c) PROVE Goal
  BY <1>13, <1>t1, <1>t2, <1>t3 DEF ReadError, clientVars, TypeOK, Where, Loop, Emitting
<1>14. ASSUME NEW c \in Conn, ReaderMarks(c) PROVE Goal
  BY <1>14, <1>t1, <1>t2, <1>t3 DEF ReaderMarks, markDisconnected, TypeOK, Where, Loop,
     Emitting
<1>15. ASSUME NEW c \in Conn, ReaderSchedules(c) PROVE Goal
  BY <1>15, <1>t1, <1>t2, <1>t3 DEF ReaderSchedules, scheduleReconnect, TypeOK, Where, Loop,
     Emitting
<1>16. ASSUME NEW c \in Conn, HeartbeatExpired(c) PROVE Goal
  BY <1>16, <1>t1, <1>t2, <1>t3 DEF HeartbeatExpired, clientVars, TypeOK, Where, Loop, Emitting
<1>17. ASSUME NEW c \in Conn, HeartbeatCancelled(c) PROVE Goal
  BY <1>17, <1>t1, <1>t2, <1>t3 DEF HeartbeatCancelled, clientVars, TypeOK, Where, Loop,
     Emitting
<1>18. ASSUME NEW c \in Conn, HeartbeatMarks(c) PROVE Goal
  BY <1>18, <1>t1, <1>t2, <1>t3 DEF HeartbeatMarks, markDisconnected, TypeOK, Where, Loop,
     Emitting
<1>19. ASSUME NEW c \in Conn, HeartbeatSchedules(c) PROVE Goal
  BY <1>19, <1>t1, <1>t2, <1>t3 DEF HeartbeatSchedules, scheduleReconnect, TypeOK, Where, Loop,
     Emitting
<1>20. ASSUME NEW c \in Conn, ConnectionLost(c) PROVE Goal
  BY <1>20, <1>t1, <1>t2, <1>t3 DEF ConnectionLost, Fault, clientVars, TypeOK, Where, Loop,
     Emitting
<1>21. ASSUME NEW c \in Conn, Collect(c) PROVE Goal
  BY <1>21, <1>t1, <1>t2, <1>t3 DEF Collect, clientVars, TypeOK, Where, Loop, Emitting
<1>22. ASSUME ReceiveEvent PROVE Goal
  BY <1>22, <1>t1, <1>t2, <1>t3 DEF ReceiveEvent, clientVars, TypeOK, Where, Loop, Emitting
<1>23. ASSUME ReconnectLoop PROVE Goal
  BY <1>23, <1>t1, <1>t2, <1>t3 DEF ReconnectLoop, Goto, clientVars, connVars, TypeOK, Where,
     Loop, Emitting
<1>24. ASSUME ReconnectBackoff PROVE Goal
  BY <1>24, <1>t1, <1>t2, <1>t3 DEF ReconnectBackoff, Goto, clientVars, connVars, TypeOK,
     Where, Loop, Emitting
<1>25. ASSUME ReconnectExit PROVE Goal
  BY <1>25, <1>t1, <1>t2, <1>t3 DEF ReconnectExit, Goto, connVars, TypeOK, Where, Loop,
     Emitting
<1>26. QED
  BY <1>1, <1>2, <1>3, <1>4, <1>5, <1>6, <1>7, <1>8, <1>9, <1>10, <1>11, <1>12, <1>13, <1>14,
     <1>15, <1>16, <1>17, <1>18, <1>19, <1>20, <1>21, <1>22, <1>23, <1>24, <1>25 DEF Next,
     CloseStep, ConnectStep, ReaderStep, HeartbeatStep, ReconnectStep, Terminated, vars,
     clientVars, connVars

\* attemptReconnect is started once.
LEMMA ReconnectorStep ==
    TypeOK /\ ReconnectorInv /\ [Next]_vars => ReconnectorInv'
<1> SUFFICES ASSUME TypeOK, ReconnectorInv, [Next]_vars PROVE ReconnectorInv'
  OBVIOUS
<1> DEFINE Goal == ReconnectorInv'
<1> SUFFICES Goal
  OBVIOUS
<1>t1. /\ pc \in [Proc -> Where] /\ held \in [Proc -> Conn \cup {NoConn}]
       /\ link \in [Conn -> {"free", "open", "silent", "dead"}] /\ cancelled \in [Conn -> BOOLEAN]
       /\ reader \in [Conn -> Loop \cup Emitting \cup {"reading"}]
       /\ beat \in [Conn -> Loop \cup {"on"}]
       /\ conn \in Conn \cup {NoConn} /\ last \in Conn \cup {NoConn}
  BY DEF TypeOK
<1>t2. Reconnector \in Proc /\ Reconnector \notin User /\ User \subseteq Proc /\ NoConn \notin Conn
  BY ProcAssumption DEF Proc
<1>t3. ReconnectorInv
  OBVIOUS
<1>1. ASSUME UNCHANGED <<pc, reconnecting>> PROVE Goal
  BY <1>1, <1>t1, <1>t2, <1>t3 DEF ReconnectorInv
<1>2. ASSUME NEW u \in User, Connect(u) PROVE Goal
  BY <1>2, <1>t1, <1>t2, <1>t3 DEF Connect, Goto, clientVars, connVars, ReconnectorInv
<1>3. ASSUME NEW u \in User, Close(u) PROVE Goal
  BY <1>3, <1>t1, <1>t2, <1>t3 DEF Close, Goto, connVars, ReconnectorInv
<1>4. ASSUME NEW u \in User, CloseCancel(u) PROVE Goal
  BY <1>4, <1>t1, <1>t2, <1>t3 DEF CloseCancel, Goto, ReconnectorInv
<1>5. ASSUME NEW u \in User, CloseWait(u) PROVE Goal
  BY <1>5, <1>t1, <1>t2, <1>t3 DEF CloseWait, Goto, clientVars, connVars, ReconnectorInv
<1>6. ASSUME NEW p \in Proc, DialFails(p) PROVE Goal
  BY <1>6, <1>t1, <1>t2, <1>t3 DEF DialFails, Fault, AfterConnect, Goto, clientVars, connVars,
     ReconnectorInv
<1>7. ASSUME NEW p \in Proc, Dial(p) PROVE Goal
  BY <1>7, <1>t1, <1>t2, <1>t3 DEF Dial, Unreferenced, Goto, clientVars, ReconnectorInv
<1>8. ASSUME NEW p \in Proc, Discard(p) PROVE Goal
  BY <1>8, <1>t1, <1>t2, <1>t3 DEF Discard, AfterConnect, Goto, clientVars, ReconnectorInv
<1>9. ASSUME NEW p \in Proc, Publish(p) PROVE Goal
  BY <1>9, <1>t1, <1>t2, <1>t3 DEF Publish, Goto, ReconnectorInv
<1>10. ASSUME NEW p \in Proc, ReplayDone(p) PROVE Goal
  BY <1>10, <1>t1, <1>t2, <1>t3 DEF ReplayDone, AfterConnect, Goto, clientVars, connVars,
     ReconnectorInv
<1>11. ASSUME NEW c \in Conn, ReaderSchedules(c) PROVE Goal
  BY <1>11, <1>t1, <1>t2, <1>t3 DEF ReaderSchedules, scheduleReconnect, ReconnectorInv
<1>12. ASSUME NEW c \in Conn, HeartbeatSchedules(c) PROVE Goal
  BY <1>12, <1>t1, <1>t2, <1>t3 DEF HeartbeatSchedules, scheduleReconnect, ReconnectorInv
<1>13. ASSUME ReconnectLoop PROVE Goal
  BY <1>13, <1>t1, <1>t2, <1>t3 DEF ReconnectLoop, Goto, clientVars, connVars, ReconnectorInv
<1>14. ASSUME ReconnectBackoff PROVE Goal
  BY <1>14, <1>t1, <1>t2, <1>t3 DEF ReconnectBackoff, Goto, clientVars, connVars,
     ReconnectorInv
<1>15. ASSUME ReconnectExit PROVE Goal
  BY <1>15, <1>t1, <1>t2, <1>t3 DEF ReconnectExit, Goto, connVars, ReconnectorInv
<1>16. QED
  BY <1>1, <1>2, <1>3, <1>4, <1>5, <1>6, <1>7, <1>8, <1>9, <1>10, <1>11, <1>12, <1>13, <1>14,
     <1>15 DEF Next, CloseStep, ConnectStep, ReaderStep, HeartbeatStep, ReconnectStep,
     Terminated, ReadMessage, clientVars, emitEvent, ReadError, ReaderMarks, HeartbeatExpired,
     HeartbeatCancelled, HeartbeatMarks, ConnectionLost, Collect, ReceiveEvent, vars, connVars

\* Every step leaves a connection with a process only between Dial and Publish and in Close.
LEMMA NoneStep ==
    TypeOK /\ ReconnectorInv /\ NoneInv /\ [Next]_vars => NoneInv'
<1> SUFFICES ASSUME TypeOK, ReconnectorInv, NoneInv, [Next]_vars,
                    NEW q \in Proc, pc'[q] \notin {"publish", "cancel", "wait"}
             PROVE  held'[q] = NoConn
  BY DEF NoneInv
<1> DEFINE Goal == held'[q] = NoConn
<1> SUFFICES Goal
  OBVIOUS
<1>t1. /\ pc \in [Proc -> Where] /\ held \in [Proc -> Conn \cup {NoConn}]
       /\ link \in [Conn -> {"free", "open", "silent", "dead"}] /\ cancelled \in [Conn -> BOOLEAN]
       /\ reader \in [Conn -> Loop \cup Emitting \cup {"reading"}]
       /\ beat \in [Conn -> Loop \cup {"on"}]
       /\ conn \in Conn \cup {NoConn} /\ last \in Conn \cup {NoConn}
  BY DEF TypeOK
<1>t2. Reconnector \in Proc /\ Reconnector \notin User /\ User \subseteq Proc /\ NoConn \notin Conn
  BY ProcAssumption DEF Proc
<1>t3. pc[q] \notin {"publish", "cancel", "wait"} => held[q] = NoConn
  BY DEF NoneInv
<1>t4. ~reconnecting => pc[Reconnector] = "idle"
  BY DEF ReconnectorInv
<1>1. ASSUME UNCHANGED <<pc, held>> PROVE Goal
  BY <1>1, <1>t1, <1>t2, <1>t3, <1>t4
<1>2. ASSUME NEW u \in User, Connect(u) PROVE Goal
  BY <1>2, <1>t1, <1>t2, <1>t3, <1>t4 DEF Connect, Goto, clientVars, connVars
<1>3. ASSUME NEW u \in User, Close(u) PROVE Goal
  BY <1>3, <1>t1, <1>t2, <1>t3, <1>t4 DEF Close, Goto, connVars
<1>4. ASSUME NEW u \in User, CloseCancel(u) PROVE Goal
  BY <1>4, <1>t1, <1>t2, <1>t3, <1>t4 DEF CloseCancel, Goto
<1>5. ASSUME NEW u \in User, CloseWait(u) PROVE Goal
  BY <1>5, <1>t1, <1>t2, <1>t3, <1>t4 DEF CloseWait, Goto, clientVars, connVars
<1>6. ASSUME NEW p \in Proc, DialFails(p) PROVE Goal
  BY <1>6, <1>t1, <1>t2, <1>t3, <1>t4 DEF DialFails, Fault, AfterConnect, Goto, clientVars,
     connVars
<1>7. ASSUME NEW p \in Proc, Dial(p) PROVE Goal
  BY <1>7, <1>t1, <1>t2, <1>t3, <1>t4 DEF Dial, Unreferenced, Goto, clientVars
<1>8. ASSUME NEW p \in Proc, Discard(p) PROVE Goal
  BY <1>8, <1>t1, <1>t2, <1>t3, <1>t4 DEF Discard, AfterConnect, Goto, clientVars
<1>9. ASSUME NEW p \in Proc, Publish(p) PROVE Goal
  BY <1>9, <1>t1, <1>t2, <1>t3, <1>t4 DEF Publish, Goto
<1>10. ASSUME NEW p \in Proc, ReplayDone(p) PROVE Goal
  BY <1>10, <1>t1, <1>t2, <1>t3, <1>t4 DEF ReplayDone, AfterConnect, Goto, clientVars, connVars
<1>11. ASSUME NEW c \in Conn, ReaderSchedules(c) PROVE Goal
  BY <1>11, <1>t1, <1>t2, <1>t3, <1>t4 DEF ReaderSchedules, scheduleReconnect
<1>12. ASSUME NEW c \in Conn, HeartbeatSchedules(c) PROVE Goal
  BY <1>12, <1>t1, <1>t2, <1>t3, <1>t4 DEF HeartbeatSchedules, scheduleReconnect
<1>13. ASSUME ReconnectLoop PROVE Goal
  BY <1>13, <1>t1, <1>t2, <1>t3, <1>t4 DEF ReconnectLoop, Goto, clientVars, connVars
<1>14. ASSUME ReconnectBackoff PROVE Goal
  BY <1>14, <1>t1, <1>t2, <1>t3, <1>t4 DEF ReconnectBackoff, Goto, clientVars, connVars
<1>15. ASSUME ReconnectExit PROVE Goal
  BY <1>15, <1>t1, <1>t2, <1>t3, <1>t4 DEF ReconnectExit, Goto, connVars
<1>16. QED
  BY <1>1, <1>2, <1>3, <1>4, <1>5, <1>6, <1>7, <1>8, <1>9, <1>10, <1>11, <1>12, <1>13, <1>14,
     <1>15 DEF Next, CloseStep, ConnectStep, ReaderStep, HeartbeatStep, ReconnectStep,
     Terminated, ReadMessage, clientVars, emitEvent, ReadError, ReaderMarks, HeartbeatExpired,
     HeartbeatCancelled, HeartbeatMarks, ConnectionLost, Collect, ReceiveEvent, vars, connVars

\* Every step keeps the published connection the last one, on a socket in use.
LEMMA LastStep ==
    TypeOK /\ LastInv /\ HeldInv /\ [Next]_vars => LastInv'
<1> SUFFICES ASSUME TypeOK, LastInv, HeldInv, [Next]_vars PROVE LastInv'
  OBVIOUS
<1> DEFINE Goal == LastInv'
<1> SUFFICES Goal
  OBVIOUS
<1>t1. /\ pc \in [Proc -> Where] /\ held \in [Proc -> Conn \cup {NoConn}]
       /\ link \in [Conn -> {"free", "open", "silent", "dead"}] /\ cancelled \in [Conn -> BOOLEAN]
       /\ reader \in [Conn -> Loop \cup Emitting \cup {"reading"}]
       /\ beat \in [Conn -> Loop \cup {"on"}]
       /\ conn \in Conn \cup {NoConn} /\ last \in Conn \cup {NoConn}
  BY DEF TypeOK
<1>t2. Reconnector \in Proc /\ Reconnector \notin User /\ User \subseteq Proc /\ NoConn \notin Conn
  BY ProcAssumption DEF Proc
<1>t3. LastInv
  OBVIOUS
<1>t4. \A p \in Proc : pc[p] = "publish" => held[p] \in Conn /\ held[p] # last /\ link[held[p]] = "open"
  BY DEF HeldInv
<1>1. ASSUME UNCHANGED <<conn, last, link>> PROVE Goal
  BY <1>1, <1>t1, <1>t2, <1>t3, <1>t4 DEF LastInv
<1>2. ASSUME NEW u \in User, CloseCancel(u) PROVE Goal
  BY <1>2, <1>t1, <1>t2, <1>t3, <1>t4 DEF CloseCancel, Goto, LastInv
<1>3. ASSUME NEW p \in Proc, Dial(p) PROVE Goal
  BY <1>3, <1>t1, <1>t2, <1>t3, <1>t4 DEF Dial, Unreferenced, Goto, clientVars, LastInv
<1>4. ASSUME NEW p \in Proc, Discard(p) PROVE Goal
  BY <1>4, <1>t1, <1>t2, <1>t3, <1>t4 DEF Discard, AfterConnect, Goto, clientVars, LastInv
<1>5. ASSUME NEW p \in Proc, Publish(p) PROVE Goal
  BY <1>5, <1>t1, <1>t2, <1>t3, <1>t4 DEF Publish, Goto, LastInv
<1>6. ASSUME NEW c \in Conn, ReadError(c) PROVE Goal
  BY <1>6, <1>t1, <1>t2, <1>t3, <1>t4 DEF ReadError, clientVars, LastInv
<1>7. ASSUME NEW c \in Conn, ReaderMarks(c) PROVE Goal
  BY <1>7, <1>t1, <1>t2, <1>t3, <1>t4 DEF ReaderMarks, markDisconnected, LastInv
<1>8. ASSUME NEW c \in Conn, HeartbeatExpired(c) PROVE Goal
  BY <1>8, <1>t1, <1>t2, <1>t3, <1>t4 DEF HeartbeatExpired, clientVars, LastInv
<1>9. ASSUME NEW c \in Conn, HeartbeatMarks(c) PROVE Goal
  BY <1>9, <1>t1, <1>t2, <1>t3, <1>t4 DEF HeartbeatMarks, markDisconnected, LastInv
<1>10. ASSUME NEW c \in Conn, ConnectionLost(c) PROVE Goal
  BY <1>10, <1>t1, <1>t2, <1>t3, <1>t4 DEF ConnectionLost, Fault, clientVars, LastInv
<1>11. ASSUME NEW c \in Conn, Collect(c) PROVE Goal
  BY <1>11, <1>t1, <1>t2, <1>t3, <1>t4 DEF Collect, clientVars, LastInv
<1>12. QED
  BY <1>1, <1>2, <1>3, <1>4, <1>5, <1>6, <1>7, <1>8, <1>9, <1>10, <1>11 DEF Next, CloseStep,
     ConnectStep, ReaderStep, HeartbeatStep, ReconnectStep, Terminated, Connect, clientVars,
     connVars, Close, CloseWait, DialFails, ReplayDone, ReadMessage, emitEvent,
     ReaderSchedules, HeartbeatCancelled, HeartbeatSchedules, ReceiveEvent, ReconnectLoop,
     ReconnectBackoff, ReconnectExit, vars

\* Every step keeps the sockets of ending loops dead.
LEMMA LoopsStep ==
    TypeOK /\ LoopsInv /\ HeldInv /\ [Next]_vars => LoopsInv'
<1> SUFFICES ASSUME TypeOK, LoopsInv, HeldInv, [Next]_vars,
                    NEW d \in Conn, reader'[d] \in {"mark", "schedule"} \/ beat'[d] \in {"mark", "schedule"}
             PROVE  link'[d] = "dead"
  BY DEF LoopsInv
<1> DEFINE Goal == link'[d] = "dead"
<1> SUFFICES Goal
  OBVIOUS
<1>t1. /\ pc \in [Proc -> Where] /\ held \in [Proc -> Conn \cup {NoConn}]
       /\ link \in [Conn -> {"free", "open", "silent", "dead"}] /\ cancelled \in [Conn -> BOOLEAN]
       /\ reader \in [Conn -> Loop \cup Emitting \cup {"reading"}]
       /\ beat \in [Conn -> Loop \cup {"on"}]
       /\ conn \in Conn \cup {NoConn} /\ last \in Conn \cup {NoConn}
  BY DEF TypeOK
<1>t2. Reconnector \in Proc /\ Reconnector \notin User /\ User \subseteq Proc /\ NoConn \notin Conn
  BY ProcAssumption DEF Proc
<1>t3. reader[d] \in {"mark", "schedule"} \/ beat[d] \in {"mark", "schedule"} => link[d] = "dead"
  BY DEF LoopsInv
<1>t4. \A p \in Proc : pc[p] = "publish" =>
            held[p] \in Conn /\ reader[held[p]] = "off" /\ beat[held[p]] = "off"
  BY DEF HeldInv
<1>1. ASSUME UNCHANGED <<link, reader, beat>> PROVE Goal
  BY <1>1, <1>t1, <1>t2, <1>t3, <1>t4
<1>2. ASSUME NEW u \in User, CloseCancel(u) PROVE Goal
  BY <1>2, <1>t1, <1>t2, <1>t3, <1>t4 DEF CloseCancel, Goto
<1>3. ASSUME NEW p \in Proc, Dial(p) PROVE Goal
  BY <1>3, <1>t1, <1>t2, <1>t3, <1>t4 DEF Dial, Unreferenced, Goto, clientVars
<1>4. ASSUME NEW p \in Proc, Discard(p) PROVE Goal
  BY <1>4, <1>t1, <1>t2, <1>t3, <1>t4 DEF Discard, AfterConnect, Goto, clientVars
<1>5. ASSUME NEW p \in Proc, Publish(p) PROVE Goal
  BY <1>5, <1>t1, <1>t2, <1>t3, <1>t4 DEF Publish, Goto
<1>6. ASSUME NEW c \in Conn, ReadMessage(c) PROVE Goal
  BY <1>6, <1>t1, <1>t2, <1>t3, <1>t4 DEF ReadMessage, Emitting, clientVars
<1>7. ASSUME NEW c \in Conn, emitEvent(c) PROVE Goal
  BY <1>7, <1>t1, <1>t2, <1>t3, <1>t4 DEF emitEvent, Emitted, Emitting, clientVars
<1>8. ASSUME NEW c \in Conn, ReadError(c) PROVE Goal
  BY <1>8, <1>t1, <1>t2, <1>t3, <1>t4 DEF ReadError, clientVars
<1>9. ASSUME NEW c \in Conn, ReaderMarks(c) PROVE Goal
  BY <1>9, <1>t1, <1>t2, <1>t3, <1>t4 DEF ReaderMarks, markDisconnected
<1>10. ASSUME NEW c \in Conn, ReaderSchedules(c) PROVE Goal
  BY <1>10, <1>t1, <1>t2, <1>t3, <1>t4 DEF ReaderSchedules, scheduleReconnect
<1>11. ASSUME NEW c \in Conn, HeartbeatExpired(c) PROVE Goal
  BY <1>11, <1>t1, <1>t2, <1>t3, <1>t4 DEF HeartbeatExpired, clientVars
<1>12. ASSUME NEW c \in Conn, HeartbeatCancelled(c) PROVE Goal
  BY <1>12, <1>t1, <1>t2, <1>t3, <1>t4 DEF HeartbeatCancelled, clientVars
<1>13. ASSUME NEW c \in Conn, HeartbeatMarks(c) PROVE Goal
  BY <1>13, <1>t1, <1>t2, <1>t3, <1>t4 DEF HeartbeatMarks, markDisconnected
<1>14. ASSUME NEW c \in Conn, HeartbeatSchedules(c) PROVE Goal
  BY <1>14, <1>t1, <1>t2, <1>t3, <1>t4 DEF HeartbeatSchedules, scheduleReconnect
<1>15. ASSUME NEW c \in Conn, ConnectionLost(c) PROVE Goal
  BY <1>15, <1>t1, <1>t2, <1>t3, <1>t4 DEF ConnectionLost, Fault, clientVars
<1>16. ASSUME NEW c \in Conn, Collect(c) PROVE Goal
  BY <1>16, <1>t1, <1>t2, <1>t3, <1>t4 DEF Collect, clientVars
<1>17. QED
  BY <1>1, <1>2, <1>3, <1>4, <1>5, <1>6, <1>7, <1>8, <1>9, <1>10, <1>11, <1>12, <1>13, <1>14,
     <1>15, <1>16 DEF Next, CloseStep, ConnectStep, ReaderStep, HeartbeatStep, ReconnectStep,
     Terminated, Connect, clientVars, connVars, Close, CloseWait, DialFails, ReplayDone,
     ReceiveEvent, ReconnectLoop, ReconnectBackoff, ReconnectExit, vars

\* Every step keeps dialled connections private.
LEMMA HeldStep ==
    TypeOK /\ ReconnectorInv /\ HeldInv /\ DistinctInv /\ CloserInv /\ LastInv /\ [Next]_vars
       => HeldInv'
<1> SUFFICES ASSUME TypeOK, ReconnectorInv, HeldInv, DistinctInv, CloserInv, LastInv, [Next]_vars,
                    NEW q \in Proc, pc'[q] = "publish"
             PROVE  /\ held'[q] \in Conn /\ held'[q] # last'
                    /\ link'[held'[q]] = "open" /\ reader'[held'[q]] = "off" /\ beat'[held'[q]] = "off"
  BY DEF HeldInv
<1> DEFINE Goal == /\ held'[q] \in Conn /\ held'[q] # last'
                   /\ link'[held'[q]] = "open" /\ reader'[held'[q]] = "off" /\ beat'[held'[q]] = "off"
<1> SUFFICES Goal
  OBVIOUS
<1>t1. /\ pc \in [Proc -> Where] /\ held \in [Proc -> Conn \cup {NoConn}]
       /\ link \in [Conn -> {"free", "open", "silent", "dead"}] /\ cancelled \in [Conn -> BOOLEAN]
       /\ reader \in [Conn -> Loop \cup Emitting \cup {"reading"}]
       /\ beat \in [Conn -> Loop \cup {"on"}]
       /\ conn \in Conn \cup {NoConn} /\ last \in Conn \cup {NoConn}
  BY DEF TypeOK
<1>t2. Reconnector \in Proc /\ Reconnector \notin User /\ User \subseteq Proc /\ NoConn \notin Conn
  BY ProcAssumption DEF Proc
<1>t3. pc[q] = "publish" =>
       /\ held[q] \in Conn /\ held[q] # last
       /\ link[held[q]] = "open" /\ reader[held[q]] = "off" /\ beat[held[q]] = "off"
  BY DEF HeldInv
<1>t4. ~reconnecting => pc[Reconnector] = "idle"
  BY DEF ReconnectorInv
<1>t5. conn \in {NoConn, last}
  BY DEF LastInv
<1>1. ASSUME UNCHANGED <<pc, held, last, link, reader, beat>> PROVE Goal
  BY <1>1, <1>t1, <1>t2, <1>t3, <1>t4, <1>t5
<1>2. ASSUME NEW u \in User, Connect(u) PROVE Goal
  BY <1>2, <1>t1, <1>t2, <1>t3, <1>t4, <1>t5 DEF Connect, Goto, clientVars, connVars
<1>3. ASSUME NEW u \in User, Close(u) PROVE Goal
  BY <1>3, <1>t1, <1>t2, <1>t3, <1>t4, <1>t5 DEF Close, Goto, connVars
<1>4. ASSUME NEW u \in User, CloseCancel(u) PROVE Goal
  BY <1>4, <1>t1, <1>t2, <1>t3, <1>t4, <1>t5 DEF CloseCancel, Goto, CloserInv
<1>5. ASSUME NEW u \in User, CloseWait(u) PROVE Goal
  BY <1>5, <1>t1, <1>t2, <1>t3, <1>t4, <1>t5 DEF CloseWait, Goto, clientVars, connVars
<1>6. ASSUME NEW p \in Proc, DialFails(p) PROVE Goal
  BY <1>6, <1>t1, <1>t2, <1>t3, <1>t4, <1>t5 DEF DialFails, Fault, AfterConnect, Goto,
     clientVars, connVars
<1>7. ASSUME NEW p \in Proc, Dial(p) PROVE Goal
  BY <1>7, <1>t1, <1>t2, <1>t3, <1>t4, <1>t5 DEF Dial, Unreferenced, Goto, clientVars
<1>8. ASSUME NEW p \in Proc, Discard(p) PROVE Goal
  BY <1>8, <1>t1, <1>t2, <1>t3, <1>t4, <1>t5 DEF Discard, AfterConnect, Goto, clientVars,
     DistinctInv, HeldInv
<1>9. ASSUME NEW p \in Proc, Publish(p) PROVE Goal
  BY <1>9, <1>t1, <1>t2, <1>t3, <1>t4, <1>t5 DEF Publish, Goto, DistinctInv, HeldInv
<1>10. ASSUME NEW p \in Proc, ReplayDone(p) PROVE Goal
  BY <1>10, <1>t1, <1>t2, <1>t3, <1>t4, <1>t5 DEF ReplayDone, AfterConnect, Goto, clientVars,
     connVars
<1>11. ASSUME NEW c \in Conn, ReadMessage(c) PROVE Goal
  BY <1>11, <1>t1, <1>t2, <1>t3, <1>t4, <1>t5 DEF ReadMessage, Emitting, clientVars
<1>12. ASSUME NEW c \in Conn, emitEvent(c) PROVE Goal
  BY <1>12, <1>t1, <1>t2, <1>t3, <1>t4, <1>t5 DEF emitEvent, Emitted, Emitting, clientVars
<1>13. ASSUME NEW c \in Conn, ReadError(c) PROVE Goal
  BY <1>13, <1>t1, <1>t2, <1>t3, <1>t4, <1>t5 DEF ReadError, clientVars
<1>14. ASSUME NEW c \in Conn, ReaderMarks(c) PROVE Goal
  BY <1>14, <1>t1, <1>t2, <1>t3, <1>t4, <1>t5 DEF ReaderMarks, markDisconnected
<1>15. ASSUME NEW c \in Conn, ReaderSchedules(c) PROVE Goal
  BY <1>15, <1>t1, <1>t2, <1>t3, <1>t4, <1>t5 DEF ReaderSchedules, scheduleReconnect
<1>16. ASSUME NEW c \in Conn, HeartbeatExpired(c) PROVE Goal
  BY <1>16, <1>t1, <1>t2, <1>t3, <1>t4, <1>t5 DEF HeartbeatExpired, clientVars
<1>17. ASSUME NEW c \in Conn, HeartbeatCancelled(c) PROVE Goal
  BY <1>17, <1>t1, <1>t2, <1>t3, <1>t4, <1>t5 DEF HeartbeatCancelled, clientVars
<1>18. ASSUME NEW c \in Conn, HeartbeatMarks(c) PROVE Goal
  BY <1>18, <1>t1, <1>t2, <1>t3, <1>t4, <1>t5 DEF HeartbeatMarks, markDisconnected
<1>19. ASSUME NEW c \in Conn, HeartbeatSchedules(c) PROVE Goal
  BY <1>19, <1>t1, <1>t2, <1>t3, <1>t4, <1>t5 DEF HeartbeatSchedules, scheduleReconnect
<1>20. ASSUME NEW c \in Conn, ConnectionLost(c) PROVE Goal
  BY <1>20, <1>t1, <1>t2, <1>t3, <1>t4, <1>t5 DEF ConnectionLost, Fault, clientVars
<1>21. ASSUME NEW c \in Conn, Collect(c) PROVE Goal
  BY <1>21, <1>t1, <1>t2, <1>t3, <1>t4, <1>t5 DEF Collect, clientVars
<1>22. ASSUME ReconnectLoop PROVE Goal
  BY <1>22, <1>t1, <1>t2, <1>t3, <1>t4, <1>t5 DEF ReconnectLoop, Goto, clientVars, connVars
<1>23. ASSUME ReconnectBackoff PROVE Goal
  BY <1>23, <1>t1, <1>t2, <1>t3, <1>t4, <1>t5 DEF ReconnectBackoff, Goto, clientVars, connVars
<1>24. ASSUME ReconnectExit PROVE Goal
  BY <1>24, <1>t1, <1>t2, <1>t3, <1>t4, <1>t5 DEF ReconnectExit, Goto, connVars
<1>25. QED
  BY <1>1, <1>2, <1>3, <1>4, <1>5, <1>6, <1>7, <1>8, <1>9, <1>10, <1>11, <1>12, <1>13, <1>14,
     <1>15, <1>16, <1>17, <1>18, <1>19, <1>20, <1>21, <1>22, <1>23, <1>24 DEF Next, CloseStep,
     ConnectStep, ReaderStep, HeartbeatStep, ReconnectStep, Terminated, ReceiveEvent,
     clientVars, vars, connVars

\* Every step keeps dialled connections apart.
LEMMA DistinctStep ==
    TypeOK /\ ReconnectorInv /\ HeldInv /\ DistinctInv /\ [Next]_vars => DistinctInv'
<1> SUFFICES ASSUME TypeOK, ReconnectorInv, HeldInv, DistinctInv, [Next]_vars,
                    NEW q \in Proc, NEW r \in Proc, pc'[q] = "publish", pc'[r] = "publish", q # r
             PROVE  held'[q] # held'[r]
  BY DEF DistinctInv
<1> DEFINE Goal == held'[q] # held'[r]
<1> SUFFICES Goal
  OBVIOUS
<1>t1. /\ pc \in [Proc -> Where] /\ held \in [Proc -> Conn \cup {NoConn}]
       /\ link \in [Conn -> {"free", "open", "silent", "dead"}] /\ cancelled \in [Conn -> BOOLEAN]
       /\ reader \in [Conn -> Loop \cup Emitting \cup {"reading"}]
       /\ beat \in [Conn -> Loop \cup {"on"}]
       /\ conn \in Conn \cup {NoConn} /\ last \in Conn \cup {NoConn}
  BY DEF TypeOK
<1>t2. Reconnector \in Proc /\ Reconnector \notin User /\ User \subseteq Proc /\ NoConn \notin Conn
  BY ProcAssumption DEF Proc
<1>t3. pc[q] = "publish" /\ pc[r] = "publish" => held[q] # held[r]
  BY DEF DistinctInv
<1>t4. ~reconnecting => pc[Reconnector] = "idle"
  BY DEF ReconnectorInv
<1>1. ASSUME UNCHANGED <<pc, held>> PROVE Goal
  BY <1>1, <1>t1, <1>t2, <1>t3, <1>t4
<1>2. ASSUME NEW u \in User, Connect(u) PROVE Goal
  BY <1>2, <1>t1, <1>t2, <1>t3, <1>t4 DEF Connect, Goto, clientVars, connVars
<1>3. ASSUME NEW u \in User, Close(u) PROVE Goal
  BY <1>3, <1>t1, <1>t2, <1>t3, <1>t4 DEF Close, Goto, connVars
<1>4. ASSUME NEW u \in User, CloseCancel(u) PROVE Goal
  BY <1>4, <1>t1, <1>t2, <1>t3, <1>t4 DEF CloseCancel, Goto
<1>5. ASSUME NEW u \in User, CloseWait(u) PROVE Goal
  BY <1>5, <1>t1, <1>t2, <1>t3, <1>t4 DEF CloseWait, Goto, clientVars, connVars
<1>6. ASSUME NEW p \in Proc, DialFails(p) PROVE Goal
  BY <1>6, <1>t1, <1>t2, <1>t3, <1>t4 DEF DialFails, Fault, AfterConnect, Goto, clientVars,
     connVars
<1>7. ASSUME NEW p \in Proc, Dial(p) PROVE Goal
  BY <1>7, <1>t1, <1>t2, <1>t3, <1>t4 DEF Dial, Unreferenced, Goto, clientVars
<1>8. ASSUME NEW p \in Proc, Discard(p) PROVE Goal
  BY <1>8, <1>t1, <1>t2, <1>t3, <1>t4 DEF Discard, AfterConnect, Goto, clientVars
<1>9. ASSUME NEW p \in Proc, Publish(p) PROVE Goal
  BY <1>9, <1>t1, <1>t2, <1>t3, <1>t4 DEF Publish, Goto
<1>10. ASSUME NEW p \in Proc, ReplayDone(p) PROVE Goal
  BY <1>10, <1>t1, <1>t2, <1>t3, <1>t4 DEF ReplayDone, AfterConnect, Goto, clientVars, connVars
<1>11. ASSUME NEW c \in Conn, ReaderSchedules(c) PROVE Goal
  BY <1>11, <1>t1, <1>t2, <1>t3, <1>t4 DEF ReaderSchedules, scheduleReconnect
<1>12. ASSUME NEW c \in Conn, HeartbeatSchedules(c) PROVE Goal
  BY <1>12, <1>t1, <1>t2, <1>t3, <1>t4 DEF HeartbeatSchedules, scheduleReconnect
<1>13. ASSUME ReconnectLoop PROVE Goal
  BY <1>13, <1>t1, <1>t2, <1>t3, <1>t4 DEF ReconnectLoop, Goto, clientVars, connVars
<1>14. ASSUME ReconnectBackoff PROVE Goal
  BY <1>14, <1>t1, <1>t2, <1>t3, <1>t4 DEF ReconnectBackoff, Goto, clientVars, connVars
<1>15. ASSUME ReconnectExit PROVE Goal
  BY <1>15, <1>t1, <1>t2, <1>t3, <1>t4 DEF ReconnectExit, Goto, connVars
<1>16. QED
  BY <1>1, <1>2, <1>3, <1>4, <1>5, <1>6, <1>7, <1>8, <1>9, <1>10, <1>11, <1>12, <1>13, <1>14,
     <1>15 DEF Next, CloseStep, ConnectStep, ReaderStep, HeartbeatStep, ReconnectStep,
     Terminated, ReadMessage, clientVars, emitEvent, ReadError, ReaderMarks, HeartbeatExpired,
     HeartbeatCancelled, HeartbeatMarks, ConnectionLost, Collect, ReceiveEvent, vars, connVars

\* Every step leaves Close with the connection published last.
LEMMA CloserStep ==
    TypeOK /\ ReconnectorInv /\ HeldInv /\ CloserInv /\ LastInv /\ [Next]_vars => CloserInv'
<1> SUFFICES ASSUME TypeOK, ReconnectorInv, HeldInv, CloserInv, LastInv, [Next]_vars,
                    NEW q \in Proc, pc'[q] \in {"cancel", "wait"}
             PROVE  /\ closed' /\ held'[q] \in {NoConn, last'}
                    /\ pc'[q] = "wait" /\ held'[q] # NoConn => link'[held'[q]] = "dead"
  BY DEF CloserInv
<1> DEFINE Goal == /\ closed' /\ held'[q] \in {NoConn, last'}
                   /\ pc'[q] = "wait" /\ held'[q] # NoConn => link'[held'[q]] = "dead"
<1> SUFFICES Goal
  OBVIOUS
<1>t1. /\ pc \in [Proc -> Where] /\ held \in [Proc -> Conn \cup {NoConn}]
       /\ link \in [Conn -> {"free", "open", "silent", "dead"}] /\ cancelled \in [Conn -> BOOLEAN]
       /\ reader \in [Conn -> Loop \cup Emitting \cup {"reading"}]
       /\ beat \in [Conn -> Loop \cup {"on"}]
       /\ conn \in Conn \cup {NoConn} /\ last \in Conn \cup {NoConn}
  BY DEF TypeOK
<1>t2. Reconnector \in Proc /\ Reconnector \notin User /\ User \subseteq Proc /\ NoConn \notin Conn
  BY ProcAssumption DEF Proc
<1>t3. pc[q] \in {"cancel", "wait"} =>
       /\ closed /\ held[q] \in {NoConn, last}
       /\ pc[q] = "wait" /\ held[q] # NoConn => link[held[q]] = "dead"
  BY DEF CloserInv
<1>t4. ~reconnecting => pc[Reconnector] = "idle"
  BY DEF ReconnectorInv
<1>t5. conn \in {NoConn, last} /\ (last # NoConn => link[last] # "free")
  BY DEF LastInv
<1>t6. \A p \in Proc : pc[p] = "publish" => held[p] \in Conn /\ held[p] # last
  BY DEF HeldInv
<1>1. ASSUME UNCHANGED <<pc, held, closed, last, link>> PROVE Goal
  BY <1>1, <1>t1, <1>t2, <1>t3, <1>t4, <1>t5, <1>t6
<1>2. ASSUME NEW u \in User, Connect(u) PROVE Goal
  BY <1>2, <1>t1, <1>t2, <1>t3, <1>t4, <1>t5, <1>t6 DEF Connect, Goto, clientVars, connVars
<1>3. ASSUME NEW u \in User, Close(u) PROVE Goal
  BY <1>3, <1>t1, <1>t2, <1>t3, <1>t4, <1>t5, <1>t6 DEF Close, Goto, connVars
<1>4. ASSUME NEW u \in User, CloseCancel(u) PROVE Goal
  BY <1>4, <1>t1, <1>t2, <1>t3, <1>t4, <1>t5, <1>t6 DEF CloseCancel, Goto
<1>5. ASSUME NEW u \in User, CloseWait(u) PROVE Goal
  BY <1>5, <1>t1, <1>t2, <1>t3, <1>t4, <1>t5, <1>t6 DEF CloseWait, Goto, clientVars, connVars
<1>6. ASSUME NEW p \in Proc, DialFails(p) PROVE Goal
  BY <1>6, <1>t1, <1>t2, <1>t3, <1>t4, <1>t5, <1>t6 DEF DialFails, Fault, AfterConnect, Goto,
     clientVars, connVars
<1>7. ASSUME NEW p \in Proc, Dial(p) PROVE Goal
  BY <1>7, <1>t1, <1>t2, <1>t3, <1>t4, <1>t5, <1>t6 DEF Dial, Unreferenced, Goto, clientVars
<1>8. ASSUME NEW p \in Proc, Discard(p) PROVE Goal
  BY <1>8, <1>t1, <1>t2, <1>t3, <1>t4, <1>t5, <1>t6 DEF Discard, AfterConnect, Goto, clientVars
<1>9. ASSUME NEW p \in Proc, Publish(p) PROVE Goal
  BY <1>9, <1>t1, <1>t2, <1>t3, <1>t4, <1>t5, <1>t6 DEF Publish, Goto
<1>10. ASSUME NEW p \in Proc, ReplayDone(p) PROVE Goal
  BY <1>10, <1>t1, <1>t2, <1>t3, <1>t4, <1>t5, <1>t6 DEF ReplayDone, AfterConnect, Goto,
     clientVars, connVars
<1>11. ASSUME NEW c \in Conn, ReadError(c) PROVE Goal
  BY <1>11, <1>t1, <1>t2, <1>t3, <1>t4, <1>t5, <1>t6 DEF ReadError, clientVars
<1>12. ASSUME NEW c \in Conn, ReaderSchedules(c) PROVE Goal
  BY <1>12, <1>t1, <1>t2, <1>t3, <1>t4, <1>t5, <1>t6 DEF ReaderSchedules, scheduleReconnect
<1>13. ASSUME NEW c \in Conn, HeartbeatExpired(c) PROVE Goal
  BY <1>13, <1>t1, <1>t2, <1>t3, <1>t4, <1>t5, <1>t6 DEF HeartbeatExpired, clientVars
<1>14. ASSUME NEW c \in Conn, HeartbeatSchedules(c) PROVE Goal
  BY <1>14, <1>t1, <1>t2, <1>t3, <1>t4, <1>t5, <1>t6 DEF HeartbeatSchedules, scheduleReconnect
<1>15. ASSUME NEW c \in Conn, ConnectionLost(c) PROVE Goal
  BY <1>15, <1>t1, <1>t2, <1>t3, <1>t4, <1>t5, <1>t6 DEF ConnectionLost, Fault, clientVars
<1>16. ASSUME NEW c \in Conn, Collect(c) PROVE Goal
  BY <1>16, <1>t1, <1>t2, <1>t3, <1>t4, <1>t5, <1>t6 DEF Collect, clientVars
<1>17. ASSUME ReconnectLoop PROVE Goal
  BY <1>17, <1>t1, <1>t2, <1>t3, <1>t4, <1>t5, <1>t6 DEF ReconnectLoop, Goto, clientVars,
     connVars
<1>18. ASSUME ReconnectBackoff PROVE Goal
  BY <1>18, <1>t1, <1>t2, <1>t3, <1>t4, <1>t5, <1>t6 DEF ReconnectBackoff, Goto, clientVars,
     connVars
<1>19. ASSUME ReconnectExit PROVE Goal
  BY <1>19, <1>t1, <1>t2, <1>t3, <1>t4, <1>t5, <1>t6 DEF ReconnectExit, Goto, connVars
<1>20. QED
  BY <1>1, <1>2, <1>3, <1>4, <1>5, <1>6, <1>7, <1>8, <1>9, <1>10, <1>11, <1>12, <1>13, <1>14,
     <1>15, <1>16, <1>17, <1>18, <1>19 DEF Next, CloseStep, ConnectStep, ReaderStep,
     HeartbeatStep, ReconnectStep, Terminated, ReadMessage, clientVars, emitEvent, ReaderMarks,
     HeartbeatCancelled, HeartbeatMarks, ReceiveEvent, vars, connVars

\* Every step leaves every open socket with an owner.
LEMMA OwnedStep ==
    TypeOK /\ HeldInv /\ NoneInv /\ LoopsInv /\ CloserInv /\ OpenIsOwned /\ [Next]_vars =>
       OpenIsOwned'
<1> SUFFICES ASSUME TypeOK, HeldInv, NoneInv, LoopsInv, CloserInv, OpenIsOwned, [Next]_vars,
                    NEW d \in Conn, link'[d] \in {"open", "silent"}
             PROVE  reader'[d] # "off" \/ \E q \in Proc : held'[q] = d
  BY DEF OpenIsOwned
<1> DEFINE Goal == reader'[d] # "off" \/ \E q \in Proc : held'[q] = d
<1> SUFFICES Goal
  OBVIOUS
<1>t1. /\ pc \in [Proc -> Where] /\ held \in [Proc -> Conn \cup {NoConn}]
       /\ link \in [Conn -> {"free", "open", "silent", "dead"}] /\ cancelled \in [Conn -> BOOLEAN]
       /\ reader \in [Conn -> Loop \cup Emitting \cup {"reading"}]
       /\ beat \in [Conn -> Loop \cup {"on"}]
       /\ conn \in Conn \cup {NoConn} /\ last \in Conn \cup {NoConn}
  BY DEF TypeOK
<1>t2. Reconnector \in Proc /\ Reconnector \notin User /\ User \subseteq Proc /\ NoConn \notin Conn
  BY ProcAssumption DEF Proc
<1>t3. link[d] \in {"open", "silent"} => reader[d] # "off" \/ \E q \in Proc : held[q] = d
  BY DEF OpenIsOwned
<1>t4. reader[d] \in {"mark", "schedule"} => link[d] = "dead"
  BY DEF LoopsInv
<1>t5. \A p \in Proc : pc[p] \notin {"publish", "cancel", "wait"} => held[p] = NoConn
  BY DEF NoneInv
<1>t6. \A p \in Proc : pc[p] = "wait" /\ held[p] # NoConn => link[held[p]] = "dead"
  BY DEF CloserInv
<1>t7. \A p \in Proc : pc[p] = "publish" => held[p] \in Conn
  BY DEF HeldInv
<1>1. ASSUME UNCHANGED <<link, reader, held>> PROVE Goal
  BY <1>1, <1>t1, <1>t2, <1>t3, <1>t4, <1>t5, <1>t6, <1>t7
<1>2. ASSUME NEW u \in User, Close(u) PROVE Goal
  BY <1>2, <1>t1, <1>t2, <1>t3, <1>t4, <1>t5, <1>t6, <1>t7 DEF Close, Goto, connVars
<1>3. ASSUME NEW u \in User, CloseCancel(u) PROVE Goal
  BY <1>3, <1>t1, <1>t2, <1>t3, <1>t4, <1>t5, <1>t6, <1>t7 DEF CloseCancel, Goto
<1>4. ASSUME NEW u \in User, CloseWait(u) PROVE Goal
  BY <1>4, <1>t1, <1>t2, <1>t3, <1>t4, <1>t5, <1>t6, <1>t7 DEF CloseWait, Goto, clientVars,
     connVars
<1>5. ASSUME NEW p \in Proc, Dial(p) PROVE Goal
  BY SMTT(60), <1>5, <1>t1, <1>t2, <1>t3, <1>t4, <1>t5, <1>t6, <1>t7 DEF Dial, Unreferenced, Goto,
     clientVars
<1>6. ASSUME NEW p \in Proc, Discard(p) PROVE Goal
  BY <1>6, <1>t1, <1>t2, <1>t3, <1>t4, <1>t5, <1>t6, <1>t7 DEF Discard, AfterConnect, Goto,
     clientVars
<1>7. ASSUME NEW p \in Proc, Publish(p) PROVE Goal
  BY <1>7, <1>t1, <1>t2, <1>t3, <1>t4, <1>t5, <1>t6, <1>t7 DEF Publish, Goto
<1>8. ASSUME NEW c \in Conn, ReadMessage(c) PROVE Goal
  BY <1>8, <1>t1, <1>t2, <1>t3, <1>t4, <1>t5, <1>t6, <1>t7 DEF ReadMessage, Emitting,
     clientVars
<1>9. ASSUME NEW c \in Conn, emitEvent(c) PROVE Goal
  BY <1>9, <1>t1, <1>t2, <1>t3, <1>t4, <1>t5, <1>t6, <1>t7 DEF emitEvent, Emitted, Emitting,
     clientVars
<1>10. ASSUME NEW c \in Conn, ReadError(c) PROVE Goal
  BY <1>10, <1>t1, <1>t2, <1>t3, <1>t4, <1>t5, <1>t6, <1>t7 DEF ReadError, clientVars
<1>11. ASSUME NEW c \in Conn, ReaderMarks(c) PROVE Goal
  BY <1>11, <1>t1, <1>t2, <1>t3, <1>t4, <1>t5, <1>t6, <1>t7 DEF ReaderMarks, markDisconnected
<1>12. ASSUME NEW c \in Conn, ReaderSchedules(c) PROVE Goal
  BY <1>12, <1>t1, <1>t2, <1>t3, <1>t4, <1>t5, <1>t6, <1>t7 DEF ReaderSchedules,
     scheduleReconnect
<1>13. ASSUME NEW c \in Conn, HeartbeatExpired(c) PROVE Goal
  BY <1>13, <1>t1, <1>t2, <1>t3, <1>t4, <1>t5, <1>t6, <1>t7 DEF HeartbeatExpired, clientVars
<1>14. ASSUME NEW c \in Conn, ConnectionLost(c) PROVE Goal
  BY <1>14, <1>t1, <1>t2, <1>t3, <1>t4, <1>t5, <1>t6, <1>t7 DEF ConnectionLost, Fault,
     clientVars
<1>15. ASSUME NEW c \in Conn, Collect(c) PROVE Goal
  BY <1>15, <1>t1, <1>t2, <1>t3, <1>t4, <1>t5, <1>t6, <1>t7 DEF Collect, clientVars
<1>16. QED
  BY <1>1, <1>2, <1>3, <1>4, <1>5, <1>6, <1>7, <1>8, <1>9, <1>10, <1>11, <1>12, <1>13, <1>14,
     <1>15 DEF Next, CloseStep, ConnectStep, ReaderStep, HeartbeatStep, ReconnectStep,
     Terminated, Connect, clientVars, connVars, DialFails, ReplayDone, HeartbeatCancelled,
     HeartbeatMarks, HeartbeatSchedules, ReceiveEvent, ReconnectLoop, ReconnectBackoff,
     ReconnectExit, vars

\* Every step leaves at most the published connection delivering.
LEMMA StreamStep ==
    TypeOK /\ HeldInv /\ LoopsInv /\ OneOpenStream /\ [Next]_vars => OneOpenStream'
<1> SUFFICES ASSUME TypeOK, HeldInv, LoopsInv, OneOpenStream, [Next]_vars,
                    NEW d \in Conn, link'[d] = "open", reader'[d] \in {"emitFirst", "emit", "reading"},
                    ~cancelled'[d], ~ctxDone'
             PROVE  conn' = d
  BY DEF OneOpenStream, Emitting, Cancelled
<1> DEFINE Goal == conn' = d
<1> SUFFICES Goal
  OBVIOUS
<1>t1. /\ pc \in [Proc -> Where] /\ held \in [Proc -> Conn \cup {NoConn}]
       /\ link \in [Conn -> {"free", "open", "silent", "dead"}] /\ cancelled \in [Conn -> BOOLEAN]
       /\ reader \in [Conn -> Loop \cup Emitting \cup {"reading"}]
       /\ beat \in [Conn -> Loop \cup {"on"}]
       /\ conn \in Conn \cup {NoConn} /\ last \in Conn \cup {NoConn}
  BY DEF TypeOK
<1>t2. Reconnector \in Proc /\ Reconnector \notin User /\ User \subseteq Proc /\ NoConn \notin Conn
  BY ProcAssumption DEF Proc
<1>t3. link[d] = "open" /\ reader[d] \in {"emitFirst", "emit", "reading"} /\ ~cancelled[d] /\ ~ctxDone => conn = d
  BY DEF OneOpenStream, Emitting, Cancelled
<1>t4. \A c \in Conn : reader[c] \in {"mark", "schedule"} \/ beat[c] \in {"mark", "schedule"} => link[c] = "dead"
  BY DEF LoopsInv
<1>t7. \A p \in Proc : pc[p] = "publish" => held[p] \in Conn /\ reader[held[p]] = "off"
  BY DEF HeldInv
<1>1. ASSUME UNCHANGED <<link, reader, cancelled, ctxDone, conn>> PROVE Goal
  BY <1>1, <1>t1, <1>t2, <1>t3, <1>t4, <1>t7
<1>2. ASSUME NEW u \in User, CloseCancel(u) PROVE Goal
  BY <1>2, <1>t1, <1>t2, <1>t3, <1>t4, <1>t7 DEF CloseCancel, Goto
<1>3. ASSUME NEW p \in Proc, Dial(p) PROVE Goal
  BY <1>3, <1>t1, <1>t2, <1>t3, <1>t4, <1>t7 DEF Dial, Unreferenced, Goto, clientVars
<1>4. ASSUME NEW p \in Proc, Discard(p) PROVE Goal
  BY <1>4, <1>t1, <1>t2, <1>t3, <1>t4, <1>t7 DEF Discard, AfterConnect, Goto, clientVars
<1>5. ASSUME NEW p \in Proc, Publish(p) PROVE Goal
  BY <1>5, <1>t1, <1>t2, <1>t3, <1>t4, <1>t7 DEF Publish, Goto
<1>6. ASSUME NEW c \in Conn, ReadMessage(c) PROVE Goal
  BY <1>6, <1>t1, <1>t2, <1>t3, <1>t4, <1>t7 DEF ReadMessage, Emitting, clientVars
<1>7. ASSUME NEW c \in Conn, emitEvent(c) PROVE Goal
  BY <1>7, <1>t1, <1>t2, <1>t3, <1>t4, <1>t7 DEF emitEvent, Emitted, Emitting, clientVars
<1>8. ASSUME NEW c \in Conn, ReadError(c) PROVE Goal
  BY <1>8, <1>t1, <1>t2, <1>t3, <1>t4, <1>t7 DEF ReadError, clientVars
<1>9. ASSUME NEW c \in Conn, ReaderMarks(c) PROVE Goal
  BY <1>9, <1>t1, <1>t2, <1>t3, <1>t4, <1>t7 DEF ReaderMarks, markDisconnected
<1>10. ASSUME NEW c \in Conn, ReaderSchedules(c) PROVE Goal
  BY <1>10, <1>t1, <1>t2, <1>t3, <1>t4, <1>t7 DEF ReaderSchedules, scheduleReconnect
<1>11. ASSUME NEW c \in Conn, HeartbeatExpired(c) PROVE Goal
  BY <1>11, <1>t1, <1>t2, <1>t3, <1>t4, <1>t7 DEF HeartbeatExpired, clientVars
<1>12. ASSUME NEW c \in Conn, HeartbeatMarks(c) PROVE Goal
  BY <1>12, <1>t1, <1>t2, <1>t3, <1>t4, <1>t7 DEF HeartbeatMarks, markDisconnected
<1>13. ASSUME NEW c \in Conn, ConnectionLost(c) PROVE Goal
  BY <1>13, <1>t1, <1>t2, <1>t3, <1>t4, <1>t7 DEF ConnectionLost, Fault, clientVars
<1>14. ASSUME NEW c \in Conn, Collect(c) PROVE Goal
  BY <1>14, <1>t1, <1>t2, <1>t3, <1>t4, <1>t7 DEF Collect, clientVars
<1>15. QED
  BY <1>1, <1>2, <1>3, <1>4, <1>5, <1>6, <1>7, <1>8, <1>9, <1>10, <1>11, <1>12, <1>13, <1>14
     DEF Next, CloseStep, ConnectStep, ReaderStep, HeartbeatStep, ReconnectStep, Terminated,
     Connect, clientVars, connVars, Close, CloseWait, DialFails, ReplayDone,
     HeartbeatCancelled, HeartbeatSchedules, ReceiveEvent, ReconnectLoop, ReconnectBackoff,
     ReconnectExit, vars

\* Every step is a step of WsLink, or leaves the published connection alone.
LEMMA LinkStep ==
    TypeOK /\ LastInv /\ LoopsInv /\ HeldInv /\ CloserInv /\ [Next]_vars => [Link!LinkNext]_(IF conn = NoConn THEN "none" ELSE link[conn])
<1> SUFFICES ASSUME TypeOK, LastInv, LoopsInv, HeldInv, CloserInv, [Next]_vars PROVE
   [Link!LinkNext]_(IF conn = NoConn THEN "none" ELSE link[conn])
  OBVIOUS
<1> DEFINE Goal == [Link!LinkNext]_(IF conn = NoConn THEN "none" ELSE link[conn])
<1> SUFFICES Goal
  OBVIOUS
<1>t1. /\ pc \in [Proc -> Where] /\ held \in [Proc -> Conn \cup {NoConn}]
       /\ link \in [Conn -> {"free", "open", "silent", "dead"}] /\ cancelled \in [Conn -> BOOLEAN]
       /\ reader \in [Conn -> Loop \cup Emitting \cup {"reading"}]
       /\ beat \in [Conn -> Loop \cup {"on"}]
       /\ conn \in Conn \cup {NoConn} /\ last \in Conn \cup {NoConn}
  BY DEF TypeOK
<1>t2. Reconnector \in Proc /\ Reconnector \notin User /\ User \subseteq Proc /\ NoConn \notin Conn
  BY ProcAssumption DEF Proc
<1>t3. conn \in {NoConn, last} /\ (last # NoConn => link[last] # "free")
  BY DEF LastInv
<1>t4. \A c \in Conn : reader[c] \in {"mark", "schedule"} \/ beat[c] \in {"mark", "schedule"} => link[c] = "dead"
  BY DEF LoopsInv
<1>t7. \A p \in Proc : pc[p] = "publish" => held[p] \in Conn /\ held[p] # last /\ link[held[p]] = "open"
  BY DEF HeldInv
<1>1. ASSUME UNCHANGED <<conn, link>> PROVE Goal
  BY <1>1, <1>t1, <1>t2, <1>t3, <1>t4, <1>t7 DEF Link!LinkNext, Link!Announce, Link!Fail,
     Link!Withdraw
<1>2. ASSUME NEW u \in User, CloseCancel(u) PROVE Goal
  BY SMTT(60), <1>2, <1>t1, <1>t2, <1>t3, <1>t4, <1>t7 DEF CloseCancel, Goto, Link!LinkNext,
     Link!Announce, Link!Fail, Link!Withdraw
<1>3. ASSUME NEW p \in Proc, Dial(p) PROVE Goal
  BY <1>3, <1>t1, <1>t2, <1>t3, <1>t4, <1>t7 DEF Dial, Unreferenced, Goto, clientVars,
     Link!LinkNext, Link!Announce, Link!Fail, Link!Withdraw
<1>4. ASSUME NEW p \in Proc, Discard(p) PROVE Goal
  BY <1>4, <1>t1, <1>t2, <1>t3, <1>t4, <1>t7 DEF Discard, AfterConnect, Goto, clientVars,
     Link!LinkNext, Link!Announce, Link!Fail, Link!Withdraw
<1>5. ASSUME NEW p \in Proc, Publish(p) PROVE Goal
  BY <1>5, <1>t1, <1>t2, <1>t3, <1>t4, <1>t7 DEF Publish, Goto, Link!LinkNext, Link!Announce,
     Link!Fail, Link!Withdraw
<1>6. ASSUME NEW c \in Conn, ReadError(c) PROVE Goal
  BY <1>6, <1>t1, <1>t2, <1>t3, <1>t4, <1>t7 DEF ReadError, clientVars, Link!LinkNext,
     Link!Announce, Link!Fail, Link!Withdraw
<1>7. ASSUME NEW c \in Conn, ReaderMarks(c) PROVE Goal
  BY <1>7, <1>t1, <1>t2, <1>t3, <1>t4, <1>t7 DEF ReaderMarks, markDisconnected, Link!LinkNext,
     Link!Announce, Link!Fail, Link!Withdraw
<1>8. ASSUME NEW c \in Conn, HeartbeatExpired(c) PROVE Goal
  BY <1>8, <1>t1, <1>t2, <1>t3, <1>t4, <1>t7 DEF HeartbeatExpired, clientVars, Link!LinkNext,
     Link!Announce, Link!Fail, Link!Withdraw
<1>9. ASSUME NEW c \in Conn, HeartbeatMarks(c) PROVE Goal
  BY <1>9, <1>t1, <1>t2, <1>t3, <1>t4, <1>t7 DEF HeartbeatMarks, markDisconnected,
     Link!LinkNext, Link!Announce, Link!Fail, Link!Withdraw
<1>10. ASSUME NEW c \in Conn, ConnectionLost(c) PROVE Goal
  BY SMTT(60), <1>10, <1>t1, <1>t2, <1>t3, <1>t4, <1>t7 DEF ConnectionLost, Fault, clientVars,
     Link!LinkNext, Link!Announce, Link!Fail, Link!Withdraw
<1>11. ASSUME NEW c \in Conn, Collect(c) PROVE Goal
  BY <1>11, <1>t1, <1>t2, <1>t3, <1>t4, <1>t7 DEF Collect, clientVars, Link!LinkNext,
     Link!Announce, Link!Fail, Link!Withdraw
<1>12. QED
  BY <1>1, <1>2, <1>3, <1>4, <1>5, <1>6, <1>7, <1>8, <1>9, <1>10, <1>11 DEF Next, CloseStep,
     ConnectStep, ReaderStep, HeartbeatStep, ReconnectStep, Terminated, Connect, clientVars,
     connVars, Close, CloseWait, DialFails, ReplayDone, ReadMessage, emitEvent,
     ReaderSchedules, HeartbeatCancelled, HeartbeatSchedules, ReceiveEvent, ReconnectLoop,
     ReconnectBackoff, ReconnectExit, vars

-----------------------------------------------------------------------------
(* The theorems.                                                           *)

\* The inductive invariant holds in every reachable state.
THEOREM Invariance == Spec => []IInv
<1>1. Init => IInv
  <2> SUFFICES ASSUME Init PROVE IInv
    OBVIOUS
  <2>1. TypeOK
    <3>1. events \in 0..EventCap /\ faults \in 0..MaxFaults
      BY BoundAssumption DEF Init
    <3>2. /\ link \in [Conn -> {"free", "open", "silent", "dead"}]
          /\ cancelled \in [Conn -> BOOLEAN]
          /\ reader \in [Conn -> Loop \cup Emitting \cup {"reading"}]
          /\ beat \in [Conn -> Loop \cup {"on"}]
      BY DEF Init, Loop
    <3>3. pc \in [Proc -> Where] /\ held \in [Proc -> Conn \cup {NoConn}]
      BY DEF Init, Where
    <3>4. QED
      BY <3>1, <3>2, <3>3 DEF Init, TypeOK
  <2>2. ReconnectorInv /\ NoneInv /\ LastInv
    BY ProcAssumption DEF Init, ReconnectorInv, NoneInv, LastInv, Proc
  <2>3. LoopsInv /\ OpenIsOwned /\ OneOpenStream
    BY DEF Init, LoopsInv, OpenIsOwned, OneOpenStream
  <2>4. HeldInv /\ DistinctInv /\ CloserInv
    BY DEF Init, HeldInv, DistinctInv, CloserInv
  <2>5. QED
    BY <2>1, <2>2, <2>3, <2>4 DEF IInv
<1>2. IInv /\ [Next]_vars => IInv'
  BY TypeStep, ReconnectorStep, NoneStep, LastStep, LoopsStep, HeldStep, DistinctStep, CloserStep,
     OwnedStep, StreamStep DEF IInv
<1>3. QED
  BY <1>1, <1>2, PTL DEF Spec

\* connect, the loops of every connection, attemptReconnect and Close never lose
\* track of a socket, and one stream at a time feeds Events, for any number of
\* callers and connections.
THEOREM SocketsAccountedFor == Spec => []ConnectionsOwned
<1>1. IInv => ConnectionsOwned
  BY DEF IInv, ConnectionsOwned
<1>2. QED
  BY Invariance, <1>1, PTL

\* The published connection of clob/ws/client.go behaves as WsLink says.
THEOREM PublishedAsPromised == Spec => ImplementsLink
<1>1. Init => Link!LinkInit
  BY DEF Init, Link!LinkInit
<1>2. IInv /\ [Next]_vars => [Link!LinkNext]_(IF conn = NoConn THEN "none" ELSE link[conn])
  BY LinkStep DEF IInv
<1>3. QED
  BY <1>1, <1>2, Invariance, PTL DEF Spec, ImplementsLink, Link!LinkSpec
=============================================================================
