-------------------------- MODULE RtdsClientProofs --------------------------
(* Proofs about RtdsClient, for every set of users, connections and         *)
(* registrations and every bound.                                          *)
EXTENDS RtdsClient, WellFoundedInduction, TLAPS

(***************************************************************************)
(* What the server should know, without the order of the registrations.    *)
(***************************************************************************)
AllSubscriptions(entries) ==
    {[key |-> KeyOf[entries[i]], auth |-> AuthOf[entries[i]]] : i \in DOMAIN entries}

\* Registrations of one topic/type carry the same credentials.
Coherent(entries) ==
    \A i, j \in DOMAIN entries :
        KeyOf[entries[i]] = KeyOf[entries[j]] => AuthOf[entries[i]] = AuthOf[entries[j]]

\* Most leaves are set and first-order reasoning; those with arithmetic or large
\* records cite SMT.
USE Zenon

\* Every topic/type has a first registration.
LEMMA FirstOfKey ==
    ASSUME NEW entries \in Seq(Registration), NEW i \in DOMAIN entries
    PROVE  \E k \in DOMAIN entries :
              /\ KeyOf[entries[k]] = KeyOf[entries[i]]
              /\ \A j \in DOMAIN entries : j < k => KeyOf[entries[j]] # KeyOf[entries[k]]
<1> DEFINE T == {k \in DOMAIN entries : KeyOf[entries[k]] = KeyOf[entries[i]]}
<1>1. T \in SUBSET Nat /\ T # {}
  BY SMT
<1>2. IsWellFoundedOn(OpToRel(<, Nat), Nat)
  BY NatLessThanWellFounded
<1>3. PICK k \in T : \A j \in T : <<j, k>> \notin OpToRel(<, Nat)
  BY <1>1, <1>2, WFMin
<1>4. \A j \in T : ~(j < k)
  BY <1>1, <1>3 DEF OpToRel
<1>5. QED
  BY <1>4

\* With coherent credentials it does not matter which registration of a
\* topic/type is sent.
LEMMA CoherentSubscriptions ==
    ASSUME NEW entries \in Seq(Registration), Coherent(entries)
    PROVE  serverSubscriptions(entries) = AllSubscriptions(entries)
<1>1. ASSUME NEW i \in DOMAIN entries
      PROVE  [key |-> KeyOf[entries[i]], auth |-> AuthOf[entries[i]]]
                \in serverSubscriptions(entries)
  <2>1. PICK k \in DOMAIN entries :
              /\ KeyOf[entries[k]] = KeyOf[entries[i]]
              /\ \A j \in DOMAIN entries : j < k => KeyOf[entries[j]] # KeyOf[entries[k]]
    BY FirstOfKey
  <2>2. AuthOf[entries[k]] = AuthOf[entries[i]]
    BY <2>1 DEF Coherent
  <2>3. QED
    BY <2>1, <2>2 DEF serverSubscriptions
<1>2. QED
  BY <1>1 DEF serverSubscriptions, AllSubscriptions

-----------------------------------------------------------------------------
(***************************************************************************)
(* The inductive invariant, layer by layer.                                *)
(***************************************************************************)

Locking == {"replay", "sync"}
Closing == {"cancel", "wait", "clear", "closed"}

\* subsMu is held exactly by the process that is about to write.
LockInv ==
    /\ \A p \in Proc : pc[p] \in Locking => subsMu = p
    /\ subsMu # NoProc => pc[subsMu] \in Locking

\* The reconnecting goroutine never runs a caller's method, and c.reconnecting
\* says whether it runs.
ReconnectorInv ==
    /\ pc[Reconnector] \in {"idle", "loop", "dial", "publish", "replay", "backoff", "exit"}
    /\ reconnecting <=> pc[Reconnector] # "idle"

\* closed comes before everything else Close does, and one caller closes.
ClosedInv ==
    /\ ctxDone => closed
    /\ \A u \in User : pc[u] \in Closing => closed
    /\ \A u \in User : pc[u] \in Closing \ {"cancel"} => ctxDone

\* A dialled connection belongs to its dialler until it is published.
HeldInv ==
    \A p \in Proc : pc[p] = "publish" =>
        /\ held[p] \in Conn /\ held[p] # last
        /\ link[held[p]] = "open" /\ reader[held[p]] = "off"
        /\ ~cancelled[held[p]] /\ server[held[p]] = {}

\* Two processes never hold the same dialled connection.
DistinctInv ==
    \A p, q \in Proc : (pc[p] = "publish" /\ pc[q] = "publish" /\ p # q) => held[p] # held[q]

\* Close captured the connection published last, if any.
CloserInv == \A u \in User : pc[u] = "cancel" => held[u] \in {NoConn, last}

\* The published connection is the last one, and is read under a live context.
ConnInv ==
    /\ conn # NoConn => conn = last
    /\ (~closed /\ conn # NoConn) => ~cancelled[conn]

\* A running reader belongs to the published connection; its socket is not free.
ReaderInv ==
    \A c \in Conn : /\ link[c] = "free" => reader[c] = "off"
                    /\ Serving(c) => conn = c

\* The published connection of an open client is being read.
ServedInv == (~closed /\ conn # NoConn) => Serving(conn)

\* Close has seen the last reader return, and has dropped the registrations.
FinalInv ==
    \A u \in User :
        /\ pc[u] \in {"clear", "closed"} => last = NoConn \/ reader[last] = "off"
        /\ pc[u] = "closed" => subs = <<>>

\* The server agrees with the registrations, or will once the write that the
\* holder of subsMu is about to make has been applied.
SyncInv ==
    (~closed /\ conn # NoConn /\ link[conn] = "open") =>
        /\ subsMu = NoProc => server[conn] = serverSubscriptions(subs)
        /\ \A p \in Proc : pc[p] \in Locking =>
              Applied(server[conn], request[p]) = serverSubscriptions(subs)

CoherentInv == Coherent(subs)

-----------------------------------------------------------------------------
(* Preservation of each layer.                                             *)

\* What is sent to the server is a set of Subscriptions.
LEMMA SubscriptionsTyped ==
    ASSUME NEW entries \in Seq(Registration)
    PROVE  serverSubscriptions(entries) \in SUBSET Subscription
BY SMT DEF serverSubscriptions, Subscription, Key, Auth

LEMMA DeleteTyped ==
    ASSUME NEW entries \in Seq(Registration), NEW i \in DOMAIN entries
    PROVE  /\ Delete(entries, i) \in Seq(Registration)
           /\ \A k \in DOMAIN Delete(entries, i) :
                 \E j \in DOMAIN entries : Delete(entries, i)[k] = entries[j]
<1>1. Len(entries) - 1 \in Nat
  BY SMT
<1>2. Delete(entries, i) \in Seq(Registration)
  BY <1>1, SMT DEF Delete
<1>3. QED
  BY <1>1, <1>2, SMT DEF Delete

\* The server's answer to a request is a set of Subscriptions.
LEMMA AppliedTyped ==
    ASSUME NEW current \in SUBSET Subscription, NEW req \in Request
    PROVE  Applied(current, req) \in SUBSET Subscription
BY DEF Applied, Request

\* A request that names nothing changes nothing.
LEMMA AppliedNothing ==
    ASSUME NEW current, NEW req, req.delta = {}
    PROVE  Applied(current, req) = current
BY DEF Applied

\* What a subscribe and an unsubscribe request make of the server's set.
LEMMA AppliedSubscribe ==
    ASSUME NEW current, NEW delta
    PROVE  Applied(current, [action |-> "subscribe", delta |-> delta]) = current \cup delta
<1> DEFINE req == [action |-> "subscribe", delta |-> delta]
<1>1. req.action = "subscribe" /\ req.delta = delta
  OBVIOUS
<1> HIDE DEF req
<1>2. Applied(current, req) = current \cup delta
  BY <1>1 DEF Applied
<1>3. QED
  BY <1>2 DEF req

LEMMA AppliedUnsubscribe ==
    ASSUME NEW current, NEW delta
    PROVE  Applied(current, [action |-> "unsubscribe", delta |-> delta])
              = {sub \in current : \A gone \in delta : gone.key # sub.key}
<1> DEFINE req == [action |-> "unsubscribe", delta |-> delta]
<1>1. req.action # "subscribe" /\ req.delta = delta
  OBVIOUS
<1> HIDE DEF req
<1>2. Applied(current, req) = {sub \in current : \A gone \in delta : gone.key # sub.key}
  BY <1>1 DEF Applied
<1>3. QED
  BY <1>2 DEF req

\* A write, successful or not, changes only the connection it is made on.
LEMMA WriteTyped ==
    ASSUME TypeOK, NEW c \in Conn, NEW req \in Request,
           WriteOK(c, req) \/ WriteFails(c, req)
    PROVE  /\ server' \in [Conn -> SUBSET Subscription]
           /\ link' \in [Conn -> {"free", "open", "silent", "dead"}]
           /\ faults' \in Nat
<1>1. Applied(server[c], req) \in SUBSET Subscription
  BY AppliedTyped DEF TypeOK
<1>2. server' \in [Conn -> SUBSET Subscription]
  BY <1>1 DEF TypeOK, WriteOK, WriteFails
<1>3. link' \in [Conn -> {"free", "open", "silent", "dead"}]
  BY DEF TypeOK, WriteOK, WriteFails
<1>4. faults' \in Nat
  BY SMT DEF TypeOK, WriteOK, WriteFails, Fault
<1>5. QED
  BY <1>2, <1>3, <1>4

(***************************************************************************)
(* What the larger actions do, one consequence at a time.                  *)
(***************************************************************************)

LEMMA PublishEffect ==
    ASSUME TypeOK, NEW p \in Proc, Publish(p)
    PROVE  /\ pc[p] = "publish" /\ subsMu = NoProc /\ ~closed /\ conn = NoConn
           /\ conn' = held[p] /\ last' = held[p]
           /\ \A c \in Conn : c # last => cancelled'[c] = cancelled[c]
           /\ reader' = [reader EXCEPT ![held[p]] = "reading"]
           /\ held' = [held EXCEPT ![p] = NoConn]
           /\ UNCHANGED <<closed, ctxDone, reconnecting, retries, subs, link, server, faults>>
           /\ \/ /\ pc' = [pc EXCEPT ![p] = AfterConnect(p, TRUE)]
                 /\ subs = <<>> /\ UNCHANGED <<subsMu, request>>
              \/ /\ pc' = [pc EXCEPT ![p] = "replay"] /\ subsMu' = p
                 /\ request' = [request EXCEPT ![p] = [action |-> "subscribe",
                                                       delta |-> serverSubscriptions(subs)]]
<1>1. ASSUME NEW c \in Conn, c # last PROVE cancelled'[c] = cancelled[c]
  <2>1. cancelled \in [Conn -> BOOLEAN]
    BY DEF TypeOK
  <2>2. cancelled' = cancelled \/ cancelled' = [cancelled EXCEPT ![last] = TRUE]
    BY DEF Publish
  <2>3. QED
    BY <1>1, <2>1, <2>2
<1>2. QED
  BY <1>1 DEF Publish, Goto

\* A write touches the published connection only, and if it leaves that one
\* open the server has applied the request.
Written(req) ==
    /\ \A c \in Conn : c # conn => link'[c] = link[c] /\ server'[c] = server[c]
    /\ \A c \in Conn : link'[c] \in {link[c], "dead"}
    /\ \A c \in Conn : link'[c] = "free" <=> link[c] = "free"
    /\ (~closed /\ conn # NoConn /\ link'[conn] = "open")
           => link[conn] = "open" /\ server'[conn] = Applied(server[conn], req)

LEMMA WriteEffect ==
    ASSUME TypeOK, NEW req \in Request,
           \/ conn # NoConn /\ (WriteOK(conn, req) \/ WriteFails(conn, req))
           \/ UNCHANGED <<link, server, faults>> /\ (req.delta = {} \/ conn = NoConn \/ closed)
    PROVE  Written(req)
<1>1. conn # NoConn => conn \in Conn
  BY DEF TypeOK
<1>2. CASE UNCHANGED <<link, server, faults>> /\ (req.delta = {} \/ conn = NoConn \/ closed)
  BY <1>2, AppliedNothing DEF TypeOK, Written
<1>3. CASE conn # NoConn /\ WriteOK(conn, req)
  BY <1>1, <1>3 DEF TypeOK, WriteOK, Written
<1>4. CASE conn # NoConn /\ WriteFails(conn, req)
  BY <1>1, <1>4 DEF TypeOK, WriteFails, Written
<1>5. QED
  BY <1>2, <1>3, <1>4

LEMMA ReplayEffect ==
    ASSUME TypeOK, NEW p \in Proc, Replay(p)
    PROVE  /\ pc[p] = "replay" /\ subsMu' = NoProc /\ Written(request[p])
           /\ \E ok \in BOOLEAN : pc' = [pc EXCEPT ![p] = AfterConnect(p, ok)]
           /\ request' = [request EXCEPT ![p] = NoRequest]
           /\ UNCHANGED <<conn, last, closed, ctxDone, reconnecting, retries, subs,
                          cancelled, reader, held>>
<1>1. request[p] \in Request
  BY DEF TypeOK
<1>2. \/ conn # NoConn /\ (WriteOK(conn, request[p]) \/ WriteFails(conn, request[p]))
      \/ UNCHANGED <<link, server, faults>> /\ conn = NoConn
  BY DEF Replay
<1>3. Written(request[p])
  BY <1>1, <1>2, WriteEffect
<1>4. \E ok \in BOOLEAN : pc' = [pc EXCEPT ![p] = AfterConnect(p, ok)]
  BY DEF Replay, Goto
<1>5. QED
  BY <1>3, <1>4 DEF Replay

LEMMA SyncEffect ==
    ASSUME TypeOK, NEW u \in User, syncSubscriptions(u)
    PROVE  /\ pc[u] = "sync" /\ subsMu' = NoProc /\ Written(request[u])
           /\ pc' = [pc EXCEPT ![u] = "idle"]
           /\ request' = [request EXCEPT ![u] = NoRequest]
           /\ UNCHANGED <<conn, last, closed, ctxDone, reconnecting, retries, subs,
                          cancelled, reader, held>>
<1>1. request[u] \in Request
  BY DEF TypeOK, Proc
<1>2. \/ conn # NoConn /\ (WriteOK(conn, request[u]) \/ WriteFails(conn, request[u]))
      \/ /\ UNCHANGED <<link, server, faults>>
         /\ request[u].delta = {} \/ conn = NoConn \/ closed
  BY DEF syncSubscriptions
<1>3. Written(request[u])
  BY <1>1, <1>2, WriteEffect
<1>4. QED
  BY <1>3 DEF syncSubscriptions, Goto

\* Every step keeps the types.
LEMMA TypeStep ==
    TypeOK /\ [Next]_vars => TypeOK'
<1> SUFFICES ASSUME TypeOK, [Next]_vars
             PROVE  TypeOK'
  OBVIOUS
<1> USE ProcAssumption DEF TypeOK, Proc, Where, Request, NoRequest
<1>1. ASSUME NEW u \in User, Connect(u) PROVE TypeOK'
  BY <1>1 DEF Connect, Goto, clientVars, connVars, procVars
<1>2. ASSUME NEW u \in User, Close(u) PROVE TypeOK'
  BY <1>2 DEF Close, Goto, clientVars, connVars, procVars
<1>3. ASSUME NEW u \in User, NEW r \in Registration, Subscribe(u, r) PROVE TypeOK'
  <2>1. subs' \in Seq(Registration)
    BY <1>3, SMT DEF Subscribe
  <2>2. /\ serverSubscriptions(subs) \in SUBSET Subscription
        /\ serverSubscriptions(subs') \in SUBSET Subscription
    BY <2>1, SubscriptionsTyped
  <2>3. request' \in [Proc -> Request]
    BY <1>3, <2>2 DEF Subscribe, serverDifference
  <2>4. QED
    BY <1>3, <2>1, <2>3 DEF Subscribe, Goto, connVars
<1>4. ASSUME NEW u \in User, NEW r \in Registration, Unsubscribe(u, r) PROVE TypeOK'
  <2>1. subs' \in Seq(Registration)
    BY <1>4, DeleteTyped, SMT DEF Unsubscribe
  <2>2. /\ serverSubscriptions(subs) \in SUBSET Subscription
        /\ serverSubscriptions(subs') \in SUBSET Subscription
    BY <2>1, SubscriptionsTyped
  <2>3. request' \in [Proc -> Request]
    BY <1>4, <2>2 DEF Unsubscribe, serverDifference
  <2>4. QED
    BY <1>4, <2>1, <2>3 DEF Unsubscribe, Goto, connVars
<1>5. ASSUME NEW u \in User, syncSubscriptions(u) PROVE TypeOK'
  <2>1. /\ server' \in [Conn -> SUBSET Subscription]
        /\ link' \in [Conn -> {"free", "open", "silent", "dead"}]
        /\ faults' \in Nat
    BY <1>5, WriteTyped DEF syncSubscriptions
  <2>2. QED
    BY <1>5, <2>1 DEF syncSubscriptions, Goto
<1>6. ASSUME NEW u \in User, CloseCancel(u) PROVE TypeOK'
  BY <1>6 DEF CloseCancel, Goto, clientVars, connVars, procVars
<1>7. ASSUME NEW u \in User, CloseWait(u) PROVE TypeOK'
  BY <1>7 DEF CloseWait, Goto, clientVars, connVars, procVars
<1>8. ASSUME NEW u \in User, CloseClear(u) PROVE TypeOK'
  BY <1>8, SMT DEF CloseClear, Goto, clientVars, connVars, procVars
<1>9. ASSUME NEW p \in Proc, DialFails(p) PROVE TypeOK'
  BY <1>9, SMT DEF DialFails, Fault, Goto, AfterConnect, clientVars, connVars, procVars
<1>10. ASSUME NEW p \in Proc, Dial(p) PROVE TypeOK'
  BY <1>10, SMT DEF Dial, Goto, clientVars, connVars, procVars
<1>11. ASSUME NEW p \in Proc, Discard(p) PROVE TypeOK'
  BY <1>11 DEF Discard, Goto, AfterConnect, clientVars, connVars, procVars
<1>12. ASSUME NEW p \in Proc, Publish(p) PROVE TypeOK'
  <2>1. serverSubscriptions(subs) \in SUBSET Subscription
    BY SubscriptionsTyped
  <2>2. request' \in [Proc -> Request]
    <3>1. CASE subs = <<>>
      BY <1>12, <3>1 DEF Publish
    <3>2. CASE subs # <<>>
      <4>1. request' = [request EXCEPT ![p] = [action |-> "subscribe",
                                               delta |-> serverSubscriptions(subs)]]
        BY <1>12, <3>2 DEF Publish
      <4>2. [action |-> "subscribe", delta |-> serverSubscriptions(subs)] \in Request
        BY <2>1 DEF Request
      <4>3. QED
        BY <4>1, <4>2
    <3>3. QED
      BY <3>1, <3>2
  <2>3. pc' \in [Proc -> Where]
    BY <1>12, SMT DEF Publish, Goto, AfterConnect, Where
  <2>4. QED
    BY <1>12, <2>2, <2>3 DEF Publish
<1>13. ASSUME NEW p \in Proc, Replay(p) PROVE TypeOK'
  <2>1. /\ server' \in [Conn -> SUBSET Subscription]
        /\ link' \in [Conn -> {"free", "open", "silent", "dead"}]
        /\ faults' \in Nat
    BY <1>13, WriteTyped DEF Replay
  <2>2. pc' \in [Proc -> Where]
    BY <1>13, SMT DEF Replay, Goto, AfterConnect
  <2>3. QED
    BY <1>13, <2>1, <2>2 DEF Replay
<1>14. ASSUME NEW c \in Conn, ReadMessage(c) PROVE TypeOK'
  BY <1>14 DEF ReadMessage, clientVars, connVars, procVars
<1>15. ASSUME NEW c \in Conn, dispatch(c) PROVE TypeOK'
  BY <1>15 DEF dispatch, clientVars, connVars, procVars
<1>16. ASSUME NEW c \in Conn, ReadError(c) PROVE TypeOK'
  BY <1>16 DEF ReadError, clientVars, connVars, procVars
<1>17. ASSUME NEW c \in Conn, ReaderSchedules(c) PROVE TypeOK'
  BY <1>17 DEF ReaderSchedules, scheduleReconnect, clientVars, connVars, procVars
<1>18. ASSUME NEW c \in Conn, heartbeatLoop(c) PROVE TypeOK'
  BY <1>18 DEF heartbeatLoop, clientVars, connVars, procVars
<1>19. ASSUME NEW c \in Conn, ConnectionLost(c) PROVE TypeOK'
  <2>1. link' \in [Conn -> {"free", "open", "silent", "dead"}]
    BY <1>19 DEF ConnectionLost
  <2>2. faults' \in Nat
    BY <1>19, SMT DEF ConnectionLost, Fault
  <2>3. QED
    BY <1>19, <2>1, <2>2 DEF ConnectionLost, clientVars, procVars
<1>20. CASE ReconnectLoop
  BY <1>20 DEF ReconnectLoop, Goto, clientVars, connVars, procVars
<1>21. CASE ReconnectBackoff
  BY <1>21 DEF ReconnectBackoff, Goto, clientVars, connVars, procVars
<1>22. CASE ReconnectExit
  <2>1. retries' \in Nat
    BY <1>22, SMT DEF ReconnectExit
  <2>2. QED
    BY <1>22, <2>1 DEF ReconnectExit, Goto, connVars
<1>23. CASE ReconnectRetry
  <2>1. retries' \in Nat
    BY <1>23, SMT DEF ReconnectRetry
  <2>2. QED
    BY <1>23, <2>1 DEF ReconnectRetry, scheduleReconnect, connVars
<1>24. CASE UNCHANGED vars
  BY <1>24 DEF vars, clientVars, connVars, procVars
<1>25. QED
  BY <1>1, <1>2, <1>3, <1>4, <1>5, <1>6, <1>7, <1>8, <1>9, <1>10, <1>11, <1>12,
     <1>13, <1>14, <1>15, <1>16, <1>17, <1>18, <1>19, <1>20, <1>21, <1>22, <1>23,
     <1>24
     DEF Next, UserCall, ConnectStep, CloseStep, ReaderStep, ReconnectStep, Terminated

\* Every step keeps subsMu with its writer.
LEMMA LockStep ==
    TypeOK /\ ReconnectorInv /\ LockInv /\ [Next]_vars => LockInv'
<1> SUFFICES ASSUME TypeOK, ReconnectorInv, LockInv, [Next]_vars
             PROVE  LockInv'
  OBVIOUS
<1>f1. /\ pc \in [Proc -> Where]
       /\ subsMu \in Proc \cup {NoProc}
  BY DEF TypeOK
<1>f2. Reconnector \in Proc /\ NoProc \notin Proc /\ User \subseteq Proc
  BY ProcAssumption DEF Proc
<1>f3. ~reconnecting => pc[Reconnector] = "idle"
  BY DEF ReconnectorInv
<1> USE DEF LockInv, Locking
<1>1. ASSUME NEW u \in User, Connect(u) PROVE LockInv'
  BY <1>1, <1>f1, <1>f2, <1>f3 DEF Connect, Goto, clientVars, connVars
<1>2. ASSUME NEW u \in User, Close(u) PROVE LockInv'
  BY <1>2, <1>f1, <1>f2, <1>f3 DEF Close, Goto, connVars
<1>3. ASSUME NEW u \in User, NEW r \in Registration, Subscribe(u, r) PROVE LockInv'
  BY <1>3, <1>f1, <1>f2, <1>f3 DEF Subscribe, Goto, connVars
<1>4. ASSUME NEW u \in User, NEW r \in Registration, Unsubscribe(u, r) PROVE LockInv'
  BY <1>4, <1>f1, <1>f2, <1>f3 DEF Unsubscribe, Goto, connVars
<1>5. ASSUME NEW u \in User, syncSubscriptions(u) PROVE LockInv'
  BY <1>5, <1>f1, <1>f2, <1>f3, SyncEffect
<1>6. ASSUME NEW u \in User, CloseCancel(u) PROVE LockInv'
  BY <1>6, <1>f1, <1>f2, <1>f3 DEF CloseCancel, Goto
<1>7. ASSUME NEW u \in User, CloseWait(u) PROVE LockInv'
  BY <1>7, <1>f1, <1>f2, <1>f3 DEF CloseWait, Goto, clientVars, connVars
<1>8. ASSUME NEW u \in User, CloseClear(u) PROVE LockInv'
  BY <1>8, <1>f1, <1>f2, <1>f3 DEF CloseClear, Goto, connVars
<1>9. ASSUME NEW p \in Proc, DialFails(p) PROVE LockInv'
  BY <1>9, <1>f1, <1>f2, <1>f3 DEF DialFails, Goto, AfterConnect, clientVars, connVars
<1>10. ASSUME NEW p \in Proc, Dial(p) PROVE LockInv'
  BY <1>10, <1>f1, <1>f2, <1>f3 DEF Dial, Goto, clientVars
<1>11. ASSUME NEW p \in Proc, Discard(p) PROVE LockInv'
  BY <1>11, <1>f1, <1>f2, <1>f3 DEF Discard, Goto, AfterConnect, clientVars
<1>12. ASSUME NEW p \in Proc, Publish(p) PROVE LockInv'
  BY SMTT(60), <1>12, <1>f1, <1>f2, <1>f3, PublishEffect DEF AfterConnect
<1>13. ASSUME NEW p \in Proc, Replay(p) PROVE LockInv'
  BY <1>13, <1>f1, <1>f2, <1>f3, ReplayEffect, SMT DEF AfterConnect
<1>14. ASSUME NEW c \in Conn, ReadMessage(c) PROVE LockInv'
  BY <1>14, <1>f1, <1>f2, <1>f3 DEF ReadMessage, clientVars, procVars
<1>15. ASSUME NEW c \in Conn, dispatch(c) PROVE LockInv'
  BY <1>15, <1>f1, <1>f2, <1>f3 DEF dispatch, clientVars, procVars
<1>16. ASSUME NEW c \in Conn, ReadError(c) PROVE LockInv'
  BY <1>16, <1>f1, <1>f2, <1>f3 DEF ReadError, procVars
<1>17. ASSUME NEW c \in Conn, ReaderSchedules(c) PROVE LockInv'
  BY <1>17, <1>f1, <1>f2, <1>f3 DEF ReaderSchedules, scheduleReconnect
<1>18. ASSUME NEW c \in Conn, heartbeatLoop(c) PROVE LockInv'
  BY <1>18, <1>f1, <1>f2, <1>f3 DEF heartbeatLoop, clientVars, procVars
<1>19. ASSUME NEW c \in Conn, ConnectionLost(c) PROVE LockInv'
  BY <1>19, <1>f1, <1>f2, <1>f3 DEF ConnectionLost, clientVars, procVars
<1>20. CASE ReconnectLoop
  BY <1>20, <1>f1, <1>f2, <1>f3 DEF ReconnectLoop, Goto, clientVars, connVars
<1>21. CASE ReconnectBackoff
  BY <1>21, <1>f1, <1>f2, <1>f3 DEF ReconnectBackoff, Goto, clientVars, connVars
<1>22. CASE ReconnectExit
  BY <1>22, <1>f1, <1>f2, <1>f3 DEF ReconnectExit, Goto, connVars
<1>23. CASE ReconnectRetry
  BY <1>23, <1>f1, <1>f2, <1>f3 DEF ReconnectRetry, scheduleReconnect, connVars
<1>24. CASE UNCHANGED vars
  BY <1>24, <1>f1, <1>f2, <1>f3 DEF vars, clientVars, connVars, procVars
<1>25. QED
  BY <1>1, <1>2, <1>3, <1>4, <1>5, <1>6, <1>7, <1>8, <1>9, <1>10, <1>11, <1>12,
     <1>13, <1>14, <1>15, <1>16, <1>17, <1>18, <1>19, <1>20, <1>21, <1>22, <1>23,
     <1>24
     DEF Next, UserCall, ConnectStep, CloseStep, ReaderStep, ReconnectStep, Terminated

\* Every step keeps the reconnecting flag truthful.
LEMMA ReconnectorStep ==
    TypeOK /\ ReconnectorInv /\ [Next]_vars => ReconnectorInv'
<1> SUFFICES ASSUME TypeOK, ReconnectorInv, [Next]_vars
             PROVE  ReconnectorInv'
  OBVIOUS
<1>f1. /\ pc \in [Proc -> Where]
       /\ reconnecting \in BOOLEAN
  BY DEF TypeOK
<1>f2. Reconnector \in Proc /\ Reconnector \notin User /\ User \subseteq Proc
  BY ProcAssumption DEF Proc
<1> USE DEF ReconnectorInv
<1>1. ASSUME NEW u \in User, Connect(u) PROVE ReconnectorInv'
  BY <1>1, <1>f1, <1>f2 DEF Connect, Goto, clientVars, connVars
<1>2. ASSUME NEW u \in User, Close(u) PROVE ReconnectorInv'
  BY <1>2, <1>f1, <1>f2 DEF Close, Goto, connVars
<1>3. ASSUME NEW u \in User, NEW r \in Registration, Subscribe(u, r) PROVE ReconnectorInv'
  BY <1>3, <1>f1, <1>f2 DEF Subscribe, Goto, connVars
<1>4. ASSUME NEW u \in User, NEW r \in Registration, Unsubscribe(u, r) PROVE ReconnectorInv'
  BY <1>4, <1>f1, <1>f2 DEF Unsubscribe, Goto, connVars
<1>5. ASSUME NEW u \in User, syncSubscriptions(u) PROVE ReconnectorInv'
  BY <1>5, <1>f1, <1>f2, SyncEffect
<1>6. ASSUME NEW u \in User, CloseCancel(u) PROVE ReconnectorInv'
  BY <1>6, <1>f1, <1>f2 DEF CloseCancel, Goto
<1>7. ASSUME NEW u \in User, CloseWait(u) PROVE ReconnectorInv'
  BY <1>7, <1>f1, <1>f2 DEF CloseWait, Goto, clientVars, connVars
<1>8. ASSUME NEW u \in User, CloseClear(u) PROVE ReconnectorInv'
  BY <1>8, <1>f1, <1>f2 DEF CloseClear, Goto, connVars
<1>9. ASSUME NEW p \in Proc, DialFails(p) PROVE ReconnectorInv'
  BY <1>9, <1>f1, <1>f2 DEF DialFails, Goto, AfterConnect, clientVars, connVars
<1>10. ASSUME NEW p \in Proc, Dial(p) PROVE ReconnectorInv'
  BY <1>10, <1>f1, <1>f2 DEF Dial, Goto, clientVars
<1>11. ASSUME NEW p \in Proc, Discard(p) PROVE ReconnectorInv'
  BY <1>11, <1>f1, <1>f2 DEF Discard, Goto, AfterConnect, clientVars
<1>12. ASSUME NEW p \in Proc, Publish(p) PROVE ReconnectorInv'
  BY <1>12, <1>f1, <1>f2, PublishEffect DEF AfterConnect
<1>13. ASSUME NEW p \in Proc, Replay(p) PROVE ReconnectorInv'
  BY <1>13, <1>f1, <1>f2, ReplayEffect DEF AfterConnect
<1>14. ASSUME NEW c \in Conn, ReadMessage(c) PROVE ReconnectorInv'
  BY <1>14, <1>f1, <1>f2 DEF ReadMessage, clientVars, procVars
<1>15. ASSUME NEW c \in Conn, dispatch(c) PROVE ReconnectorInv'
  BY <1>15, <1>f1, <1>f2 DEF dispatch, clientVars, procVars
<1>16. ASSUME NEW c \in Conn, ReadError(c) PROVE ReconnectorInv'
  BY <1>16, <1>f1, <1>f2 DEF ReadError, procVars
<1>17. ASSUME NEW c \in Conn, ReaderSchedules(c) PROVE ReconnectorInv'
  BY <1>17, <1>f1, <1>f2 DEF ReaderSchedules, scheduleReconnect
<1>18. ASSUME NEW c \in Conn, heartbeatLoop(c) PROVE ReconnectorInv'
  BY <1>18, <1>f1, <1>f2 DEF heartbeatLoop, clientVars, procVars
<1>19. ASSUME NEW c \in Conn, ConnectionLost(c) PROVE ReconnectorInv'
  BY <1>19, <1>f1, <1>f2 DEF ConnectionLost, clientVars, procVars
<1>20. CASE ReconnectLoop
  BY <1>20, <1>f1, <1>f2 DEF ReconnectLoop, Goto, clientVars, connVars
<1>21. CASE ReconnectBackoff
  BY <1>21, <1>f1, <1>f2 DEF ReconnectBackoff, Goto, clientVars, connVars
<1>22. CASE ReconnectExit
  BY <1>22, <1>f1, <1>f2 DEF ReconnectExit, Goto, connVars
<1>23. CASE ReconnectRetry
  BY <1>23, <1>f1, <1>f2 DEF ReconnectRetry, scheduleReconnect, connVars
<1>24. CASE UNCHANGED vars
  BY <1>24, <1>f1, <1>f2 DEF vars, clientVars, connVars, procVars
<1>25. QED
  BY <1>1, <1>2, <1>3, <1>4, <1>5, <1>6, <1>7, <1>8, <1>9, <1>10, <1>11, <1>12,
     <1>13, <1>14, <1>15, <1>16, <1>17, <1>18, <1>19, <1>20, <1>21, <1>22, <1>23,
     <1>24
     DEF Next, UserCall, ConnectStep, CloseStep, ReaderStep, ReconnectStep, Terminated

\* Every step keeps the order in which Close works.
LEMMA ClosedStep ==
    TypeOK /\ ClosedInv /\ [Next]_vars => ClosedInv'
<1> SUFFICES ASSUME TypeOK, ClosedInv, [Next]_vars
             PROVE  ClosedInv'
  OBVIOUS
<1>f1. /\ pc \in [Proc -> Where]
       /\ closed \in BOOLEAN /\ ctxDone \in BOOLEAN
  BY DEF TypeOK
<1>f2. Reconnector \in Proc /\ Reconnector \notin User /\ User \subseteq Proc
  BY ProcAssumption DEF Proc
<1> USE DEF ClosedInv, Closing
<1>1. ASSUME NEW u \in User, Connect(u) PROVE ClosedInv'
  BY <1>1, <1>f1, <1>f2 DEF Connect, Goto, clientVars, connVars
<1>2. ASSUME NEW u \in User, Close(u) PROVE ClosedInv'
  BY <1>2, <1>f1, <1>f2 DEF Close, Goto, connVars
<1>3. ASSUME NEW u \in User, NEW r \in Registration, Subscribe(u, r) PROVE ClosedInv'
  BY <1>3, <1>f1, <1>f2 DEF Subscribe, Goto, connVars
<1>4. ASSUME NEW u \in User, NEW r \in Registration, Unsubscribe(u, r) PROVE ClosedInv'
  BY <1>4, <1>f1, <1>f2 DEF Unsubscribe, Goto, connVars
<1>5. ASSUME NEW u \in User, syncSubscriptions(u) PROVE ClosedInv'
  BY <1>5, <1>f1, <1>f2, SyncEffect
<1>6. ASSUME NEW u \in User, CloseCancel(u) PROVE ClosedInv'
  BY <1>6, <1>f1, <1>f2 DEF CloseCancel, Goto
<1>7. ASSUME NEW u \in User, CloseWait(u) PROVE ClosedInv'
  BY <1>7, <1>f1, <1>f2 DEF CloseWait, Goto, clientVars, connVars
<1>8. ASSUME NEW u \in User, CloseClear(u) PROVE ClosedInv'
  BY <1>8, <1>f1, <1>f2 DEF CloseClear, Goto, connVars
<1>9. ASSUME NEW p \in Proc, DialFails(p) PROVE ClosedInv'
  BY <1>9, <1>f1, <1>f2 DEF DialFails, Goto, AfterConnect, clientVars, connVars
<1>10. ASSUME NEW p \in Proc, Dial(p) PROVE ClosedInv'
  BY <1>10, <1>f1, <1>f2 DEF Dial, Goto, clientVars
<1>11. ASSUME NEW p \in Proc, Discard(p) PROVE ClosedInv'
  BY <1>11, <1>f1, <1>f2 DEF Discard, Goto, AfterConnect, clientVars
<1>12. ASSUME NEW p \in Proc, Publish(p) PROVE ClosedInv'
  BY <1>12, <1>f1, <1>f2, PublishEffect, SMT DEF AfterConnect
<1>13. ASSUME NEW p \in Proc, Replay(p) PROVE ClosedInv'
  BY <1>13, <1>f1, <1>f2, ReplayEffect DEF AfterConnect
<1>14. ASSUME NEW c \in Conn, ReadMessage(c) PROVE ClosedInv'
  BY <1>14, <1>f1, <1>f2 DEF ReadMessage, clientVars, procVars
<1>15. ASSUME NEW c \in Conn, dispatch(c) PROVE ClosedInv'
  BY <1>15, <1>f1, <1>f2 DEF dispatch, clientVars, procVars
<1>16. ASSUME NEW c \in Conn, ReadError(c) PROVE ClosedInv'
  BY <1>16, <1>f1, <1>f2 DEF ReadError, procVars
<1>17. ASSUME NEW c \in Conn, ReaderSchedules(c) PROVE ClosedInv'
  BY <1>17, <1>f1, <1>f2 DEF ReaderSchedules, scheduleReconnect
<1>18. ASSUME NEW c \in Conn, heartbeatLoop(c) PROVE ClosedInv'
  BY <1>18, <1>f1, <1>f2 DEF heartbeatLoop, clientVars, procVars
<1>19. ASSUME NEW c \in Conn, ConnectionLost(c) PROVE ClosedInv'
  BY <1>19, <1>f1, <1>f2 DEF ConnectionLost, clientVars, procVars
<1>20. CASE ReconnectLoop
  BY <1>20, <1>f1, <1>f2 DEF ReconnectLoop, Goto, clientVars, connVars
<1>21. CASE ReconnectBackoff
  BY <1>21, <1>f1, <1>f2 DEF ReconnectBackoff, Goto, clientVars, connVars
<1>22. CASE ReconnectExit
  BY <1>22, <1>f1, <1>f2 DEF ReconnectExit, Goto, connVars
<1>23. CASE ReconnectRetry
  BY <1>23, <1>f1, <1>f2 DEF ReconnectRetry, scheduleReconnect, connVars
<1>24. CASE UNCHANGED vars
  BY <1>24, <1>f1, <1>f2 DEF vars, clientVars, connVars, procVars
<1>25. QED
  BY <1>1, <1>2, <1>3, <1>4, <1>5, <1>6, <1>7, <1>8, <1>9, <1>10, <1>11, <1>12,
     <1>13, <1>14, <1>15, <1>16, <1>17, <1>18, <1>19, <1>20, <1>21, <1>22, <1>23,
     <1>24
     DEF Next, UserCall, ConnectStep, CloseStep, ReaderStep, ReconnectStep, Terminated

\* Every step keeps dialled connections private.
LEMMA HeldStep ==
    TypeOK /\ HeldInv /\ DistinctInv /\ CloserInv /\ ConnInv /\ ReaderInv /\ [Next]_vars => HeldInv'
<1> SUFFICES ASSUME TypeOK, HeldInv, DistinctInv, CloserInv, ConnInv, ReaderInv, [Next]_vars,
                    NEW q \in Proc, pc'[q] = "publish"
             PROVE  /\ held'[q] \in Conn /\ held'[q] # last'
                    /\ link'[held'[q]] = "open" /\ reader'[held'[q]] = "off"
                    /\ ~cancelled'[held'[q]] /\ server'[held'[q]] = {}
  BY DEF HeldInv
<1> DEFINE Goal == /\ held'[q] \in Conn /\ held'[q] # last'
                    /\ link'[held'[q]] = "open" /\ reader'[held'[q]] = "off"
                    /\ ~cancelled'[held'[q]] /\ server'[held'[q]] = {}
<1> SUFFICES Goal
  OBVIOUS
<1>f1. /\ pc \in [Proc -> Where]
       /\ held \in [Proc -> Conn \cup {NoConn}]
       /\ link \in [Conn -> {"free", "open", "silent", "dead"}]
       /\ reader \in [Conn -> {"off", "reading", "dispatch", "schedule"}]
       /\ cancelled \in [Conn -> BOOLEAN]
       /\ server \in [Conn -> SUBSET Subscription]
       /\ conn \in Conn \cup {NoConn} /\ last \in Conn \cup {NoConn}
  BY DEF TypeOK
<1>f2. Reconnector \in Proc /\ Reconnector \notin User /\ User \subseteq Proc
  BY ProcAssumption DEF Proc
<1>f3. pc[q] = "publish" =>
        /\ held[q] \in Conn /\ held[q] # last
        /\ link[held[q]] = "open" /\ reader[held[q]] = "off"
        /\ ~cancelled[held[q]] /\ server[held[q]] = {}
  BY DEF HeldInv
<1>f4. conn # NoConn => conn = last
  BY DEF ConnInv
<1>f5. NoConn \notin Conn
  BY ProcAssumption
<1>1. ASSUME NEW u \in User, Connect(u) PROVE Goal
  BY <1>1, <1>f1, <1>f2, <1>f3, <1>f4, <1>f5 DEF Connect, Goto, clientVars, connVars
<1>2. ASSUME NEW u \in User, Close(u) PROVE Goal
  BY <1>2, <1>f1, <1>f2, <1>f3, <1>f4, <1>f5 DEF Close, Goto, connVars
<1>3. ASSUME NEW u \in User, NEW r \in Registration, Subscribe(u, r) PROVE Goal
  BY <1>3, <1>f1, <1>f2, <1>f3, <1>f4, <1>f5 DEF Subscribe, Goto, connVars
<1>4. ASSUME NEW u \in User, NEW r \in Registration, Unsubscribe(u, r) PROVE Goal
  BY <1>4, <1>f1, <1>f2, <1>f3, <1>f4, <1>f5 DEF Unsubscribe, Goto, connVars
<1>5. ASSUME NEW u \in User, syncSubscriptions(u) PROVE Goal
  <2>1. pc[q] = "publish" /\ held'[q] = held[q] /\ UNCHANGED <<last, reader, cancelled>>
    BY <1>5, <1>f1, <1>f2, <1>f3, <1>f4, <1>f5, SyncEffect
  <2>2. held[q] \in Conn /\ held[q] # conn
    BY <2>1, <1>f3, <1>f4, <1>f5
  <2>3. Written(request[u])
    BY <1>5, SyncEffect
  <2>4. link'[held[q]] = link[held[q]] /\ server'[held[q]] = server[held[q]]
    BY <2>2, <2>3 DEF Written
  <2>5. QED
    BY <2>1, <2>4, <1>f3
<1>6. ASSUME NEW u \in User, CloseCancel(u) PROVE Goal
  BY <1>6, <1>f1, <1>f2, <1>f3, <1>f4, <1>f5 DEF CloseCancel, Goto, CloserInv
<1>7. ASSUME NEW u \in User, CloseWait(u) PROVE Goal
  BY <1>7, <1>f1, <1>f2, <1>f3, <1>f4, <1>f5 DEF CloseWait, Goto, clientVars, connVars
<1>8. ASSUME NEW u \in User, CloseClear(u) PROVE Goal
  BY <1>8, <1>f1, <1>f2, <1>f3, <1>f4, <1>f5 DEF CloseClear, Goto, connVars
<1>9. ASSUME NEW p \in Proc, DialFails(p) PROVE Goal
  BY <1>9, <1>f1, <1>f2, <1>f3, <1>f4, <1>f5 DEF DialFails, Goto, AfterConnect, clientVars, connVars
<1>10. ASSUME NEW p \in Proc, Dial(p) PROVE Goal
  <2>1. PICK c \in Conn \ {last} :
            /\ link[c] = "free"
            /\ link' = [link EXCEPT ![c] = "open"]
            /\ cancelled' = [cancelled EXCEPT ![c] = FALSE]
            /\ server' = [server EXCEPT ![c] = {}]
            /\ held' = [held EXCEPT ![p] = c]
    BY <1>10 DEF Dial
  <2>2. UNCHANGED <<last, reader>> /\ (q # p => pc[q] = "publish")
    BY <1>10, <1>f1 DEF Dial, Goto, clientVars
  <2>3. reader[c] = "off"
    BY <2>1 DEF ReaderInv
  <2>4. CASE q = p
    BY <2>1, <2>2, <2>3, <2>4, <1>f1
  <2>5. CASE q # p
    BY <2>1, <2>2, <2>5, <1>f1, <1>f3
  <2>6. QED
    BY <2>4, <2>5
<1>11. ASSUME NEW p \in Proc, Discard(p) PROVE Goal
  <2>1. q # p /\ pc[q] = "publish"
    BY <1>11, <1>f1 DEF Discard, Goto, AfterConnect
  <2>2. held[q] # held[p]
    BY <1>11, <2>1 DEF Discard, DistinctInv
  <2>3. QED
    BY <1>11, <2>1, <2>2, <1>f1, <1>f3 DEF Discard, clientVars
<1>12. ASSUME NEW p \in Proc, Publish(p) PROVE Goal
  <2>1. q # p /\ pc[q] = "publish"
    BY SMTT(60), <1>12, <1>f1, PublishEffect DEF AfterConnect
  <2>2. held[q] # held[p]
    BY <1>12, <2>1, PublishEffect DEF DistinctInv
  <2>3. held'[q] = held[q] /\ last' = held[p] /\ UNCHANGED <<link, server>>
    BY <1>12, <2>1, <1>f1 DEF Publish
  <2>4. cancelled'[held[q]] = cancelled[held[q]]
    BY <1>12, <2>1, <1>f3, PublishEffect
  <2>5. reader'[held[q]] = reader[held[q]]
    BY <1>12, <2>1, <2>2, <1>f1, <1>f3, PublishEffect
  <2>6. QED
    BY <2>1, <2>2, <2>3, <2>4, <2>5, <1>f3
<1>13. ASSUME NEW p \in Proc, Replay(p) PROVE Goal
  <2>1. pc[q] = "publish" /\ held'[q] = held[q] /\ UNCHANGED <<last, reader, cancelled>>
    BY <1>13, <1>f1, <1>f2, <1>f3, <1>f4, <1>f5, ReplayEffect, SMT DEF AfterConnect
  <2>2. held[q] \in Conn /\ held[q] # conn
    BY <2>1, <1>f3, <1>f4, <1>f5
  <2>3. Written(request[p])
    BY <1>13, ReplayEffect
  <2>4. link'[held[q]] = link[held[q]] /\ server'[held[q]] = server[held[q]]
    BY <2>2, <2>3 DEF Written
  <2>5. QED
    BY <2>1, <2>4, <1>f3
<1>14. ASSUME NEW c \in Conn, ReadMessage(c) PROVE Goal
  BY <1>14, <1>f1, <1>f2, <1>f3, <1>f4, <1>f5 DEF ReadMessage, clientVars, procVars
<1>15. ASSUME NEW c \in Conn, dispatch(c) PROVE Goal
  BY <1>15, <1>f1, <1>f2, <1>f3, <1>f4, <1>f5 DEF dispatch, clientVars, procVars
<1>16. ASSUME NEW c \in Conn, ReadError(c) PROVE Goal
  BY <1>16, <1>f1, <1>f2, <1>f3, <1>f4, <1>f5 DEF ReadError, procVars
<1>17. ASSUME NEW c \in Conn, ReaderSchedules(c) PROVE Goal
  BY <1>17, <1>f1, <1>f2, <1>f3, <1>f4, <1>f5 DEF ReaderSchedules, scheduleReconnect
<1>18. ASSUME NEW c \in Conn, heartbeatLoop(c) PROVE Goal
  BY <1>18, <1>f1, <1>f2, <1>f3, <1>f4, <1>f5 DEF heartbeatLoop, clientVars, procVars
<1>19. ASSUME NEW c \in Conn, ConnectionLost(c) PROVE Goal
  BY <1>19, <1>f1, <1>f2, <1>f3, <1>f4, <1>f5 DEF ConnectionLost, clientVars, procVars
<1>20. CASE ReconnectLoop
  BY <1>20, <1>f1, <1>f2, <1>f3, <1>f4, <1>f5 DEF ReconnectLoop, Goto, clientVars, connVars
<1>21. CASE ReconnectBackoff
  BY <1>21, <1>f1, <1>f2, <1>f3, <1>f4, <1>f5 DEF ReconnectBackoff, Goto, clientVars, connVars
<1>22. CASE ReconnectExit
  BY <1>22, <1>f1, <1>f2, <1>f3, <1>f4, <1>f5 DEF ReconnectExit, Goto, connVars
<1>23. CASE ReconnectRetry
  BY <1>23, <1>f1, <1>f2, <1>f3, <1>f4, <1>f5 DEF ReconnectRetry, scheduleReconnect, connVars
<1>24. CASE UNCHANGED vars
  BY <1>24, <1>f1, <1>f2, <1>f3, <1>f4, <1>f5 DEF vars, clientVars, connVars, procVars
<1>25. QED
  BY <1>1, <1>2, <1>3, <1>4, <1>5, <1>6, <1>7, <1>8, <1>9, <1>10, <1>11, <1>12,
     <1>13, <1>14, <1>15, <1>16, <1>17, <1>18, <1>19, <1>20, <1>21, <1>22, <1>23,
     <1>24
     DEF Next, UserCall, ConnectStep, CloseStep, ReaderStep, ReconnectStep, Terminated

\* Every step keeps dialled connections apart.
LEMMA DistinctStep ==
    TypeOK /\ HeldInv /\ DistinctInv /\ [Next]_vars => DistinctInv'
<1> SUFFICES ASSUME TypeOK, HeldInv, DistinctInv, [Next]_vars,
                    NEW a \in Proc, NEW b \in Proc, pc'[a] = "publish", pc'[b] = "publish", a # b
             PROVE  held'[a] # held'[b]
  BY DEF DistinctInv
<1> DEFINE Goal == held'[a] # held'[b]
<1> SUFFICES Goal
  OBVIOUS
<1>f1. /\ pc \in [Proc -> Where]
       /\ held \in [Proc -> Conn \cup {NoConn}]
  BY DEF TypeOK
<1>f2. Reconnector \in Proc /\ Reconnector \notin User /\ User \subseteq Proc
  BY ProcAssumption DEF Proc
<1>f3. (pc[a] = "publish" /\ pc[b] = "publish") => held[a] # held[b]
  BY DEF DistinctInv
<1>1. ASSUME NEW u \in User, Connect(u) PROVE Goal
  BY <1>1, <1>f1, <1>f2, <1>f3 DEF Connect, Goto, clientVars, connVars
<1>2. ASSUME NEW u \in User, Close(u) PROVE Goal
  BY <1>2, <1>f1, <1>f2, <1>f3 DEF Close, Goto, connVars
<1>3. ASSUME NEW u \in User, NEW r \in Registration, Subscribe(u, r) PROVE Goal
  BY <1>3, <1>f1, <1>f2, <1>f3 DEF Subscribe, Goto, connVars
<1>4. ASSUME NEW u \in User, NEW r \in Registration, Unsubscribe(u, r) PROVE Goal
  BY <1>4, <1>f1, <1>f2, <1>f3 DEF Unsubscribe, Goto, connVars
<1>5. ASSUME NEW u \in User, syncSubscriptions(u) PROVE Goal
  BY <1>5, <1>f1, <1>f2, <1>f3, SyncEffect
<1>6. ASSUME NEW u \in User, CloseCancel(u) PROVE Goal
  BY <1>6, <1>f1, <1>f2, <1>f3 DEF CloseCancel, Goto
<1>7. ASSUME NEW u \in User, CloseWait(u) PROVE Goal
  BY <1>7, <1>f1, <1>f2, <1>f3 DEF CloseWait, Goto, clientVars, connVars
<1>8. ASSUME NEW u \in User, CloseClear(u) PROVE Goal
  BY <1>8, <1>f1, <1>f2, <1>f3 DEF CloseClear, Goto, connVars
<1>9. ASSUME NEW p \in Proc, DialFails(p) PROVE Goal
  BY <1>9, <1>f1, <1>f2, <1>f3 DEF DialFails, Goto, AfterConnect, clientVars, connVars
<1>10. ASSUME NEW p \in Proc, Dial(p) PROVE Goal
  <2>1. PICK c \in Conn : link[c] = "free" /\ held' = [held EXCEPT ![p] = c]
    BY <1>10 DEF Dial
  <2>2. \A x \in Proc : x # p /\ pc'[x] = "publish" => held[x] # c /\ pc[x] = "publish"
    BY <1>10, <2>1, <1>f1 DEF Dial, Goto, HeldInv
  <2>3. QED
    BY <2>1, <2>2, <1>f1, <1>f2, <1>f3
<1>11. ASSUME NEW p \in Proc, Discard(p) PROVE Goal
  BY <1>11, <1>f1, <1>f2, <1>f3 DEF Discard, Goto, AfterConnect, clientVars
<1>12. ASSUME NEW p \in Proc, Publish(p) PROVE Goal
  BY SMTT(60), <1>12, <1>f1, <1>f2, <1>f3, PublishEffect DEF AfterConnect
<1>13. ASSUME NEW p \in Proc, Replay(p) PROVE Goal
  BY <1>13, <1>f1, <1>f2, <1>f3, ReplayEffect DEF AfterConnect
<1>14. ASSUME NEW c \in Conn, ReadMessage(c) PROVE Goal
  BY <1>14, <1>f1, <1>f2, <1>f3 DEF ReadMessage, clientVars, procVars
<1>15. ASSUME NEW c \in Conn, dispatch(c) PROVE Goal
  BY <1>15, <1>f1, <1>f2, <1>f3 DEF dispatch, clientVars, procVars
<1>16. ASSUME NEW c \in Conn, ReadError(c) PROVE Goal
  BY <1>16, <1>f1, <1>f2, <1>f3 DEF ReadError, procVars
<1>17. ASSUME NEW c \in Conn, ReaderSchedules(c) PROVE Goal
  BY <1>17, <1>f1, <1>f2, <1>f3 DEF ReaderSchedules, scheduleReconnect
<1>18. ASSUME NEW c \in Conn, heartbeatLoop(c) PROVE Goal
  BY <1>18, <1>f1, <1>f2, <1>f3 DEF heartbeatLoop, clientVars, procVars
<1>19. ASSUME NEW c \in Conn, ConnectionLost(c) PROVE Goal
  BY <1>19, <1>f1, <1>f2, <1>f3 DEF ConnectionLost, clientVars, procVars
<1>20. CASE ReconnectLoop
  BY <1>20, <1>f1, <1>f2, <1>f3 DEF ReconnectLoop, Goto, clientVars, connVars
<1>21. CASE ReconnectBackoff
  BY <1>21, <1>f1, <1>f2, <1>f3 DEF ReconnectBackoff, Goto, clientVars, connVars
<1>22. CASE ReconnectExit
  BY <1>22, <1>f1, <1>f2, <1>f3 DEF ReconnectExit, Goto, connVars
<1>23. CASE ReconnectRetry
  BY <1>23, <1>f1, <1>f2, <1>f3 DEF ReconnectRetry, scheduleReconnect, connVars
<1>24. CASE UNCHANGED vars
  BY <1>24, <1>f1, <1>f2, <1>f3 DEF vars, clientVars, connVars, procVars
<1>25. QED
  BY <1>1, <1>2, <1>3, <1>4, <1>5, <1>6, <1>7, <1>8, <1>9, <1>10, <1>11, <1>12,
     <1>13, <1>14, <1>15, <1>16, <1>17, <1>18, <1>19, <1>20, <1>21, <1>22, <1>23,
     <1>24
     DEF Next, UserCall, ConnectStep, CloseStep, ReaderStep, ReconnectStep, Terminated

\* Every step keeps what Close captured.
LEMMA CloserStep ==
    TypeOK /\ ClosedInv /\ ConnInv /\ CloserInv /\ [Next]_vars => CloserInv'
<1> SUFFICES ASSUME TypeOK, ClosedInv, ConnInv, CloserInv, [Next]_vars,
                    NEW v \in User, pc'[v] = "cancel"
             PROVE  held'[v] \in {NoConn, last'}
  BY DEF CloserInv
<1> DEFINE Goal == held'[v] \in {NoConn, last'}
<1> SUFFICES Goal
  OBVIOUS
<1>f1. /\ pc \in [Proc -> Where]
       /\ held \in [Proc -> Conn \cup {NoConn}]
  BY DEF TypeOK
<1>f2. Reconnector \in Proc /\ Reconnector \notin User /\ User \subseteq Proc
  BY ProcAssumption DEF Proc
<1>f3. pc[v] = "cancel" => held[v] \in {NoConn, last} /\ closed
  BY DEF CloserInv, ClosedInv, Closing
<1>f4. conn # NoConn => conn = last
  BY DEF ConnInv
<1>1. ASSUME NEW u \in User, Connect(u) PROVE Goal
  BY <1>1, <1>f1, <1>f2, <1>f3, <1>f4 DEF Connect, Goto, clientVars, connVars
<1>2. ASSUME NEW u \in User, Close(u) PROVE Goal
  BY <1>2, <1>f1, <1>f2, <1>f3, <1>f4 DEF Close, Goto, connVars
<1>3. ASSUME NEW u \in User, NEW r \in Registration, Subscribe(u, r) PROVE Goal
  BY <1>3, <1>f1, <1>f2, <1>f3, <1>f4 DEF Subscribe, Goto, connVars
<1>4. ASSUME NEW u \in User, NEW r \in Registration, Unsubscribe(u, r) PROVE Goal
  BY <1>4, <1>f1, <1>f2, <1>f3, <1>f4 DEF Unsubscribe, Goto, connVars
<1>5. ASSUME NEW u \in User, syncSubscriptions(u) PROVE Goal
  BY <1>5, <1>f1, <1>f2, <1>f3, <1>f4, SyncEffect
<1>6. ASSUME NEW u \in User, CloseCancel(u) PROVE Goal
  BY <1>6, <1>f1, <1>f2, <1>f3, <1>f4 DEF CloseCancel, Goto
<1>7. ASSUME NEW u \in User, CloseWait(u) PROVE Goal
  BY <1>7, <1>f1, <1>f2, <1>f3, <1>f4 DEF CloseWait, Goto, clientVars, connVars
<1>8. ASSUME NEW u \in User, CloseClear(u) PROVE Goal
  BY <1>8, <1>f1, <1>f2, <1>f3, <1>f4 DEF CloseClear, Goto, connVars
<1>9. ASSUME NEW p \in Proc, DialFails(p) PROVE Goal
  BY <1>9, <1>f1, <1>f2, <1>f3, <1>f4 DEF DialFails, Goto, AfterConnect, clientVars, connVars
<1>10. ASSUME NEW p \in Proc, Dial(p) PROVE Goal
  BY <1>10, <1>f1, <1>f2, <1>f3, <1>f4 DEF Dial, Goto, clientVars
<1>11. ASSUME NEW p \in Proc, Discard(p) PROVE Goal
  BY <1>11, <1>f1, <1>f2, <1>f3, <1>f4 DEF Discard, Goto, AfterConnect, clientVars
<1>12. ASSUME NEW p \in Proc, Publish(p) PROVE Goal
  BY <1>12, <1>f1, <1>f2, <1>f3, <1>f4, PublishEffect DEF AfterConnect
<1>13. ASSUME NEW p \in Proc, Replay(p) PROVE Goal
  BY <1>13, <1>f1, <1>f2, <1>f3, <1>f4, ReplayEffect DEF AfterConnect
<1>14. ASSUME NEW c \in Conn, ReadMessage(c) PROVE Goal
  BY <1>14, <1>f1, <1>f2, <1>f3, <1>f4 DEF ReadMessage, clientVars, procVars
<1>15. ASSUME NEW c \in Conn, dispatch(c) PROVE Goal
  BY <1>15, <1>f1, <1>f2, <1>f3, <1>f4 DEF dispatch, clientVars, procVars
<1>16. ASSUME NEW c \in Conn, ReadError(c) PROVE Goal
  BY <1>16, <1>f1, <1>f2, <1>f3, <1>f4 DEF ReadError, procVars
<1>17. ASSUME NEW c \in Conn, ReaderSchedules(c) PROVE Goal
  BY <1>17, <1>f1, <1>f2, <1>f3, <1>f4 DEF ReaderSchedules, scheduleReconnect
<1>18. ASSUME NEW c \in Conn, heartbeatLoop(c) PROVE Goal
  BY <1>18, <1>f1, <1>f2, <1>f3, <1>f4 DEF heartbeatLoop, clientVars, procVars
<1>19. ASSUME NEW c \in Conn, ConnectionLost(c) PROVE Goal
  BY <1>19, <1>f1, <1>f2, <1>f3, <1>f4 DEF ConnectionLost, clientVars, procVars
<1>20. CASE ReconnectLoop
  BY <1>20, <1>f1, <1>f2, <1>f3, <1>f4 DEF ReconnectLoop, Goto, clientVars, connVars
<1>21. CASE ReconnectBackoff
  BY <1>21, <1>f1, <1>f2, <1>f3, <1>f4 DEF ReconnectBackoff, Goto, clientVars, connVars
<1>22. CASE ReconnectExit
  BY <1>22, <1>f1, <1>f2, <1>f3, <1>f4 DEF ReconnectExit, Goto, connVars
<1>23. CASE ReconnectRetry
  BY <1>23, <1>f1, <1>f2, <1>f3, <1>f4 DEF ReconnectRetry, scheduleReconnect, connVars
<1>24. CASE UNCHANGED vars
  BY <1>24, <1>f1, <1>f2, <1>f3, <1>f4 DEF vars, clientVars, connVars, procVars
<1>25. QED
  BY <1>1, <1>2, <1>3, <1>4, <1>5, <1>6, <1>7, <1>8, <1>9, <1>10, <1>11, <1>12,
     <1>13, <1>14, <1>15, <1>16, <1>17, <1>18, <1>19, <1>20, <1>21, <1>22, <1>23,
     <1>24
     DEF Next, UserCall, ConnectStep, CloseStep, ReaderStep, ReconnectStep, Terminated

\* Every step keeps the published connection the last one, under a live context.
LEMMA ConnStep ==
    TypeOK /\ HeldInv /\ ConnInv /\ [Next]_vars => ConnInv'
<1> SUFFICES ASSUME TypeOK, HeldInv, ConnInv, [Next]_vars
             PROVE  ConnInv'
  OBVIOUS
<1>f1. /\ conn \in Conn \cup {NoConn} /\ last \in Conn \cup {NoConn}
       /\ cancelled \in [Conn -> BOOLEAN]
       /\ closed \in BOOLEAN /\ ctxDone \in BOOLEAN
  BY DEF TypeOK
<1>f2. NoConn \notin Conn
  BY ProcAssumption
<1> USE DEF ConnInv
<1>1. ASSUME NEW u \in User, Connect(u) PROVE ConnInv'
  BY <1>1, <1>f1, <1>f2 DEF Connect, Goto, clientVars, connVars
<1>2. ASSUME NEW u \in User, Close(u) PROVE ConnInv'
  BY <1>2, <1>f1, <1>f2 DEF Close, Goto, connVars
<1>3. ASSUME NEW u \in User, NEW r \in Registration, Subscribe(u, r) PROVE ConnInv'
  BY <1>3, <1>f1, <1>f2 DEF Subscribe, Goto, connVars
<1>4. ASSUME NEW u \in User, NEW r \in Registration, Unsubscribe(u, r) PROVE ConnInv'
  BY <1>4, <1>f1, <1>f2 DEF Unsubscribe, Goto, connVars
<1>5. ASSUME NEW u \in User, syncSubscriptions(u) PROVE ConnInv'
  BY <1>5, <1>f1, <1>f2, SyncEffect
<1>6. ASSUME NEW u \in User, CloseCancel(u) PROVE ConnInv'
  BY <1>6, <1>f1, <1>f2 DEF CloseCancel, Goto
<1>7. ASSUME NEW u \in User, CloseWait(u) PROVE ConnInv'
  BY <1>7, <1>f1, <1>f2 DEF CloseWait, Goto, clientVars, connVars
<1>8. ASSUME NEW u \in User, CloseClear(u) PROVE ConnInv'
  BY <1>8, <1>f1, <1>f2 DEF CloseClear, Goto, connVars
<1>9. ASSUME NEW p \in Proc, DialFails(p) PROVE ConnInv'
  BY <1>9, <1>f1, <1>f2 DEF DialFails, Goto, AfterConnect, clientVars, connVars
<1>10. ASSUME NEW p \in Proc, Dial(p) PROVE ConnInv'
  <2>1. PICK c \in Conn \ {last} : cancelled' = [cancelled EXCEPT ![c] = FALSE]
    BY <1>10 DEF Dial
  <2>2. UNCHANGED <<conn, last, closed>>
    BY <1>10 DEF Dial, clientVars
  <2>3. QED
    BY <2>1, <2>2, <1>f1, <1>f2
<1>11. ASSUME NEW p \in Proc, Discard(p) PROVE ConnInv'
  BY <1>11, <1>f1, <1>f2 DEF Discard, Goto, AfterConnect, clientVars
<1>12. ASSUME NEW p \in Proc, Publish(p) PROVE ConnInv'
  <2>1. held[p] \in Conn /\ held[p] # last /\ ~cancelled[held[p]]
    BY <1>12, PublishEffect DEF HeldInv
  <2>2. QED
    BY <1>12, <2>1, <1>f1, <1>f2, PublishEffect
<1>13. ASSUME NEW p \in Proc, Replay(p) PROVE ConnInv'
  BY <1>13, <1>f1, <1>f2, ReplayEffect DEF AfterConnect
<1>14. ASSUME NEW c \in Conn, ReadMessage(c) PROVE ConnInv'
  BY <1>14, <1>f1, <1>f2 DEF ReadMessage, clientVars, procVars
<1>15. ASSUME NEW c \in Conn, dispatch(c) PROVE ConnInv'
  BY <1>15, <1>f1, <1>f2 DEF dispatch, clientVars, procVars
<1>16. ASSUME NEW c \in Conn, ReadError(c) PROVE ConnInv'
  BY <1>16, <1>f1, <1>f2 DEF ReadError, procVars
<1>17. ASSUME NEW c \in Conn, ReaderSchedules(c) PROVE ConnInv'
  BY <1>17, <1>f1, <1>f2 DEF ReaderSchedules, scheduleReconnect
<1>18. ASSUME NEW c \in Conn, heartbeatLoop(c) PROVE ConnInv'
  BY <1>18, <1>f1, <1>f2 DEF heartbeatLoop, clientVars, procVars
<1>19. ASSUME NEW c \in Conn, ConnectionLost(c) PROVE ConnInv'
  BY <1>19, <1>f1, <1>f2 DEF ConnectionLost, clientVars, procVars
<1>20. CASE ReconnectLoop
  BY <1>20, <1>f1, <1>f2 DEF ReconnectLoop, Goto, clientVars, connVars
<1>21. CASE ReconnectBackoff
  BY <1>21, <1>f1, <1>f2 DEF ReconnectBackoff, Goto, clientVars, connVars
<1>22. CASE ReconnectExit
  BY <1>22, <1>f1, <1>f2 DEF ReconnectExit, Goto, connVars
<1>23. CASE ReconnectRetry
  BY <1>23, <1>f1, <1>f2 DEF ReconnectRetry, scheduleReconnect, connVars
<1>24. CASE UNCHANGED vars
  BY <1>24, <1>f1, <1>f2 DEF vars, clientVars, connVars, procVars
<1>25. QED
  BY <1>1, <1>2, <1>3, <1>4, <1>5, <1>6, <1>7, <1>8, <1>9, <1>10, <1>11, <1>12,
     <1>13, <1>14, <1>15, <1>16, <1>17, <1>18, <1>19, <1>20, <1>21, <1>22, <1>23,
     <1>24
     DEF Next, UserCall, ConnectStep, CloseStep, ReaderStep, ReconnectStep, Terminated

\* Every step keeps the only running reader on the published connection.
LEMMA ReaderInvStep ==
    TypeOK /\ HeldInv /\ ReaderInv /\ [Next]_vars => ReaderInv'
<1> SUFFICES ASSUME TypeOK, HeldInv, ReaderInv, [Next]_vars,
                    NEW d \in Conn
             PROVE  (link'[d] = "free" => reader'[d] = "off") /\ (Serving(d)' => conn' = d)
  BY DEF ReaderInv
<1> DEFINE Goal == (link'[d] = "free" => reader'[d] = "off") /\ (Serving(d)' => conn' = d)
<1> SUFFICES Goal
  OBVIOUS
<1>f1. /\ link \in [Conn -> {"free", "open", "silent", "dead"}]
       /\ reader \in [Conn -> {"off", "reading", "dispatch", "schedule"}]
       /\ conn \in Conn \cup {NoConn} /\ last \in Conn \cup {NoConn}
  BY DEF TypeOK
<1>f2. (link[d] = "free" => reader[d] = "off") /\ (Serving(d) => conn = d)
  BY DEF ReaderInv
<1>f3. NoConn \notin Conn
  BY ProcAssumption
<1> USE DEF Serving
<1>1. ASSUME NEW u \in User, Connect(u) PROVE Goal
  BY <1>1, <1>f1, <1>f2, <1>f3 DEF Connect, Goto, clientVars, connVars
<1>2. ASSUME NEW u \in User, Close(u) PROVE Goal
  BY <1>2, <1>f1, <1>f2, <1>f3 DEF Close, Goto, connVars
<1>3. ASSUME NEW u \in User, NEW r \in Registration, Subscribe(u, r) PROVE Goal
  BY <1>3, <1>f1, <1>f2, <1>f3 DEF Subscribe, Goto, connVars
<1>4. ASSUME NEW u \in User, NEW r \in Registration, Unsubscribe(u, r) PROVE Goal
  BY <1>4, <1>f1, <1>f2, <1>f3 DEF Unsubscribe, Goto, connVars
<1>5. ASSUME NEW u \in User, syncSubscriptions(u) PROVE Goal
  BY <1>5, <1>f1, <1>f2, <1>f3, SyncEffect DEF Written
<1>6. ASSUME NEW u \in User, CloseCancel(u) PROVE Goal
  BY <1>6, <1>f1, <1>f2, <1>f3 DEF CloseCancel, Goto
<1>7. ASSUME NEW u \in User, CloseWait(u) PROVE Goal
  BY <1>7, <1>f1, <1>f2, <1>f3 DEF CloseWait, Goto, clientVars, connVars
<1>8. ASSUME NEW u \in User, CloseClear(u) PROVE Goal
  BY <1>8, <1>f1, <1>f2, <1>f3 DEF CloseClear, Goto, connVars
<1>9. ASSUME NEW p \in Proc, DialFails(p) PROVE Goal
  BY <1>9, <1>f1, <1>f2, <1>f3 DEF DialFails, Goto, AfterConnect, clientVars, connVars
<1>10. ASSUME NEW p \in Proc, Dial(p) PROVE Goal
  BY <1>10, <1>f1, <1>f2, <1>f3 DEF Dial, Goto, clientVars
<1>11. ASSUME NEW p \in Proc, Discard(p) PROVE Goal
  <2>1. held[p] \in Conn /\ reader[held[p]] = "off"
    BY <1>11 DEF HeldInv, Discard
  <2>2. QED
    BY <1>11, <2>1, <1>f1, <1>f2, <1>f3 DEF Discard, clientVars
<1>12. ASSUME NEW p \in Proc, Publish(p) PROVE Goal
  <2>1. held[p] \in Conn /\ link[held[p]] = "open"
    BY <1>12, PublishEffect DEF HeldInv
  <2>2. QED
    BY <1>12, <2>1, <1>f1, <1>f2, <1>f3, PublishEffect
<1>13. ASSUME NEW p \in Proc, Replay(p) PROVE Goal
  BY <1>13, <1>f1, <1>f2, <1>f3, ReplayEffect DEF Written
<1>14. ASSUME NEW c \in Conn, ReadMessage(c) PROVE Goal
  BY <1>14, <1>f1, <1>f2, <1>f3 DEF ReadMessage, clientVars, procVars
<1>15. ASSUME NEW c \in Conn, dispatch(c) PROVE Goal
  BY <1>15, <1>f1, <1>f2, <1>f3 DEF dispatch, clientVars, procVars
<1>16. ASSUME NEW c \in Conn, ReadError(c) PROVE Goal
  BY <1>16, <1>f1, <1>f2, <1>f3 DEF ReadError, procVars
<1>17. ASSUME NEW c \in Conn, ReaderSchedules(c) PROVE Goal
  BY <1>17, <1>f1, <1>f2, <1>f3 DEF ReaderSchedules, scheduleReconnect
<1>18. ASSUME NEW c \in Conn, heartbeatLoop(c) PROVE Goal
  BY <1>18, <1>f1, <1>f2, <1>f3 DEF heartbeatLoop, clientVars, procVars
<1>19. ASSUME NEW c \in Conn, ConnectionLost(c) PROVE Goal
  BY <1>19, <1>f1, <1>f2, <1>f3 DEF ConnectionLost, clientVars, procVars
<1>20. CASE ReconnectLoop
  BY <1>20, <1>f1, <1>f2, <1>f3 DEF ReconnectLoop, Goto, clientVars, connVars
<1>21. CASE ReconnectBackoff
  BY <1>21, <1>f1, <1>f2, <1>f3 DEF ReconnectBackoff, Goto, clientVars, connVars
<1>22. CASE ReconnectExit
  BY <1>22, <1>f1, <1>f2, <1>f3 DEF ReconnectExit, Goto, connVars
<1>23. CASE ReconnectRetry
  BY <1>23, <1>f1, <1>f2, <1>f3 DEF ReconnectRetry, scheduleReconnect, connVars
<1>24. CASE UNCHANGED vars
  BY <1>24, <1>f1, <1>f2, <1>f3 DEF vars, clientVars, connVars, procVars
<1>25. QED
  BY <1>1, <1>2, <1>3, <1>4, <1>5, <1>6, <1>7, <1>8, <1>9, <1>10, <1>11, <1>12,
     <1>13, <1>14, <1>15, <1>16, <1>17, <1>18, <1>19, <1>20, <1>21, <1>22, <1>23,
     <1>24
     DEF Next, UserCall, ConnectStep, CloseStep, ReaderStep, ReconnectStep, Terminated

\* Every step keeps a published connection read.
LEMMA ServedStep ==
    TypeOK /\ ClosedInv /\ ConnInv /\ ServedInv /\ [Next]_vars => ServedInv'
<1> SUFFICES ASSUME TypeOK, ClosedInv, ConnInv, ServedInv, [Next]_vars
             PROVE  ServedInv'
  OBVIOUS
<1>f1. /\ reader \in [Conn -> {"off", "reading", "dispatch", "schedule"}]
       /\ conn \in Conn \cup {NoConn} /\ last \in Conn \cup {NoConn}
       /\ closed \in BOOLEAN /\ ctxDone \in BOOLEAN
  BY DEF TypeOK
<1>f2. NoConn \notin Conn
  BY ProcAssumption
<1>f3. ctxDone => closed
  BY DEF ClosedInv
<1>f4. (~closed /\ conn # NoConn) => ~cancelled[conn]
  BY DEF ConnInv
<1> USE DEF ServedInv, Serving
<1>1. ASSUME NEW u \in User, Connect(u) PROVE ServedInv'
  BY <1>1, <1>f1, <1>f2, <1>f3, <1>f4 DEF Connect, Goto, clientVars, connVars
<1>2. ASSUME NEW u \in User, Close(u) PROVE ServedInv'
  BY <1>2, <1>f1, <1>f2, <1>f3, <1>f4 DEF Close, Goto, connVars
<1>3. ASSUME NEW u \in User, NEW r \in Registration, Subscribe(u, r) PROVE ServedInv'
  BY <1>3, <1>f1, <1>f2, <1>f3, <1>f4 DEF Subscribe, Goto, connVars
<1>4. ASSUME NEW u \in User, NEW r \in Registration, Unsubscribe(u, r) PROVE ServedInv'
  BY <1>4, <1>f1, <1>f2, <1>f3, <1>f4 DEF Unsubscribe, Goto, connVars
<1>5. ASSUME NEW u \in User, syncSubscriptions(u) PROVE ServedInv'
  BY <1>5, <1>f1, <1>f2, <1>f3, <1>f4, SyncEffect
<1>6. ASSUME NEW u \in User, CloseCancel(u) PROVE ServedInv'
  BY <1>6, <1>f1, <1>f2, <1>f3, <1>f4 DEF CloseCancel, Goto
<1>7. ASSUME NEW u \in User, CloseWait(u) PROVE ServedInv'
  BY <1>7, <1>f1, <1>f2, <1>f3, <1>f4 DEF CloseWait, Goto, clientVars, connVars
<1>8. ASSUME NEW u \in User, CloseClear(u) PROVE ServedInv'
  BY <1>8, <1>f1, <1>f2, <1>f3, <1>f4 DEF CloseClear, Goto, connVars
<1>9. ASSUME NEW p \in Proc, DialFails(p) PROVE ServedInv'
  BY <1>9, <1>f1, <1>f2, <1>f3, <1>f4 DEF DialFails, Goto, AfterConnect, clientVars, connVars
<1>10. ASSUME NEW p \in Proc, Dial(p) PROVE ServedInv'
  BY <1>10, <1>f1, <1>f2, <1>f3, <1>f4 DEF Dial, Goto, clientVars
<1>11. ASSUME NEW p \in Proc, Discard(p) PROVE ServedInv'
  BY <1>11, <1>f1, <1>f2, <1>f3, <1>f4 DEF Discard, Goto, AfterConnect, clientVars
<1>12. ASSUME NEW p \in Proc, Publish(p) PROVE ServedInv'
  <2>1. conn' # NoConn => conn' \in Conn
    BY <1>12 DEF Publish, TypeOK
  <2>2. reader' = [reader EXCEPT ![conn'] = "reading"]
    BY <1>12 DEF Publish
  <2>3. QED
    BY <2>1, <2>2, <1>f1
<1>13. ASSUME NEW p \in Proc, Replay(p) PROVE ServedInv'
  BY <1>13, <1>f1, <1>f2, <1>f3, <1>f4, ReplayEffect DEF AfterConnect
<1>14. ASSUME NEW c \in Conn, ReadMessage(c) PROVE ServedInv'
  BY <1>14, <1>f1, <1>f2, <1>f3, <1>f4 DEF ReadMessage, clientVars, procVars
<1>15. ASSUME NEW c \in Conn, dispatch(c) PROVE ServedInv'
  BY <1>15, <1>f1, <1>f2, <1>f3, <1>f4 DEF dispatch, clientVars, procVars
<1>16. ASSUME NEW c \in Conn, ReadError(c) PROVE ServedInv'
  BY <1>16, <1>f1, <1>f2, <1>f3, <1>f4 DEF ReadError, procVars
<1>17. ASSUME NEW c \in Conn, ReaderSchedules(c) PROVE ServedInv'
  BY <1>17, <1>f1, <1>f2, <1>f3, <1>f4 DEF ReaderSchedules, scheduleReconnect
<1>18. ASSUME NEW c \in Conn, heartbeatLoop(c) PROVE ServedInv'
  BY <1>18, <1>f1, <1>f2, <1>f3, <1>f4 DEF heartbeatLoop, clientVars, procVars
<1>19. ASSUME NEW c \in Conn, ConnectionLost(c) PROVE ServedInv'
  BY <1>19, <1>f1, <1>f2, <1>f3, <1>f4 DEF ConnectionLost, clientVars, procVars
<1>20. CASE ReconnectLoop
  BY <1>20, <1>f1, <1>f2, <1>f3, <1>f4 DEF ReconnectLoop, Goto, clientVars, connVars
<1>21. CASE ReconnectBackoff
  BY <1>21, <1>f1, <1>f2, <1>f3, <1>f4 DEF ReconnectBackoff, Goto, clientVars, connVars
<1>22. CASE ReconnectExit
  BY <1>22, <1>f1, <1>f2, <1>f3, <1>f4 DEF ReconnectExit, Goto, connVars
<1>23. CASE ReconnectRetry
  BY <1>23, <1>f1, <1>f2, <1>f3, <1>f4 DEF ReconnectRetry, scheduleReconnect, connVars
<1>24. CASE UNCHANGED vars
  BY <1>24, <1>f1, <1>f2, <1>f3, <1>f4 DEF vars, clientVars, connVars, procVars
<1>25. QED
  BY <1>1, <1>2, <1>3, <1>4, <1>5, <1>6, <1>7, <1>8, <1>9, <1>10, <1>11, <1>12,
     <1>13, <1>14, <1>15, <1>16, <1>17, <1>18, <1>19, <1>20, <1>21, <1>22, <1>23,
     <1>24
     DEF Next, UserCall, ConnectStep, CloseStep, ReaderStep, ReconnectStep, Terminated

\* Nothing undoes what Close has finished.
LEMMA FinalStep ==
    TypeOK /\ ClosedInv /\ FinalInv /\ [Next]_vars => FinalInv'
<1> SUFFICES ASSUME TypeOK, ClosedInv, FinalInv, [Next]_vars,
                    NEW v \in User
             PROVE  (pc'[v] \in {"clear", "closed"} => last' = NoConn \/ reader'[last'] = "off")
                    /\ (pc'[v] = "closed" => subs' = <<>>)
  BY DEF FinalInv
<1> DEFINE Goal == (pc'[v] \in {"clear", "closed"} => last' = NoConn \/ reader'[last'] = "off")
                    /\ (pc'[v] = "closed" => subs' = <<>>)
<1> SUFFICES Goal
  OBVIOUS
<1>f1. /\ pc \in [Proc -> Where]
       /\ reader \in [Conn -> {"off", "reading", "dispatch", "schedule"}]
       /\ conn \in Conn \cup {NoConn} /\ last \in Conn \cup {NoConn}
  BY DEF TypeOK
<1>f2. Reconnector \in Proc /\ Reconnector \notin User /\ User \subseteq Proc
  BY ProcAssumption DEF Proc
<1>f3. NoConn \notin Conn
  BY ProcAssumption
<1>f4. /\ pc[v] \in {"clear", "closed"} => closed /\ (last = NoConn \/ reader[last] = "off")
       /\ pc[v] = "closed" => subs = <<>>
  BY DEF ClosedInv, Closing, FinalInv
<1>1. ASSUME NEW u \in User, Connect(u) PROVE Goal
  BY <1>1, <1>f1, <1>f2, <1>f3, <1>f4 DEF Connect, Goto, clientVars, connVars
<1>2. ASSUME NEW u \in User, Close(u) PROVE Goal
  BY <1>2, <1>f1, <1>f2, <1>f3, <1>f4 DEF Close, Goto, connVars
<1>3. ASSUME NEW u \in User, NEW r \in Registration, Subscribe(u, r) PROVE Goal
  BY <1>3, <1>f1, <1>f2, <1>f3, <1>f4 DEF Subscribe, Goto, connVars
<1>4. ASSUME NEW u \in User, NEW r \in Registration, Unsubscribe(u, r) PROVE Goal
  <2>1. subs # <<>> /\ UNCHANGED <<last, reader>>
    BY <1>4, SMT DEF Unsubscribe, connVars
  <2>2. pc' = [pc EXCEPT ![u] = "sync"]
    BY <1>4 DEF Unsubscribe, Goto
  <2>3. QED
    BY <2>1, <2>2, <1>f1, <1>f2, <1>f3, <1>f4
<1>5. ASSUME NEW u \in User, syncSubscriptions(u) PROVE Goal
  BY <1>5, <1>f1, <1>f2, <1>f3, <1>f4, SyncEffect
<1>6. ASSUME NEW u \in User, CloseCancel(u) PROVE Goal
  BY <1>6, <1>f1, <1>f2, <1>f3, <1>f4 DEF CloseCancel, Goto
<1>7. ASSUME NEW u \in User, CloseWait(u) PROVE Goal
  BY <1>7, <1>f1, <1>f2, <1>f3, <1>f4 DEF CloseWait, Goto, clientVars, connVars
<1>8. ASSUME NEW u \in User, CloseClear(u) PROVE Goal
  BY <1>8, <1>f1, <1>f2, <1>f3, <1>f4 DEF CloseClear, Goto, connVars
<1>9. ASSUME NEW p \in Proc, DialFails(p) PROVE Goal
  BY <1>9, <1>f1, <1>f2, <1>f3, <1>f4 DEF DialFails, Goto, AfterConnect, clientVars, connVars
<1>10. ASSUME NEW p \in Proc, Dial(p) PROVE Goal
  BY <1>10, <1>f1, <1>f2, <1>f3, <1>f4 DEF Dial, Goto, clientVars
<1>11. ASSUME NEW p \in Proc, Discard(p) PROVE Goal
  BY <1>11, <1>f1, <1>f2, <1>f3, <1>f4 DEF Discard, Goto, AfterConnect, clientVars
<1>12. ASSUME NEW p \in Proc, Publish(p) PROVE Goal
  <2>1. pc[v] \notin {"clear", "closed"}
    BY <1>12, <1>f4 DEF Publish
  <2>2. \E where \in Where : pc' = [pc EXCEPT ![p] = where] /\ where \notin {"clear", "closed"}
    BY <1>12, PublishEffect DEF AfterConnect, Where
  <2>3. QED
    BY <2>1, <2>2, <1>f1, SMT
<1>13. ASSUME NEW p \in Proc, Replay(p) PROVE Goal
  BY <1>13, <1>f1, <1>f2, <1>f3, <1>f4, ReplayEffect DEF AfterConnect
<1>14. ASSUME NEW c \in Conn, ReadMessage(c) PROVE Goal
  BY <1>14, <1>f1, <1>f2, <1>f3, <1>f4 DEF ReadMessage, clientVars, procVars
<1>15. ASSUME NEW c \in Conn, dispatch(c) PROVE Goal
  BY <1>15, <1>f1, <1>f2, <1>f3, <1>f4 DEF dispatch, clientVars, procVars
<1>16. ASSUME NEW c \in Conn, ReadError(c) PROVE Goal
  BY <1>16, <1>f1, <1>f2, <1>f3, <1>f4 DEF ReadError, procVars
<1>17. ASSUME NEW c \in Conn, ReaderSchedules(c) PROVE Goal
  BY <1>17, <1>f1, <1>f2, <1>f3, <1>f4 DEF ReaderSchedules, scheduleReconnect
<1>18. ASSUME NEW c \in Conn, heartbeatLoop(c) PROVE Goal
  BY <1>18, <1>f1, <1>f2, <1>f3, <1>f4 DEF heartbeatLoop, clientVars, procVars
<1>19. ASSUME NEW c \in Conn, ConnectionLost(c) PROVE Goal
  BY <1>19, <1>f1, <1>f2, <1>f3, <1>f4 DEF ConnectionLost, clientVars, procVars
<1>20. CASE ReconnectLoop
  BY <1>20, <1>f1, <1>f2, <1>f3, <1>f4 DEF ReconnectLoop, Goto, clientVars, connVars
<1>21. CASE ReconnectBackoff
  BY <1>21, <1>f1, <1>f2, <1>f3, <1>f4 DEF ReconnectBackoff, Goto, clientVars, connVars
<1>22. CASE ReconnectExit
  BY <1>22, <1>f1, <1>f2, <1>f3, <1>f4 DEF ReconnectExit, Goto, connVars
<1>23. CASE ReconnectRetry
  BY <1>23, <1>f1, <1>f2, <1>f3, <1>f4 DEF ReconnectRetry, scheduleReconnect, connVars
<1>24. CASE UNCHANGED vars
  BY <1>24, <1>f1, <1>f2, <1>f3, <1>f4 DEF vars, clientVars, connVars, procVars
<1>25. QED
  BY <1>1, <1>2, <1>3, <1>4, <1>5, <1>6, <1>7, <1>8, <1>9, <1>10, <1>11, <1>12,
     <1>13, <1>14, <1>15, <1>16, <1>17, <1>18, <1>19, <1>20, <1>21, <1>22, <1>23,
     <1>24
     DEF Next, UserCall, ConnectStep, CloseStep, ReaderStep, ReconnectStep, Terminated

\* No step forgets a lost connection.
LEMMA PendingStep ==
    TypeOK /\ ReconnectPending /\ [Next]_vars => ReconnectPending'
<1> SUFFICES ASSUME TypeOK, ReconnectPending, [Next]_vars
             PROVE  ReconnectPending'
  OBVIOUS
<1>f1. /\ reader \in [Conn -> {"off", "reading", "dispatch", "schedule"}]
       /\ conn \in Conn \cup {NoConn} /\ last \in Conn \cup {NoConn}
       /\ retries \in Nat
  BY DEF TypeOK
<1>f2. NoConn \notin Conn
  BY ProcAssumption
<1> USE DEF ReconnectPending
<1>1. ASSUME NEW u \in User, Connect(u) PROVE ReconnectPending'
  BY <1>1, <1>f1, <1>f2 DEF Connect, Goto, clientVars, connVars
<1>2. ASSUME NEW u \in User, Close(u) PROVE ReconnectPending'
  BY <1>2, <1>f1, <1>f2 DEF Close, Goto, connVars
<1>3. ASSUME NEW u \in User, NEW r \in Registration, Subscribe(u, r) PROVE ReconnectPending'
  BY <1>3, <1>f1, <1>f2 DEF Subscribe, Goto, connVars
<1>4. ASSUME NEW u \in User, NEW r \in Registration, Unsubscribe(u, r) PROVE ReconnectPending'
  BY <1>4, <1>f1, <1>f2 DEF Unsubscribe, Goto, connVars
<1>5. ASSUME NEW u \in User, syncSubscriptions(u) PROVE ReconnectPending'
  BY <1>5, <1>f1, <1>f2, SyncEffect
<1>6. ASSUME NEW u \in User, CloseCancel(u) PROVE ReconnectPending'
  BY <1>6, <1>f1, <1>f2 DEF CloseCancel, Goto
<1>7. ASSUME NEW u \in User, CloseWait(u) PROVE ReconnectPending'
  BY <1>7, <1>f1, <1>f2 DEF CloseWait, Goto, clientVars, connVars
<1>8. ASSUME NEW u \in User, CloseClear(u) PROVE ReconnectPending'
  BY <1>8, <1>f1, <1>f2 DEF CloseClear, Goto, connVars
<1>9. ASSUME NEW p \in Proc, DialFails(p) PROVE ReconnectPending'
  BY <1>9, <1>f1, <1>f2 DEF DialFails, Goto, AfterConnect, clientVars, connVars
<1>10. ASSUME NEW p \in Proc, Dial(p) PROVE ReconnectPending'
  BY <1>10, <1>f1, <1>f2 DEF Dial, Goto, clientVars
<1>11. ASSUME NEW p \in Proc, Discard(p) PROVE ReconnectPending'
  BY <1>11, <1>f1, <1>f2 DEF Discard, Goto, AfterConnect, clientVars
<1>12. ASSUME NEW p \in Proc, Publish(p) PROVE ReconnectPending'
  <2>1. held[p] \in Conn \cup {NoConn}
    BY DEF TypeOK
  <2>2. QED
    BY <1>12, <2>1, <1>f1, <1>f2, PublishEffect
<1>13. ASSUME NEW p \in Proc, Replay(p) PROVE ReconnectPending'
  BY <1>13, <1>f1, <1>f2, ReplayEffect DEF AfterConnect
<1>14. ASSUME NEW c \in Conn, ReadMessage(c) PROVE ReconnectPending'
  BY <1>14, <1>f1, <1>f2 DEF ReadMessage, clientVars, procVars
<1>15. ASSUME NEW c \in Conn, dispatch(c) PROVE ReconnectPending'
  BY <1>15, <1>f1, <1>f2 DEF dispatch, clientVars, procVars
<1>16. ASSUME NEW c \in Conn, ReadError(c) PROVE ReconnectPending'
  BY <1>16, <1>f1, <1>f2 DEF ReadError, procVars
<1>17. ASSUME NEW c \in Conn, ReaderSchedules(c) PROVE ReconnectPending'
  BY SMTT(60), <1>17, <1>f1, <1>f2 DEF ReaderSchedules, scheduleReconnect
<1>18. ASSUME NEW c \in Conn, heartbeatLoop(c) PROVE ReconnectPending'
  BY <1>18, <1>f1, <1>f2 DEF heartbeatLoop, clientVars, procVars
<1>19. ASSUME NEW c \in Conn, ConnectionLost(c) PROVE ReconnectPending'
  BY <1>19, <1>f1, <1>f2 DEF ConnectionLost, clientVars, procVars
<1>20. CASE ReconnectLoop
  BY <1>20, <1>f1, <1>f2 DEF ReconnectLoop, Goto, clientVars, connVars
<1>21. CASE ReconnectBackoff
  BY <1>21, <1>f1, <1>f2 DEF ReconnectBackoff, Goto, clientVars, connVars
<1>22. CASE ReconnectExit
  BY SMTT(60), <1>22, <1>f1, <1>f2 DEF ReconnectExit, Goto, connVars
<1>23. CASE ReconnectRetry
  BY <1>23, <1>f1, <1>f2, SMT DEF ReconnectRetry, scheduleReconnect, connVars
<1>24. CASE UNCHANGED vars
  BY <1>24, <1>f1, <1>f2 DEF vars, clientVars, connVars, procVars
<1>25. QED
  BY <1>1, <1>2, <1>3, <1>4, <1>5, <1>6, <1>7, <1>8, <1>9, <1>10, <1>11, <1>12,
     <1>13, <1>14, <1>15, <1>16, <1>17, <1>18, <1>19, <1>20, <1>21, <1>22, <1>23,
     <1>24
     DEF Next, UserCall, ConnectStep, CloseStep, ReaderStep, ReconnectStep, Terminated


-----------------------------------------------------------------------------
(* Deltas                                                                  *)

\* Sending the difference after a registration was added brings a server that
\* knew the old subscriptions to the new ones.
LEMMA SubscribeDelta ==
    ASSUME NEW entries \in Seq(Registration), NEW r \in Registration,
           Coherent(entries), ~Conflicting(entries, r)
    PROVE  /\ Coherent(Append(entries, r))
           /\ serverSubscriptions(entries)
                  \cup serverDifference(serverSubscriptions(Append(entries, r)),
                                        serverSubscriptions(entries))
                = serverSubscriptions(Append(entries, r))
<1> DEFINE more == Append(entries, r)
           sub == [key |-> KeyOf[r], auth |-> AuthOf[r]]
<1>1. /\ more \in Seq(Registration)
      /\ DOMAIN more = DOMAIN entries \cup {Len(entries) + 1}
      /\ \A i \in DOMAIN entries : more[i] = entries[i]
      /\ more[Len(entries) + 1] = r
  BY SMT
<1> HIDE DEF more
<1>2. Coherent(more)
  <2>1. \A i \in DOMAIN entries : KeyOf[entries[i]] = KeyOf[r] => AuthOf[entries[i]] = AuthOf[r]
    BY DEF Conflicting
  <2> SUFFICES ASSUME NEW i \in DOMAIN more, NEW j \in DOMAIN more,
                      KeyOf[more[i]] = KeyOf[more[j]]
               PROVE  AuthOf[more[i]] = AuthOf[more[j]]
    BY DEF Coherent
  <2>2. /\ (i \in DOMAIN entries /\ more[i] = entries[i]) \/ more[i] = r
        /\ (j \in DOMAIN entries /\ more[j] = entries[j]) \/ more[j] = r
    BY <1>1
  <2>3. QED
    BY <2>1, <2>2 DEF Coherent
<1>3. AllSubscriptions(more) = AllSubscriptions(entries) \cup {sub}
  BY SMTT(60), <1>1 DEF AllSubscriptions
<1>4. \A x \in AllSubscriptions(entries) : x.key = sub.key => x = sub
  BY SMTT(60), <1>2 DEF AllSubscriptions, Conflicting
<1>5. AllSubscriptions(entries)
          \cup serverDifference(AllSubscriptions(more), AllSubscriptions(entries))
        = AllSubscriptions(more)
  BY <1>3, <1>4 DEF serverDifference
<1>6. serverSubscriptions(entries) = AllSubscriptions(entries)
  BY CoherentSubscriptions
<1>7. serverSubscriptions(more) = AllSubscriptions(more)
  BY <1>1, <1>2, CoherentSubscriptions
<1>8. serverSubscriptions(entries)
          \cup serverDifference(serverSubscriptions(more), serverSubscriptions(entries))
        = serverSubscriptions(more)
  BY <1>5, <1>6, <1>7, Zenon
<1>9. QED
  BY <1>2, <1>8, Zenon DEF more

\* Sending the difference after a registration was released does the same.
LEMMA UnsubscribeDelta ==
    ASSUME NEW entries \in Seq(Registration), NEW i \in DOMAIN entries,
           Coherent(entries)
    PROVE  /\ Coherent(Delete(entries, i))
           /\ LET before == serverSubscriptions(entries)
                  after == serverSubscriptions(Delete(entries, i))
              IN  Applied(before, [action |-> "unsubscribe",
                                   delta |-> serverDifference(before, after)]) = after
<1> DEFINE less == Delete(entries, i)
           before == AllSubscriptions(entries)
           after == AllSubscriptions(less)
<1>1. /\ less \in Seq(Registration)
      /\ \A k \in DOMAIN less : \E j \in DOMAIN entries : less[k] = entries[j]
  BY DeleteTyped
<1> HIDE DEF less
<1>2. Coherent(less)
  <2> SUFFICES ASSUME NEW k \in DOMAIN less, NEW l \in DOMAIN less,
                      KeyOf[less[k]] = KeyOf[less[l]]
               PROVE  AuthOf[less[k]] = AuthOf[less[l]]
    BY DEF Coherent
  <2>1. PICK a \in DOMAIN entries : less[k] = entries[a]
    BY <1>1
  <2>2. PICK b \in DOMAIN entries : less[l] = entries[b]
    BY <1>1
  <2>3. QED
    BY <2>1, <2>2 DEF Coherent
<1>3. after \subseteq before
  BY <1>1 DEF AllSubscriptions
<1>4. \A x, y \in before : x.key = y.key => x = y
  <2> SUFFICES ASSUME NEW x \in before, NEW y \in before, x.key = y.key
               PROVE  x = y
    OBVIOUS
  <2>1. PICK a \in DOMAIN entries : x = [key |-> KeyOf[entries[a]], auth |-> AuthOf[entries[a]]]
    BY DEF AllSubscriptions
  <2>2. PICK b \in DOMAIN entries : y = [key |-> KeyOf[entries[b]], auth |-> AuthOf[entries[b]]]
    BY DEF AllSubscriptions
  <2>3. KeyOf[entries[a]] = KeyOf[entries[b]]
    BY <2>1, <2>2
  <2>4. AuthOf[entries[a]] = AuthOf[entries[b]]
    BY <2>3 DEF Coherent
  <2>5. QED
    BY <2>1, <2>2, <2>3, <2>4
<1>5. {sub \in before : \A gone \in serverDifference(before, after) : gone.key # sub.key} = after
  BY <1>3, <1>4 DEF serverDifference
<1>6. serverSubscriptions(entries) = before /\ serverSubscriptions(less) = after
  BY <1>1, <1>2, CoherentSubscriptions
<1>7. Applied(before, [action |-> "unsubscribe", delta |-> serverDifference(before, after)])
        = {sub \in before : \A gone \in serverDifference(before, after) : gone.key # sub.key}
  BY SMTT(60), AppliedUnsubscribe
<1> HIDE DEF less, before, after
<1>8. Applied(before, [action |-> "unsubscribe", delta |-> serverDifference(before, after)]) = after
  BY <1>5, <1>7, Zenon
<1>9. QED
  BY <1>2, <1>6, <1>8 DEF less

\* Every step keeps the credentials of a topic/type coherent.
LEMMA CoherentStep ==
    TypeOK /\ CoherentInv /\ [Next]_vars => CoherentInv'
<1> SUFFICES ASSUME TypeOK, CoherentInv, [Next]_vars
             PROVE  CoherentInv'
  OBVIOUS
<1>f1. subs \in Seq(Registration)
  BY DEF TypeOK
<1> USE DEF CoherentInv
<1>1. ASSUME NEW u \in User, Connect(u) PROVE CoherentInv'
  BY <1>1, <1>f1 DEF Connect, Goto, clientVars, connVars
<1>2. ASSUME NEW u \in User, Close(u) PROVE CoherentInv'
  BY <1>2, <1>f1 DEF Close, Goto, connVars
<1>3. ASSUME NEW u \in User, NEW r \in Registration, Subscribe(u, r) PROVE CoherentInv'
  BY <1>3, <1>f1, SubscribeDelta DEF Subscribe
<1>4. ASSUME NEW u \in User, NEW r \in Registration, Unsubscribe(u, r) PROVE CoherentInv'
  <2>1. PICK i \in DOMAIN subs : subs' = Delete(subs, i)
    BY <1>4 DEF Unsubscribe
  <2>2. QED
    BY <2>1, <1>f1, UnsubscribeDelta
<1>5. ASSUME NEW u \in User, syncSubscriptions(u) PROVE CoherentInv'
  BY <1>5, <1>f1, SyncEffect
<1>6. ASSUME NEW u \in User, CloseCancel(u) PROVE CoherentInv'
  BY <1>6, <1>f1 DEF CloseCancel, Goto
<1>7. ASSUME NEW u \in User, CloseWait(u) PROVE CoherentInv'
  BY <1>7, <1>f1 DEF CloseWait, Goto, clientVars, connVars
<1>8. ASSUME NEW u \in User, CloseClear(u) PROVE CoherentInv'
  <2>1. DOMAIN subs' = {}
    BY <1>8, SMT DEF CloseClear
  <2>2. QED
    BY <2>1 DEF Coherent
<1>9. ASSUME NEW p \in Proc, DialFails(p) PROVE CoherentInv'
  BY <1>9, <1>f1 DEF DialFails, Goto, AfterConnect, clientVars, connVars
<1>10. ASSUME NEW p \in Proc, Dial(p) PROVE CoherentInv'
  BY <1>10, <1>f1 DEF Dial, Goto, clientVars
<1>11. ASSUME NEW p \in Proc, Discard(p) PROVE CoherentInv'
  BY <1>11, <1>f1 DEF Discard, Goto, AfterConnect, clientVars
<1>12. ASSUME NEW p \in Proc, Publish(p) PROVE CoherentInv'
  BY <1>12, <1>f1, PublishEffect DEF AfterConnect
<1>13. ASSUME NEW p \in Proc, Replay(p) PROVE CoherentInv'
  BY <1>13, <1>f1, ReplayEffect DEF AfterConnect
<1>14. ASSUME NEW c \in Conn, ReadMessage(c) PROVE CoherentInv'
  BY <1>14, <1>f1 DEF ReadMessage, clientVars, procVars
<1>15. ASSUME NEW c \in Conn, dispatch(c) PROVE CoherentInv'
  BY <1>15, <1>f1 DEF dispatch, clientVars, procVars
<1>16. ASSUME NEW c \in Conn, ReadError(c) PROVE CoherentInv'
  BY <1>16, <1>f1 DEF ReadError, procVars
<1>17. ASSUME NEW c \in Conn, ReaderSchedules(c) PROVE CoherentInv'
  BY <1>17, <1>f1 DEF ReaderSchedules, scheduleReconnect
<1>18. ASSUME NEW c \in Conn, heartbeatLoop(c) PROVE CoherentInv'
  BY <1>18, <1>f1 DEF heartbeatLoop, clientVars, procVars
<1>19. ASSUME NEW c \in Conn, ConnectionLost(c) PROVE CoherentInv'
  BY <1>19, <1>f1 DEF ConnectionLost, clientVars, procVars
<1>20. CASE ReconnectLoop
  BY <1>20, <1>f1 DEF ReconnectLoop, Goto, clientVars, connVars
<1>21. CASE ReconnectBackoff
  BY <1>21, <1>f1 DEF ReconnectBackoff, Goto, clientVars, connVars
<1>22. CASE ReconnectExit
  BY <1>22, <1>f1 DEF ReconnectExit, Goto, connVars
<1>23. CASE ReconnectRetry
  BY <1>23, <1>f1 DEF ReconnectRetry, scheduleReconnect, connVars
<1>24. CASE UNCHANGED vars
  BY <1>24, <1>f1 DEF vars, clientVars, connVars, procVars
<1>25. QED
  BY <1>1, <1>2, <1>3, <1>4, <1>5, <1>6, <1>7, <1>8, <1>9, <1>10, <1>11, <1>12,
     <1>13, <1>14, <1>15, <1>16, <1>17, <1>18, <1>19, <1>20, <1>21, <1>22, <1>23,
     <1>24
     DEF Next, UserCall, ConnectStep, CloseStep, ReaderStep, ReconnectStep, Terminated

\* Steps that leave the registrations, the pending request and a healthy
\* published connection alone.
LEMMA SyncFrame ==
    ASSUME SyncInv, closed => closed', conn' \in {conn, NoConn},
           UNCHANGED <<subs, subsMu, request>>,
           (~closed' /\ conn' # NoConn /\ link'[conn] = "open")
               => link[conn] = "open" /\ server'[conn] = server[conn],
           \A p \in Proc : pc'[p] \in Locking => pc[p] \in Locking
    PROVE  SyncInv'
BY DEF SyncInv
\* Every step keeps the server and the registrations together.
LEMMA SyncStep ==
    TypeOK /\ LockInv /\ ClosedInv /\ HeldInv /\ ConnInv /\ CoherentInv /\ SyncInv /\ [Next]_vars => SyncInv'
<1> SUFFICES ASSUME TypeOK, LockInv, ClosedInv, HeldInv, ConnInv, CoherentInv, SyncInv, [Next]_vars
             PROVE  SyncInv'
  OBVIOUS
<1>f1. pc \in [Proc -> Where]
  BY DEF TypeOK
<1>f2. Reconnector \in Proc /\ Reconnector \notin User /\ User \subseteq Proc
  BY ProcAssumption DEF Proc
<1>f3. /\ conn \in Conn \cup {NoConn} /\ last \in Conn \cup {NoConn}
       /\ link \in [Conn -> {"free", "open", "silent", "dead"}]
       /\ server \in [Conn -> SUBSET Subscription]
  BY DEF TypeOK
<1>f4. conn # NoConn => conn = last
  BY DEF ConnInv
<1>f5. NoConn \notin Conn
  BY ProcAssumption
<1>1. ASSUME NEW u \in User, Connect(u) PROVE SyncInv'
  <2>1. \A x \in Proc : pc'[x] \in Locking => pc[x] \in Locking
    BY <1>1, <1>f1, <1>f2 DEF Connect, Goto, Locking
  <2>2. QED
    BY <1>1, <2>1, <1>f3, <1>f5, SyncFrame DEF Connect, clientVars, connVars
<1>2. ASSUME NEW u \in User, Close(u) PROVE SyncInv'
  <2>1. closed'
    BY <1>2 DEF Close, ClosedInv, Closing
  <2>2. QED
    BY <2>1 DEF SyncInv
<1>3. ASSUME NEW u \in User, NEW r \in Registration, Subscribe(u, r) PROVE SyncInv'
  <2>1. subs' = Append(subs, r) /\ subsMu = NoProc /\ ~Conflicting(subs, r)
    BY <1>3 DEF Subscribe
  <2>2. subs \in Seq(Registration) /\ request \in [Proc -> Request]
    BY DEF TypeOK
  <2>3. request'[u] = [action |-> "subscribe",
                       delta |-> serverDifference(serverSubscriptions(subs'), serverSubscriptions(subs))]
    BY <1>3, <2>2, <1>f2 DEF Subscribe
  <2>4. serverSubscriptions(subs) \cup
           serverDifference(serverSubscriptions(subs'), serverSubscriptions(subs))
           = serverSubscriptions(subs')
    BY <2>1, <2>2, SubscribeDelta DEF CoherentInv
  <2>5. Applied(serverSubscriptions(subs), request'[u]) = serverSubscriptions(subs')
    BY <2>3, <2>4, AppliedSubscribe
  <2>6. \A x \in Proc : pc'[x] \in Locking => x = u
    <3>1. \A x \in Proc : pc[x] \notin Locking
      BY <2>1, ProcAssumption DEF LockInv, Proc
    <3>2. pc' = [pc EXCEPT ![u] = "sync"]
      BY <1>3 DEF Subscribe, Goto
    <3>3. QED
      BY <3>1, <3>2, <1>f1
  <2>7. subsMu' # NoProc /\ UNCHANGED <<closed, conn, link, server>>
    BY <1>3, ProcAssumption DEF Subscribe, connVars
  <2>8. QED
    BY <2>1, <2>5, <2>6, <2>7 DEF SyncInv
<1>4. ASSUME NEW u \in User, NEW r \in Registration, Unsubscribe(u, r) PROVE SyncInv'
  <2>1. PICK i \in DOMAIN subs : subs' = Delete(subs, i)
    BY <1>4 DEF Unsubscribe
  <2>2. subs \in Seq(Registration) /\ request \in [Proc -> Request]
    BY DEF TypeOK
  <2>3. request'[u] = [action |-> "unsubscribe",
                       delta |-> serverDifference(serverSubscriptions(subs), serverSubscriptions(subs'))]
    BY <1>4, <2>2, <1>f2 DEF Unsubscribe
  <2>4. LET before == serverSubscriptions(subs)
            after == serverSubscriptions(subs')
        IN  Applied(before, [action |-> "unsubscribe",
                             delta |-> serverDifference(before, after)]) = after
    BY <2>1, <2>2, UnsubscribeDelta DEF CoherentInv
  <2>5. Applied(serverSubscriptions(subs), request'[u]) = serverSubscriptions(subs')
    BY <2>3, <2>4
  <2>6. subsMu = NoProc /\ subsMu' # NoProc /\ UNCHANGED <<closed, conn, link, server>>
    BY <1>4, ProcAssumption DEF Unsubscribe, connVars
  <2>7. \A x \in Proc : pc'[x] \in Locking => x = u
    <3>1. \A x \in Proc : pc[x] \notin Locking
      BY <2>6, ProcAssumption DEF LockInv, Proc
    <3>2. pc' = [pc EXCEPT ![u] = "sync"]
      BY <1>4 DEF Unsubscribe, Goto
    <3>3. QED
      BY <3>1, <3>2, <1>f1
  <2>8. QED
    BY <2>5, <2>6, <2>7 DEF SyncInv
<1>5. ASSUME NEW u \in User, syncSubscriptions(u) PROVE SyncInv'
  <2>1. subsMu' = NoProc /\ Written(request[u]) /\ UNCHANGED <<closed, conn, subs>>
    BY <1>5, SyncEffect
  <2>2. pc[u] \in Locking /\ u \in Proc
    BY <1>5, <1>f1, <1>f2, <1>f3, <1>f4, <1>f5 DEF syncSubscriptions, Locking
  <2>3. \A x \in Proc : pc'[x] \notin Locking
    BY SMTT(60), <1>5, <2>2, <1>f1, <1>f2, <1>f3, <1>f4, <1>f5, SyncEffect DEF LockInv, Locking, AfterConnect
  <2>4. (~closed /\ conn # NoConn /\ link'[conn] = "open")
           => link[conn] = "open" /\ server'[conn] = Applied(server[conn], request[u])
    BY <2>1 DEF Written
  <2>5. QED
    BY <2>1, <2>2, <2>3, <2>4 DEF SyncInv
<1>6. ASSUME NEW u \in User, CloseCancel(u) PROVE SyncInv'
  <2>1. closed'
    BY <1>6 DEF CloseCancel, ClosedInv, Closing
  <2>2. QED
    BY <2>1 DEF SyncInv
<1>7. ASSUME NEW u \in User, CloseWait(u) PROVE SyncInv'
  <2>1. \A x \in Proc : pc'[x] \in Locking => pc[x] \in Locking
    BY <1>7, <1>f1, <1>f2 DEF CloseWait, Goto, Locking
  <2>2. QED
    BY <1>7, <2>1, <1>f3, <1>f5, SyncFrame DEF CloseWait, clientVars, connVars
<1>8. ASSUME NEW u \in User, CloseClear(u) PROVE SyncInv'
  <2>1. closed /\ UNCHANGED closed
    BY <1>8 DEF CloseClear, ClosedInv, Closing
  <2>2. QED
    BY <2>1 DEF SyncInv
<1>9. ASSUME NEW p \in Proc, DialFails(p) PROVE SyncInv'
  <2>1. \A x \in Proc : pc'[x] \in Locking => pc[x] \in Locking
    BY <1>9, <1>f1, <1>f2 DEF DialFails, Goto, AfterConnect, Locking
  <2>2. QED
    BY <1>9, <2>1, <1>f3, <1>f5, SyncFrame DEF DialFails, clientVars, connVars
<1>10. ASSUME NEW p \in Proc, Dial(p) PROVE SyncInv'
  <2>1. \A x \in Proc : pc'[x] \in Locking => pc[x] \in Locking
    BY <1>10, <1>f1, <1>f2 DEF Dial, Goto, Locking
  <2>2. PICK c \in Conn \ {last} : /\ link' = [link EXCEPT ![c] = "open"]
                                  /\ server' = [server EXCEPT ![c] = {}]
    BY <1>10 DEF Dial
  <2>3. UNCHANGED <<closed, conn, subs, subsMu, request>>
    BY <1>10 DEF Dial, clientVars
  <2>4. conn # NoConn => conn \in Conn /\ conn # c
    BY <2>2, <1>f3, <1>f4
  <2>5. QED
    BY <2>1, <2>2, <2>3, <2>4, <1>f3, SyncFrame
<1>11. ASSUME NEW p \in Proc, Discard(p) PROVE SyncInv'
  <2>1. \A x \in Proc : pc'[x] \in Locking => pc[x] \in Locking
    BY <1>11, <1>f1, <1>f2 DEF Discard, Goto, AfterConnect, Locking
  <2>2. link' = [link EXCEPT ![held[p]] = "free"] /\ UNCHANGED <<closed, conn, subs, subsMu, request, server>>
    BY <1>11 DEF Discard, clientVars
  <2>3. QED
    BY <2>1, <2>2, <1>f3, SyncFrame
<1>12. ASSUME NEW p \in Proc, Publish(p) PROVE SyncInv'
  <2>1. /\ conn' = held[p] /\ held[p] \in Conn
        /\ server[held[p]] = {} /\ UNCHANGED <<server, subs>>
    BY <1>12 DEF Publish, HeldInv
  <2>2. \A x \in Proc : pc[x] \notin Locking
    BY <1>12, ProcAssumption DEF Publish, LockInv, Proc
  <2>3. CASE subs = <<>>
    <3>1. serverSubscriptions(subs) = {}
      BY SMTT(60), <2>3 DEF serverSubscriptions
    <3>2. \A x \in Proc : pc'[x] \notin Locking
      BY <1>12, <2>2, <2>3, <1>f1 DEF Publish, Goto, AfterConnect, Locking
    <3>3. QED
      BY <2>1, <3>1, <3>2 DEF SyncInv
  <2>4. CASE subs # <<>>
    <3>1. request' = [request EXCEPT ![p] = [action |-> "subscribe", delta |-> serverSubscriptions(subs)]]
      BY <1>12, <2>4 DEF Publish
    <3>2. request'[p] = [action |-> "subscribe", delta |-> serverSubscriptions(subs)]
      BY <3>1 DEF TypeOK
    <3>3. Applied({}, request'[p]) = {} \cup serverSubscriptions(subs)
      BY <3>2, AppliedSubscribe
    <3>4. Applied({}, request'[p]) = serverSubscriptions(subs)
      BY <3>3, Zenon
    <3>5. pc' = [pc EXCEPT ![p] = "replay"] /\ subsMu' = p
      BY <1>12, <2>4 DEF Publish, Goto
    <3>6. subsMu' # NoProc /\ \A x \in Proc : pc'[x] \in Locking => x = p
      BY <2>2, <3>5, <1>f1, ProcAssumption DEF Proc
    <3>7. QED
      BY <2>1, <3>4, <3>6 DEF SyncInv
  <2>5. QED
    BY <2>3, <2>4
<1>13. ASSUME NEW p \in Proc, Replay(p) PROVE SyncInv'
  <2>1. subsMu' = NoProc /\ Written(request[p]) /\ UNCHANGED <<closed, conn, subs>>
    BY <1>13, ReplayEffect
  <2>2. pc[p] \in Locking /\ p \in Proc
    BY <1>13, <1>f1, <1>f2, <1>f3, <1>f4, <1>f5 DEF Replay, Locking
  <2>3. \A x \in Proc : pc'[x] \notin Locking
    BY SMTT(60), <1>13, <2>2, <1>f1, <1>f2, <1>f3, <1>f4, <1>f5, ReplayEffect DEF LockInv, Locking, AfterConnect
  <2>4. (~closed /\ conn # NoConn /\ link'[conn] = "open")
           => link[conn] = "open" /\ server'[conn] = Applied(server[conn], request[p])
    BY <2>1 DEF Written
  <2>5. QED
    BY <2>1, <2>2, <2>3, <2>4 DEF SyncInv
<1>14. ASSUME NEW c \in Conn, ReadMessage(c) PROVE SyncInv'
  <2>1. \A x \in Proc : pc'[x] \in Locking => pc[x] \in Locking
    BY <1>14, <1>f1, <1>f2 DEF ReadMessage, procVars, Locking
  <2>2. QED
    BY <1>14, <2>1, <1>f3, <1>f5, SyncFrame DEF ReadMessage, clientVars, procVars
<1>15. ASSUME NEW c \in Conn, dispatch(c) PROVE SyncInv'
  <2>1. \A x \in Proc : pc'[x] \in Locking => pc[x] \in Locking
    BY <1>15, <1>f1, <1>f2 DEF dispatch, procVars, Locking
  <2>2. QED
    BY <1>15, <2>1, <1>f3, <1>f5, SyncFrame DEF dispatch, clientVars, procVars
<1>16. ASSUME NEW c \in Conn, ReadError(c) PROVE SyncInv'
  <2>1. \A x \in Proc : pc'[x] \in Locking => pc[x] \in Locking
    BY <1>16, <1>f1, <1>f2 DEF ReadError, procVars, Locking
  <2>2. QED
    BY <1>16, <2>1, <1>f3, <1>f5, SyncFrame DEF ReadError, procVars
<1>17. ASSUME NEW c \in Conn, ReaderSchedules(c) PROVE SyncInv'
  <2>1. \A x \in Proc : pc'[x] \in Locking => pc[x] \in Locking
    BY <1>17, <1>f1, <1>f2 DEF ReaderSchedules, scheduleReconnect, Locking
  <2>2. QED
    BY <1>17, <2>1, <1>f3, <1>f5, SyncFrame DEF ReaderSchedules
<1>18. ASSUME NEW c \in Conn, heartbeatLoop(c) PROVE SyncInv'
  <2>1. \A x \in Proc : pc'[x] \in Locking => pc[x] \in Locking
    BY <1>18, <1>f1, <1>f2 DEF heartbeatLoop, procVars, Locking
  <2>2. QED
    BY <1>18, <2>1, <1>f3, <1>f5, SyncFrame DEF heartbeatLoop, clientVars, procVars
<1>19. ASSUME NEW c \in Conn, ConnectionLost(c) PROVE SyncInv'
  <2>1. \A x \in Proc : pc'[x] \in Locking => pc[x] \in Locking
    BY <1>19, <1>f1, <1>f2 DEF ConnectionLost, procVars, Locking
  <2>2. QED
    BY <1>19, <2>1, <1>f3, <1>f5, SyncFrame DEF ConnectionLost, clientVars, procVars
<1>20. CASE ReconnectLoop
  <2>1. \A x \in Proc : pc'[x] \in Locking => pc[x] \in Locking
    BY <1>20, <1>f1, <1>f2 DEF ReconnectLoop, Goto, Locking
  <2>2. QED
    BY <1>20, <2>1, <1>f3, <1>f5, SyncFrame DEF ReconnectLoop, clientVars, connVars
<1>21. CASE ReconnectBackoff
  <2>1. \A x \in Proc : pc'[x] \in Locking => pc[x] \in Locking
    BY <1>21, <1>f1, <1>f2 DEF ReconnectBackoff, Goto, Locking
  <2>2. QED
    BY <1>21, <2>1, <1>f3, <1>f5, SyncFrame DEF ReconnectBackoff, clientVars, connVars
<1>22. CASE ReconnectExit
  <2>1. \A x \in Proc : pc'[x] \in Locking => pc[x] \in Locking
    BY <1>22, <1>f1, <1>f2 DEF ReconnectExit, Goto, Locking
  <2>2. QED
    BY <1>22, <2>1, <1>f3, <1>f5, SyncFrame DEF ReconnectExit, connVars
<1>23. CASE ReconnectRetry
  <2>1. \A x \in Proc : pc'[x] \in Locking => pc[x] \in Locking
    BY <1>23, <1>f1, <1>f2 DEF ReconnectRetry, scheduleReconnect, Locking
  <2>2. QED
    BY <1>23, <2>1, <1>f3, <1>f5, SyncFrame DEF ReconnectRetry, connVars
<1>24. CASE UNCHANGED vars
  <2>1. \A x \in Proc : pc'[x] \in Locking => pc[x] \in Locking
    BY <1>24, <1>f1, <1>f2 DEF vars, procVars, Locking
  <2>2. QED
    BY <1>24, <2>1, <1>f3, <1>f5, SyncFrame DEF vars, clientVars, connVars, procVars
<1>25. QED
  BY <1>1, <1>2, <1>3, <1>4, <1>5, <1>6, <1>7, <1>8, <1>9, <1>10, <1>11, <1>12,
     <1>13, <1>14, <1>15, <1>16, <1>17, <1>18, <1>19, <1>20, <1>21, <1>22, <1>23,
     <1>24
     DEF Next, UserCall, ConnectStep, CloseStep, ReaderStep, ReconnectStep, Terminated

-----------------------------------------------------------------------------
(* Theorems                                                                *)

IInv == /\ TypeOK /\ ReconnectorInv /\ LockInv /\ ClosedInv
        /\ HeldInv /\ DistinctInv /\ CloserInv /\ ConnInv /\ ReaderInv /\ ServedInv
        /\ FinalInv /\ ReconnectPending /\ CoherentInv /\ SyncInv

LEMMA InitIInv == Init => IInv
<1> SUFFICES ASSUME Init PROVE IInv
  OBVIOUS
<1> USE ProcAssumption DEF Init, Proc
<1>1. TypeOK
  <2>1. NoRequest \in Request
    BY DEF NoRequest, Request
  <2>2. subs \in Seq(Registration)
    BY SMT
  <2>3. QED
    BY <2>1, <2>2 DEF TypeOK, Where
<1>2. ReconnectorInv /\ LockInv /\ ClosedInv /\ HeldInv /\ FinalInv /\ ReconnectPending
  BY DEF ReconnectorInv, LockInv, Locking, ClosedInv, Closing, HeldInv, FinalInv, ReconnectPending
<1>3. DistinctInv /\ CloserInv /\ ConnInv /\ ReaderInv /\ ServedInv
  BY DEF DistinctInv, CloserInv, ConnInv, ReaderInv, ServedInv, Serving
<1>4. CoherentInv /\ SyncInv
  BY SMTT(60) DEF CoherentInv, Coherent, SyncInv
<1>5. QED
  BY <1>1, <1>2, <1>3, <1>4 DEF IInv

\* The inductive invariant holds in every reachable state of the client.
THEOREM Invariance == Spec => []IInv
<1>1. IInv /\ [Next]_vars => IInv'
  BY TypeStep, ReconnectorStep, LockStep, ClosedStep, HeldStep, DistinctStep,
     CloserStep, ConnStep, ReaderInvStep, ServedStep, FinalStep, PendingStep,
     CoherentStep, SyncStep DEF IInv
<1>2. QED
  BY InitIInv, <1>1, PTL DEF Spec

\* connect, Subscribe, Unsubscribe, readLoop, attemptReconnect and Close keep
\* every field of the client within its type.
THEOREM TypeCorrect == Spec => []TypeOK
BY Invariance, PTL DEF IInv

\* For any number of callers, connections, registrations and faults: whenever
\* subsMu is free, a healthy published connection is subscribed to exactly
\* what the registrations ask for.
THEOREM ServerFollowsRegistrations == Spec => []InSync
<1>1. IInv => InSync
  BY DEF IInv, SyncInv, InSync
<1>2. QED
  BY Invariance, <1>1, PTL

\* scheduleReconnect, which does nothing while reconnecting is set, together
\* with the deferred retry of attemptReconnect, never forgets a lost connection.
THEOREM NoLostReconnect == Spec => []ReconnectPending
BY Invariance, PTL DEF IInv

\* readLoop runs on the published connection and on no other.
THEOREM SingleReader == Spec => []OneReader
<1>1. IInv => OneReader
  BY DEF IInv, ReaderInv, ServedInv, OneReader
<1>2. QED
  BY Invariance, <1>1, PTL

\* After the closing call of Close has returned nothing is registered or read.
THEOREM CloseFinality == Spec => []CloseIsFinal
<1>1. ASSUME IInv, NEW u \in User, pc[u] = "closed", NEW c \in Conn
      PROVE  subs = <<>> /\ ~Serving(c)
  <2>1. subs = <<>> /\ (last = NoConn \/ reader[last] = "off")
    BY <1>1 DEF IInv, FinalInv
  <2>2. Serving(c) => c = last
    BY <1>1, ProcAssumption DEF IInv, ReaderInv, ConnInv
  <2>3. QED
    BY <2>1, <2>2, ProcAssumption DEF Serving
<1>2. ASSUME IInv, NEW u \in User, pc[u] = "closed"
      PROVE  subs = <<>>
  BY <1>2 DEF IInv, FinalInv
<1>3. IInv => CloseIsFinal
  BY <1>1, <1>2 DEF CloseIsFinal
<1>4. QED
  BY Invariance, <1>3, PTL

\* The life cycle of the client is safe for any number of callers, connections,
\* registrations and faults.
THEOREM LifeCycle == Spec => []LifeCycleSafe
BY TypeCorrect, SingleReader, NoLostReconnect, CloseFinality, PTL DEF LifeCycleSafe
=============================================================================
