------------------------- MODULE MarketStreamProofs -------------------------
(***************************************************************************)
(* Proofs about MarketStream, for any set of handles and instruments and    *)
(* any capacities: no caller is left without an answer, the owner knows     *)
(* what the server serves, filters change without a ready handle losing    *)
(* its updates, and lost updates are announced unless ::all is asked for.  *)
(***************************************************************************)
EXTENDS MarketStream, TLAPS

-----------------------------------------------------------------------------
(* The inductive invariant                                                 *)

HandleState == [user : {"idle", "adding", "waiting", "live", "closing"},
                filter : SUBSET Channels, cancelled : BOOLEAN, owned : BOOLEAN,
                ready : BOOLEAN, reply : {"none", "ok", "err"}, done : BOOLEAN,
                queue : 0..QueueCap, gap : BOOLEAN, torn : BOOLEAN]
SockState == [reader : BOOLEAN, conn : BOOLEAN, wire : SUBSET Channels,
              known : SUBSET Channels, pending : SUBSET Channels,
              req : {"none", "sub", "unsub"},
              writer : {"idle", "change", "ping", "written", "failed"}]
NetState == [link : {"none", "dialing", "open", "broken"}, server : SUBSET Channels,
             sent : SUBSET Channels, skipped : SUBSET (Channels \X Instruments),
             request : BOOLEAN, inbox : Seq(Message)]

StateInv ==
    /\ hd \in [Handles -> HandleState]
    /\ pc \in {"prune", "act", "select", "exited"}
    /\ sock \in SockState
    /\ net \in NetState /\ Len(net.inbox) <= InboxCap /\ net.skipped \subseteq net.sent \X Instruments
    /\ retry \in BOOLEAN /\ connected \in BOOLEAN /\ wake \in BOOLEAN /\ closed \in BOOLEAN

\* Once the owner has taken a handle it holds it until it is done, and whoever is
\* told of the end finds an answer.
HandleOK(r) ==
    /\ r.user \in {"idle", "adding"} => ~r.owned /\ ~r.done /\ ~r.ready
    /\ r.user \in {"waiting", "live", "closing"} => r.owned \/ r.done
    /\ r.owned => ~r.done
    /\ r.done \/ r.ready => r.reply # "none"

HandleInv == \A h \in Handles : HandleOK(hd[h])

\* The acknowledgements among the messages of the reader.
NoAck(s) == \A p \in 1..Len(s) : s[p].type # "ack"
OneAck(s, ok) ==
    \E p \in 1..Len(s) : /\ s[p].type = "ack" /\ s[p].ok = ok
                         /\ \A q \in 1..Len(s) \ {p} : s[q].type # "ack"

\* What is on the wire once the change in flight has been made.
Changed == IF sock.req = "sub" THEN sock.wire \cup sock.pending ELSE sock.wire \ sock.pending

\* A change in flight is written, asked of the server or acknowledged, one of
\* these at a time, and the server has made it exactly when it says so.
InFlight ==
    \/ /\ NoAck(net.inbox) /\ net.server = sock.wire
       /\ net.request \/ sock.writer = "change" => sock.pending # {}
       /\ ~(net.request /\ sock.writer = "change")
    \/ \E ok \in BOOLEAN : /\ OneAck(net.inbox, ok) /\ net.server = IF ok THEN Changed ELSE sock.wire
                           /\ ~net.request /\ sock.writer # "change" /\ sock.pending # {}

\* The owner's transport and the socket begin and end together.
LinkInv ==
    /\ net.link = "none" => sock = NoSock /\ net = NoNet
    /\ net.link = "dialing" => /\ sock = [NoSock EXCEPT !.reader = TRUE]
                               /\ net = [NoNet EXCEPT !.link = "dialing"]
    /\ sock.reader <=> net.link # "none"
    /\ sock.req = "none" <=> sock.pending = {}
    /\ net.link = "open" => InFlight

\* What a removal in flight leaves on the wire covers every ready handle.
RemovalInv ==
    sock.req = "unsub" =>
        \A h \in Handles : hd[h].owned /\ hd[h].ready
                             => Covers(sock.wire \ sock.pending, hd[h].filter)

IInv == StateInv /\ HandleInv /\ LinkInv /\ RemovalInv

-----------------------------------------------------------------------------
(* Filters                                                                 *)

\* Most leaves are set and first-order reasoning; those with arithmetic or large
\* records cite SMT.
USE Zenon

\* More channels carry more.
LEMMA CoversMore ==
    ASSUME NEW S, NEW T, S \subseteq T, NEW filter, Covers(S, filter)
    PROVE  Covers(T, filter)
BY DEF Covers, Carries

\* What is wanted for the handles covers the filter of each of them.
LEMMA DesiredCovers ==
    ASSUME NEW hs, NEW h \in hs
    PROVE  Covers(desired(hs), hd[h].filter)
<1>1. SUFFICES ASSUME NEW c \in hd[h].filter
               PROVE  Carries(desired(hs), c)
  BY DEF Covers
<1>2. c \in UNION {hd[g].filter : g \in hs}
  OBVIOUS
<1>3. QED
  BY <1>2 DEF desired, Carries

\* Only channels are wanted.
LEMMA DesiredTyped ==
    ASSUME StateInv, NEW hs \in SUBSET Handles
    PROVE  desired(hs) \in SUBSET Channels
BY SMT DEF desired, StateInv, HandleState

-----------------------------------------------------------------------------
(* Messages                                                                *)

\* The fields of a message.
LEMMA MessageFields ==
    ASSUME NEW m \in Message
    PROVE  /\ m.type \in {"conn", "err", "ack", "frame"}
           /\ m.type = "ack" => m.ok \in BOOLEAN
           /\ m.type = "frame" => m.ch \in Channels /\ m.ins \in Instruments
BY DEF Message

\* The reader adds a message.
LEMMA Appended ==
    ASSUME NEW s \in Seq(Message), NEW m \in Message
    PROVE  /\ Append(s, m) \in Seq(Message) /\ Len(Append(s, m)) = Len(s) + 1
           /\ Len(s) \in Nat
           /\ \A p \in 1..Len(s) : Append(s, m)[p] = s[p]
           /\ Append(s, m)[Len(s) + 1] = m
BY SMT

\* The owner takes one.
LEMMA Taken ==
    ASSUME NEW s \in Seq(Message), s # <<>>
    PROVE  /\ Head(s) \in Message /\ Head(s) = s[1] /\ Len(s) \in Nat \ {0}
           /\ Tail(s) \in Seq(Message) /\ Len(Tail(s)) = Len(s) - 1
           /\ \A p \in 1..Len(Tail(s)) : Tail(s)[p] = s[p + 1]
BY SMT

\* A message that is no acknowledgement changes nothing about them.
LEMMA AddedOther ==
    ASSUME NEW s \in Seq(Message), NEW m \in Message, m.type # "ack"
    PROVE  /\ NoAck(s) => NoAck(Append(s, m))
           /\ \A ok \in BOOLEAN : OneAck(s, ok) => OneAck(Append(s, m), ok)
<1> DEFINE t == Append(s, m)
<1>1. /\ Len(t) = Len(s) + 1 /\ Len(s) \in Nat /\ t[Len(s) + 1] = m
      /\ \A p \in 1..Len(s) : t[p] = s[p]
  BY Appended
<1>2. 1..Len(t) = 1..Len(s) \cup {Len(s) + 1}
  BY <1>1, SMT
<1> HIDE DEF t
<1>3. NoAck(s) => NoAck(t)
  BY <1>1, <1>2 DEF NoAck
<1>4. ASSUME NEW ok \in BOOLEAN, OneAck(s, ok)
      PROVE  OneAck(t, ok)
  BY <1>1, <1>2, <1>4 DEF OneAck
<1>5. QED
  BY <1>3, <1>4 DEF t

\* The acknowledgement is the first one.
LEMMA AddedAck ==
    ASSUME NEW s \in Seq(Message), NEW ok \in BOOLEAN, NoAck(s)
    PROVE  OneAck(Append(s, [type |-> "ack", ok |-> ok]), ok)
<1> DEFINE m == [type |-> "ack", ok |-> ok]
           t == Append(s, m)
<1>1. m \in Message /\ m.type = "ack" /\ m.ok = ok
  BY DEF Message
<1> HIDE DEF m
<1>2. /\ Len(t) = Len(s) + 1 /\ Len(s) \in Nat /\ t[Len(s) + 1] = m
      /\ \A p \in 1..Len(s) : t[p] = s[p]
  BY <1>1, Appended
<1>3. /\ Len(s) + 1 \in 1..Len(t)
      /\ \A q \in 1..Len(t) \ {Len(s) + 1} : q \in 1..Len(s)
  BY <1>2, SMT
<1> HIDE DEF t
<1>4. OneAck(t, ok)
  BY <1>1, <1>2, <1>3 DEF OneAck, NoAck
<1>5. QED
  BY <1>4 DEF t, m

\* What taking a message leaves.
LEMMA TookMessage ==
    ASSUME NEW s \in Seq(Message), s # <<>>
    PROVE  /\ NoAck(s) => NoAck(Tail(s)) /\ Head(s).type # "ack"
           /\ \A ok \in BOOLEAN : OneAck(s, ok) =>
                IF Head(s).type = "ack" THEN Head(s).ok = ok /\ NoAck(Tail(s))
                ELSE OneAck(Tail(s), ok)
<1> DEFINE t == Tail(s)
<1>1. /\ Head(s) = s[1] /\ Len(s) \in Nat \ {0} /\ Len(t) = Len(s) - 1
      /\ \A p \in 1..Len(t) : t[p] = s[p + 1]
  BY Taken
<1>2. /\ 1 \in 1..Len(s)
      /\ \A p \in 1..Len(t) : p + 1 \in 1..Len(s) /\ p + 1 # 1
      /\ \A p \in 1..Len(s) \ {1} : p - 1 \in 1..Len(t) /\ (p - 1) + 1 = p
      /\ \A p, q \in 1..Len(t) : p # q => p + 1 # q + 1
  BY <1>1, SMT
<1> HIDE DEF t
<1>3. ASSUME NoAck(s)
      PROVE  NoAck(t) /\ s[1].type # "ack"
  BY <1>1, <1>2, <1>3, SMT DEF NoAck
<1>4. ASSUME NEW ok \in BOOLEAN, OneAck(s, ok)
      PROVE  IF s[1].type = "ack" THEN s[1].ok = ok /\ NoAck(t) ELSE OneAck(t, ok)
  <2>1. PICK p \in 1..Len(s) : /\ s[p].type = "ack" /\ s[p].ok = ok
                               /\ \A q \in 1..Len(s) \ {p} : s[q].type # "ack"
    BY <1>4 DEF OneAck
  <2>2. CASE p = 1
    BY <1>1, <1>2, <2>1, <2>2, SMT DEF NoAck
  <2>3. CASE p # 1
    <3>1. p - 1 \in 1..Len(t) /\ t[p - 1] = s[p]
      BY <1>1, <1>2, <2>3
    <3>2. \A q \in 1..Len(t) \ {p - 1} : q + 1 \in 1..Len(s) \ {p} /\ t[q] = s[q + 1]
      BY <1>1, <1>2, <2>3
    <3>3. OneAck(t, ok)
      BY <2>1, <3>1, <3>2 DEF OneAck
    <3>4. QED
      BY <1>2, <2>1, <2>3, <3>3
  <2>4. QED
    BY <2>2, <2>3
<1>5. QED
  BY <1>1, <1>3, <1>4 DEF t


-----------------------------------------------------------------------------
(* Handles                                                                 *)

\* What events and the loss of updates leave alone.
Same(r, q) ==
    /\ q \in HandleState /\ q.user = r.user /\ q.filter = r.filter /\ q.owned = r.owned
    /\ q.ready = r.ready /\ q.reply = r.reply /\ q.done = r.done

\* Lost updates, and the end of a transport.
LEMMA LossSame ==
    ASSUME NEW r \in HandleState
    PROVE  Same(r, Cut(r)) /\ \A lost : Same(r, Missing(r, lost))
<1>1. Same(r, r) /\ Same(r, [r EXCEPT !.gap = TRUE])
  BY DEF Same, HandleState
<1>2. Same(r, Cut(r))
  BY <1>1 DEF Cut
<1>3. ASSUME NEW lost
      PROVE  Same(r, Missing(r, lost))
  BY <1>1 DEF Missing
<1>4. QED
  BY <1>2, <1>3

\* Events.
LEMMA EmitSame ==
    ASSUME NEW r \in HandleState
    PROVE  Same(r, emitResync(r)) /\ Same(r, emitUpdate(r))
<1>1. ~Overflowed(r) /\ ~r.cancelled => r.queue + 1 \in 0..QueueCap
  BY CapAssumption, SMT DEF Overflowed, HandleState
<1>2. Same(r, r) /\ Same(r, [r EXCEPT !.cancelled = TRUE])
  BY DEF Same, HandleState
<1>3. Same(r, emitResync(r))
  <2>1. ~Overflowed(r) /\ ~r.cancelled => Same(r, [r EXCEPT !.queue = @ + 1, !.gap = FALSE])
    BY <1>1 DEF Same, HandleState
  <2>2. QED
    BY <1>2, <2>1 DEF emitResync
<1>4. Same(r, emitUpdate(r))
  <2>1. (r.torn \/ r.gap) \in BOOLEAN
    OBVIOUS
  <2>2. ~Overflowed(r) /\ ~r.cancelled
           => Same(r, [r EXCEPT !.queue = @ + 1, !.torn = @ \/ r.gap])
    BY <1>1, <2>1 DEF Same, HandleState
  <2>3. QED
    BY <1>2, <2>2 DEF emitUpdate
<1>5. QED
  BY <1>3, <1>4

\* Two such steps are one.
LEMMA SameTwice ==
    ASSUME NEW r, NEW q, NEW t, Same(r, q), Same(q, t)
    PROVE  Same(r, t)
BY DEF Same

\* The owner lets go of a handle.
LEMMA Finished ==
    ASSUME NEW r \in HandleState, HandleOK(r), r.owned
    PROVE  /\ finish(r) \in HandleState /\ HandleOK(finish(r)) /\ ~finish(r).owned
           /\ finish(r).ready = r.ready
BY DEF finish, HandleOK, HandleState

\* A handle goes from r to q: it stays in order, and becomes neither owned nor
\* ready.
Quiet(r, q) ==
    /\ q \in HandleState /\ HandleOK(q)
    /\ q.ready => r.ready
    /\ q.owned /\ q.ready => r.owned /\ q.filter = r.filter

Calm == hd' \in [Handles -> HandleState] /\ \A h \in Handles : Quiet(hd[h], hd'[h])

\* What leaves a handle as it is for its callers is quiet.
LEMMA SameQuiet ==
    ASSUME NEW r \in HandleState, HandleOK(r), NEW q, Same(r, q)
    PROVE  Quiet(r, q)
BY DEF Same, Quiet, HandleOK

\* So is a finished handle.
LEMMA FinishQuiet ==
    ASSUME NEW r \in HandleState, HandleOK(r), r.owned
    PROVE  Quiet(r, finish(r))
BY Finished DEF Quiet

\* Nothing happens to the handles.
LEMMA CalmUnchanged ==
    ASSUME IInv, UNCHANGED hd
    PROVE  Calm
BY DEF IInv, StateInv, HandleInv, Calm, Quiet

\* One handle changes.
LEMMA CalmOne ==
    ASSUME IInv, NEW h \in Handles, NEW q, hd' = [hd EXCEPT ![h] = q], Quiet(hd[h], q)
    PROVE  Calm
<1>1. q \in HandleState /\ hd \in [Handles -> HandleState]
  BY DEF Quiet, IInv, StateInv
<1>2. hd' \in [Handles -> HandleState]
  BY <1>1
<1>3. ASSUME NEW g \in Handles
      PROVE  Quiet(hd[g], hd'[g])
  BY <1>1 DEF Quiet, IInv, HandleInv
<1>4. QED
  BY <1>2, <1>3 DEF Calm

\* The users' steps: a handle that is added is not ready, one that is given back
\* is not owned.
LEMMA UserCalm ==
    ASSUME IInv, NEW h \in Handles, UserStep(h)
    PROVE  Calm
<1>h. hd \in [Handles -> HandleState] /\ hd[h] \in HandleState /\ HandleOK(hd[h])
  BY DEF IInv, StateInv, HandleInv
<1>f. Free \in HandleState /\ ~Free.owned /\ ~Free.ready /\ HandleOK(Free)
  BY CapAssumption, SMT DEF Free, HandleState, HandleOK
<1>1. CASE hd' = [hd EXCEPT ![h] = Free]
  BY <1>f, <1>1, CalmOne DEF Quiet
<1>2. CASE \E filter \in FilterChoices : Subscribe(h, filter)
  <2>1. PICK filter \in FilterChoices : Subscribe(h, filter)
    BY <1>2
  <2> DEFINE q == [Free EXCEPT !.user = "adding", !.filter = filter]
  <2>2. filter \in SUBSET Channels
    BY ChannelAssumption
  <2>3. q \in HandleState /\ HandleOK(q) /\ ~q.owned /\ ~q.ready
    <3>1. /\ q.user = "adding" /\ q.owned = Free.owned /\ q.ready = Free.ready
          /\ q.done = Free.done /\ q.reply = Free.reply /\ q \in HandleState
      BY <1>f, <2>2 DEF HandleState
    <3>2. ~Free.owned /\ ~Free.ready /\ ~Free.done
      BY DEF Free
    <3> HIDE DEF q
    <3>3. QED
      BY <3>1, <3>2 DEF HandleOK
  <2>4. hd' = [hd EXCEPT ![h] = q]
    BY <2>1 DEF Subscribe
  <2> HIDE DEF q
  <2>5. QED
    BY <2>3, <2>4, CalmOne DEF Quiet
<1>3. CASE CancelContext(h)
  <2> DEFINE q == [hd[h] EXCEPT !.cancelled = TRUE]
  <2>1. hd' = [hd EXCEPT ![h] = q]
    BY <1>h, <1>3 DEF CancelContext
  <2>2. Same(hd[h], q)
    BY <1>h DEF Same, HandleState
  <2> HIDE DEF q
  <2>3. QED
    BY <1>h, <2>1, <2>2, SameQuiet, CalmOne
<1>4. CASE Consume(h)
  <2> DEFINE q == [hd[h] EXCEPT !.queue = @ - 1]
  <2>1. hd' = [hd EXCEPT ![h] = q]
    BY <1>h, <1>4 DEF Consume
  <2>2. hd[h].queue - 1 \in 0..QueueCap
    BY <1>h, <1>4, CapAssumption, SMT DEF Consume, HandleState
  <2>3. Same(hd[h], q)
    BY <1>h, <2>2 DEF Same, HandleState
  <2> HIDE DEF q
  <2>4. QED
    BY <1>h, <2>1, <2>3, SameQuiet, CalmOne
<1>5. ASSUME NEW u \in {"live", "closing"}, NEW c \in BOOLEAN, hd[h].user \in {"waiting", "live"},
             hd' = [hd EXCEPT ![h] = [hd[h] EXCEPT !.user = u, !.cancelled = c]]
      PROVE  Calm
  <2> DEFINE q == [hd[h] EXCEPT !.user = u, !.cancelled = c]
  <2>1. /\ q \in HandleState /\ q.user = u /\ q.owned = hd[h].owned /\ q.done = hd[h].done
        /\ q.ready = hd[h].ready /\ q.reply = hd[h].reply /\ q.filter = hd[h].filter
    BY <1>h DEF HandleState
  <2> HIDE DEF q
  <2>2. HandleOK(q)
    BY <1>h, <1>5, <2>1 DEF HandleOK
  <2>3. Quiet(hd[h], q)
    BY <2>1, <2>2 DEF Quiet
  <2>4. QED
    BY <1>5, <2>3, CalmOne DEF q
<1>6. ASSUME NEW u \in {"live", "closing"}, hd[h].user \in {"waiting", "live"},
             hd' = [hd EXCEPT ![h].user = u]
      PROVE  Calm
  <2>1. [hd[h] EXCEPT !.user = u] = [hd[h] EXCEPT !.user = u, !.cancelled = hd[h].cancelled]
    BY <1>h DEF HandleState
  <2>2. hd' = [hd EXCEPT ![h] = [hd[h] EXCEPT !.user = u, !.cancelled = hd[h].cancelled]]
    BY <1>h, <1>6, <2>1
  <2>3. hd[h].cancelled \in BOOLEAN
    BY <1>h DEF HandleState
  <2>4. QED
    BY <1>5, <1>6, <2>2, <2>3
<1>7. CASE SubscribeReturns(h) \/ SubscribeCancelled(h)
  BY <1>1, <1>6, <1>7 DEF SubscribeReturns, SubscribeCancelled
<1>8. CASE Close(h)
  BY <1>5, <1>8 DEF Close
<1>9. CASE SubscribeGivesUp(h) \/ CloseReturns(h)
  BY <1>1, <1>9 DEF SubscribeGivesUp, CloseReturns
<1>10. QED
  BY <1>2, <1>3, <1>4, <1>7, <1>8, <1>9 DEF UserStep


\* A socket is given up: unfinished calls of Subscribe fail, ready handles stay.
LEMMA DisconnectedCalm ==
    ASSUME IInv, disconnected
    PROVE  Calm
<1>1. ASSUME NEW h \in Handles
      PROVE  Quiet(hd[h], hd'[h]) /\ hd'[h] \in HandleState
  <2>1. hd[h] \in HandleState /\ HandleOK(hd[h])
    BY DEF IInv, StateInv, HandleInv
  <2>2. hd'[h] = IF hd[h].owned /\ ~hd[h].ready THEN finish(hd[h]) ELSE Cut(hd[h])
    BY DEF disconnected
  <2>3. Quiet(hd[h], hd'[h])
    BY <2>1, <2>2, FinishQuiet, LossSame, SameQuiet
  <2>4. QED
    BY <2>3 DEF Quiet
<1>2. hd' \in [Handles -> HandleState]
  BY <1>1 DEF disconnected
<1>3. QED
  BY <1>1, <1>2 DEF Calm

\* The loop ends, or prunes its handles.
LEMMA PruneCalm ==
    ASSUME IInv, Exit \/ prune
    PROVE  Calm
<1>1. ASSUME NEW h \in Handles
      PROVE  Quiet(hd[h], hd'[h]) /\ hd'[h] \in HandleState
  <2>1. hd[h] \in HandleState /\ HandleOK(hd[h])
    BY DEF IInv, StateInv, HandleInv
  <2>2. \/ hd[h].owned /\ hd'[h] = finish(hd[h])
        \/ hd'[h] = hd[h] \/ hd'[h] = Cut(hd[h])
    BY DEF Exit, prune, Owned
  <2>3. Same(hd[h], hd[h])
    BY <2>1 DEF Same
  <2>4. Quiet(hd[h], hd'[h])
    BY <2>1, <2>2, <2>3, FinishQuiet, LossSame, SameQuiet
  <2>5. QED
    BY <2>4 DEF Quiet
<1>2. hd' \in [Handles -> HandleState]
  <2>1. hd' = [h \in Handles |-> hd'[h]]
    BY DEF Exit, prune
  <2>2. QED
    BY <1>1, <2>1
<1>3. QED
  BY <1>1, <1>2 DEF Calm

\* A message: only the events and the losses of the handles change, unless the
\* socket is given up.
LEMMA ReceiveCalm ==
    ASSUME IInv, Receive
    PROVE  Calm
<1>1. CASE disconnected
  BY <1>1, DisconnectedCalm
<1>2. CASE UNCHANGED hd
  BY <1>2, CalmUnchanged
<1>3. CASE Connected
  <2>1. ASSUME NEW h \in Handles
        PROVE  Quiet(hd[h], hd'[h]) /\ hd'[h] \in HandleState
    <3>1. hd[h] \in HandleState /\ HandleOK(hd[h])
      BY DEF IInv, StateInv, HandleInv
    <3>2. hd'[h] = hd[h] \/ hd'[h] = emitResync(hd[h])
      BY <1>3 DEF Connected
    <3>3. Same(hd[h], hd'[h])
      BY <3>1, <3>2, EmitSame, SMT DEF Same
    <3>4. QED
      BY <3>1, <3>3, SameQuiet DEF Same
  <2>2. hd' \in [Handles -> HandleState]
    BY <1>3, <2>1 DEF Connected
  <2>3. QED
    BY <2>1, <2>2 DEF Calm
<1>4. ASSUME NEW m, Update(m)
      PROVE  Calm
  <2>1. ASSUME NEW h \in Handles
        PROVE  Quiet(hd[h], hd'[h]) /\ hd'[h] \in HandleState
    <3> DEFINE a == Missing(hd[h], m.lost)
               b == IF m.lost # {} /\ m.ch \in sock.known THEN emitResync(a) ELSE a
    <3>1. hd[h] \in HandleState /\ HandleOK(hd[h])
      BY DEF IInv, StateInv, HandleInv
    <3>2. Same(hd[h], a) /\ a \in HandleState
      BY <3>1, LossSame, SMT DEF Same
    <3>3. hd'[h] = a \/ hd'[h] = emitUpdate(b)
      BY <1>4 DEF Update
    <3> HIDE DEF a
    <3>4. Same(a, b) /\ b \in HandleState
      BY <3>2, EmitSame DEF Same
    <3> HIDE DEF b
    <3>5. Same(b, emitUpdate(b))
      BY <3>4, EmitSame
    <3>6. Same(hd[h], hd'[h])
      BY <3>2, <3>3, <3>4, <3>5, SameTwice, SMT
    <3>7. QED
      BY <3>1, <3>6, SameQuiet DEF Same
  <2>2. hd' \in [Handles -> HandleState]
    <3>1. hd' = [h \in Handles |-> hd'[h]]
      BY <1>4 DEF Update
    <3>2. QED
      BY <2>1, <3>1
  <2>3. QED
    BY <2>1, <2>2 DEF Calm
<1>5. QED
  BY <1>1, <1>2, <1>3, <1>4 DEF Receive, Acknowledged

\* The owner takes a handle.
LEMMA AddCalm ==
    ASSUME IInv, NEW h \in Handles, Add(h)
    PROVE  Calm
<1> DEFINE q == [hd[h] EXCEPT !.user = "waiting", !.owned = TRUE]
<1>1. hd \in [Handles -> HandleState] /\ hd[h] \in HandleState /\ HandleOK(hd[h])
  BY DEF IInv, StateInv, HandleInv
<1>2. hd' = [hd EXCEPT ![h] = q] /\ hd[h].user = "adding"
  BY <1>1 DEF Add
<1>3. /\ q \in HandleState /\ q.user = "waiting" /\ q.owned /\ q.done = hd[h].done
      /\ q.ready = hd[h].ready /\ q.reply = hd[h].reply
  BY <1>1 DEF HandleState
<1> HIDE DEF q
<1>4. Quiet(hd[h], q)
  BY <1>1, <1>2, <1>3 DEF Quiet, HandleOK
<1>5. QED
  BY <1>2, <1>4, CalmOne

\* Every step but reconcile is calm.
LEMMA StepCalm ==
    ASSUME IInv, [Next]_vars, ~reconcile
    PROVE  Calm
<1>1. CASE UNCHANGED hd
  BY <1>1, CalmUnchanged
<1>2. CASE \E h \in Handles : UserStep(h)
  BY <1>2, UserCalm
<1>3. CASE prune \/ Exit
  BY <1>3, PruneCalm
<1>4. CASE \E h \in Handles : Add(h)
  BY <1>4, AddCalm
<1>5. CASE Receive
  BY <1>5, ReceiveCalm
<1>6. CASE Written \/ AckTimeout \/ Stale
  BY <1>1, <1>6, DisconnectedCalm DEF Written, AckTimeout, Stale
<1>7. CASE CloseStream \/ Wake \/ Ping \/ Tick \/ NetStep \/ UNCHANGED vars
  BY <1>1, <1>7 DEF CloseStream, Wake, Ping, Tick, NetStep, Dialled, ServerAnswers, WriterEnds,
     LinkBreaks, Publish, Lose, vars
<1>8. QED
  BY <1>2, <1>3, <1>4, <1>5, <1>6, <1>7 DEF Next, OwnerStep


-----------------------------------------------------------------------------
(* The transport                                                           *)

\* The state of the transport is in order after a step, and no removal began.
Wired ==
    /\ sock' \in SockState /\ net' \in NetState
    /\ Len(net'.inbox) <= InboxCap /\ net'.skipped \subseteq net'.sent \X Instruments
    /\ LinkInv'
    /\ sock'.req = "unsub" => /\ sock.req = "unsub" /\ sock'.wire = sock.wire
                              /\ sock'.pending = sock.pending

\* The transport is stopped.
LEMMA StopWired ==
    ASSUME stopTransport
    PROVE  Wired
<1>1. sock' = NoSock /\ net' = NoNet
  BY DEF stopTransport
<1>2. /\ NoSock \in SockState /\ ~NoSock.reader /\ NoSock.req = "none" /\ NoSock.pending = {}
  BY DEF NoSock, SockState
<1>3. <<>> \in Seq(Message) /\ Len(<<>>) = 0
  BY SMT
<1>4. /\ NoNet \in NetState /\ NoNet.link = "none" /\ NoNet.inbox = <<>> /\ NoNet.skipped = {}
  BY <1>3 DEF NoNet, NetState
<1>5. LinkInv'
  BY <1>1, <1>2, <1>4 DEF LinkInv
<1>6. QED
  BY <1>1, <1>2, <1>3, <1>4, <1>5, CapAssumption, SMT DEF Wired

\* A reader is started.
LEMMA DialWired ==
    ASSUME sock' = [NoSock EXCEPT !.reader = TRUE], net' = [NoNet EXCEPT !.link = "dialing"]
    PROVE  Wired
<1>2. /\ sock' \in SockState /\ sock'.reader /\ sock'.req = "none" /\ sock'.pending = {}
  BY DEF NoSock, SockState
<1>3. <<>> \in Seq(Message) /\ Len(<<>>) = 0
  BY SMT
<1>4. /\ net' \in NetState /\ net'.link = "dialing" /\ net'.inbox = <<>> /\ net'.skipped = {}
  BY <1>3 DEF NoNet, NetState
<1>5. LinkInv'
  BY <1>2, <1>4 DEF LinkInv
<1>6. QED
  BY <1>2, <1>3, <1>4, <1>5, CapAssumption, SMT DEF Wired

\* Nothing happens to the transport.
LEMMA SameWired ==
    ASSUME IInv, UNCHANGED <<sock, net>>
    PROVE  Wired
<1>1. LinkInv'
  BY DEF IInv, LinkInv, InFlight, Changed
<1>2. QED
  BY <1>1 DEF IInv, StateInv, Wired

\* Whatever happens on a socket happens on one that was dialled.
LEMMA Live ==
    ASSUME IInv, sock.conn \/ sock.pending # {} \/ sock.writer # "idle" \/ net.inbox # <<>>
    PROVE  net.link \in {"open", "broken"}
<1>1. /\ net.link \in {"none", "dialing", "open", "broken"}
      /\ net.link = "none" => sock = NoSock /\ net = NoNet
      /\ net.link = "dialing" => /\ sock = [NoSock EXCEPT !.reader = TRUE]
                                 /\ net = [NoNet EXCEPT !.link = "dialing"]
  BY DEF IInv, StateInv, NetState, LinkInv
<1>2. /\ ~NoSock.conn /\ NoSock.pending = {} /\ NoSock.writer = "idle" /\ NoNet.inbox = <<>>
      /\ ~[NoSock EXCEPT !.reader = TRUE].conn /\ [NoSock EXCEPT !.reader = TRUE].pending = {}
      /\ [NoSock EXCEPT !.reader = TRUE].writer = "idle"
      /\ [NoNet EXCEPT !.link = "dialing"].inbox = <<>>
  BY DEF NoSock, NoNet
<1>3. QED
  BY <1>1, <1>2

\* The writer or a report of the reader leaves the change in flight alone.
LEMMA WriterWired ==
    ASSUME IInv, net.link \in {"open", "broken"}, sock' \in SockState,
           sock'.reader = sock.reader, sock'.wire = sock.wire, sock'.pending = sock.pending,
           sock'.req = sock.req, sock'.writer = "change" => sock.writer = "change",
           UNCHANGED net
    PROVE  Wired
<1>1. LinkInv
  BY DEF IInv
<1>2. InFlight => InFlight'
  BY DEF InFlight, Changed
<1>3. LinkInv'
  BY <1>1, <1>2 DEF LinkInv
<1>4. QED
  BY <1>3 DEF IInv, StateInv, Wired

\* The owner takes a message that is no acknowledgement.
LEMMA TakenWired ==
    ASSUME IInv, net.inbox # <<>>, Head(net.inbox).type # "ack",
           net' = [net EXCEPT !.inbox = Tail(@)], sock' \in SockState,
           sock'.reader = sock.reader, sock'.wire = sock.wire, sock'.pending = sock.pending,
           sock'.req = sock.req, sock'.writer = sock.writer
    PROVE  Wired
<1>1. LinkInv /\ net.link \in {"open", "broken"} /\ net \in NetState /\ net.inbox \in Seq(Message)
  BY Live DEF IInv, StateInv, NetState
<1>2. /\ net' \in NetState /\ net'.link = net.link /\ net'.server = net.server
      /\ net'.sent = net.sent /\ net'.skipped = net.skipped /\ net'.request = net.request
      /\ net'.inbox = Tail(net.inbox)
  BY <1>1, Taken DEF NetState
<1>3. Len(net'.inbox) <= InboxCap
  BY <1>1, <1>2, Taken, CapAssumption, SMT DEF IInv, StateInv
<1>4. InFlight => InFlight'
  <2>1. /\ NoAck(net.inbox) => NoAck(net'.inbox)
        /\ \A ok \in BOOLEAN : OneAck(net.inbox, ok) => OneAck(net'.inbox, ok)
    BY <1>1, <1>2, TookMessage
  <2>2. Changed' = Changed
    BY DEF Changed
  <2>3. QED
    BY <1>2, <2>1, <2>2 DEF InFlight
<1>5. LinkInv'
  BY <1>1, <1>2, <1>4 DEF LinkInv
<1>6. QED
  BY <1>2, <1>3, <1>5 DEF IInv, StateInv, Wired

\* The acknowledgement makes the change.
LEMMA AckWired ==
    ASSUME IInv, net.inbox # <<>>, Head(net.inbox).type = "ack", Head(net.inbox).ok,
           Acknowledged(TRUE), net' = [net EXCEPT !.inbox = Tail(@)]
    PROVE  Wired
<1>1. /\ LinkInv /\ net.link \in {"open", "broken"} /\ net \in NetState
      /\ net.inbox \in Seq(Message) /\ sock \in SockState
  BY Live DEF IInv, StateInv, NetState
<1>2. /\ net' \in NetState /\ net'.link = net.link /\ net'.server = net.server
      /\ net'.sent = net.sent /\ net'.skipped = net.skipped /\ net'.request = net.request
      /\ net'.inbox = Tail(net.inbox)
  BY <1>1, Taken DEF NetState
<1>3. Len(net'.inbox) <= InboxCap
  BY <1>1, <1>2, Taken, CapAssumption, SMT DEF IInv, StateInv
<1>4. /\ sock' \in SockState /\ sock'.reader = sock.reader /\ sock'.writer = sock.writer
      /\ sock'.wire = Changed /\ sock'.pending = {} /\ sock'.req = "none"
  <2> DEFINE k == IF sock.req = "sub" THEN sock.known ELSE sock.known \ sock.pending
             w == Changed
  <2>1. sock' = [sock EXCEPT !.wire = w, !.known = k, !.pending = {}, !.req = "none"]
    BY DEF Acknowledged, Changed
  <2>2. k \in SUBSET Channels /\ w \in SUBSET Channels
    BY <1>1 DEF SockState, Changed
  <2> HIDE DEF k, w
  <2>3. /\ sock' \in SockState /\ sock'.reader = sock.reader /\ sock'.writer = sock.writer
        /\ sock'.wire = w /\ sock'.pending = {} /\ sock'.req = "none"
    BY <1>1, <2>1, <2>2 DEF SockState
  <2>4. QED
    BY <2>3 DEF w
<1>5. InFlight => InFlight'
  <2>1. /\ ~NoAck(net.inbox)
        /\ \A ok \in BOOLEAN : OneAck(net.inbox, ok) => ok /\ NoAck(net'.inbox)
    BY <1>1, <1>2, TookMessage
  <2>2. QED
    BY <1>2, <1>4, <2>1 DEF InFlight
<1>6. LinkInv'
  BY <1>1, <1>2, <1>4, <1>5 DEF LinkInv
<1>7. QED
  BY <1>2, <1>3, <1>4, <1>6 DEF IInv, StateInv, Wired

\* A message from the reader.
LEMMA ReceiveWired ==
    ASSUME IInv, Receive
    PROVE  Wired
<1> DEFINE m == Head(net.inbox)
<1>1. /\ net.inbox # <<>> /\ net.inbox \in Seq(Message) /\ sock \in SockState
      /\ m \in Message
  BY Taken DEF Receive, IInv, StateInv, NetState
<1>2. CASE disconnected
  BY <1>2, StopWired DEF disconnected
<1>3. CASE m.type = "conn" /\ Connected /\ net' = [net EXCEPT !.inbox = Tail(@)]
  <2>1. /\ sock' \in SockState /\ sock'.reader = sock.reader /\ sock'.wire = sock.wire
        /\ sock'.pending = sock.pending /\ sock'.req = sock.req /\ sock'.writer = sock.writer
    BY <1>1, <1>3 DEF Connected, SockState
  <2>2. QED
    BY <1>1, <1>3, <2>1, TakenWired
<1>4. CASE m.type = "frame" /\ Update(m) /\ net' = [net EXCEPT !.inbox = Tail(@)]
  <2>1. m.ch \in Channels /\ sock' = [sock EXCEPT !.known = @ \cup {m.ch}]
    BY <1>1, <1>4, MessageFields DEF Update
  <2>2. /\ sock' \in SockState /\ sock'.reader = sock.reader /\ sock'.wire = sock.wire
        /\ sock'.pending = sock.pending /\ sock'.req = sock.req /\ sock'.writer = sock.writer
    BY <1>1, <2>1 DEF SockState
  <2>3. QED
    BY <1>1, <1>4, <2>2, TakenWired
<1>5. CASE m.type = "ack" /\ Acknowledged(m.ok) /\ (m.ok => net' = [net EXCEPT !.inbox = Tail(@)])
  <2>1. m.ok \in BOOLEAN
    BY <1>1, <1>5, MessageFields
  <2>2. CASE m.ok = TRUE
    BY <1>1, <1>5, <2>2, AckWired
  <2>3. CASE m.ok = FALSE
    BY <1>2, <1>5, <2>3 DEF Acknowledged
  <2>4. QED
    BY <2>1, <2>2, <2>3
<1>6. QED
  BY <1>2, <1>3, <1>4, <1>5 DEF Receive


\* The reader adds a message that is no acknowledgement to an open socket.
LEMMA AddedWired ==
    ASSUME IInv, net.link = "open", Room, NEW m \in Message, m.type # "ack",
           net' \in NetState, net'.inbox = Append(net.inbox, m), net'.link = "open",
           net'.server = net.server, net'.request = net.request,
           net'.skipped \subseteq net'.sent \X Instruments, UNCHANGED sock
    PROVE  Wired
<1>1. LinkInv /\ InFlight /\ net.inbox \in Seq(Message)
  BY DEF IInv, LinkInv, StateInv, NetState
<1>2. Len(net'.inbox) <= InboxCap
  BY <1>1, Appended, CapAssumption, SMT DEF Room
<1>3. InFlight'
  <2>1. /\ NoAck(net.inbox) => NoAck(net'.inbox)
        /\ \A ok \in BOOLEAN : OneAck(net.inbox, ok) => OneAck(net'.inbox, ok)
    BY <1>1, AddedOther
  <2>2. Changed' = Changed
    BY DEF Changed
  <2>3. QED
    BY <1>1, <2>1, <2>2 DEF InFlight
<1>4. LinkInv'
  BY <1>1, <1>3 DEF LinkInv
<1>5. QED
  BY <1>2, <1>4 DEF IInv, StateInv, Wired

\* The dial ends.
LEMMA DialledWired ==
    ASSUME IInv, NEW ok \in BOOLEAN, Dialled(ok)
    PROVE  Wired
<1>1. /\ net.link = "dialing" /\ UNCHANGED sock /\ sock \in SockState
      /\ sock = [NoSock EXCEPT !.reader = TRUE] /\ net = [NoNet EXCEPT !.link = "dialing"]
  BY DEF IInv, LinkInv, StateInv, Dialled
<1>2. /\ sock.wire = {} /\ sock.pending = {} /\ sock.req = "none" /\ sock.writer = "idle"
      /\ sock.reader
  BY <1>1 DEF NoSock
<1> DEFINE m == IF ok THEN [type |-> "conn"] ELSE [type |-> "err"]
           l == IF ok THEN "open" ELSE "broken"
<1>3. m \in Message /\ m.type # "ack"
  BY DEF Message
<1>4. net' = [net EXCEPT !.link = l, !.inbox = <<m>>]
  BY DEF Dialled
<1>5. l \in {"open", "broken"}
  OBVIOUS
<1> HIDE DEF m, l
<1>6. <<m>> \in Seq(Message) /\ Len(<<m>>) = 1 /\ <<m>>[1] = m
  BY <1>3, SMT
<1>7. /\ net' \in NetState /\ net'.link = l /\ net'.inbox = <<m>> /\ net'.server = {}
      /\ net'.skipped = {} /\ net'.request = FALSE
  BY <1>1, <1>4, <1>5, <1>6 DEF NoNet, NetState
<1>8. NoAck(net'.inbox)
  BY <1>3, <1>6, <1>7, SMT DEF NoAck
<1>9. LinkInv'
  BY <1>1, <1>2, <1>5, <1>7, <1>8 DEF LinkInv, InFlight
<1>10. QED
  BY <1>1, <1>2, <1>6, <1>7, <1>9, CapAssumption, SMT DEF Wired

\* The server makes the change and says so, or refuses it.
LEMMA ServerWired ==
    ASSUME IInv, NEW ok \in BOOLEAN, ServerAnswers(ok)
    PROVE  Wired
<1> DEFINE now == IF ok THEN (IF sock.req = "sub" THEN net.server \cup sock.pending
                                                  ELSE net.server \ sock.pending)
                  ELSE net.server
           a == [type |-> "ack", ok |-> ok]
<1>1. /\ net.link = "open" /\ net.request /\ Room /\ UNCHANGED sock /\ sock \in SockState
      /\ net \in NetState /\ net.inbox \in Seq(Message) /\ LinkInv /\ InFlight
      /\ net.skipped \subseteq net.sent \X Instruments
  BY DEF IInv, LinkInv, StateInv, NetState, ServerAnswers
<1>2. /\ NoAck(net.inbox) /\ net.server = sock.wire /\ sock.pending # {} /\ sock.writer # "change"
  BY <1>1 DEF InFlight
<1>3. a \in Message
  BY DEF Message
<1>4. now \in SUBSET Channels
  BY <1>1 DEF NetState, SockState
<1>5. net' = [net EXCEPT !.request = FALSE, !.server = now, !.sent = @ \cap now,
                         !.skipped = @ \cap (now \X Instruments), !.inbox = Append(@, a)]
  BY DEF ServerAnswers
<1>6. OneAck(Append(net.inbox, a), ok)
  BY <1>1, <1>2, AddedAck
<1>7. now = IF ok THEN Changed ELSE sock.wire
  BY <1>2 DEF Changed
<1> HIDE DEF now, a
<1>8. /\ Append(net.inbox, a) \in Seq(Message) /\ Len(Append(net.inbox, a)) <= InboxCap
  BY <1>1, <1>3, Appended, CapAssumption, SMT DEF Room
<1>9. /\ net' \in NetState /\ net'.link = "open" /\ net'.inbox = Append(net.inbox, a)
      /\ net'.server = now /\ net'.request = FALSE
      /\ net'.sent = net.sent \cap now /\ net'.skipped = net.skipped \cap (now \X Instruments)
  BY <1>1, <1>4, <1>5, <1>8 DEF NetState
<1>10. net'.skipped \subseteq net'.sent \X Instruments
  BY <1>1, <1>9
<1>11. InFlight'
  <2>1. Changed' = Changed
    BY <1>1 DEF Changed
  <2>2. QED
    BY <1>1, <1>2, <1>6, <1>7, <1>9, <2>1 DEF InFlight
<1>12. LinkInv'
  BY <1>1, <1>9, <1>11 DEF LinkInv
<1>13. QED
  BY <1>1, <1>8, <1>9, <1>10, <1>12 DEF Wired

\* The writer ends.
LEMMA WriterEndsWired ==
    ASSUME IInv, WriterEnds
    PROVE  Wired
<1>1. /\ net.link \in {"open", "broken"} /\ sock \in SockState /\ net \in NetState /\ LinkInv
      /\ sock.writer \in {"change", "ping"}
  BY Live DEF IInv, StateInv, WriterEnds
<1>2. ASSUME NEW w \in {"written", "failed"}, sock' = [sock EXCEPT !.writer = w]
      PROVE  /\ sock' \in SockState /\ sock'.reader = sock.reader /\ sock'.wire = sock.wire
             /\ sock'.pending = sock.pending /\ sock'.req = sock.req /\ sock'.writer = w
  BY <1>1, <1>2 DEF SockState
<1>3. CASE sock' = [sock EXCEPT !.writer = "failed"] /\ UNCHANGED net
  BY <1>1, <1>2, <1>3, WriterWired
<1>4. CASE /\ net.link = "open" /\ sock' = [sock EXCEPT !.writer = "written"]
           /\ net' = [net EXCEPT !.request = @ \/ sock.writer = "change"]
  <2>1. /\ sock' \in SockState /\ sock'.reader = sock.reader /\ sock'.wire = sock.wire
        /\ sock'.pending = sock.pending /\ sock'.req = sock.req /\ sock'.writer = "written"
    BY <1>2, <1>4
  <2>2. /\ net' \in NetState /\ net'.link = "open" /\ net'.server = net.server
        /\ net'.inbox = net.inbox /\ net'.sent = net.sent /\ net'.skipped = net.skipped
        /\ net'.request = (net.request \/ sock.writer = "change")
    BY <1>1, <1>4 DEF NetState
  <2>3. InFlight'
    <3>1. InFlight
      BY <1>1, <1>4 DEF LinkInv
    <3>2. Changed' = Changed
      BY <2>1 DEF Changed
    <3>3. QED
      BY <2>1, <2>2, <3>1, <3>2 DEF InFlight
  <2>4. LinkInv'
    BY <1>1, <1>4, <2>1, <2>2, <2>3 DEF LinkInv
  <2>5. QED
    BY <2>1, <2>2, <2>4 DEF IInv, StateInv, Wired
<1>5. QED
  BY <1>3, <1>4 DEF WriterEnds


\* The server publishes an update.
LEMMA PublishWired ==
    ASSUME IInv, NEW c \in Channels, NEW i \in Instruments, Publish(c, i)
    PROVE  Wired
<1> DEFINE lost == {j \in Instruments : <<c, j>> \in net.skipped}
           m == [type |-> "frame", ch |-> c, ins |-> i, lost |-> lost]
<1>1. /\ net.link = "open" /\ Room /\ UNCHANGED sock /\ net \in NetState
      /\ net.inbox \in Seq(Message) /\ net.skipped \subseteq net.sent \X Instruments
  BY DEF IInv, StateInv, NetState, Publish
<1>2. m \in Message /\ m.type = "frame"
  BY DEF Message
<1>3. net' = [net EXCEPT !.sent = @ \cup {c}, !.skipped = @ \ ({c} \X lost),
                         !.inbox = Append(@, m)]
  BY DEF Publish
<1> HIDE DEF m
<1>4. Append(net.inbox, m) \in Seq(Message)
  BY <1>1, <1>2, Appended
<1> HIDE DEF lost
<1>5. /\ net' \in NetState /\ net'.link = "open" /\ net'.inbox = Append(net.inbox, m)
      /\ net'.server = net.server /\ net'.request = net.request
      /\ net'.sent = net.sent \cup {c} /\ net'.skipped = net.skipped \ ({c} \X lost)
  BY <1>1, <1>3, <1>4 DEF NetState
<1>6. net'.skipped \subseteq net'.sent \X Instruments
  BY <1>1, <1>5
<1>7. QED
  BY <1>1, <1>2, <1>5, <1>6, AddedWired

\* An update is lost on its way.
LEMMA LoseWired ==
    ASSUME IInv, NEW c \in Channels, NEW i \in Instruments, Lose(c, i)
    PROVE  Wired
<1>1. /\ net.link = "open" /\ UNCHANGED sock /\ net \in NetState /\ LinkInv
      /\ net.skipped \subseteq net.sent \X Instruments /\ c \in net.sent
  BY DEF IInv, StateInv, Lose
<1>2. /\ net' \in NetState /\ net'.link = "open" /\ net'.inbox = net.inbox
      /\ net'.server = net.server /\ net'.request = net.request
      /\ net'.sent = net.sent /\ net'.skipped = net.skipped \cup {<<c, i>>}
  BY <1>1, SMT DEF Lose, NetState
<1>3. InFlight'
  <2>1. InFlight /\ Changed' = Changed
    BY <1>1 DEF LinkInv, Changed
  <2>2. QED
    BY <1>1, <1>2, <2>1 DEF InFlight
<1>4. LinkInv'
  BY <1>1, <1>2, <1>3 DEF LinkInv
<1>5. net'.skipped \subseteq net'.sent \X Instruments
  BY <1>1, <1>2, SMT
<1>6. QED
  BY <1>1, <1>2, <1>4, <1>5 DEF IInv, StateInv, Wired

\* The socket breaks: the reader reports it.
LEMMA BreakWired ==
    ASSUME IInv, LinkBreaks
    PROVE  Wired
<1> DEFINE m == [type |-> "err"]
<1>1. /\ net.link = "open" /\ Room /\ UNCHANGED sock /\ net \in NetState /\ LinkInv
      /\ net.inbox \in Seq(Message)
  BY DEF IInv, StateInv, NetState, LinkBreaks
<1>2. m \in Message
  BY DEF Message
<1>3. net' = [net EXCEPT !.link = "broken", !.server = {}, !.sent = {}, !.skipped = {},
                         !.request = FALSE, !.inbox = Append(@, m)]
  BY DEF LinkBreaks
<1> HIDE DEF m
<1>4. Append(net.inbox, m) \in Seq(Message) /\ Len(Append(net.inbox, m)) <= InboxCap
  BY <1>1, <1>2, Appended, CapAssumption, SMT DEF Room
<1>5. /\ net' \in NetState /\ net'.link = "broken" /\ net'.inbox = Append(net.inbox, m)
      /\ net'.skipped = {}
  BY <1>1, <1>3, <1>4 DEF NetState
<1>6. LinkInv'
  BY <1>1, <1>5 DEF LinkInv
<1>7. QED
  BY <1>1, <1>4, <1>5, <1>6 DEF IInv, StateInv, Wired

\* The socket is opened for the first handle, and given up with the last one or
\* when a change in flight is no longer wanted.
LEMMA PruneWired ==
    ASSUME IInv, prune
    PROVE  Wired
<1>1. \/ stopTransport
      \/ UNCHANGED <<sock, net>>
      \/ /\ sock' = [NoSock EXCEPT !.reader = TRUE] /\ net' = [NoNet EXCEPT !.link = "dialing"]
      \/ /\ ~sock.reader /\ sock' = [sock EXCEPT !.reader = TRUE]
         /\ net' = [NoNet EXCEPT !.link = "dialing"]
  BY DEF prune, stopTransport
<1>2. ~sock.reader => sock = NoSock
  BY DEF IInv, LinkInv
<1>3. QED
  BY <1>1, <1>2, StopWired, SameWired, DialWired

\* Every step but reconcile keeps the transport in order.
LEMMA StepWired ==
    ASSUME IInv, [Next]_vars, ~reconcile
    PROVE  Wired
<1>1. CASE UNCHANGED <<sock, net>>
  BY <1>1, SameWired
<1>2. CASE stopTransport
  BY <1>2, StopWired
<1>3. ASSUME NEW w \in {"idle", "ping"}, sock' = [sock EXCEPT !.writer = w], UNCHANGED net,
             sock.conn \/ sock.writer # "idle"
      PROVE  Wired
  <2>1. net.link \in {"open", "broken"} /\ sock \in SockState
    BY <1>3, Live DEF IInv, StateInv
  <2>2. /\ sock' \in SockState /\ sock'.reader = sock.reader /\ sock'.wire = sock.wire
        /\ sock'.pending = sock.pending /\ sock'.req = sock.req /\ sock'.writer # "change"
    BY <1>3, <2>1 DEF SockState
  <2>3. QED
    BY <1>3, <2>1, <2>2, WriterWired
<1>4. CASE Written \/ Ping
  BY <1>2, <1>3, <1>4 DEF Written, Ping, disconnected
<1>5. CASE AckTimeout \/ Stale \/ Exit
  BY <1>2, <1>5 DEF AckTimeout, Stale, Exit, disconnected
<1>6. CASE prune
  BY <1>6, PruneWired
<1>7. CASE Receive
  BY <1>7, ReceiveWired
<1>8. CASE NetStep
  BY <1>8, DialledWired, ServerWired, WriterEndsWired, BreakWired, PublishWired, LoseWired DEF NetStep
<1>9. CASE CloseStream \/ Wake \/ Tick \/ UNCHANGED vars
  BY <1>1, <1>9 DEF CloseStream, Wake, Tick, vars
<1>10. CASE \E h \in Handles : UserStep(h) \/ Add(h)
  BY <1>1, <1>10 DEF UserStep, Subscribe, SubscribeGivesUp, CancelContext, SubscribeReturns,
     SubscribeCancelled, Close, CloseReturns, Consume, Add
<1>11. QED
  BY <1>4, <1>5, <1>6, <1>7, <1>8, <1>9, <1>10 DEF Next, OwnerStep

-----------------------------------------------------------------------------
(* The owner's view of the handles and of the server                       *)

\* The rest of the state keeps its shape.
LEMMA FlagsTyped ==
    ASSUME IInv, [Next]_vars
    PROVE  /\ pc' \in {"prune", "act", "select", "exited"} /\ retry' \in BOOLEAN
           /\ connected' \in BOOLEAN /\ wake' \in BOOLEAN /\ closed' \in BOOLEAN
<1>s. /\ pc \in {"prune", "act", "select", "exited"} /\ retry \in BOOLEAN
      /\ connected \in BOOLEAN /\ wake \in BOOLEAN /\ closed \in BOOLEAN
      /\ \A h \in Handles : hd[h].owned \in BOOLEAN /\ hd[h].cancelled \in BOOLEAN
  BY DEF IInv, StateInv, HandleState
<1>1. CASE \E h \in Handles : UserStep(h) \/ Add(h)
  BY <1>s, <1>1 DEF UserStep, Subscribe, SubscribeGivesUp, CancelContext, SubscribeReturns,
     SubscribeCancelled, Close, CloseReturns, Consume, Add
<1>2. CASE CloseStream \/ Wake \/ Tick \/ Ping \/ reconcile \/ UNCHANGED vars
  BY <1>s, <1>2 DEF CloseStream, Wake, Tick, Ping, reconcile, vars
<1>3. CASE prune \/ Exit
  BY <1>s, <1>3 DEF prune, Exit
<1>4. CASE Written \/ AckTimeout \/ Stale
  BY <1>s, <1>4 DEF Written, AckTimeout, Stale, disconnected
<1>5. CASE Receive
  <2>1. /\ pc' = "prune" /\ wake' = (wake \/ Cancels) /\ closed' = closed
        /\ retry' \in {retry, TRUE} /\ connected' \in {connected, TRUE}
    BY <1>5 DEF Receive, disconnected, Connected, Acknowledged, Update
  <2>2. QED
    BY <1>s, <2>1
<1>6. CASE NetStep
  <2>1. UNCHANGED <<pc, retry, connected, wake, closed>>
    BY <1>6 DEF NetStep, Dialled, ServerAnswers, WriterEnds, LinkBreaks, Publish, Lose
  <2>2. QED
    BY <1>s, <2>1
<1>7. QED
  BY <1>1, <1>2, <1>3, <1>4, <1>5, <1>6 DEF Next, OwnerStep


\* activateCovered and reconcile.
LEMMA ReconcileStep ==
    ASSUME IInv, reconcile
    PROVE  HandleInv' /\ RemovalInv' /\ LinkInv' /\ hd' \in [Handles -> HandleState]
           /\ sock' \in SockState
<1>s. /\ hd \in [Handles -> HandleState] /\ sock \in SockState /\ HandleInv /\ LinkInv
      /\ RemovalInv /\ UNCHANGED net
  BY DEF IInv, StateInv, reconcile
<1>1. ASSUME NEW h \in Handles
      PROVE  /\ hd'[h] \in HandleState /\ HandleOK(hd'[h])
             /\ hd'[h].owned = hd[h].owned /\ hd'[h].filter = hd[h].filter
             /\ hd'[h].ready => hd[h].ready \/ Covers(Available, hd[h].filter)
  <2>1. hd[h] \in HandleState /\ HandleOK(hd[h])
    BY <1>s DEF HandleInv
  <2>2. CASE hd'[h] = hd[h]
    BY <2>1, <2>2
  <2>3. CASE /\ hd[h].owned /\ Covers(Available, hd[h].filter)
             /\ hd'[h] = [hd[h] EXCEPT !.ready = TRUE, !.reply = "ok"]
    <3>1. /\ hd'[h] \in HandleState /\ hd'[h].owned = hd[h].owned /\ hd'[h].filter = hd[h].filter
          /\ hd'[h].user = hd[h].user /\ hd'[h].done = hd[h].done /\ hd'[h].reply = "ok"
      BY <2>1, <2>3 DEF HandleState
    <3>2. HandleOK(hd'[h])
      BY <2>1, <2>3, <3>1 DEF HandleOK
    <3>3. QED
      BY <2>3, <3>1, <3>2
  <2>4. QED
    BY <2>2, <2>3 DEF reconcile
<1>2. hd' \in [Handles -> HandleState]
  <2>1. hd' = [h \in Handles |-> hd'[h]]
    BY DEF reconcile
  <2>2. QED
    BY <1>1, <2>1
<1>3. HandleInv'
  BY <1>1 DEF HandleInv
<1>4. CASE sock' = sock
  <2>1. LinkInv'
    BY <1>s, <1>4, SameWired DEF Wired
  <2>2. RemovalInv'
    <3>1. SUFFICES ASSUME sock.req = "unsub", NEW h \in Handles, hd'[h].owned, hd'[h].ready
                   PROVE  Covers(sock.wire \ sock.pending, hd'[h].filter)
      BY <1>4 DEF RemovalInv
    <3>2. Available = sock.wire \ sock.pending
      BY <3>1 DEF Available
    <3>3. QED
      BY <1>s, <1>1, <3>1, <3>2 DEF RemovalInv
  <2>3. QED
    BY <1>s, <1>2, <1>3, <1>4, <2>1, <2>2
<1>5. CASE /\ sock.conn /\ sock.pending = {} /\ sock.writer = "idle" /\ Change[2] # {}
           /\ sock' = [sock EXCEPT !.req = Change[1], !.pending = Change[2], !.writer = "change"]
  <2> DEFINE want == desired(Owned)
  <2>1. want \in SUBSET Channels
    <3>1. StateInv /\ Owned \in SUBSET Handles
      BY DEF IInv, Owned
    <3>2. QED
      BY <3>1, DesiredTyped
  <2>2. /\ Change[1] \in {"sub", "unsub"} /\ Change[2] \in SUBSET Channels
        /\ Change[1] = "unsub" => want \subseteq sock.wire /\ Change[2] = sock.wire \ want
    <3> HIDE DEF want
    <3>1. \/ Change = <<"sub", want \ sock.wire>>
          \/ want \ sock.wire = {} /\ Change = <<"unsub", sock.wire \ want>>
      BY DEF Change, want
    <3>2. QED
      BY <1>s, <2>1, <3>1, SMT DEF SockState
  <2>3. /\ sock' \in SockState /\ sock'.reader = sock.reader /\ sock'.wire = sock.wire
        /\ sock'.req = Change[1] /\ sock'.pending = Change[2] /\ sock'.writer = "change"
    BY <1>s, <1>5, <2>2 DEF SockState
  <2>4. LinkInv'
    <3>1. net.link \in {"open", "broken"}
      BY <1>5, Live
    <3>2. net.link = "open" => InFlight'
      BY <1>s, <1>5, <2>3 DEF LinkInv, InFlight
    <3>3. QED
      BY <1>s, <1>5, <2>2, <2>3, <3>1, <3>2 DEF LinkInv
  <2>5. RemovalInv'
    <3>1. SUFFICES ASSUME Change[1] = "unsub", NEW h \in Handles, hd'[h].owned
                   PROVE  Covers(sock'.wire \ sock'.pending, hd'[h].filter)
      BY <2>3 DEF RemovalInv
    <3>2. h \in Owned
      BY <1>1, <3>1 DEF Owned
    <3>3. Covers(want, hd[h].filter)
      BY <3>2, DesiredCovers
    <3>4. sock'.wire \ sock'.pending = want
      BY <2>2, <2>3, <3>1
    <3>5. QED
      BY <1>1, <3>3, <3>4
  <2>6. QED
    BY <1>2, <1>3, <2>3, <2>4, <2>5
<1>6. QED
  BY <1>4, <1>5 DEF reconcile

\* Every step of the owner, the users, the workers and the server keeps the
\* inductive invariant.
LEMMA NextSound ==
    ASSUME IInv, [Next]_vars
    PROVE  IInv'
<1>1. CASE reconcile
  <2>1. UNCHANGED net
    BY <1>1 DEF reconcile
  <2>2. QED
    BY <1>1, <2>1, ReconcileStep, FlagsTyped DEF IInv, StateInv
<1>2. CASE ~reconcile
  <2>1. Calm /\ Wired
    BY <1>2, StepCalm, StepWired
  <2>2. StateInv'
    BY <2>1, FlagsTyped DEF Calm, Wired, StateInv
  <2>3. HandleInv'
    BY <2>1 DEF Calm, Quiet, HandleInv
  <2>4. RemovalInv'
    BY <2>1 DEF Calm, Quiet, Wired, IInv, RemovalInv
  <2>5. QED
    BY <2>1, <2>2, <2>3, <2>4 DEF Wired, IInv
<1>3. QED
  BY <1>1, <1>2

-----------------------------------------------------------------------------
(* The theorems                                                            *)

\* The pool begins with no handle and no socket.
LEMMA InitSound ==
    ASSUME Init
    PROVE  IInv
<1>1. Free \in HandleState /\ HandleOK(Free)
  BY CapAssumption, SMT DEF Free, HandleState, HandleOK
<1>2. HandleInv /\ hd \in [Handles -> HandleState]
  BY <1>1 DEF Init, HandleInv
<1>3. sock = NoSock /\ net = NoNet
  BY DEF Init
<1>4. /\ NoSock \in SockState /\ ~NoSock.reader /\ NoSock.req = "none" /\ NoSock.pending = {}
  BY DEF NoSock, SockState
<1>5. <<>> \in Seq(Message) /\ Len(<<>>) = 0
  BY SMT
<1>6. /\ NoNet \in NetState /\ NoNet.link = "none" /\ NoNet.inbox = <<>> /\ NoNet.skipped = {}
  BY <1>5 DEF NoNet, NetState
<1>7. LinkInv /\ RemovalInv
  BY <1>3, <1>4, <1>6 DEF LinkInv, RemovalInv
<1>8. StateInv
  <2>1. Len(net.inbox) <= InboxCap /\ net.skipped \subseteq net.sent \X Instruments
    BY <1>3, <1>5, <1>6, CapAssumption, SMT
  <2>2. QED
    BY <1>2, <1>3, <1>4, <1>6, <2>1 DEF Init, StateInv
<1>9. QED
  BY <1>2, <1>7, <1>8 DEF IInv

\* The handles, the transport and the server stay as IInv describes them.
THEOREM MarketSound == Spec => []IInv
<1>1. Init => IInv
  BY InitSound
<1>2. IInv /\ [Next]_vars => IInv'
  BY NextSound
<1>3. QED
  BY <1>1, <1>2, PTL DEF Spec

\* For any handles, filters and capacities: the owner's bookkeeping is well
\* formed, and whoever waits in Subscribe or MarketHandle.Close finds the owner
\* still holding the handle, or its answer (Subscribe, finish, disconnected).
THEOREM NoCallerStranded == Spec => []HandlesOwned
<1>1. IInv => HandlesOwned
  <2> SUFFICES ASSUME IInv
               PROVE  HandlesOwned
    OBVIOUS
  <2>1. TypeOK
    BY DEF IInv, StateInv, HandleState, SockState, NetState, TypeOK
  <2>2. NobodyStranded
    BY DEF IInv, HandleInv, HandleOK, NobodyStranded
  <2>3. QED
    BY <2>1, <2>2 DEF HandlesOwned
<1>2. QED
  BY <1>1, MarketSound, PTL


\* While a socket stays open, only an answer changes what the server serves.
LEMMA ServerStays ==
    ASSUME IInv, [Next]_vars, net.link = "open", net'.link = "open",
           \A ok \in BOOLEAN : ~ServerAnswers(ok)
    PROVE  net'.server = net.server
<1>n. net \in NetState
  BY DEF IInv, StateInv
<1>s. NoNet.link # "open" /\ [NoNet EXCEPT !.link = "dialing"].link # "open"
  BY DEF NoNet
<1>1. CASE net' = NoNet
  BY <1>s, <1>1
<1>2. CASE UNCHANGED net
  BY <1>2
<1>3. CASE prune
  BY <1>s, <1>3 DEF prune
<1>4. CASE Receive
  <2>1. net' = NoNet \/ net' = [net EXCEPT !.inbox = Tail(@)]
    <3>1. net.inbox # <<>> /\ net.inbox \in Seq(Message)
      BY <1>4, <1>n DEF Receive, NetState
    <3>2. Head(net.inbox).type = "ack" => Head(net.inbox).ok \in BOOLEAN
      BY <3>1, Taken, MessageFields
    <3>3. QED
      BY <1>4, <3>2 DEF Receive, Acknowledged, disconnected, stopTransport
  <2>2. QED
    BY <1>1, <1>n, <2>1 DEF NetState
<1>5. CASE Written \/ AckTimeout \/ Stale \/ Exit
  BY <1>1, <1>2, <1>5 DEF Written, AckTimeout, Stale, Exit, disconnected, stopTransport
<1>6. CASE NetStep
  BY <1>n, <1>6 DEF NetStep, Dialled, WriterEnds, LinkBreaks, Publish, Lose, NetState
<1>7. CASE CloseStream \/ Wake \/ Tick \/ Ping \/ reconcile \/ UNCHANGED vars
  BY <1>2, <1>7 DEF CloseStream, Wake, Tick, Ping, reconcile, vars
<1>8. CASE \E h \in Handles : UserStep(h) \/ Add(h)
  BY <1>2, <1>8 DEF UserStep, Subscribe, SubscribeGivesUp, CancelContext, SubscribeReturns,
     SubscribeCancelled, Close, CloseReturns, Consume, Add
<1>9. QED
  BY <1>3, <1>4, <1>5, <1>6, <1>7, <1>8 DEF Next, OwnerStep

\* A change the server makes leaves every ready handle covered.
LEMMA CoverageStep ==
    ASSUME IInv, [Next]_vars, NEW h \in Handles, hd[h].owned, hd[h].ready,
           net.link = "open", net'.link = "open", Covers(net.server, hd[h].filter)
    PROVE  Covers(net'.server, hd[h].filter)
<1>1. CASE \A ok \in BOOLEAN : ~ServerAnswers(ok)
  BY <1>1, ServerStays
<1>2. ASSUME NEW ok \in BOOLEAN, ServerAnswers(ok)
      PROVE  Covers(net'.server, hd[h].filter)
  <2>1. /\ net.request /\ InFlight /\ net \in NetState /\ RemovalInv
        /\ sock.req = "none" <=> sock.pending = {}
    BY <1>2 DEF IInv, StateInv, LinkInv, ServerAnswers
  <2>2. net.server = sock.wire /\ sock.pending # {}
    BY <2>1 DEF InFlight
  <2>3. net'.server = IF ok THEN (IF sock.req = "sub" THEN net.server \cup sock.pending
                                                     ELSE net.server \ sock.pending)
                      ELSE net.server
    BY <1>2, <2>1 DEF ServerAnswers, NetState
  <2>4. sock.req \in {"sub", "unsub"}
    BY <2>1, <2>2 DEF IInv, StateInv, SockState
  <2>5. CASE net.server \subseteq net'.server
    BY <2>5, CoversMore
  <2>6. CASE sock.req = "unsub" /\ net'.server = sock.wire \ sock.pending
    BY <2>1, <2>6 DEF RemovalInv
  <2>7. QED
    BY <2>2, <2>3, <2>4, <2>5, <2>6
<1>3. QED
  BY <1>1, <1>2

\* Only reconcile makes a handle ready, when the server serves it.
LEMMA ReadyStep ==
    ASSUME IInv, [Next]_vars, NEW h \in Handles, ~hd[h].ready, hd'[h].ready, net.link = "open"
    PROVE  Covers(net.server, hd[h].filter)
<1>1. CASE reconcile
  <2>1. Covers(Available, hd[h].filter)
    BY <1>1 DEF reconcile
  <2>2. /\ InFlight /\ (sock.req = "none" <=> sock.pending = {})
        /\ sock.req \in {"none", "sub", "unsub"}
    BY DEF IInv, LinkInv, StateInv, SockState
  <2>3. Available \subseteq net.server
    <3>1. Available \subseteq sock.wire
      BY DEF Available
    <3>2. sock.pending # {} => Available \subseteq Changed
      BY <2>2 DEF Available, Changed
    <3>3. \/ net.server = sock.wire
          \/ net.server = Changed /\ sock.pending # {}
      BY <2>2 DEF InFlight
    <3>4. QED
      BY <3>1, <3>2, <3>3
  <2>4. QED
    BY <2>1, <2>3, CoversMore
<1>2. CASE ~reconcile
  BY <1>2, StepCalm DEF Calm, Quiet
<1>3. QED
  BY <1>1, <1>2


\* What the server serves follows the handles: the owner knows what is served up
\* to the change in flight, a handle is reported ready only when it is served,
\* and no change takes the updates of a ready handle away (reconcile,
\* activateCovered and the acknowledgements).
THEOREM HandlesServed == Spec => ServesHandles
<1> DEFINE Kept == \A h \in Handles :
                     /\ hd[h].owned /\ hd[h].ready /\ hd'[h].owned /\ ~hd'[h].cancelled
                     /\ net.link = "open" /\ net'.link = "open"
                     /\ Covers(net.server, hd[h].filter)
                     => Covers(net'.server, hd[h].filter)
           Served == \A h \in Handles :
                       ~hd[h].ready /\ hd'[h].ready /\ net.link = "open"
                       => Covers(net.server, hd[h].filter)
<1>1. IInv => WireIsServed
  BY DEF IInv, LinkInv, InFlight, Changed, WireIsServed, StateInv, SockState
<1>2. IInv /\ [Next]_vars => [Kept]_vars
  BY CoverageStep
<1>3. IInv /\ [Next]_vars => [Served]_vars
  BY ReadyStep
<1>4. Spec => [][Next]_vars
  BY PTL DEF Spec
<1>5. Spec => []WireIsServed
  BY <1>1, MarketSound, PTL
<1>6. Spec => [][Kept]_vars
  BY <1>2, <1>4, MarketSound, PTL
<1>7. Spec => [][Served]_vars
  BY <1>3, <1>4, MarketSound, PTL
<1>8. QED
  BY <1>5, <1>6, <1>7 DEF ServesHandles, CoverageKept, ReadyIsServed


-----------------------------------------------------------------------------
(* Gaps, when no handle asks for the ::all channel                         *)

NoAllFilters == \A filter \in FilterChoices : All \notin filter

\* A frame carries the channel's instrument, and what it reveals is lost updates
\* of this instrument.
PlainFrames(s) ==
    \A p \in 1..Len(s) : s[p].type = "frame" => s[p].ins = s[p].ch /\ s[p].lost \subseteq {s[p].ch}

\* Every channel carries its own instrument only.
PlainInv ==
    /\ \A h \in Handles : All \notin hd[h].filter
    /\ All \notin sock.wire /\ All \notin sock.pending
    /\ \A c \in Channels, i \in Instruments : <<c, i>> \in net.skipped => c = i
    /\ PlainFrames(net.inbox)

\* Nothing is asked for, and no frame comes, before the socket is reported; no
\* acknowledgement comes that is not waited for.
Early(s) == \A p \in 1..Len(s) : s[p].type \in {"conn", "err"}

ReportedInv ==
    /\ ~sock.conn => sock.wire = {} /\ sock.pending = {} /\ Early(net.inbox)
    /\ sock.conn => connected
    /\ sock.pending = {} => NoAck(net.inbox)
    /\ NoAck(net.inbox) \/ \E ok \in BOOLEAN : OneAck(net.inbox, ok)

\* A handle that has missed updates waits for the next socket to be reported.
ToldOK(r, conn, conned) ==
    /\ ~r.torn /\ (r.gap => r.ready)
    /\ r.owned /\ r.ready => conned
    /\ r.owned /\ r.gap /\ ~r.cancelled => ~conn

ToldInv == \A h \in Handles : ToldOK(hd[h], sock.conn, connected)

\* The channels whose sequence numbers the owner forgets with the acknowledgement.
Forgotten == IF sock.req = "unsub" THEN sock.pending ELSE {}

Drops(m, gone, c) == m.type = "ack" /\ m.ok /\ c \in gone

\* When the owner handles message p of the reader it knows a number of channel c:
\* it knows one now, or a frame comes before, and it does not forget it since.
Heard(s, known, gone, c, p) ==
    \/ \E q \in 1..(p - 1) : /\ s[q].type = "frame" /\ s[q].ch = c
                             /\ \A j \in (q + 1)..(p - 1) : ~Drops(s[j], gone, c)
    \/ c \in known /\ \A j \in 1..(p - 1) : ~Drops(s[j], gone, c)

\* A frame that comes after a loss comes on a channel whose number is known, and
\* so will the next one on every channel that has carried a frame.
HeardInv ==
    /\ \A p \in 1..Len(net.inbox) :
         net.inbox[p].type = "frame" /\ net.inbox[p].lost # {}
           => Heard(net.inbox, sock.known, Forgotten, net.inbox[p].ch, p)
    /\ net.link = "open" =>
         \A c \in net.sent : Heard(net.inbox, sock.known, Forgotten, c, Len(net.inbox) + 1)

GInv == IInv /\ PlainInv /\ ReportedInv /\ ToldInv /\ HeardInv


\* A message added at the end does not change what is known before.
LEMMA HeardBefore ==
    ASSUME NEW s \in Seq(Message), NEW m \in Message, NEW known, NEW gone, NEW c,
           NEW p \in 1..(Len(s) + 1), Heard(s, known, gone, c, p)
    PROVE  Heard(Append(s, m), known, gone, c, p)
<1> DEFINE t == Append(s, m)
<1>1. \A q \in 1..(p - 1) : q \in 1..Len(s) /\ t[q] = s[q]
  BY Appended, SMT
<1>2. \A q \in 1..(p - 1) : \A j \in (q + 1)..(p - 1) : j \in 1..(p - 1)
  BY SMT
<1> HIDE DEF t
<1>3. Heard(t, known, gone, c, p)
  BY <1>1, <1>2 DEF Heard
<1>4. QED
  BY <1>3 DEF t

\* What is known before the added message is known after it, unless it makes the
\* owner forget it; a frame makes it known.
LEMMA HeardAfter ==
    ASSUME NEW s \in Seq(Message), NEW m \in Message, NEW known, NEW gone, NEW c,
           \/ Heard(s, known, gone, c, Len(s) + 1) /\ ~Drops(m, gone, c)
           \/ m.type = "frame" /\ m.ch = c
    PROVE  Heard(Append(s, m), known, gone, c, Len(Append(s, m)) + 1)
<1> DEFINE t == Append(s, m)
           n == Len(s) + 1
<1>1. /\ Len(s) \in Nat /\ Len(t) = n /\ t[n] = m /\ n \in Nat
      /\ \A q \in 1..Len(s) : t[q] = s[q]
  BY Appended, SMT
<1>2. /\ (n + 1) - 1 = n /\ n - 1 = Len(s) /\ n \in 1..n
      /\ \A q \in 1..Len(s) : q \in 1..n
      /\ \A q \in 1..n : q = n \/ q \in 1..Len(s)
      /\ \A q \in 1..Len(s) : \A j \in (q + 1)..n :
            j = n \/ (j \in (q + 1)..Len(s) /\ j \in 1..Len(s))
      /\ \A j \in (n + 1)..n : FALSE
  BY <1>1, SMT
<1>g. SUFFICES Heard(t, known, gone, c, n + 1)
  BY <1>1
<1> HIDE DEF t, n
<1>a. ASSUME NEW q \in 1..n, t[q].type = "frame", t[q].ch = c,
             \A j \in (q + 1)..n : ~Drops(t[j], gone, c)
      PROVE  Heard(t, known, gone, c, n + 1)
  <2>1. /\ q \in 1..((n + 1) - 1)
        /\ \A j \in (q + 1)..((n + 1) - 1) : ~Drops(t[j], gone, c)
    BY <1>2, <1>a
  <2>2. QED
    BY <1>a, <2>1 DEF Heard
<1>3. CASE m.type = "frame" /\ m.ch = c
  BY <1>1, <1>2, <1>3, <1>a
<1>4. CASE Heard(s, known, gone, c, n) /\ ~Drops(m, gone, c)
  <2>1. CASE c \in known /\ \A j \in 1..Len(s) : ~Drops(s[j], gone, c)
    <3>1. \A j \in 1..n : ~Drops(t[j], gone, c)
      BY <1>1, <1>2, <1>4, <2>1
    <3>2. \A j \in 1..((n + 1) - 1) : ~Drops(t[j], gone, c)
      BY <1>2, <3>1
    <3>3. QED
      BY <2>1, <3>2 DEF Heard
  <2>2. ASSUME NEW q \in 1..Len(s), s[q].type = "frame", s[q].ch = c,
               \A j \in (q + 1)..Len(s) : ~Drops(s[j], gone, c)
        PROVE  Heard(t, known, gone, c, n + 1)
    <3>1. \A j \in (q + 1)..n : ~Drops(t[j], gone, c)
      BY <1>1, <1>2, <1>4, <2>2
    <3>2. q \in 1..n /\ t[q] = s[q]
      BY <1>1, <1>2
    <3>3. QED
      BY <1>a, <2>2, <3>1, <3>2
  <2>3. \/ \E q \in 1..Len(s) : /\ s[q].type = "frame" /\ s[q].ch = c
                                /\ \A j \in (q + 1)..Len(s) : ~Drops(s[j], gone, c)
        \/ c \in known /\ \A j \in 1..Len(s) : ~Drops(s[j], gone, c)
    BY <1>2, <1>4 DEF Heard
  <2>4. QED
    BY <2>1, <2>2, <2>3
<1>5. QED
  BY <1>3, <1>4 DEF n

\* Handling the first message turns what it makes known into what is known.
LEMMA HeardTail ==
    ASSUME NEW s \in Seq(Message), s # <<>>, NEW known, NEW gone, NEW known2, NEW gone2, NEW c,
           gone2 \subseteq gone,
           Head(s).type = "frame" /\ Head(s).ch = c => c \in known2,
           c \in known /\ ~Drops(Head(s), gone, c) => c \in known2,
           NEW p \in 1..Len(s), Heard(s, known, gone, c, p + 1)
    PROVE  Heard(Tail(s), known2, gone2, c, p)
<1> DEFINE t == Tail(s)
<1>1. /\ Head(s) = s[1] /\ Len(s) \in Nat \ {0} /\ Len(t) = Len(s) - 1
      /\ \A q \in 1..Len(t) : t[q] = s[q + 1]
  BY Taken
<1>2. /\ (p + 1) - 1 = p /\ 1 \in 1..p
      /\ \A q \in 1..(p - 1) : q \in 1..Len(t) /\ q + 1 \in 1..p /\ t[q] = s[q + 1]
                               /\ q + 1 \in (1 + 1)..p
      /\ \A q \in 1..p \ {1} : q - 1 \in 1..(p - 1) /\ t[q - 1] = s[q]
                               /\ \A j \in ((q - 1) + 1)..(p - 1) : j \in 1..(p - 1) /\ j + 1 \in (q + 1)..p
  BY <1>1, SMT
<1>3. \A m : Drops(m, gone2, c) => Drops(m, gone, c)
  BY DEF Drops
<1> HIDE DEF t
<1>4. CASE c \in known /\ \A j \in 1..p : ~Drops(s[j], gone, c)
  <2>1. c \in known2
    BY <1>1, <1>2, <1>4
  <2>2. \A j \in 1..(p - 1) : ~Drops(t[j], gone2, c)
    BY <1>2, <1>3, <1>4
  <2>3. QED
    BY <2>1, <2>2 DEF Heard, t
<1>5. ASSUME NEW q \in 1..p, s[q].type = "frame", s[q].ch = c,
             \A j \in (q + 1)..p : ~Drops(s[j], gone, c)
      PROVE  Heard(t, known2, gone2, c, p)
  <2>1. CASE q = 1
    <3>1. c \in known2
      BY <1>1, <1>5, <2>1
    <3>2. \A j \in 1..(p - 1) : ~Drops(t[j], gone2, c)
      BY <1>2, <1>3, <1>5, <2>1
    <3>3. QED
      BY <3>1, <3>2 DEF Heard
  <2>2. CASE q # 1
    <3>1. q - 1 \in 1..(p - 1) /\ t[q - 1] = s[q]
      BY <1>2, <2>2
    <3>2. \A j \in ((q - 1) + 1)..(p - 1) : ~Drops(t[j], gone2, c)
      BY <1>2, <1>3, <1>5, <2>2
    <3>3. QED
      BY <1>5, <3>1, <3>2 DEF Heard
  <2>3. QED
    BY <2>1, <2>2
<1>6. QED
  BY <1>2, <1>4, <1>5 DEF Heard, t

\* Without an acknowledgement on its way nothing is forgotten.
LEMMA HeardKept ==
    ASSUME NEW s, NoAck(s), NEW known, NEW gone, NEW gone2, NEW c, Len(s) \in Nat,
           NEW p \in 1..(Len(s) + 1), Heard(s, known, gone, c, p)
    PROVE  Heard(s, known, gone2, c, p)
<1>1. /\ \A j \in 1..(p - 1) : j \in 1..Len(s)
      /\ \A q \in 1..(p - 1) : \A j \in (q + 1)..(p - 1) : j \in 1..Len(s)
  BY SMT
<1>2. \A j \in 1..Len(s) : ~Drops(s[j], gone2, c)
  BY DEF NoAck, Drops
<1>3. QED
  BY <1>1, <1>2 DEF Heard


\* A message added at the end.
LEMMA FramesAdded ==
    ASSUME NEW s \in Seq(Message), NEW m \in Message
    PROVE  /\ PlainFrames(s) /\ (m.type = "frame" => m.ins = m.ch /\ m.lost \subseteq {m.ch})
                => PlainFrames(Append(s, m))
           /\ Early(s) /\ m.type \in {"conn", "err"} => Early(Append(s, m))
<1> DEFINE t == Append(s, m)
<1>1. /\ Len(t) = Len(s) + 1 /\ Len(s) \in Nat /\ t[Len(s) + 1] = m
      /\ \A p \in 1..Len(s) : t[p] = s[p]
  BY Appended
<1>2. \A p \in 1..Len(t) : p \in 1..Len(s) \/ p = Len(s) + 1
  BY <1>1, SMT
<1> HIDE DEF t
<1>3. ASSUME PlainFrames(s), m.type = "frame" => m.ins = m.ch /\ m.lost \subseteq {m.ch}
      PROVE  PlainFrames(t)
  BY <1>1, <1>2, <1>3 DEF PlainFrames
<1>4. Early(s) /\ m.type \in {"conn", "err"} => Early(t)
  BY <1>1, <1>2 DEF Early
<1>5. QED
  BY <1>3, <1>4 DEF t

\* The first message taken.
LEMMA FramesTaken ==
    ASSUME NEW s \in Seq(Message), s # <<>>
    PROVE  /\ PlainFrames(s) => PlainFrames(Tail(s))
           /\ PlainFrames(s) /\ Head(s).type = "frame"
                => Head(s).ins = Head(s).ch /\ Head(s).lost \subseteq {Head(s).ch}
           /\ Early(s) => Early(Tail(s)) /\ Head(s).type \in {"conn", "err"}
<1> DEFINE t == Tail(s)
<1>1. /\ Head(s) = s[1] /\ Len(s) \in Nat \ {0} /\ Len(t) = Len(s) - 1
      /\ \A p \in 1..Len(t) : t[p] = s[p + 1]
  BY Taken
<1>2. 1 \in 1..Len(s) /\ \A p \in 1..Len(t) : p + 1 \in 1..Len(s)
  BY <1>1, SMT
<1> HIDE DEF t
<1>3. ASSUME PlainFrames(s)
      PROVE  PlainFrames(t)
  <2>1. SUFFICES ASSUME NEW p \in 1..Len(t), t[p].type = "frame"
                 PROVE  t[p].ins = t[p].ch /\ t[p].lost \subseteq {t[p].ch}
    BY DEF PlainFrames
  <2>2. t[p] = s[p + 1] /\ p + 1 \in 1..Len(s)
    BY <1>1, <1>2
  <2>3. QED
    BY <1>3, <2>1, <2>2 DEF PlainFrames
<1>4. ASSUME PlainFrames(s), s[1].type = "frame"
      PROVE  s[1].ins = s[1].ch /\ s[1].lost \subseteq {s[1].ch}
  BY <1>2, <1>4 DEF PlainFrames
<1>5. Early(s) => Early(t) /\ s[1].type \in {"conn", "err"}
  BY <1>1, <1>2 DEF Early
<1>6. QED
  BY <1>1, <1>3, <1>4, <1>5 DEF t

\* The transport is new, or stopped.
Fresh ==
    /\ sock'.conn = FALSE /\ sock'.wire = {} /\ sock'.known = {} /\ sock'.pending = {}
    /\ net'.link # "open" /\ net'.inbox = <<>> /\ net'.skipped = {}

\* Only the writer does something.
SameLink ==
    /\ connected' = connected /\ sock'.conn = sock.conn /\ sock'.wire = sock.wire
    /\ sock'.known = sock.known /\ sock'.pending = sock.pending /\ sock'.req = sock.req
    /\ net'.link = net.link /\ net'.inbox = net.inbox /\ net'.sent = net.sent
    /\ net'.skipped = net.skipped

\* The owner takes the message m.
Takes(m) ==
    /\ net.inbox # <<>> /\ m = Head(net.inbox) /\ m \in Message
    /\ net' = [net EXCEPT !.inbox = Tail(@)]
    /\ \/ m.type = "conn" /\ Connected
       \/ m.type = "ack" /\ m.ok /\ Acknowledged(TRUE)
       \/ m.type = "frame" /\ Update(m)

\* A transport that is stopped or just started.
LEMMA StartsFresh ==
    ASSUME sock' = NoSock \/ sock' = [NoSock EXCEPT !.reader = TRUE],
           net' = NoNet \/ net' = [NoNet EXCEPT !.link = "dialing"]
    PROVE  Fresh
<1>1. /\ sock'.conn = FALSE /\ sock'.wire = {} /\ sock'.known = {} /\ sock'.pending = {}
  BY SMT DEF NoSock
<1>2. net'.link # "open" /\ net'.inbox = <<>> /\ net'.skipped = {}
  BY SMT DEF NoNet
<1>3. QED
  BY <1>1, <1>2 DEF Fresh

\* A message ends the transport or is taken.
LEMMA TakesOrEnds ==
    ASSUME IInv, Receive
    PROVE  disconnected \/ \E m : Takes(m)
<1> DEFINE m == Head(net.inbox)
<1>1. net.inbox # <<>> /\ m \in Message
  BY Taken DEF Receive, IInv, StateInv, NetState
<1>2. m.type = "ack" => m.ok \in BOOLEAN
  BY <1>1, MessageFields
<1>3. CASE m.type = "ack" /\ Acknowledged(m.ok) /\ (m.ok => net' = [net EXCEPT !.inbox = Tail(@)])
  <2>1. CASE m.ok = TRUE
    BY <1>1, <1>3, <2>1 DEF Takes
  <2>2. CASE m.ok = FALSE
    BY <1>3, <2>2 DEF Acknowledged
  <2>3. QED
    BY <1>2, <1>3, <2>1, <2>2
<1>4. QED
  BY <1>1, <1>3 DEF Receive, Takes

\* What a step may do to the transport.
LEMMA LinkCases ==
    ASSUME IInv, [Next]_vars, ~reconcile
    PROVE  Fresh \/ SameLink \/ (Receive /\ \E m : Takes(m)) \/ (NetStep /\ ~WriterEnds)
<1>s. sock \in SockState /\ net \in NetState
  BY DEF IInv, StateInv
<1>1. CASE stopTransport
  BY <1>1, StartsFresh DEF stopTransport
<1>2. CASE UNCHANGED <<sock, net, connected>>
  BY <1>2 DEF SameLink
<1>3. ASSUME NEW w, sock' = [sock EXCEPT !.writer = w], connected' = connected,
             net' = net \/ \E b \in BOOLEAN : net' = [net EXCEPT !.request = b]
      PROVE  SameLink
  BY <1>s, <1>3 DEF SameLink, SockState, NetState
<1>4. CASE Written \/ Ping
  BY <1>1, <1>3, <1>4 DEF Written, Ping, disconnected
<1>5. CASE WriterEnds
  <2>1. (net.request \/ sock.writer = "change") \in BOOLEAN
    OBVIOUS
  <2>2. connected' = connected
    BY <1>5 DEF WriterEnds
  <2>3. CASE sock' = [sock EXCEPT !.writer = "failed"] /\ UNCHANGED net
    BY <1>3, <2>2, <2>3
  <2>4. CASE /\ sock' = [sock EXCEPT !.writer = "written"]
             /\ net' = [net EXCEPT !.request = @ \/ sock.writer = "change"]
    <3>1. net' = [net EXCEPT !.request = (net.request \/ sock.writer = "change")]
      BY <2>4
    <3>2. QED
      BY <1>3, <2>1, <2>2, <2>4, <3>1
  <2>5. QED
    BY <1>5, <2>3, <2>4 DEF WriterEnds
<1>6. CASE AckTimeout \/ Stale \/ Exit
  BY <1>1, <1>6 DEF AckTimeout, Stale, Exit, disconnected
<1>7. CASE prune
  <2>1. \/ stopTransport
        \/ UNCHANGED <<sock, net, connected>>
        \/ /\ sock' = [NoSock EXCEPT !.reader = TRUE] /\ net' = [NoNet EXCEPT !.link = "dialing"]
        \/ /\ ~sock.reader /\ sock' = [sock EXCEPT !.reader = TRUE]
           /\ net' = [NoNet EXCEPT !.link = "dialing"]
    <3>1. connected \in BOOLEAN
      BY DEF IInv, StateInv
    <3>2. QED
      BY <1>7, <3>1 DEF prune, stopTransport
  <2>2. ~sock.reader => sock = NoSock
    BY DEF IInv, LinkInv
  <2>3. QED
    BY <1>1, <1>2, <2>1, <2>2, StartsFresh
<1>8. CASE Receive
  BY <1>1, <1>8, TakesOrEnds DEF disconnected
<1>9. CASE NetStep
  BY <1>5, <1>9
<1>10. CASE CloseStream \/ Wake \/ Tick \/ UNCHANGED vars
  BY <1>2, <1>10 DEF CloseStream, Wake, Tick, vars
<1>11. CASE \E h \in Handles : UserStep(h) \/ Add(h)
  BY <1>2, <1>11 DEF UserStep, Subscribe, SubscribeGivesUp, CancelContext, SubscribeReturns,
     SubscribeCancelled, Close, CloseReturns, Consume, Add
<1>12. QED
  BY <1>4, <1>6, <1>7, <1>8, <1>9, <1>10, <1>11 DEF Next, OwnerStep


\* A handle goes from r to q without an event or a loss.
Kept(r, q) ==
    /\ q.filter = r.filter /\ q.ready = r.ready /\ q.gap = r.gap /\ q.torn = r.torn
    /\ r.cancelled => q.cancelled
    /\ q.owned => r.owned \/ ~r.ready

\* A handle that nobody uses, or one just asked for.
New(q) ==
    /\ q.filter \in FilterChoices \cup {{}}
    /\ ~q.owned /\ ~q.ready /\ ~q.gap /\ ~q.torn

\* What a step that takes no message may do to a handle.
Moves(h) ==
    \/ New(hd'[h])
    \/ /\ hd'[h].owned => connected' = connected
       /\ Kept(hd[h], hd'[h]) \/ (Fresh /\ hd'[h] = Cut(hd[h]))

\* Changes of one field or two.
LEMMA KeptFields ==
    ASSUME NEW r \in HandleState
    PROVE  /\ Kept(r, r) /\ Kept(r, finish(r)) /\ ~finish(r).owned
           /\ Kept(r, [r EXCEPT !.cancelled = TRUE])
           /\ \A q : Kept(r, [r EXCEPT !.queue = q])
           /\ \A u : Kept(r, [r EXCEPT !.user = u])
           /\ \A u : Kept(r, [r EXCEPT !.user = u, !.cancelled = TRUE])
           /\ ~r.ready => \A u : Kept(r, [r EXCEPT !.user = u, !.owned = TRUE])
BY DEF Kept, finish, HandleState

\* Users, and the owner when it takes a handle, change one handle.
LEMMA UserMoves ==
    ASSUME IInv, NEW h \in Handles, UserStep(h) \/ Add(h), NEW g \in Handles
    PROVE  Moves(g)
<1>1. /\ hd \in [Handles -> HandleState] /\ hd[h] \in HandleState /\ hd[g] \in HandleState
      /\ HandleOK(hd[h])
  BY DEF IInv, StateInv, HandleInv
<1>2. connected' = connected
  BY DEF UserStep, Subscribe, SubscribeGivesUp, CancelContext, SubscribeReturns,
     SubscribeCancelled, Close, CloseReturns, Consume, Add
<1>3. ASSUME NEW q, hd' = [hd EXCEPT ![h] = q], New(q) \/ Kept(hd[h], q)
      PROVE  Moves(g)
  <2>1. CASE g = h
    BY <1>1, <1>2, <1>3, <2>1 DEF Moves
  <2>2. CASE g # h
    <3>1. hd'[g] = hd[g]
      BY <1>1, <1>3, <2>2
    <3>2. QED
      BY <1>1, <1>2, <3>1, KeptFields DEF Moves
  <2>3. QED
    BY <2>1, <2>2
<1>4. CASE hd' = [hd EXCEPT ![h] = Free]
  <2>1. New(Free)
    BY DEF New, Free
  <2>2. QED
    BY <1>3, <1>4, <2>1
<1>5. ASSUME NEW filter \in FilterChoices, Subscribe(h, filter)
      PROVE  Moves(g)
  <2>1. New([Free EXCEPT !.user = "adding", !.filter = filter])
    BY DEF New, Free
  <2>2. QED
    BY <1>3, <1>5, <2>1 DEF Subscribe
<1>6. CASE CancelContext(h)
  <2>1. hd' = [hd EXCEPT ![h] = [hd[h] EXCEPT !.cancelled = TRUE]]
    BY <1>1, <1>6 DEF CancelContext
  <2>2. QED
    BY <1>1, <1>3, <2>1, KeptFields
<1>7. CASE Consume(h)
  <2>1. hd' = [hd EXCEPT ![h] = [hd[h] EXCEPT !.queue = hd[h].queue - 1]]
    BY <1>1, <1>7 DEF Consume
  <2>2. QED
    BY <1>1, <1>3, <2>1, KeptFields
<1>8. CASE \E u \in {"live", "closing"} : hd' = [hd EXCEPT ![h].user = u]
  <2>1. PICK u \in {"live", "closing"} : hd' = [hd EXCEPT ![h] = [hd[h] EXCEPT !.user = u]]
    BY <1>1, <1>8
  <2>2. QED
    BY <1>1, <1>3, <2>1, KeptFields
<1>9. CASE Close(h)
  <2>1. hd' = [hd EXCEPT ![h] = [hd[h] EXCEPT !.user = "closing", !.cancelled = TRUE]]
    BY <1>1, <1>9 DEF Close
  <2>2. QED
    BY <1>1, <1>3, <2>1, KeptFields
<1>10. CASE Add(h)
  <2>1. hd' = [hd EXCEPT ![h] = [hd[h] EXCEPT !.user = "waiting", !.owned = TRUE]]
    BY <1>1, <1>10 DEF Add
  <2>2. ~hd[h].ready
    BY <1>1, <1>10 DEF Add, HandleOK
  <2>3. QED
    BY <1>1, <1>3, <2>1, <2>2, KeptFields
<1>11. CASE UserStep(h) /\ hd' # [hd EXCEPT ![h] = Free]
  BY <1>5, <1>6, <1>7, <1>8, <1>9, <1>11 DEF UserStep, SubscribeGivesUp, SubscribeReturns,
     SubscribeCancelled, CloseReturns
<1>12. QED
  BY <1>4, <1>10, <1>11

\* Every step but activation and the messages of the reader.
LEMMA HandleMoves ==
    ASSUME IInv, [Next]_vars, ~reconcile, ~(Receive /\ \E m : Takes(m)), NEW g \in Handles
    PROVE  Moves(g)
<1>1. hd[g] \in HandleState /\ connected \in BOOLEAN
  BY DEF IInv, StateInv
<1>2. CASE UNCHANGED <<hd, connected>>
  BY <1>1, <1>2, KeptFields DEF Moves
<1>3. CASE disconnected
  <2>1. hd'[g] = finish(hd[g]) \/ hd'[g] = Cut(hd[g])
    BY <1>3 DEF disconnected
  <2>2. Fresh /\ connected' = connected
    BY <1>3, StartsFresh DEF disconnected, stopTransport
  <2>3. QED
    BY <1>1, <2>1, <2>2, KeptFields DEF Moves
<1>4. CASE Exit
  <2>1. hd'[g] = finish(hd[g]) \/ hd'[g] = hd[g]
    BY <1>4 DEF Exit
  <2>2. connected' = connected
    BY <1>4 DEF Exit
  <2>3. QED
    BY <1>1, <2>1, <2>2, KeptFields DEF Moves
<1>5. CASE prune
  <2> DEFINE gone == {h \in Owned : hd[h].cancelled}
             left == Owned \ gone
             stop == left = {} \/ (gone # {} /\ Uncertain(left))
  <2>1. hd'[g] = IF g \in gone THEN finish(hd[g]) ELSE IF stop THEN Cut(hd[g]) ELSE hd[g]
    BY <1>5 DEF prune
  <2>2. connected' = (connected /\ left # {})
    BY <1>5 DEF prune
  <2>3. stop => \/ sock' = NoSock /\ net' = NoNet
                \/ sock' = [NoSock EXCEPT !.reader = TRUE] /\ net' = [NoNet EXCEPT !.link = "dialing"]
    BY <1>5 DEF prune
  <2>4. stop => Fresh
    BY <2>3, StartsFresh
  <2>5. CASE g \in gone
    BY <1>1, <2>1, <2>5, KeptFields DEF Moves
  <2>6. CASE g \notin gone
    <3>1. hd[g].owned => g \in left
      BY <2>6 DEF Owned
    <3> HIDE DEF stop, gone, left
    <3>2. hd[g].owned => connected' = connected
      BY <1>1, <2>2, <3>1
    <3>3. hd'[g] = Cut(hd[g]) \/ hd'[g] = hd[g]
      BY <2>1, <2>6
    <3>4. hd'[g].owned = hd[g].owned
      <4>1. Cut(hd[g]).owned = hd[g].owned
        BY <1>1, LossSame DEF Same
      <4>2. QED
        BY <3>3, <4>1
    <3>5. CASE stop
      BY <2>1, <2>4, <2>6, <3>2, <3>4, <3>5 DEF Moves
    <3>6. CASE ~stop
      BY <1>1, <2>1, <2>6, <3>2, <3>4, <3>6, KeptFields DEF Moves
    <3>7. QED
      BY <3>5, <3>6
  <2>7. QED
    BY <2>5, <2>6
<1>6. CASE Receive
  BY <1>3, <1>6, TakesOrEnds
<1>7. CASE Written \/ AckTimeout \/ Stale \/ Ping \/ Tick \/ Wake \/ CloseStream \/ UNCHANGED vars
  BY <1>2, <1>3, <1>7 DEF Written, AckTimeout, Stale, Ping, Tick, Wake, CloseStream, vars
<1>8. CASE NetStep
  BY <1>2, <1>8 DEF NetStep, Dialled, ServerAnswers, WriterEnds, LinkBreaks, Publish, Lose
<1>9. CASE \E h \in Handles : UserStep(h) \/ Add(h)
  BY <1>9, UserMoves
<1>10. QED
  BY <1>4, <1>5, <1>6, <1>7, <1>8, <1>9 DEF Next, OwnerStep


\* The reader reports how the socket begins or ends.
Greets(m) ==
    /\ m \in Message /\ m.type \in {"conn", "err"} /\ net'.inbox = Append(net.inbox, m)
    /\ net'.sent = {} /\ net'.skipped = {}

\* It passes an acknowledgement on.
Acks(m) ==
    /\ m \in Message /\ m.type = "ack" /\ net'.inbox = Append(net.inbox, m)
    /\ net.link = "open" /\ sock.pending # {} /\ NoAck(net.inbox)
    /\ net'.sent \subseteq net.sent /\ net'.skipped \subseteq net.skipped
    /\ m.ok /\ sock.req # "sub" => net'.sent \cap sock.pending = {}

\* It passes a frame on.
Delivers(m) ==
    /\ m \in Message /\ m.type = "frame" /\ net'.inbox = Append(net.inbox, m)
    /\ net.link = "open" /\ m.ch \in net.server /\ m.ch \in {m.ins, All}
    /\ m.lost = {j \in Instruments : <<m.ch, j>> \in net.skipped}
    /\ net'.sent = net.sent \cup {m.ch} /\ net'.skipped \subseteq net.skipped

\* A frame does not reach it.
Misses(c, i) ==
    /\ net'.inbox = net.inbox /\ net'.sent = net.sent
    /\ net.link = "open" /\ c \in net.server /\ c \in {i, All}
    /\ net'.skipped = net.skipped \cup {<<c, i>>}

\* What the network does to the messages.
LEMMA NetMoves ==
    ASSUME IInv, NetStep, ~WriterEnds
    PROVE  /\ UNCHANGED <<hd, sock, connected>>
           /\ \/ \E m : Greets(m) \/ Acks(m) \/ Delivers(m)
              \/ \E c \in Channels, i \in Instruments : Misses(c, i)
<1>1. net \in NetState /\ net.inbox \in Seq(Message) /\ LinkInv
  BY DEF IInv, StateInv, NetState
<1>2. UNCHANGED <<hd, sock, connected>>
  BY DEF NetStep, Dialled, ServerAnswers, LinkBreaks, Publish, Lose
<1>m. \A t \in {"conn", "err"} : [type |-> t] \in Message
  BY DEF Message
<1>3. ASSUME NEW ok \in BOOLEAN, Dialled(ok)
      PROVE  \E m : Greets(m)
  <2>1. net = [NoNet EXCEPT !.link = "dialing"]
    BY <1>1, <1>3 DEF Dialled, LinkInv
  <2>2. net.inbox = <<>> /\ net.sent = {} /\ net.skipped = {}
    BY <2>1 DEF NoNet
  <2>3. \E t \in {"conn", "err"} : net'.inbox = <<[type |-> t]>>
    BY <1>1, <1>3 DEF Dialled, NetState
  <2>4. net'.sent = net.sent /\ net'.skipped = net.skipped
    BY <1>1, <1>3 DEF Dialled, NetState
  <2>5. PICK t \in {"conn", "err"} : net'.inbox = <<[type |-> t]>>
    BY <2>3
  <2>6. <<[type |-> t]>> = Append(<<>>, [type |-> t])
    BY SMT
  <2>7. Greets([type |-> t])
    BY <1>m, <2>2, <2>4, <2>5, <2>6 DEF Greets
  <2>8. QED
    BY <2>7
<1>4. ASSUME NEW ok \in BOOLEAN, ServerAnswers(ok)
      PROVE  \E m : Acks(m)
  <2> DEFINE m == [type |-> "ack", ok |-> ok]
             left == IF sock.req = "sub" THEN net.server \cup sock.pending
                     ELSE net.server \ sock.pending
             now == IF ok THEN left ELSE net.server
  <2>1. m \in Message /\ m.type = "ack" /\ m.ok = ok
    BY DEF Message
  <2>2. /\ net'.inbox = Append(net.inbox, m) /\ net'.sent = net.sent \cap now
        /\ net'.skipped = net.skipped \cap (now \X Instruments)
    BY <1>1, <1>4 DEF ServerAnswers, NetState
  <2>3. net.link = "open" /\ net.request
    BY <1>4 DEF ServerAnswers
  <2>4. InFlight
    BY <1>1, <2>3 DEF LinkInv
  <2>5. NoAck(net.inbox) /\ sock.pending # {}
    BY <2>3, <2>4 DEF InFlight
  <2>6. ok /\ sock.req # "sub" => net'.sent \cap sock.pending = {}
    BY <2>2
  <2>7. net'.sent \subseteq net.sent /\ net'.skipped \subseteq net.skipped
    BY <2>2
  <2> HIDE DEF m, now
  <2>8. Acks(m)
    BY <2>1, <2>2, <2>3, <2>5, <2>6, <2>7 DEF Acks
  <2>9. QED
    BY <2>8
<1>5. ASSUME NEW c \in Channels, NEW i \in Instruments, Publish(c, i)
      PROVE  \E m : Delivers(m)
  <2> DEFINE lost == {j \in Instruments : <<c, j>> \in net.skipped}
             m == [type |-> "frame", ch |-> c, ins |-> i, lost |-> lost]
  <2>1. m \in Message /\ m.type = "frame" /\ m.ch = c /\ m.ins = i /\ m.lost = lost
    BY DEF Message
  <2>2. /\ net'.inbox = Append(net.inbox, m) /\ net'.sent = net.sent \cup {c}
        /\ net'.skipped = net.skipped \ ({c} \X lost)
    BY <1>1, <1>5 DEF Publish, NetState
  <2>3. net.link = "open" /\ c \in net.server /\ c \in {i, All}
    BY <1>5 DEF Publish
  <2> HIDE DEF m
  <2>4. Delivers(m)
    BY <2>1, <2>2, <2>3 DEF Delivers
  <2>5. QED
    BY <2>4
<1>6. ASSUME NEW c \in Channels, NEW i \in Instruments, Lose(c, i)
      PROVE  Misses(c, i)
  <2>1. /\ net'.inbox = net.inbox /\ net'.sent = net.sent
        /\ net'.skipped = net.skipped \cup {<<c, i>>}
    BY <1>1, <1>6 DEF Lose, NetState
  <2>2. net.link = "open" /\ c \in net.server /\ c \in {i, All}
    BY <1>6 DEF Lose
  <2>3. QED
    BY <2>1, <2>2 DEF Misses
<1>7. ASSUME LinkBreaks
      PROVE  \E m : Greets(m)
  <2>1. net'.inbox = Append(net.inbox, [type |-> "err"]) /\ net'.sent = {} /\ net'.skipped = {}
    BY <1>1, <1>7 DEF LinkBreaks, NetState
  <2>2. Greets([type |-> "err"])
    BY <1>m, <2>1 DEF Greets
  <2>3. QED
    BY <2>2
<1>8. QED
  BY <1>2, <1>3, <1>4, <1>5, <1>6, <1>7 DEF NetStep

\* The server serves what the owner has asked for.
LEMMA ServerAsked ==
    ASSUME IInv, net.link = "open"
    PROVE  net.server \subseteq sock.wire \cup sock.pending
<1>1. InFlight
  BY DEF IInv, LinkInv
<1>2. QED
  BY <1>1 DEF InFlight, Changed


\* What taking a message does to the transport.
LEMMA TakesFields ==
    ASSUME IInv, NEW m, Takes(m)
    PROVE  /\ net.inbox \in Seq(Message) /\ net.inbox # <<>> /\ m = Head(net.inbox)
           /\ m \in Message /\ m.type \in {"conn", "ack", "frame"}
           /\ net'.inbox = Tail(net.inbox) /\ net'.sent = net.sent
           /\ net'.skipped = net.skipped /\ net'.link = net.link
           /\ sock'.conn = (sock.conn \/ m.type = "conn")
           /\ connected' = (connected \/ m.type = "conn")
           /\ m.type = "conn" => sock'.known = sock.known
           /\ m.type = "ack" => /\ m.ok /\ sock'.wire \subseteq sock.wire \cup sock.pending
                                /\ sock'.pending = {}
                                /\ sock'.known = IF sock.req = "sub" THEN sock.known
                                                 ELSE sock.known \ sock.pending
           /\ m.type = "frame" => sock'.known = sock.known \cup {m.ch}
           /\ m.type # "ack" => /\ sock'.wire = sock.wire /\ sock'.pending = sock.pending
                                /\ sock'.req = sock.req
<1>1. sock \in SockState /\ net \in NetState /\ net.inbox \in Seq(Message) /\ connected \in BOOLEAN
  BY DEF IInv, StateInv, NetState
<1>2. net.inbox # <<>> /\ m = Head(net.inbox) /\ m \in Message /\ m.type \in {"conn", "ack", "frame"}
  BY DEF Takes
<1>3. /\ net'.inbox = Tail(net.inbox) /\ net'.sent = net.sent
      /\ net'.skipped = net.skipped /\ net'.link = net.link
  BY <1>1 DEF Takes, NetState
<1>4. CASE m.type = "conn"
  <2>1. sock' = [sock EXCEPT !.conn = TRUE] /\ connected' = TRUE
    BY <1>4 DEF Takes, Connected
  <2>2. /\ sock'.conn = TRUE /\ sock'.known = sock.known /\ sock'.wire = sock.wire
        /\ sock'.pending = sock.pending /\ sock'.req = sock.req
    BY <1>1, <2>1 DEF SockState
  <2>3. sock'.conn = (sock.conn \/ m.type = "conn") /\ connected' = (connected \/ m.type = "conn")
    BY <1>4, <2>1, <2>2
  <2>4. QED
    BY <1>1, <1>2, <1>3, <1>4, <2>2, <2>3
<1>5. CASE m.type = "ack"
  <2>1. m.ok /\ Acknowledged(TRUE)
    BY <1>5 DEF Takes
  <2> DEFINE w == IF sock.req = "sub" THEN sock.wire \cup sock.pending ELSE sock.wire \ sock.pending
             k == IF sock.req = "sub" THEN sock.known ELSE sock.known \ sock.pending
  <2>2. /\ sock' = [sock EXCEPT !.wire = w, !.known = k, !.pending = {}, !.req = "none"]
        /\ connected' = connected
    BY <2>1, SMT DEF Acknowledged
  <2>3. w \subseteq sock.wire \cup sock.pending
    OBVIOUS
  <2> HIDE DEF w, k
  <2>4. sock'.conn = sock.conn /\ sock'.wire = w /\ sock'.known = k /\ sock'.pending = {}
    BY <1>1, <2>2 DEF SockState
  <2>5. sock.conn \in BOOLEAN
    BY <1>1 DEF SockState
  <2>6. sock'.conn = (sock.conn \/ m.type = "conn") /\ connected' = (connected \/ m.type = "conn")
    BY <1>1, <1>5, <2>2, <2>4, <2>5
  <2>7. sock'.wire \subseteq sock.wire \cup sock.pending
    BY <2>3, <2>4
  <2>8. sock'.known = IF sock.req = "sub" THEN sock.known ELSE sock.known \ sock.pending
    BY <2>4 DEF k
  <2>9. QED
    BY <1>1, <1>2, <1>3, <1>5, <2>1, <2>4, <2>6, <2>7, <2>8
<1>6. CASE m.type = "frame"
  <2>1. sock' = [sock EXCEPT !.known = sock.known \cup {m.ch}] /\ connected' = connected
    BY <1>6 DEF Takes, Update
  <2>2. /\ sock'.conn = sock.conn /\ sock'.known = sock.known \cup {m.ch} /\ sock'.wire = sock.wire
        /\ sock'.pending = sock.pending /\ sock'.req = sock.req
    BY <1>1, <2>1 DEF SockState
  <2>3. sock.conn \in BOOLEAN
    BY <1>1 DEF SockState
  <2>4. sock'.conn = (sock.conn \/ m.type = "conn") /\ connected' = (connected \/ m.type = "conn")
    BY <1>1, <1>6, <2>1, <2>2, <2>3
  <2>5. QED
    BY <1>1, <1>2, <1>3, <1>6, <2>2, <2>4
<1>7. QED
  BY <1>2, <1>4, <1>5, <1>6

\* Taking a message changes only the events and the losses of the handles.
LEMMA TakesSame ==
    ASSUME IInv, NEW m, Takes(m), NEW h \in Handles
    PROVE  Same(hd[h], hd'[h])
<1>1. hd[h] \in HandleState
  BY DEF IInv, StateInv
<1>2. Same(hd[h], hd[h])
  BY <1>1 DEF Same
<1>3. CASE Acknowledged(TRUE)
  BY <1>2, <1>3 DEF Acknowledged
<1>4. CASE Connected
  <2>1. hd'[h] = hd[h] \/ hd'[h] = emitResync(hd[h])
    BY <1>4 DEF Connected
  <2>2. Same(hd[h], emitResync(hd[h]))
    BY <1>1, EmitSame
  <2>3. QED
    BY <1>2, <2>1, <2>2
<1>5. CASE Update(m)
  <2> DEFINE a == Missing(hd[h], m.lost)
             b == IF m.lost # {} /\ m.ch \in sock.known THEN emitResync(a) ELSE a
  <2>1. Same(hd[h], a)
    BY <1>1, LossSame
  <2>2. hd'[h] = a \/ hd'[h] = emitUpdate(b)
    BY <1>5 DEF Update
  <2> HIDE DEF a
  <2>3. Same(a, b) /\ b \in HandleState
    BY <2>1, EmitSame DEF Same
  <2> HIDE DEF b
  <2>4. Same(b, emitUpdate(b))
    BY <2>3, EmitSame
  <2>5. Same(hd[h], emitUpdate(b))
    BY <2>1, <2>3, <2>4, SameTwice
  <2>6. QED
    BY <2>1, <2>2, <2>5
<1>6. QED
  BY <1>3, <1>4, <1>5 DEF Takes


\* What activation and the next change do to the transport.
LEMMA ReconcileFields ==
    ASSUME IInv, reconcile
    PROVE  /\ UNCHANGED <<net, connected>> /\ sock'.conn = sock.conn /\ sock'.wire = sock.wire
           /\ sock'.known = sock.known
           /\ \/ sock'.pending = sock.pending /\ sock'.req = sock.req
              \/ /\ sock.conn /\ sock.pending = {} /\ sock'.pending # {}
                 /\ sock'.pending \subseteq desired(Owned) \cup sock.wire
<1>1. sock \in SockState
  BY DEF IInv, StateInv
<1>2. UNCHANGED <<net, connected>>
  BY DEF reconcile
<1>3. CASE sock' = sock
  BY <1>2, <1>3
<1>4. CASE /\ sock.conn /\ sock.pending = {} /\ Change[2] # {}
           /\ sock' = [sock EXCEPT !.req = Change[1], !.pending = Change[2], !.writer = "change"]
  <2>1. \/ Change = <<"sub", desired(Owned) \ sock.wire>>
        \/ Change = <<"unsub", sock.wire \ desired(Owned)>>
    BY DEF Change
  <2>2. Change[2] \subseteq desired(Owned) \cup sock.wire
    BY <2>1, SMT
  <2>3. /\ sock'.conn = sock.conn /\ sock'.wire = sock.wire /\ sock'.known = sock.known
        /\ sock'.pending = Change[2]
    BY <1>1, <1>4 DEF SockState
  <2>4. QED
    BY <1>2, <1>4, <2>2, <2>3
<1>5. QED
  BY <1>3, <1>4 DEF reconcile

\* Filters without ::all stay so.
LEMMA FilterStep ==
    ASSUME NoAllFilters, IInv, PlainInv, [Next]_vars, NEW h \in Handles
    PROVE  All \notin hd'[h].filter
<1>1. hd[h] \in HandleState /\ All \notin hd[h].filter
  BY DEF IInv, StateInv, PlainInv
<1>2. CASE reconcile
  <2>1. hd'[h] = hd[h] \/ hd'[h] = [hd[h] EXCEPT !.ready = TRUE, !.reply = "ok"]
    BY <1>2 DEF reconcile
  <2>2. hd'[h].filter = hd[h].filter
    BY <1>1, <2>1 DEF HandleState
  <2>3. QED
    BY <1>1, <2>2
<1>3. CASE Receive /\ \E m : Takes(m)
  BY <1>1, <1>3, TakesSame DEF Same
<1>4. CASE ~reconcile /\ ~(Receive /\ \E m : Takes(m))
  <2>1. Moves(h)
    BY <1>4, HandleMoves
  <2>2. Cut(hd[h]).filter = hd[h].filter
    BY <1>1, LossSame DEF Same
  <2>3. New(hd'[h]) => All \notin hd'[h].filter
    BY DEF New, NoAllFilters
  <2>4. hd'[h].filter = hd[h].filter \/ New(hd'[h])
    BY <2>1, <2>2 DEF Moves, Kept
  <2>5. QED
    BY <1>1, <2>3, <2>4
<1>5. QED
  BY <1>2, <1>3, <1>4

\* So does what is on the wire, and what the frames carry.
LEMMA PlainStep ==
    ASSUME NoAllFilters, IInv, PlainInv, [Next]_vars
    PROVE  PlainInv'
<1> DEFINE Channel(s, t) == All \notin s /\ All \notin t
           Loss(s) == \A c \in Channels, i \in Instruments : <<c, i>> \in s => c = i
<1>1. /\ Channel(sock.wire, sock.pending) /\ Loss(net.skipped) /\ PlainFrames(net.inbox)
      /\ net.inbox \in Seq(Message)
  BY DEF PlainInv, IInv, StateInv, NetState
<1>2. SUFFICES Channel(sock'.wire, sock'.pending) /\ Loss(net'.skipped) /\ PlainFrames(net'.inbox)
  BY FilterStep DEF PlainInv
<1>3. CASE reconcile
  <2>1. All \notin desired(Owned)
    BY DEF PlainInv, desired, Owned
  <2>2. Channel(sock'.wire, sock'.pending)
    BY <1>1, <1>3, <2>1, ReconcileFields
  <2>3. QED
    BY <1>1, <1>3, <2>2, ReconcileFields
<1>4. CASE Fresh
  <2>1. PlainFrames(<<>>)
    BY SMT DEF PlainFrames
  <2>2. QED
    BY <1>4, <2>1 DEF Fresh
<1>5. CASE SameLink
  BY <1>1, <1>5 DEF SameLink
<1>6. ASSUME NEW m, Takes(m)
      PROVE  Channel(sock'.wire, sock'.pending) /\ Loss(net'.skipped) /\ PlainFrames(net'.inbox)
  <2>1. PlainFrames(net'.inbox)
    BY <1>1, <1>6, TakesFields, FramesTaken
  <2>2. CASE m.type = "ack"
    <3>1. sock'.wire \subseteq sock.wire \cup sock.pending /\ sock'.pending = {}
      BY <1>6, <2>2, TakesFields
    <3>2. QED
      BY <1>1, <1>6, <2>1, <3>1, TakesFields
  <2>3. CASE m.type # "ack"
    BY <1>1, <1>6, <2>1, <2>3, TakesFields
  <2>4. QED
    BY <2>2, <2>3
<1>7. CASE NetStep /\ ~WriterEnds
  <2>1. sock' = sock
    BY <1>7, NetMoves
  <2>2. net.link = "open" => All \notin net.server
    BY <1>1, ServerAsked
  <2>3. ASSUME NEW m, Greets(m) \/ Acks(m)
        PROVE  Loss(net'.skipped) /\ PlainFrames(net'.inbox)
    <3>1. m \in Message /\ m.type # "frame" /\ net'.inbox = Append(net.inbox, m)
      BY <2>3 DEF Greets, Acks
    <3>2. net'.skipped \subseteq net.skipped
      BY <2>3 DEF Greets, Acks
    <3>3. QED
      BY <1>1, <3>1, <3>2, FramesAdded
  <2>4. ASSUME NEW m, Delivers(m)
        PROVE  Loss(net'.skipped) /\ PlainFrames(net'.inbox)
    <3>1. m.ins = m.ch /\ m.ch \in Channels
      BY <2>2, <2>4, MessageFields DEF Delivers
    <3>2. m.lost \subseteq {m.ch}
      BY <1>1, <2>4, <3>1 DEF Delivers
    <3>3. m \in Message /\ net'.inbox = Append(net.inbox, m) /\ net'.skipped \subseteq net.skipped
      BY <2>4 DEF Delivers
    <3>4. QED
      BY <1>1, <3>1, <3>2, <3>3, FramesAdded
  <2>5. ASSUME NEW c \in Channels, NEW i \in Instruments, Misses(c, i)
        PROVE  Loss(net'.skipped) /\ PlainFrames(net'.inbox)
    <3>1. c = i
      BY <2>2, <2>5 DEF Misses
    <3>2. Loss(net.skipped \cup {<<c, i>>})
      BY <1>1, <3>1, SMT
    <3>3. QED
      BY <1>1, <2>5, <3>2 DEF Misses
  <2>6. QED
    BY <1>1, <1>7, <2>1, <2>3, <2>4, <2>5, NetMoves
<1>8. QED
  BY <1>3, <1>4, <1>5, <1>6, <1>7, LinkCases


\* The owner asks for nothing before the socket is reported, and gets no answer
\* it does not wait for.
LEMMA ReportedStep ==
    ASSUME IInv, ReportedInv, [Next]_vars
    PROVE  ReportedInv'
<1> DEFINE Acked(s) == NoAck(s) \/ \E ok \in BOOLEAN : OneAck(s, ok)
<1>1. net.inbox \in Seq(Message) /\ Acked(net.inbox) /\ sock.conn \in BOOLEAN /\ connected \in BOOLEAN
  BY DEF IInv, StateInv, NetState, SockState, ReportedInv
<1>2. CASE reconcile
  BY <1>2, ReconcileFields DEF ReportedInv
<1>3. CASE Fresh
  <2>1. Early(<<>>) /\ NoAck(<<>>)
    BY SMT DEF Early, NoAck
  <2>2. QED
    BY <1>3, <2>1 DEF Fresh, ReportedInv
<1>4. CASE SameLink
  BY <1>4 DEF SameLink, ReportedInv
<1>5. ASSUME NEW m, Takes(m)
      PROVE  ReportedInv'
  <2>1. /\ NoAck(net.inbox) => NoAck(net'.inbox)
        /\ m.type = "ack" => NoAck(net'.inbox)
        /\ Acked(net'.inbox)
    BY <1>1, <1>5, TakesFields, TookMessage
  <2>2. ~sock'.conn => ~sock.conn
    BY <1>5, TakesFields
  <2>3. ~sock.conn => m.type # "ack" /\ Early(net'.inbox)
    BY <1>1, <1>5, TakesFields, FramesTaken DEF ReportedInv
  <2>4. ~sock'.conn => sock'.wire = {} /\ sock'.pending = {} /\ Early(net'.inbox)
    BY <1>5, <2>2, <2>3, TakesFields DEF ReportedInv
  <2>5. sock'.conn => connected'
    BY <1>5, TakesFields DEF ReportedInv
  <2>6. sock'.pending = {} => NoAck(net'.inbox)
    BY <1>5, <2>1, TakesFields DEF ReportedInv
  <2>7. QED
    BY <2>1, <2>4, <2>5, <2>6 DEF ReportedInv
<1>6. CASE NetStep /\ ~WriterEnds
  <2>1. sock' = sock /\ connected' = connected
    BY <1>6, NetMoves
  <2>2. SUFFICES /\ ~sock.conn => Early(net'.inbox)
                 /\ sock.pending = {} => NoAck(net'.inbox)
                 /\ Acked(net'.inbox)
    BY <2>1 DEF ReportedInv
  <2>3. ASSUME NEW m, Greets(m)
        PROVE  /\ ~sock.conn => Early(net'.inbox)
               /\ sock.pending = {} => NoAck(net'.inbox)
               /\ Acked(net'.inbox)
    <3>1. m \in Message /\ m.type \in {"conn", "err"} /\ net'.inbox = Append(net.inbox, m)
      BY <2>3 DEF Greets
    <3>2. ~sock.conn => Early(net'.inbox)
      BY <1>1, <3>1, FramesAdded DEF ReportedInv
    <3>3. QED
      BY <1>1, <3>1, <3>2, AddedOther DEF ReportedInv
  <2>4. ASSUME NEW m, Acks(m)
        PROVE  /\ ~sock.conn => Early(net'.inbox)
               /\ sock.pending = {} => NoAck(net'.inbox)
               /\ Acked(net'.inbox)
    <3>1. m \in Message /\ m.type = "ack" /\ net'.inbox = Append(net.inbox, m)
      BY <2>4 DEF Acks
    <3>2. m.ok \in BOOLEAN /\ m = [type |-> "ack", ok |-> m.ok]
      BY <3>1, SMT DEF Message
    <3>3. OneAck(net'.inbox, m.ok)
      BY <1>1, <2>4, <3>1, <3>2, AddedAck DEF Acks
    <3>4. sock.pending # {} /\ sock.conn
      BY <2>4 DEF Acks, ReportedInv
    <3>5. QED
      BY <3>2, <3>3, <3>4
  <2>5. ASSUME NEW m, Delivers(m)
        PROVE  /\ ~sock.conn => Early(net'.inbox)
               /\ sock.pending = {} => NoAck(net'.inbox)
               /\ Acked(net'.inbox)
    <3>1. m \in Message /\ m.type = "frame" /\ net'.inbox = Append(net.inbox, m)
      BY <2>5 DEF Delivers
    <3>2. sock.conn
      BY <2>5, ServerAsked DEF Delivers, ReportedInv
    <3>3. QED
      BY <1>1, <3>1, <3>2, AddedOther DEF ReportedInv
  <2>6. ASSUME NEW c, NEW i, Misses(c, i)
        PROVE  /\ ~sock.conn => Early(net'.inbox)
               /\ sock.pending = {} => NoAck(net'.inbox)
               /\ Acked(net'.inbox)
    BY <1>1, <2>6 DEF Misses, ReportedInv
  <2>7. QED
    BY <1>6, <2>3, <2>4, <2>5, <2>6, NetMoves
<1>7. QED
  BY <1>2, <1>3, <1>4, <1>5, <1>6, LinkCases

\* The sequence numbers the owner knows, when nothing happens to the messages.
LEMMA HeardSame ==
    ASSUME HeardInv, net'.inbox = net.inbox, net'.sent = net.sent,
           net'.link = net.link \/ net.link = "open",
           sock'.known = sock.known, Forgotten' = Forgotten
    PROVE  HeardInv'
BY DEF HeardInv


\* A message is added: it reveals a loss only if a number is known before it, and
\* the channels that have carried a frame are known after it.
LEMMA HeardAppend ==
    ASSUME HeardInv, net.inbox \in Seq(Message), NEW m \in Message,
           net'.inbox = Append(net.inbox, m), UNCHANGED sock,
           m.type = "frame" /\ m.lost # {}
             => Heard(net.inbox, sock.known, Forgotten, m.ch, Len(net.inbox) + 1),
           \A c \in net'.sent :
             \/ /\ Heard(net.inbox, sock.known, Forgotten, c, Len(net.inbox) + 1)
                /\ ~Drops(m, Forgotten, c)
             \/ m.type = "frame" /\ m.ch = c
    PROVE  HeardInv'
<1> DEFINE s == net.inbox
           t == Append(s, m)
           k == sock.known
           gone == Forgotten
<1>1. /\ Len(t) = Len(s) + 1 /\ Len(s) \in Nat /\ t[Len(s) + 1] = m
      /\ \A p \in 1..Len(s) : t[p] = s[p]
  BY Appended
<1>2. Forgotten' = gone /\ sock'.known = k /\ net'.inbox = t
  BY DEF Forgotten
<1>3. \A p \in 1..Len(t) : p \in 1..Len(s) \/ p = Len(s) + 1
  BY <1>1, SMT
<1>4. (\A p \in 1..Len(s) : p \in 1..(Len(s) + 1)) /\ Len(s) + 1 \in 1..(Len(s) + 1)
  BY <1>1, SMT
<1>5. ASSUME NEW p \in 1..Len(t), t[p].type = "frame", t[p].lost # {}
      PROVE  Heard(t, k, gone, t[p].ch, p)
  <2>1. CASE p \in 1..Len(s)
    <3>1. t[p] = s[p] /\ p \in 1..(Len(s) + 1)
      BY <1>1, <1>4, <2>1
    <3>2. Heard(s, k, gone, s[p].ch, p)
      BY <1>5, <2>1, <3>1 DEF HeardInv
    <3>3. Heard(t, k, gone, s[p].ch, p)
      BY <3>1, <3>2, HeardBefore
    <3>4. QED
      BY <3>1, <3>3
  <2>2. CASE p = Len(s) + 1
    <3>1. t[p] = m /\ p \in 1..(Len(s) + 1)
      BY <1>1, <1>4, <2>2
    <3>2. Heard(s, k, gone, m.ch, p)
      BY <1>5, <2>2, <3>1
    <3>3. QED
      BY <3>1, <3>2, HeardBefore
  <2>3. QED
    BY <1>3, <2>1, <2>2
<1>6. ASSUME NEW c \in net'.sent
      PROVE  Heard(t, k, gone, c, Len(t) + 1)
  BY HeardAfter
<1> HIDE DEF s, t, k, gone
<1>7. QED
  BY <1>2, <1>5, <1>6 DEF HeardInv

\* A message is taken.
LEMMA HeardTakes ==
    ASSUME IInv, HeardInv, NEW m, Takes(m)
    PROVE  HeardInv'
<1> DEFINE s == net.inbox
           t == Tail(s)
           k == sock.known
           gone == Forgotten
           k2 == sock'.known
           gone2 == Forgotten'
<1>1. /\ s \in Seq(Message) /\ s # <<>> /\ m = Head(s) /\ m \in Message
      /\ net'.inbox = t /\ net'.sent = net.sent /\ net'.link = net.link
  BY TakesFields
<1>2. /\ Len(s) \in Nat \ {0} /\ Len(t) = Len(s) - 1 /\ \A p \in 1..Len(t) : t[p] = s[p + 1]
  BY <1>1, Taken
<1>3. /\ \A p \in 1..Len(t) : p \in 1..Len(s) /\ p + 1 \in 1..Len(s)
      /\ Len(t) + 1 = Len(s) /\ Len(s) \in 1..Len(s)
  BY <1>2, SMT
<1>4. gone2 \subseteq gone
  <2>1. m.type = "ack" => sock'.pending = {}
    BY TakesFields
  <2>2. m.type # "ack" => sock'.pending = sock.pending /\ sock'.req = sock.req
    BY TakesFields
  <2>3. QED
    BY <2>1, <2>2 DEF Forgotten
<1>5. ASSUME NEW c
      PROVE  /\ m.type = "frame" /\ m.ch = c => c \in k2
             /\ c \in k /\ ~Drops(m, gone, c) => c \in k2
  <2>1. m.type = "frame" => k2 = k \cup {m.ch}
    BY TakesFields
  <2>2. m.type = "conn" => k2 = k
    BY TakesFields
  <2>3. m.type = "ack" => m.ok /\ k2 = IF sock.req = "sub" THEN k ELSE k \ sock.pending
    BY TakesFields
  <2>4. sock.req \in {"sub", "unsub"} \/ sock.pending = {}
    BY DEF IInv, StateInv, SockState, LinkInv
  <2>5. ASSUME m.type = "ack", c \in k, ~Drops(m, gone, c)
        PROVE  c \in k2
    <3>1. c \notin gone
      BY <2>3, <2>5 DEF Drops
    <3>2. CASE sock.req = "sub"
      BY <2>3, <2>5, <3>2
    <3>3. CASE sock.req # "sub"
      <4>1. c \notin sock.pending
        BY <2>4, <3>1, <3>3 DEF Forgotten
      <4>2. QED
        BY <2>3, <2>5, <3>3, <4>1
    <3>4. QED
      BY <3>2, <3>3
  <2>6. m.type \in {"conn", "ack", "frame"}
    BY TakesFields
  <2>7. QED
    BY <2>1, <2>2, <2>5, <2>6
<1> HIDE DEF k, gone, k2, gone2, s
<1>6. ASSUME NEW c, NEW p \in 1..Len(s), Heard(s, k, gone, c, p + 1)
      PROVE  Heard(t, k2, gone2, c, p)
  BY <1>1, <1>4, <1>5, <1>6, HeardTail
<1> HIDE DEF t
<1>7. ASSUME NEW p \in 1..Len(t), t[p].type = "frame", t[p].lost # {}
      PROVE  Heard(t, k2, gone2, t[p].ch, p)
  <2>1. t[p] = s[p + 1] /\ p \in 1..Len(s) /\ p + 1 \in 1..Len(s)
    BY <1>2, <1>3
  <2>2. Heard(s, k, gone, s[p + 1].ch, p + 1)
    BY <1>7, <2>1 DEF HeardInv, s, k, gone
  <2>3. QED
    BY <1>6, <2>1, <2>2
<1>8. ASSUME NEW c \in net.sent, net.link = "open"
      PROVE  Heard(t, k2, gone2, c, Len(t) + 1)
  <2>1. Heard(s, k, gone, c, Len(s) + 1)
    BY <1>8 DEF HeardInv, s, k, gone
  <2>2. QED
    BY <1>3, <1>6, <2>1
<1>9. QED
  BY <1>1, <1>7, <1>8 DEF HeardInv, k2, gone2


\* A gap is always found: the sequence number before it is known.
LEMMA HeardStep ==
    ASSUME IInv, ReportedInv, HeardInv, [Next]_vars
    PROVE  HeardInv'
<1>1. net.inbox \in Seq(Message) /\ Len(net.inbox) \in Nat
  <2>1. net.inbox \in Seq(Message)
    BY DEF IInv, StateInv, NetState
  <2>2. QED
    BY <2>1, SMT
<1>2. CASE reconcile
  <2>1. net' = net /\ sock'.known = sock.known
    BY <1>2, ReconcileFields
  <2>2. CASE sock'.pending = sock.pending /\ sock'.req = sock.req
    <3>1. Forgotten' = Forgotten
      BY <2>2 DEF Forgotten
    <3>2. QED
      BY <2>1, <3>1, HeardSame
  <2>3. CASE sock.pending = {}
    <3> DEFINE s == net.inbox
               gone == Forgotten
               gone2 == Forgotten'
    <3>1. NoAck(s)
      BY <2>3 DEF ReportedInv
    <3>2. (\A p \in 1..Len(s) : p \in 1..(Len(s) + 1)) /\ Len(s) + 1 \in 1..(Len(s) + 1)
      BY <1>1, SMT
    <3> HIDE DEF gone, gone2
    <3>3. ASSUME NEW c, NEW p \in 1..(Len(s) + 1), Heard(s, sock.known, gone, c, p)
          PROVE  Heard(s, sock.known, gone2, c, p)
      BY <1>1, <3>1, <3>3, HeardKept
    <3>4. ASSUME NEW p \in 1..Len(s), s[p].type = "frame", s[p].lost # {}
          PROVE  Heard(s, sock.known, gone2, s[p].ch, p)
      <4>1. Heard(s, sock.known, gone, s[p].ch, p)
        BY <3>4 DEF HeardInv, gone
      <4>2. QED
        BY <3>2, <3>3, <4>1
    <3>5. ASSUME net.link = "open", NEW c \in net.sent
          PROVE  Heard(s, sock.known, gone2, c, Len(s) + 1)
      <4>1. Heard(s, sock.known, gone, c, Len(s) + 1)
        BY <3>5 DEF HeardInv, gone
      <4>2. QED
        BY <3>2, <3>3, <4>1
    <3>6. QED
      BY <2>1, <3>4, <3>5 DEF HeardInv, gone2
  <2>4. QED
    BY <1>2, <2>2, <2>3, ReconcileFields
<1>3. CASE Fresh
  <2>1. 1..Len(<<>>) = {}
    BY SMT
  <2>2. QED
    BY <1>3, <2>1 DEF Fresh, HeardInv
<1>4. CASE SameLink
  <2>1. Forgotten' = Forgotten
    BY <1>4 DEF SameLink, Forgotten
  <2>2. QED
    BY <1>4, <2>1, HeardSame DEF SameLink
<1>5. ASSUME NEW m, Takes(m)
      PROVE  HeardInv'
  BY <1>5, HeardTakes
<1>6. CASE NetStep /\ ~WriterEnds
  <2>1. sock' = sock
    BY <1>6, NetMoves
  <2>2. ASSUME NEW m, Greets(m)
        PROVE  HeardInv'
    BY <1>1, <2>1, <2>2, HeardAppend DEF Greets
  <2>3. ASSUME NEW m, Acks(m)
        PROVE  HeardInv'
    <3>1. ASSUME NEW c \in net'.sent
          PROVE  /\ Heard(net.inbox, sock.known, Forgotten, c, Len(net.inbox) + 1)
                 /\ ~Drops(m, Forgotten, c)
      <4>1. c \in net.sent /\ net.link = "open"
        BY <2>3 DEF Acks
      <4>2. ~Drops(m, Forgotten, c)
        BY <2>3, SMT DEF Acks, Drops, Forgotten
      <4>3. QED
        BY <4>1, <4>2 DEF HeardInv
    <3>2. m \in Message /\ m.type = "ack" /\ net'.inbox = Append(net.inbox, m)
      BY <2>3 DEF Acks
    <3>3. QED
      BY <1>1, <2>1, <3>1, <3>2, HeardAppend
  <2>4. ASSUME NEW m, Delivers(m)
        PROVE  HeardInv'
    <3>1. /\ m \in Message /\ m.type = "frame" /\ net'.inbox = Append(net.inbox, m)
          /\ net.link = "open" /\ net'.sent = net.sent \cup {m.ch}
      BY <2>4 DEF Delivers
    <3>2. ASSUME NEW c \in net.sent
          PROVE  /\ Heard(net.inbox, sock.known, Forgotten, c, Len(net.inbox) + 1)
                 /\ ~Drops(m, Forgotten, c)
      BY <3>1 DEF HeardInv, Drops
    <3>3. m.lost # {} => m.ch \in net.sent
      <4>1. net.skipped \subseteq net.sent \X Instruments
        BY DEF IInv, StateInv
      <4>2. QED
        BY <2>4, <4>1 DEF Delivers
    <3>4. QED
      BY <1>1, <2>1, <3>1, <3>2, <3>3, HeardAppend
  <2>5. ASSUME NEW c, NEW i, Misses(c, i)
        PROVE  HeardInv'
    BY <2>1, <2>5, HeardSame DEF Misses, Forgotten
  <2>6. QED
    BY <1>6, <2>2, <2>3, <2>4, <2>5, NetMoves
<1>7. QED
  BY <1>2, <1>3, <1>4, <1>5, <1>6, LinkCases


\* No update follows a loss that was not announced, and a handle that is still
\* open has no loss to announce.
Clean(r) == ~r.torn /\ (r.gap => r.ready) /\ (r.gap => r.cancelled)

\* A resync event announces the loss, or ends the handle.
LEMMA ResyncCleans ==
    ASSUME NEW r \in HandleState, ~r.torn, r.gap => r.ready
    PROVE  Clean(emitResync(r))
<1>1. CASE r.cancelled
  BY <1>1 DEF emitResync, Clean
<1>2. CASE ~r.cancelled /\ Overflowed(r)
  <2> DEFINE q == [r EXCEPT !.cancelled = TRUE]
  <2>1. q.cancelled /\ q.torn = r.torn /\ q.gap = r.gap /\ q.ready = r.ready
    BY DEF HandleState
  <2>2. emitResync(r) = q
    BY <1>2 DEF emitResync
  <2> HIDE DEF q
  <2>3. QED
    BY <2>1, <2>2 DEF Clean
<1>3. CASE ~r.cancelled /\ ~Overflowed(r)
  <2> DEFINE q == [r EXCEPT !.queue = @ + 1, !.gap = FALSE]
  <2>1. q.torn = r.torn /\ q.gap = FALSE
    BY DEF HandleState
  <2>2. emitResync(r) = q
    BY <1>3 DEF emitResync
  <2> HIDE DEF q
  <2>3. QED
    BY <2>1, <2>2 DEF Clean
<1>4. QED
  BY <1>1, <1>2, <1>3

\* An update to a handle without a loss.
LEMMA UpdateClean ==
    ASSUME NEW r \in HandleState, Clean(r)
    PROVE  Clean(emitUpdate(r))
<1>1. CASE r.cancelled
  BY <1>1 DEF emitUpdate
<1>2. CASE ~r.cancelled /\ Overflowed(r)
  <2> DEFINE q == [r EXCEPT !.cancelled = TRUE]
  <2>1. q.cancelled /\ q.torn = r.torn /\ q.gap = r.gap /\ q.ready = r.ready
    BY DEF HandleState
  <2>2. emitUpdate(r) = q
    BY <1>2 DEF emitUpdate
  <2> HIDE DEF q
  <2>3. QED
    BY <2>1, <2>2 DEF Clean
<1>3. CASE ~r.cancelled /\ ~Overflowed(r)
  <2> DEFINE q == [r EXCEPT !.queue = @ + 1, !.torn = @ \/ r.gap]
  <2>1. q.torn = (r.torn \/ r.gap) /\ q.gap = r.gap
    BY DEF HandleState
  <2>2. emitUpdate(r) = q /\ ~r.gap /\ ~r.torn
    BY <1>3 DEF emitUpdate, Clean
  <2> HIDE DEF q
  <2>3. QED
    BY <2>1, <2>2 DEF Clean
<1>4. QED
  BY <1>1, <1>2, <1>3

\* A frame that comes after a loss comes on a channel whose number is known.
LEMMA FirstKnown ==
    ASSUME HeardInv, net.inbox \in Seq(Message), net.inbox # <<>>, NEW m, m = Head(net.inbox),
           m.type = "frame", m.lost # {}
    PROVE  m.ch \in sock.known
<1>1. 1 \in 1..Len(net.inbox) /\ m = net.inbox[1]
  BY Taken, SMT
<1>2. Heard(net.inbox, sock.known, Forgotten, m.ch, 1)
  BY <1>1 DEF HeardInv
<1>3. 1..(1 - 1) = {}
  BY SMT
<1>4. QED
  BY <1>2, <1>3 DEF Heard

\* An update on an instrument's own channel.
LEMMA UpdateTold ==
    ASSUME IInv, PlainInv, ReportedInv, ToldInv, HeardInv, NEW m, Takes(m), m.type = "frame",
           NEW h \in Handles
    PROVE  sock.conn /\ connected /\ (hd[h].owned => Clean(hd'[h])) /\ (~hd[h].owned => hd'[h] = hd[h])
<1> DEFINE r == hd[h]
           a == Missing(r, m.lost)
           b == IF m.lost # {} /\ m.ch \in sock.known THEN emitResync(a) ELSE a
<1>1. r \in HandleState /\ ToldOK(r, sock.conn, connected)
  BY DEF IInv, StateInv, ToldInv
<1>2. net.inbox \in Seq(Message) /\ net.inbox # <<>> /\ m = Head(net.inbox)
  BY TakesFields
<1>3. m.ins = m.ch /\ m.lost \subseteq {m.ch}
  BY <1>2, FramesTaken DEF PlainInv
<1>4. sock.conn /\ connected
  BY <1>2, FramesTaken DEF ReportedInv
<1>5. hd'[h] = IF r.owned /\ matches(r.filter, m.ins) THEN emitUpdate(b) ELSE a
  BY DEF Takes, Update
<1>6. r.owned => Clean(r)
  BY <1>1, <1>4 DEF ToldOK, Clean
<1>7. m.lost = {} \/ ~r.owned \/ ~matches(r.filter, m.ins) => a = r
  BY <1>3 DEF Missing
<1>8. a \in HandleState /\ ~a.torn /\ (a.gap => a.ready)
  <2>1. a \in HandleState /\ a.ready = r.ready
    BY <1>1, LossSame DEF Same
  <2>2. a = r \/ (r.ready /\ a = [r EXCEPT !.gap = TRUE])
    BY DEF Missing
  <2>3. [r EXCEPT !.gap = TRUE].torn = r.torn
    BY <1>1 DEF HandleState
  <2>4. ~r.torn /\ (r.gap => r.ready)
    BY <1>1 DEF ToldOK
  <2> HIDE DEF a, r
  <2>5. QED
    BY <2>1, <2>2, <2>3, <2>4
<1>9. m.lost # {} => b = emitResync(a)
  BY <1>2, FirstKnown
<1>10. m.lost = {} => b = a
  OBVIOUS
<1> HIDE DEF a, b, r
<1>11. CASE r.owned /\ matches(r.filter, m.ins)
  <2>1. Clean(b) /\ b \in HandleState
    <3>1. CASE m.lost = {}
      BY <1>6, <1>7, <1>8, <1>10, <1>11, <3>1
    <3>2. CASE m.lost # {}
      BY <1>8, <1>9, <3>2, ResyncCleans, EmitSame DEF Same
    <3>3. QED
      BY <3>1, <3>2
  <2>2. QED
    BY <1>4, <1>5, <1>11, <2>1, UpdateClean DEF r
<1>12. CASE ~(r.owned /\ matches(r.filter, m.ins))
  BY <1>4, <1>5, <1>6, <1>7, <1>12 DEF r
<1>13. QED
  BY <1>11, <1>12


\* A handle that has missed updates is told before the next one, after every step.
LEMMA ToldStep ==
    ASSUME IInv, PlainInv, ReportedInv, ToldInv, HeardInv, [Next]_vars, NEW h \in Handles
    PROVE  ToldOK(hd'[h], sock'.conn, connected')
<1>1. hd[h] \in HandleState /\ ToldOK(hd[h], sock.conn, connected)
  BY DEF IInv, StateInv, ToldInv
<1>2. CASE reconcile
  <2>1. sock'.conn = sock.conn /\ connected' = connected
    BY <1>2, ReconcileFields
  <2>2. CASE hd'[h] = hd[h]
    BY <1>1, <2>1, <2>2
  <2>3. CASE /\ sock.conn /\ ~hd[h].ready
             /\ hd'[h] = [hd[h] EXCEPT !.ready = TRUE, !.reply = "ok"]
    <3>1. hd'[h].torn = hd[h].torn /\ hd'[h].gap = hd[h].gap
      BY <1>1, <2>3 DEF HandleState
    <3>2. ~hd'[h].gap /\ ~hd'[h].torn /\ connected
      BY <1>1, <2>3, <3>1 DEF ToldOK, ReportedInv
    <3>3. QED
      BY <2>1, <3>2 DEF ToldOK
  <2>4. QED
    BY <1>2, <2>2, <2>3 DEF reconcile
<1>3. ASSUME NEW m, Takes(m)
      PROVE  ToldOK(hd'[h], sock'.conn, connected')
  <2>1. Same(hd[h], hd'[h])
    BY <1>3, TakesSame
  <2>2. CASE m.type = "conn"
    <3>1. connected' = TRUE /\ Connected
      BY <1>3, <2>2 DEF Takes, Connected
    <3>2. CASE connected /\ hd[h].owned /\ hd[h].ready
      <4>1. hd'[h] = emitResync(hd[h])
        BY <3>1, <3>2 DEF Connected
      <4>2. Clean(hd'[h])
        BY <1>1, <4>1, ResyncCleans DEF ToldOK
      <4>3. QED
        BY <3>1, <4>2 DEF ToldOK, Clean
    <3>3. CASE ~(connected /\ hd[h].owned /\ hd[h].ready)
      <4>1. hd'[h] = hd[h]
        BY <3>1, <3>3 DEF Connected
      <4>2. ~(hd[h].owned /\ hd[h].ready)
        BY <1>1, <3>3 DEF ToldOK
      <4>3. QED
        BY <1>1, <4>1, <4>2 DEF ToldOK
    <3>4. QED
      BY <3>2, <3>3
  <2>3. CASE m.type = "ack"
    <3>1. hd' = hd /\ connected' = connected
      BY <1>3, <2>3 DEF Takes, Acknowledged
    <3>2. sock'.conn = (sock.conn \/ m.type = "conn")
      BY <1>3, TakesFields
    <3>3. sock'.conn => sock.conn
      BY <2>3, <3>2
    <3>4. QED
      BY <1>1, <3>1, <3>3 DEF ToldOK
  <2>4. CASE m.type = "frame"
    <3>1. sock.conn /\ connected /\ (hd[h].owned => Clean(hd'[h])) /\ (~hd[h].owned => hd'[h] = hd[h])
      BY <1>3, <2>4, UpdateTold
    <3>2. connected'
      BY <1>3, <3>1, TakesFields
    <3>3. CASE hd[h].owned
      BY <3>1, <3>2, <3>3 DEF Clean, ToldOK
    <3>4. CASE ~hd[h].owned
      BY <1>1, <3>1, <3>4 DEF ToldOK
    <3>5. QED
      BY <3>3, <3>4
  <2>5. QED
    BY <1>3, <2>2, <2>3, <2>4, TakesFields
<1>4. CASE ~reconcile /\ ~(Receive /\ \E m : Takes(m))
  <2>1. Moves(h)
    BY <1>4, HandleMoves
  <2>2. sock'.conn => sock.conn
    BY <1>4, LinkCases, NetMoves DEF Fresh, SameLink
  <2>3. CASE New(hd'[h])
    BY <2>3 DEF New, ToldOK
  <2>4. CASE (hd'[h].owned => connected' = connected) /\ Kept(hd[h], hd'[h])
    <3>1. /\ hd'[h].ready = hd[h].ready /\ hd'[h].gap = hd[h].gap /\ hd'[h].torn = hd[h].torn
          /\ hd[h].cancelled => hd'[h].cancelled
          /\ hd'[h].owned /\ hd[h].ready => hd[h].owned /\ connected' = connected
      BY <2>4 DEF Kept
    <3>2. ~hd'[h].torn /\ (hd'[h].gap => hd'[h].ready)
      BY <1>1, <3>1 DEF ToldOK
    <3>3. ASSUME hd'[h].owned, hd'[h].ready
          PROVE  connected'
      <4>1. hd[h].ready
        BY <3>1, <3>3
      <4>2. hd[h].owned /\ connected' = connected
        BY <3>1, <3>3, <4>1
      <4>3. connected
        BY <1>1, <4>1, <4>2 DEF ToldOK
      <4>4. QED
        BY <4>2, <4>3
    <3>4. hd'[h].owned /\ hd'[h].gap /\ ~hd'[h].cancelled => ~sock'.conn
      BY <1>1, <2>2, <3>1 DEF ToldOK
    <3>5. QED
      BY <3>2, <3>3, <3>4 DEF ToldOK
  <2>5. CASE /\ hd'[h].owned => connected' = connected
             /\ Fresh /\ hd'[h] = Cut(hd[h])
    <3>1. Same(hd[h], hd'[h])
      BY <1>1, <2>5, LossSame
    <3>2. hd'[h].torn = hd[h].torn
      BY <1>1, <2>5 DEF Cut, HandleState
    <3>3. hd'[h] = hd[h] \/ hd[h].ready
      BY <2>5 DEF Cut
    <3>4. sock'.conn = FALSE
      BY <2>5 DEF Fresh
    <3>5. hd'[h].gap => hd'[h].ready
      BY <1>1, <3>1, <3>3 DEF Same, ToldOK
    <3>6. ASSUME hd'[h].owned, hd'[h].ready
          PROVE  connected'
      <4>1. hd[h].owned /\ hd[h].ready
        BY <3>1, <3>6 DEF Same
      <4>2. connected
        BY <1>1, <4>1 DEF ToldOK
      <4>3. connected' = connected
        BY <2>5, <3>6
      <4>4. QED
        BY <4>2, <4>3
    <3>7. ~hd'[h].torn
      BY <1>1, <3>2 DEF ToldOK
    <3>8. QED
      BY <3>4, <3>5, <3>6, <3>7 DEF ToldOK
  <2>6. QED
    BY <2>1, <2>3, <2>4, <2>5 DEF Moves
<1>5. QED
  BY <1>2, <1>3, <1>4

\* When no handle asks for the ::all channel, every gap is announced: a ready
\* handle that has lost its socket or an update gets a resync event before it gets
\* another update, for any handles, instruments, losses and interleavings.
THEOREM GapsAreAnnounced ==
    ASSUME NoAllFilters
    PROVE  Spec => []GapsAnnounced
<1>1. Init => GInv
  <2> SUFFICES ASSUME Init
               PROVE  GInv
    OBVIOUS
  <2>1. IInv
    BY InitSound
  <2>2. 1..Len(<<>>) = {}
    BY SMT
  <2>3. /\ sock.conn = FALSE /\ sock.wire = {} /\ sock.pending = {} /\ sock.known = {}
    BY DEF Init, NoSock
  <2>4. net.inbox = <<>> /\ net.skipped = {} /\ net.link = "none"
    BY DEF Init, NoNet
  <2>5. \A h \in Handles : /\ ~hd[h].torn /\ ~hd[h].gap /\ ~hd[h].owned
                           /\ hd[h].filter = {}
    BY DEF Init, Free
  <2>6. PlainInv
    BY <2>2, <2>3, <2>4, <2>5 DEF PlainInv, PlainFrames
  <2>7. ReportedInv
    BY <2>2, <2>3, <2>4 DEF ReportedInv, Early, NoAck
  <2>8. ToldInv
    BY <2>5 DEF ToldInv, ToldOK
  <2>9. HeardInv
    BY <2>2, <2>4 DEF HeardInv
  <2>10. QED
    BY <2>1, <2>6, <2>7, <2>8, <2>9 DEF GInv
<1>2. GInv /\ [Next]_vars => GInv'
  <2> SUFFICES ASSUME GInv, [Next]_vars
               PROVE  GInv'
    OBVIOUS
  <2>1. IInv /\ PlainInv /\ ReportedInv /\ ToldInv /\ HeardInv
    BY DEF GInv
  <2>2. IInv' /\ PlainInv' /\ ReportedInv' /\ HeardInv'
    BY <2>1, NextSound, PlainStep, ReportedStep, HeardStep
  <2>3. ToldInv'
    BY <2>1, ToldStep DEF ToldInv
  <2>4. QED
    BY <2>2, <2>3 DEF GInv
<1>3. GInv => GapsAnnounced
  BY DEF GInv, ToldInv, ToldOK, GapsAnnounced
<1>4. QED
  BY <1>1, <1>2, <1>3, PTL DEF Spec

=============================================================================
