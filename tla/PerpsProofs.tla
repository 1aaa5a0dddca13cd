----------------------------- MODULE PerpsProofs -----------------------------
(***************************************************************************)
(* Proofs about perps sessions. PerpsSession, for any calls, client order   *)
(* ids and capacities: the tables of commands and watched orders lose no    *)
(* call and give each its own order, gaps are announced, and no connection  *)
(* is left open. PerpsBuilders, for any goroutines and rates: the terms of  *)
(* a session keep to the consents of its owner.                             *)
(***************************************************************************)
EXTENDS PerpsSession, PerpsBuilders, TLAPS

(*****************************************************************************)
(* PerpsSession                                                              *)
(*****************************************************************************)

-----------------------------------------------------------------------------
(* The inductive invariant                                                 *)

\* The frames the server may have sent when n updates have been numbered.
Answers == [kind : {"answer"}, id : Calls, ok : BOOLEAN]
Updates(n) == [kind : {"update"}, seq : 1..n, id : Calls \cup {None}, coid : Coids \cup {None}]
Frames(n) == Answers \cup Updates(n) \cup {Note}

\* No frame is ahead of the numbering, wherever it waits; the bounds hold.
WireInv ==
    /\ srv \in [seq : Nat, got : SUBSET Calls, left : Nat, notes : BOOLEAN]
    /\ wire \in Seq(Frames(srv.seq)) /\ Len(wire) <= WireCap
    /\ queued \in Seq(Frames(srv.seq)) /\ Len(queued) <= EventCap
    /\ batch \in Seq(Frames(srv.seq))
    /\ seqs \in 0..srv.seq /\ events \in 0..EventCap /\ faults \in Nat
    /\ stream \in [last : Nat, marked : BOOLEAN, hole : BOOLEAN]

\* A connection is in its handshake exactly while the reader carries it out, and
\* one is published only while the reader reads or handles what it has read.
Shaking == {"open", "auth", "sub", "publish"}
Serving == {"read", "handle", "event", "store"}

ConnInv ==
    /\ ctxDone \in BOOLEAN /\ recent \in BOOLEAN
    /\ conn \in {"nil", "open", "lost", "closed"} /\ new \in {"none", "open", "lost"}
    /\ new # "none" <=> reader \in Shaking
    /\ conn = "open" => reader \in Serving

\* What the application has got follows the session's number, or a resync event
\* has been sent since; between publishing a connection and announcing it the
\* number is that of the new connection.
GapInv ==
    ctxDone \/ /\ ~stream.hole
               /\ reader # "store" => seqs = stream.last \/ stream.marked
               /\ reader = "event" => stream.marked

Where == {"idle", "unused", "refused", "checked", "registered", "sent", "acked", "placed",
          "failed", "order", "error"}

CallState == [pc : Where, coid : Coids \cup {None}, resp : Seq({"ok", "err", "lost"}),
              upd : Seq(Calls \cup {None})]

\* PlaceOrder holds its watch from watchOrder to unwatchOrder, unless the update
\* has come.
Watching == {"checked", "registered", "sent", "acked"}

\* Call k with the state c and the tables pend and wait: it has had at most one
\* answer and one update, is in the table while it has none, and returns its own
\* order.
CallOK(k, c, pend, wait) ==
    /\ c.pc \in {"idle", "unused", "refused"} => c.upd = <<>>
    /\ c.pc \in {"idle", "unused", "refused", "checked"} => k \notin pend /\ c.resp = <<>>
    /\ k \in pend => c.resp = <<>>
    /\ c.pc \in {"registered", "sent"} /\ c.resp = <<>> => k \in pend
    /\ Len(c.resp) <= 1 /\ Len(c.upd) <= 1
    /\ c.pc \in Watching \cup {"placed", "failed"} => c.coid \in Coids
    /\ c.pc \in Watching /\ c.upd = <<>> => wait[c.coid] = k
    /\ c.pc \in {"placed", "order"} => c.upd # <<>> /\ Head(c.upd) = k

\* Whoever is in the table of watches watches this id and has got no update.
WaiterOK(c, x) == c.coid = x /\ c.upd = <<>> /\ c.pc \in Watching \cup {"failed"}

CallInv ==
    /\ call \in [Calls -> CallState]
    /\ pending \in SUBSET Calls /\ waiters \in [Coids -> Calls \cup {None}]
    /\ \A k \in Calls : CallOK(k, call[k], pending, waiters)
    /\ \A x \in Coids : waiters[x] # None => WaiterOK(call[waiters[x]], x)

IInv == WireInv /\ ConnInv /\ GapInv /\ CallInv

-----------------------------------------------------------------------------
(* Lemmas about sequences and frames                                       *)

\* Most leaves are set and first-order reasoning; those with arithmetic or large
\* records cite SMT.
USE Zenon

\* A frame at the end of the wire or the queue.
LEMMA Appended ==
    ASSUME NEW S, NEW s \in Seq(S), NEW e \in S
    PROVE  Append(s, e) \in Seq(S) /\ Len(Append(s, e)) = Len(s) + 1 /\ Append(s, e) # <<>>
<1>1. Append(s, e) \in Seq(S) /\ Len(Append(s, e)) = Len(s) + 1 /\ Len(s) \in Nat
  BY SMT
<1>2. Len(Append(s, e)) # 0
  BY <1>1, SMT
<1>3. QED
  BY <1>1, <1>2, SMT

\* The frame that is handled next, and those that stay.
LEMMA HeadAndTail ==
    ASSUME NEW S, NEW s \in Seq(S), s # <<>>
    PROVE  Head(s) \in S /\ Tail(s) \in Seq(S) /\ Len(Tail(s)) = Len(s) - 1
BY SMT

\* What the server sends grows the set of frames; what waits stays in it.
LEMMA SeqGrows ==
    ASSUME NEW S, NEW T, S \subseteq T, NEW s \in Seq(S)
    PROVE  s \in Seq(T)
BY SMT

\* A payload of the first n frames is read.
LEMMA Parted ==
    ASSUME NEW S, NEW s \in Seq(S), NEW n \in 1..Len(s)
    PROVE  /\ SubSeq(s, 1, n) \in Seq(S)
           /\ SubSeq(s, n + 1, Len(s)) \in Seq(S) /\ Len(SubSeq(s, n + 1, Len(s))) <= Len(s)
BY SMT

\* More numbers, more frames.
LEMMA FramesGrow ==
    ASSUME NEW n \in Nat
    PROVE  Frames(n) \subseteq Frames(n + 1)
BY SMT DEF Frames, Updates

\* The fields of a frame of each kind.
LEMMA FrameFields ==
    ASSUME NEW n \in Nat, NEW f \in Frames(n)
    PROVE  /\ f.kind \in {"answer", "update", "note"}
           /\ f.kind = "answer" => f.id \in Calls
           /\ f.kind = "update" => /\ f.seq \in 1..n /\ f.id \in Calls \cup {None}
                                   /\ f.coid \in Coids \cup {None}
BY SMT DEF Frames, Answers, Updates, Note

-----------------------------------------------------------------------------
(* The wire and the numbers                                                *)

\* Sending the frames more, numbered up to the server's new number, keeps all
\* frames well formed.
LEMMA SentTyped ==
    ASSUME WireInv, NEW n \in {srv.seq, srv.seq + 1}, srv'.seq = n,
           srv' \in [seq : Nat, got : SUBSET Calls, left : Nat, notes : BOOLEAN],
           wire' \in Seq(Frames(n)), Len(wire') <= WireCap,
           UNCHANGED <<queued, batch, seqs, events, stream>>, faults' \in Nat
    PROVE  WireInv'
<1>1. srv.seq \in Nat /\ srv.seq + 1 \in Nat
  BY SMT DEF WireInv
<1>2. Frames(srv.seq) \subseteq Frames(n)
  BY <1>1, FramesGrow
<1>3. queued \in Seq(Frames(n)) /\ batch \in Seq(Frames(n))
  BY <1>2, SeqGrows DEF WireInv
<1>4. seqs \in 0..n
  BY <1>1, SMT DEF WireInv
<1>5. QED
  BY <1>3, <1>4 DEF WireInv

\* The next update is a frame under the next number.
LEMMA NextUpdateTyped ==
    ASSUME WireInv, CallInv, NEW k \in Calls \cup {None}, srv.left > 0
    PROVE  /\ NextUpdate(k) \in Frames(srv.seq + 1)
           /\ Numbered \in [seq : Nat, got : SUBSET Calls, left : Nat, notes : BOOLEAN]
           /\ Numbered.seq = srv.seq + 1 /\ Numbered.got = srv.got
<1>1. srv.seq + 1 \in 1..(srv.seq + 1) /\ srv.seq + 1 \in Nat /\ srv.left - 1 \in Nat
  BY SMT DEF WireInv
<1>2. (IF k = None THEN None ELSE call[k].coid) \in Coids \cup {None}
  BY DEF CallInv, CallState
<1>3. NextUpdate(k) \in Updates(srv.seq + 1)
  BY <1>1, <1>2 DEF NextUpdate, Update, Updates
<1>4. QED
  BY <1>1, <1>3 DEF Numbered, WireInv, Frames

\* The server answers a command, with or without an update of its order.
LEMMA ServeWire ==
    ASSUME IInv, NEW k \in Calls, Serve(k)
    PROVE  WireInv'
<1>1. /\ WireInv /\ CallInv /\ srv.seq \in Nat /\ srv.seq + 1 \in Nat
      /\ UNCHANGED <<queued, batch, seqs, events, stream, faults>> /\ faults' \in Nat
  <2>1. WireInv /\ CallInv
    BY DEF IInv
  <2>2. srv.seq \in Nat /\ faults \in Nat
    BY <2>1 DEF WireInv
  <2>3. srv.seq + 1 \in Nat
    BY <2>2, SMT
  <2>4. UNCHANGED <<sessionVars, queueVars, batch, faults>>
    BY DEF Serve
  <2>5. UNCHANGED <<queued, batch, seqs, events, stream, faults>>
    BY <2>4 DEF sessionVars, queueVars
  <2>6. QED
    BY <2>1, <2>2, <2>3, <2>5
<1>2. \A ok \in BOOLEAN : Answer(k, ok) \in Answers
  BY DEF Answer, Answers
<1>3. CASE /\ Room(1) /\ \E ok \in BOOLEAN : wire' = Append(wire, Answer(k, ok))
           /\ srv' = [srv EXCEPT !.got = @ \ {k}]
  <2>1. wire' \in Seq(Frames(srv.seq)) /\ Len(wire') <= WireCap
    BY <1>1, <1>2, <1>3, Appended, CapAssumption, SMT DEF WireInv, Room, Frames
  <2>2. /\ srv' \in [seq : Nat, got : SUBSET Calls, left : Nat, notes : BOOLEAN]
        /\ srv'.seq = srv.seq
    BY <1>3 DEF IInv, WireInv
  <2>3. QED
    BY <1>1, <2>1, <2>2, SentTyped
<1>4. CASE /\ Room(2) /\ srv.left > 0
           /\ wire' \in {wire \o <<NextUpdate(k), Answer(k, TRUE)>>,
                         wire \o <<Answer(k, TRUE), NextUpdate(k)>>}
           /\ srv' = [Numbered EXCEPT !.got = @ \ {k}]
  <2>1. /\ NextUpdate(k) \in Frames(srv.seq + 1)
        /\ Numbered \in [seq : Nat, got : SUBSET Calls, left : Nat, notes : BOOLEAN]
        /\ Numbered.seq = srv.seq + 1
    BY <1>1, <1>4, NextUpdateTyped
  <2>2. wire \in Seq(Frames(srv.seq + 1)) /\ Answer(k, TRUE) \in Frames(srv.seq + 1)
    BY <1>1, <1>2, FramesGrow, SeqGrows DEF WireInv, Frames
  <2>3. wire' \in Seq(Frames(srv.seq + 1)) /\ Len(wire') = Len(wire) + 2
    <3> DEFINE S == Frames(srv.seq + 1)
               u == NextUpdate(k)
               a == Answer(k, TRUE)
    <3>1. wire' = wire \o <<u, a>> \/ wire' = wire \o <<a, u>>
      BY <1>4
    <3>2. wire \in Seq(S) /\ u \in S /\ a \in S
      BY <2>1, <2>2
    <3> HIDE DEF S, u, a
    <3>3. /\ wire \o <<u, a>> \in Seq(S) /\ Len(wire \o <<u, a>>) = Len(wire) + 2
          /\ wire \o <<a, u>> \in Seq(S) /\ Len(wire \o <<a, u>>) = Len(wire) + 2
      BY <3>2, SMT
    <3>4. QED
      BY <3>1, <3>3 DEF S
  <2>4. Len(wire') <= WireCap
    BY <1>4, <2>3 DEF Room
  <2>5. /\ srv' \in [seq : Nat, got : SUBSET Calls, left : Nat, notes : BOOLEAN]
        /\ srv'.seq = srv.seq + 1
    BY <1>4, <2>1
  <2>6. QED
    BY <1>1, <2>3, <2>4, <2>5, SentTyped
<1>5. QED
  BY <1>3, <1>4 DEF Serve

\* An update of an order placed elsewhere, sent or lost.
LEMMA OtherWire ==
    ASSUME IInv, Other
    PROVE  WireInv'
<1>1. /\ WireInv /\ CallInv /\ srv.left > 0 /\ srv' = Numbered
      /\ UNCHANGED <<queued, batch, seqs, events, stream, faults>> /\ faults' \in Nat
  BY DEF IInv, WireInv, Other, sessionVars, queueVars
<1>2. /\ NextUpdate(None) \in Frames(srv.seq + 1)
      /\ Numbered \in [seq : Nat, got : SUBSET Calls, left : Nat, notes : BOOLEAN]
      /\ Numbered.seq = srv.seq + 1
  BY <1>1, NextUpdateTyped
<1>3. wire \in Seq(Frames(srv.seq + 1)) /\ Len(wire) <= WireCap
  BY <1>1, FramesGrow, SeqGrows DEF WireInv
<1>4. wire' \in Seq(Frames(srv.seq + 1)) /\ Len(wire') <= WireCap
  <2>1. CASE Room(1) /\ wire' = Append(wire, NextUpdate(None))
    BY <1>2, <1>3, <2>1, Appended DEF Room
  <2>2. CASE UNCHANGED wire
    BY <1>3, <2>2
  <2>3. QED
    BY <2>1, <2>2 DEF Other
<1>5. QED
  BY <1>1, <1>2, <1>4, SentTyped


\* A step that sends nothing: what the reader takes from the wire, the queue of the
\* handshake and the batch were frames before.
LEMMA TakenTyped ==
    ASSUME WireInv, srv'.seq = srv.seq,
           srv' \in [seq : Nat, got : SUBSET Calls, left : Nat, notes : BOOLEAN],
           wire' \in Seq(Frames(srv.seq)), Len(wire') <= WireCap,
           queued' \in Seq(Frames(srv.seq)), Len(queued') <= EventCap,
           batch' \in Seq(Frames(srv.seq)),
           seqs' \in 0..srv.seq, events' \in 0..EventCap, faults' \in Nat,
           stream' \in [last : Nat, marked : BOOLEAN, hole : BOOLEAN]
    PROVE  WireInv'
BY DEF WireInv

\* The queue and the history after an event that carries a number or none.
LEMMA EmitTyped ==
    ASSUME WireInv, NEW e, e.kind \in {"resync", "note", "update"},
           e.kind = "update" => e.seq \in Nat, EmitEvent(e)
    PROVE  /\ events' \in 0..EventCap
           /\ stream' \in [last : Nat, marked : BOOLEAN, hole : BOOLEAN]
<1>1. Extend(e) \in [last : Nat, marked : BOOLEAN, hole : BOOLEAN]
  BY DEF Extend, WireInv
<1>2. QED
  BY <1>1, CapAssumption, SMT DEF EmitEvent, WireInv, queueVars

\* The empty wire of a connection that is gone.
LEMMA EmptyTyped == \A n \in Nat : <<>> \in Seq(Frames(n)) /\ Len(<<>>) <= WireCap
                                   /\ Len(<<>>) <= EventCap
BY CapAssumption, SMT

\* Every step keeps the frames numbered and the bounds.
LEMMA WireStep ==
    ASSUME IInv, [Next]_vars
    PROVE  WireInv'
<1> USE DEF sessionVars, queueVars, tableVars, procVars
<1>w. WireInv /\ srv.seq \in Nat
  BY DEF IInv, WireInv
<1>e. <<>> \in Seq(Frames(srv.seq)) /\ Len(<<>>) <= WireCap /\ Len(<<>>) <= EventCap
  BY <1>w, EmptyTyped
<1>1. ASSUME NEW k \in Calls, Serve(k) PROVE WireInv'
  BY <1>1, ServeWire
<1>2. CASE Other
  BY <1>2, OtherWire
<1>3. CASE Notify
  <2>1. <<Note>> \in Seq(Frames(srv.seq)) /\ Len(<<Note>>) <= WireCap
    BY CapAssumption, SMT DEF Frames
  <2>2. QED
    BY <1>w, <1>3, <2>1, TakenTyped DEF Notify, WireInv
<1>4. CASE Lose
  <2>1. faults' \in Nat
    BY <1>w, <1>4, SMT DEF Lose, Fault, WireInv
  <2>2. /\ srv' \in [seq : Nat, got : SUBSET Calls, left : Nat, notes : BOOLEAN]
        /\ srv'.seq = srv.seq
    BY <1>w, <1>4 DEF Lose, WireInv
  <2>3. QED
    BY <1>w, <1>e, <1>4, <2>1, <2>2 DEF Lose, WireInv
<1>5. CASE Age
  BY <1>w, <1>5, SMT DEF Age, Fault, WireInv
<1>6. CASE Consume
  BY <1>w, <1>6, CapAssumption, SMT DEF Consume, WireInv
<1>7. CASE ReadFails
  BY <1>w, <1>e, <1>7 DEF ReadFails, WireInv
<1>8. CASE Read
  <2>1. PICK n \in 1..Len(wire) : /\ batch' = SubSeq(wire, 1, n)
                                  /\ wire' = SubSeq(wire, n + 1, Len(wire))
    BY <1>8 DEF Read
  <2>2. batch' \in Seq(Frames(srv.seq)) /\ wire' \in Seq(Frames(srv.seq)) /\ Len(wire') <= Len(wire)
    BY <1>w, <2>1, Parted DEF WireInv
  <2>3. Len(wire') <= WireCap
    BY <1>w, <2>2, CapAssumption, SMT DEF WireInv
  <2>4. QED
    BY <1>w, <1>8, <2>2, <2>3 DEF Read, WireInv
<1>9. CASE HandleGap
  <2>1. Head(batch) \in Frames(srv.seq) /\ Head(batch).kind = "update"
    BY <1>w, <1>9, HeadAndTail DEF HandleGap, WireInv, SequenceResync
  <2>2. Head(batch).seq \in 0..srv.seq
    BY <1>w, <2>1, FrameFields, SMT
  <2>3. Resync.kind = "resync"
    BY DEF Resync
  <2>4. events' \in 0..EventCap /\ stream' \in [last : Nat, marked : BOOLEAN, hole : BOOLEAN]
    BY <1>w, <1>9, <2>3, EmitTyped, SMT DEF HandleGap
  <2>5. QED
    BY <1>w, <1>9, <2>2, <2>4 DEF HandleGap, WireInv
<1>10. CASE Handle
  <2>1. Head(batch) \in Frames(srv.seq) /\ Tail(batch) \in Seq(Frames(srv.seq))
    BY <1>w, <1>10, HeadAndTail DEF Handle, WireInv
  <2>2. /\ Head(batch).kind \in {"answer", "update", "note"}
        /\ Head(batch).kind = "update" => Head(batch).seq \in 0..srv.seq /\ Head(batch).seq \in Nat
    BY <1>w, <2>1, FrameFields, SMT
  <2>3. seqs' \in 0..srv.seq
    BY <1>w, <1>10, <2>2 DEF Handle, WireInv
  <2>4. events' \in 0..EventCap /\ stream' \in [last : Nat, marked : BOOLEAN, hole : BOOLEAN]
    <3>1. CASE UNCHANGED queueVars
      BY <1>w, <3>1 DEF WireInv
    <3>2. CASE Head(batch).kind # "answer" /\ EmitEvent(Head(batch))
      BY <1>w, <2>2, <3>2, EmitTyped, SMT
    <3>3. QED
      BY <1>10, <3>1, <3>2 DEF Handle
  <2>5. QED
    BY <1>w, <1>10, <2>1, <2>3, <2>4 DEF Handle, WireInv
<1>11. CASE NextRead
  BY <1>w, <1>e, <1>11 DEF NextRead, WireInv
<1>12. CASE PublishConn
  <2>1. /\ wire' \in {wire, <<>>} /\ seqs' \in {seqs, 0}
        /\ UNCHANGED <<srv, queued, batch, events, stream, faults>>
    BY <1>12 DEF PublishConn
  <2>2. 0 \in 0..srv.seq
    BY <1>w, SMT
  <2>3. QED
    BY <1>w, <1>e, <2>1, <2>2 DEF WireInv
<1>13. CASE Reconnected
  <2>1. Resync.kind = "resync"
    BY DEF Resync
  <2>2. events' \in 0..EventCap /\ stream' \in [last : Nat, marked : BOOLEAN, hole : BOOLEAN]
    BY <1>w, <1>13, <2>1, EmitTyped, SMT DEF Reconnected
  <2>3. QED
    BY <1>w, <1>13, <2>2 DEF Reconnected, WireInv
<1>14. CASE GiveUp \/ Leave \/ Done
  BY <1>w, <1>14 DEF GiveUp, Leave, Done, WireInv
<1>15. CASE Authenticate
  <2>1. /\ wire' \in {wire, <<>>}
        /\ UNCHANGED faults \/ Fault
        /\ UNCHANGED <<srv, queued, batch, seqs, events, stream>>
    BY <1>15 DEF Authenticate, HandshakeFails
  <2>2. faults' \in Nat
    BY <1>w, <2>1, SMT DEF Fault, WireInv
  <2>3. QED
    BY <1>w, <1>e, <2>1, <2>2 DEF WireInv
<1>16. CASE QueueEarly
  <2>1. CASE Len(queued) >= EventCap
    BY <1>w, <1>e, <1>16, <2>1 DEF QueueEarly, HandshakeFails, WireInv
  <2>2. CASE ~(Len(queued) >= EventCap)
    <3>1. /\ Head(wire) \in Frames(srv.seq) /\ Tail(wire) \in Seq(Frames(srv.seq))
          /\ Len(Tail(wire)) = Len(wire) - 1
      BY <1>w, <1>16, HeadAndTail DEF QueueEarly, WireInv
    <3>2. Append(queued, Head(wire)) \in Seq(Frames(srv.seq)) /\ Len(Append(queued, Head(wire))) = Len(queued) + 1
      BY <1>w, <3>1, Appended DEF WireInv
    <3>3. Len(Tail(wire)) <= WireCap /\ Len(Append(queued, Head(wire))) <= EventCap
      BY <1>w, <2>2, <3>1, <3>2, CapAssumption, SMT DEF WireInv
    <3>4. QED
      BY <1>w, <1>16, <2>2, <3>1, <3>2, <3>3 DEF QueueEarly, WireInv
  <2>3. QED
    BY <2>1, <2>2
<1>17. CASE Subscribed
  <2>1. /\ wire' \in {wire, <<>>}
        /\ UNCHANGED faults \/ Fault
        /\ batch' \in {batch, queued} /\ queued' \in {queued, <<>>}
        /\ UNCHANGED <<srv, seqs, events, stream>>
    BY <1>17 DEF Subscribed, HandshakeFails
  <2>2. faults' \in Nat
    BY <1>w, <2>1, SMT DEF Fault, WireInv
  <2>3. QED
    BY <1>w, <1>e, <2>1, <2>2 DEF WireInv
<1>18. CASE Dial
  BY <1>w, <1>18, SMT DEF Dial, Fault, WireInv
<1>19. CASE HandshakeCancelled
  BY <1>w, <1>e, <1>19 DEF HandshakeCancelled, WireInv
<1>20. CASE Tick \/ CloseStale
  BY <1>w, <1>e, <1>20 DEF Tick, CloseStale, WireInv
<1>21. CASE Close
  BY <1>w, <1>21 DEF Close, CloseCancel, CloseReject, CloseTake, CloseReturns, WireInv
<1>22. ASSUME NEW k \in Calls, PlaceOrder(k) \/ CallerGivesUp(k) PROVE WireInv'
  <2>1. CASE Write(k)
    BY <1>w, <1>22, <2>1, SMT DEF Write, WireInv
  <2>2. CASE Watch(k) \/ Register(k) \/ Answered(k) \/ Updated(k) \/ Unwatch(k) \/ CallerGivesUp(k)
    BY <1>w, <2>2 DEF Watch, Register, Answered, Updated, Unwatch, CallerGivesUp, WireInv
  <2>3. QED
    BY <1>22, <2>1, <2>2 DEF PlaceOrder
<1>23. CASE UNCHANGED vars
  BY <1>w, <1>23 DEF vars, WireInv
<1>24. QED
  BY <1>1, <1>2, <1>3, <1>4, <1>5, <1>6, <1>7, <1>8, <1>9, <1>10, <1>11, <1>12, <1>13, <1>14,
     <1>15, <1>16, <1>17, <1>18, <1>19, <1>20, <1>21, <1>22, <1>23
     DEF Next, Server, ReadLoop, Connecting, Heartbeat


-----------------------------------------------------------------------------
(* Connections and gaps                                                    *)

\* Every step keeps the handshake with the reader, and leaves no connection
\* published behind a reader that has gone on.
LEMMA ConnStep ==
    ASSUME IInv, [Next]_vars
    PROVE  ConnInv'
<1> USE DEF sessionVars, procVars, Shaking, Serving
<1>c. ConnInv
  BY DEF IInv
<1>1. CASE Server
  BY <1>c, <1>1 DEF Server, Other, Notify, Serve, ConnInv
<1>2. CASE Lose \/ Age \/ Consume
  BY <1>c, <1>2 DEF Lose, Age, Consume, ConnInv
<1>3. CASE ReadFails
  BY <1>c, <1>3 DEF ReadFails, ConnInv
<1>4. CASE Read \/ NextRead
  BY <1>c, <1>4 DEF Read, NextRead, ConnInv
<1>5. CASE HandleGap
  BY <1>c, <1>5 DEF HandleGap, EmitEvent, ConnInv
<1>6. CASE Handle
  BY <1>c, <1>6 DEF Handle, EmitEvent, ConnInv
<1>7. CASE PublishConn
  BY <1>c, <1>7 DEF PublishConn, ConnInv
<1>8. CASE Reconnected
  BY <1>c, <1>8 DEF Reconnected, EmitEvent, ConnInv
<1>9. CASE GiveUp \/ Leave \/ Done
  BY <1>c, <1>9 DEF GiveUp, Leave, Done, ConnInv
<1>10. CASE Authenticate
  BY <1>c, <1>10 DEF Authenticate, HandshakeFails, ConnInv
<1>11. CASE QueueEarly
  BY <1>c, <1>11 DEF QueueEarly, HandshakeFails, ConnInv
<1>12. CASE Subscribed
  BY <1>c, <1>12 DEF Subscribed, HandshakeFails, ConnInv
<1>13. CASE Dial \/ HandshakeCancelled
  BY <1>c, <1>13 DEF Dial, HandshakeCancelled, ConnInv
<1>14. CASE Heartbeat
  BY <1>c, <1>14 DEF Heartbeat, Tick, CloseStale, Closed, ConnInv
<1>15. CASE Close
  BY <1>c, <1>15 DEF Close, CloseCancel, CloseReject, CloseTake, CloseReturns, ConnInv
<1>16. CASE \E k \in Calls : PlaceOrder(k) \/ CallerGivesUp(k)
  BY <1>c, <1>16 DEF PlaceOrder, Watch, Register, Write, Answered, Updated, Unwatch,
     CallerGivesUp, ConnInv
<1>17. CASE UNCHANGED vars
  BY <1>c, <1>17 DEF vars, ConnInv
<1>18. QED
  BY <1>1, <1>2, <1>3, <1>4, <1>5, <1>6, <1>7, <1>8, <1>9, <1>10, <1>11, <1>12, <1>13, <1>14,
     <1>15, <1>16, <1>17 DEF Next, ReadLoop, Connecting

\* emitEvent of a resync event marks the stream, or the session is cancelled.
LEMMA ResyncMarks ==
    ASSUME WireInv, EmitEvent(Resync)
    PROVE  ctxDone' \/ (stream'.marked /\ stream'.hole = stream.hole)
BY SMT DEF EmitEvent, Resync, Extend, WireInv

\* emitEvent of an update that follows the last one, or a resync event, makes no
\* hole.
LEMMA UpdateFollows ==
    ASSUME WireInv, NEW f, f.kind = "update", EmitEvent(f),
           stream.marked \/ stream.last = 0 \/ f.seq = stream.last + 1
    PROVE  \/ ctxDone'
           \/ stream'.last = f.seq /\ stream'.hole = stream.hole
BY SMT DEF EmitEvent, Extend, WireInv

\* Every step announces the gap it makes.
LEMMA GapStep ==
    ASSUME IInv, [Next]_vars
    PROVE  GapInv'
<1> USE DEF sessionVars, queueVars, procVars
<1>g. GapInv /\ WireInv /\ ConnInv
  BY DEF IInv
<1>1. CASE Server
  BY <1>g, <1>1 DEF Server, Other, Notify, Serve, GapInv
<1>2. CASE Lose \/ Age \/ Consume
  BY <1>g, <1>2 DEF Lose, Age, Consume, GapInv
<1>3. CASE ReadFails
  BY <1>g, <1>3 DEF ReadFails, GapInv
<1>4. CASE Read \/ NextRead
  BY <1>g, <1>4 DEF Read, NextRead, GapInv
<1>5. CASE HandleGap
  <2>1. ctxDone' \/ (stream'.marked /\ stream'.hole = stream.hole)
    BY <1>g, <1>5, ResyncMarks DEF HandleGap
  <2>2. ctxDone => ctxDone'
    BY <1>5 DEF HandleGap, EmitEvent
  <2>3. QED
    BY <1>g, <1>5, <2>1, <2>2 DEF HandleGap, GapInv
<1>6. CASE Handle
  <2>1. ctxDone => ctxDone'
    BY <1>6 DEF Handle, EmitEvent
  <2>2. SUFFICES ASSUME ~ctxDone'
                 PROVE  /\ ~stream'.hole /\ reader' = "handle"
                        /\ seqs' = stream'.last \/ stream'.marked
    BY DEF GapInv
  <2>3. /\ ~stream.hole /\ reader' = "handle" /\ reader \in {"handle", "event"}
        /\ seqs = stream.last \/ stream.marked
        /\ reader = "event" => stream.marked
    BY <1>g, <1>6, <2>1, <2>2 DEF Handle, GapInv
  <2>4. CASE Head(batch).kind = "answer"
    BY <1>6, <2>3, <2>4 DEF Handle
  <2>5. CASE Head(batch).kind = "update"
    <3>1. /\ reader = "event" \/ ~SequenceResync(Head(batch))
          /\ EmitEvent(Head(batch)) /\ seqs' = Head(batch).seq
      BY <1>6, <2>5 DEF Handle
    <3>2. stream.marked \/ stream.last = 0 \/ Head(batch).seq = stream.last + 1
      BY <2>3, <2>5, <3>1 DEF SequenceResync
    <3>3. stream'.last = Head(batch).seq /\ stream'.hole = stream.hole
      BY <1>g, <2>2, <2>5, <3>1, <3>2, UpdateFollows
    <3>4. QED
      BY <2>3, <3>1, <3>3
  <2>6. CASE Head(batch).kind \notin {"answer", "update"}
    <3>1. Head(batch).kind = "note"
      <4>1. Head(batch) \in Frames(srv.seq) /\ srv.seq \in Nat
        BY <1>g, <1>6, HeadAndTail DEF Handle, WireInv
      <4>2. QED
        BY <2>6, <4>1, FrameFields
    <3>2. seqs' = seqs /\ stream' = stream
      BY <1>6, <2>6, <3>1 DEF Handle, EmitEvent, Extend
    <3>3. QED
      BY <2>3, <3>2
  <2>7. QED
    BY <2>4, <2>5, <2>6
<1>7. CASE PublishConn
  BY <1>g, <1>7 DEF PublishConn, GapInv
<1>8. CASE Reconnected
  <2>1. ctxDone' \/ (stream'.marked /\ stream'.hole = stream.hole)
    BY <1>g, <1>8, ResyncMarks DEF Reconnected
  <2>2. ctxDone => ctxDone'
    BY <1>8 DEF Reconnected, EmitEvent
  <2>3. QED
    BY <1>g, <1>8, <2>1, <2>2 DEF Reconnected, GapInv
<1>9. CASE GiveUp \/ Leave \/ Done
  BY <1>g, <1>9 DEF GiveUp, Leave, Done, GapInv
<1>10. CASE Authenticate
  BY <1>g, <1>10 DEF Authenticate, HandshakeFails, GapInv
<1>11. CASE QueueEarly
  BY <1>g, <1>11 DEF QueueEarly, HandshakeFails, GapInv
<1>12. CASE Subscribed
  BY <1>g, <1>12 DEF Subscribed, HandshakeFails, GapInv
<1>13. CASE Dial \/ HandshakeCancelled
  BY <1>g, <1>13 DEF Dial, HandshakeCancelled, GapInv
<1>14. CASE Heartbeat
  BY <1>g, <1>14 DEF Heartbeat, Tick, CloseStale, GapInv
<1>15. CASE Close
  BY <1>g, <1>15 DEF Close, CloseCancel, CloseReject, CloseTake, CloseReturns, GapInv
<1>16. CASE \E k \in Calls : PlaceOrder(k) \/ CallerGivesUp(k)
  <2>1. UNCHANGED <<ctxDone, stream, reader, seqs>>
    BY <1>16 DEF PlaceOrder, Watch, Register, Write, Answered, Updated, Unwatch, CallerGivesUp
  <2>2. QED
    BY <1>g, <2>1 DEF GapInv
<1>17. CASE UNCHANGED vars
  BY <1>g, <1>17 DEF vars, GapInv
<1>18. QED
  BY <1>1, <1>2, <1>3, <1>4, <1>5, <1>6, <1>7, <1>8, <1>9, <1>10, <1>11, <1>12, <1>13, <1>14,
     <1>15, <1>16, <1>17 DEF Next, ReadLoop, Connecting


-----------------------------------------------------------------------------
(* Calls and their tables                                                  *)

\* Who is in the table of watches is a call that watches.
LEMMA Watches ==
    ASSUME CallInv, NEW k \in Calls, NEW x \in Coids, waiters[x] = k
    PROVE  WaiterOK(call[k], x)
<1>1. waiters[x] # None
  BY NoneAssumption
<1>2. QED
  BY <1>1 DEF CallInv

\* One call is in state d and only its own entries of the tables have changed.
OnlyCall(k, d) ==
    /\ call' = [call EXCEPT ![k] = d]
    /\ pending' \in SUBSET Calls /\ pending' \ {k} = pending \ {k}
    /\ waiters' \in [Coids -> Calls \cup {None}]
    /\ \A x \in Coids : waiters'[x] = waiters[x]
                          \/ (waiters[x] \in {k, None} /\ waiters'[x] \in {k, None})

\* Such a step is good for all calls when it is good for this one.
LEMMA OneCall ==
    ASSUME CallInv, NEW k \in Calls, NEW d \in CallState, OnlyCall(k, d),
           CallOK(k, d, pending', waiters'),
           \A x \in Coids : waiters'[x] = k => WaiterOK(d, x)
    PROVE  CallInv'
<1>1. /\ call' \in [Calls -> CallState] /\ call'[k] = d
      /\ \A q \in Calls \ {k} : call'[q] = call[q]
  BY DEF OnlyCall, CallInv
<1>2. ASSUME NEW q \in Calls
      PROVE  CallOK(q, call'[q], pending', waiters')
  <2>1. CASE q = k
    BY <1>1, <2>1
  <2>2. CASE q # k
    <3>1. /\ CallOK(q, call[q], pending, waiters) /\ call'[q] = call[q] /\ call[q] \in CallState
          /\ q \in pending' <=> q \in pending
      BY <1>1, <2>2 DEF OnlyCall, CallInv
    <3>2. ASSUME NEW x \in Coids, waiters[x] = q
          PROVE  waiters'[x] = q
      BY <2>2, <3>2, NoneAssumption DEF OnlyCall
    <3>3. QED
      BY <3>1, <3>2 DEF CallOK, Watching
  <2>3. QED
    BY <2>1, <2>2
<1>3. ASSUME NEW x \in Coids, waiters'[x] # None
      PROVE  WaiterOK(call'[waiters'[x]], x)
  <2>1. CASE waiters'[x] = k
    BY <1>1, <2>1
  <2>2. CASE waiters'[x] # k
    <3>1. waiters'[x] = waiters[x] /\ waiters'[x] \in Calls \ {k}
      BY <1>3, <2>2 DEF OnlyCall
    <3>2. QED
      BY <1>1, <1>3, <3>1 DEF CallInv
  <2>3. QED
    BY <2>1, <2>2
<1>4. QED
  BY <1>1, <1>2, <1>3 DEF OnlyCall, CallInv

\* Call k somewhere else, with its channels as they are.
At(k, where) == [call[k] EXCEPT !.pc = where]

\* Only the place of the call differs.
LEMMA AtFields ==
    ASSUME CallInv, NEW k \in Calls, NEW where \in Where
    PROVE  /\ At(k, where) \in CallState /\ At(k, where).pc = where
           /\ At(k, where).coid = call[k].coid /\ At(k, where).resp = call[k].resp
           /\ At(k, where).upd = call[k].upd
BY DEF At, CallInv, CallState

\* A step of PlaceOrder moves its own call.
LEMMA GotoAt ==
    ASSUME CallInv, NEW k \in Calls, NEW where \in Where, Goto(k, where)
    PROVE  call' = [call EXCEPT ![k] = At(k, where)]
BY DEF Goto, At, CallInv

\* A call goes on with the watches as they are.
LEMMA WentOn ==
    ASSUME CallInv, NEW k \in Calls, NEW where \in Where, Goto(k, where), UNCHANGED waiters,
           pending' \in SUBSET Calls, pending' \ {k} = pending \ {k},
           CallOK(k, At(k, where), pending', waiters),
           where \in Watching \cup {"failed"} \/ call[k].upd # <<>>
               \/ call[k].pc \notin Watching \cup {"failed"}
    PROVE  CallInv'
<1>1. OnlyCall(k, At(k, where))
  BY GotoAt DEF OnlyCall, CallInv
<1>2. ASSUME NEW x \in Coids, waiters'[x] = k
      PROVE  WaiterOK(At(k, where), x)
  <2>1. WaiterOK(call[k], x)
    BY <1>2, Watches
  <2>2. QED
    BY <2>1, AtFields DEF WaiterOK
<1>3. QED
  BY <1>1, <1>2, AtFields, OneCall


\* watchOrder and the look at the session.
LEMMA WatchCall ==
    ASSUME CallInv, NEW k \in Calls, Watch(k)
    PROVE  CallInv'
<1>1. /\ call[k] \in CallState /\ CallOK(k, call[k], pending, waiters) /\ call[k].pc = "idle"
      /\ waiters \in [Coids -> Calls \cup {None}] /\ pending' = pending /\ pending \in SUBSET Calls
  BY DEF CallInv, Watch
<1>2. PICK x \in Coids :
         IF waiters[x] # None
         THEN Goto(k, "refused") /\ UNCHANGED waiters
         ELSE /\ call' = [call EXCEPT ![k] = [@ EXCEPT !.pc = IF ctxDone THEN "failed" ELSE "checked",
                                                           !.coid = x]]
              /\ waiters' = [waiters EXCEPT ![x] = k]
  BY DEF Watch
<1>3. CASE waiters[x] # None
  <2>1. Goto(k, "refused") /\ UNCHANGED waiters /\ "refused" \in Where
    BY <1>2, <1>3 DEF Where
  <2>2. CallOK(k, At(k, "refused"), pending', waiters)
    <3>1. /\ At(k, "refused").pc = "refused" /\ At(k, "refused").coid = call[k].coid
          /\ At(k, "refused").resp = call[k].resp /\ At(k, "refused").upd = call[k].upd
      BY <2>1, AtFields
    <3>2. QED
      BY <1>1, <3>1 DEF CallOK, Watching
  <2>3. QED
    BY <1>1, <2>1, <2>2, WentOn DEF Watching
<1>4. CASE waiters[x] = None
  <2> DEFINE d == [call[k] EXCEPT !.pc = IF ctxDone THEN "failed" ELSE "checked", !.coid = x]
  <2>1. /\ d \in CallState /\ d.pc \in {"failed", "checked"} /\ d.coid = x
        /\ d.resp = call[k].resp /\ d.upd = call[k].upd
    BY <1>1 DEF CallState, Where
  <2>2. call' = [call EXCEPT ![k] = d] /\ waiters' = [waiters EXCEPT ![x] = k]
    BY <1>2, <1>4 DEF CallInv
  <2> HIDE DEF d
  <2>3. waiters'[x] = k /\ \A y \in Coids \ {x} : waiters'[y] = waiters[y]
    BY <1>1, <2>2
  <2>4. waiters' \in [Coids -> Calls \cup {None}]
    BY <1>1, <2>2
  <2>5. OnlyCall(k, d)
    BY <1>1, <1>4, <2>2, <2>3, <2>4 DEF OnlyCall
  <2>6. CallOK(k, d, pending', waiters')
    BY <1>1, <2>1, <2>3 DEF CallOK, Watching
  <2>7. ASSUME NEW y \in Coids, waiters'[y] = k
        PROVE  WaiterOK(d, y)
    <3>1. y = x
      <4>1. SUFFICES ASSUME y # x
                     PROVE  FALSE
        OBVIOUS
      <4>2. WaiterOK(call[k], y)
        BY <2>3, <2>7, <4>1, Watches
      <4>3. QED
        BY <1>1, <4>2 DEF WaiterOK, Watching
    <3>2. QED
      BY <1>1, <2>1, <3>1 DEF WaiterOK, CallOK, Watching
  <2>8. QED
    BY <2>1, <2>5, <2>6, <2>7, OneCall
<1>5. QED
  BY <1>3, <1>4

\* sendCommand from the registration to the end of its wait, and waitWatchedOrder.
LEMMA MoveCall ==
    ASSUME CallInv, NEW k \in Calls,
           Register(k) \/ Write(k) \/ Answered(k) \/ Updated(k) \/ CallerGivesUp(k)
    PROVE  CallInv'
<1>1. /\ call[k] \in CallState /\ CallOK(k, call[k], pending, waiters)
      /\ waiters' = waiters /\ pending \in SUBSET Calls
  BY DEF CallInv, Register, Write, Answered, Updated, CallerGivesUp, tableVars
<1>2. \A where \in Where :
         /\ At(k, where).pc = where /\ At(k, where).coid = call[k].coid
         /\ At(k, where).resp = call[k].resp /\ At(k, where).upd = call[k].upd
  BY AtFields
<1> USE DEF Where, Watching
<1>3. CASE Register(k)
  <2>1. Goto(k, "registered") /\ pending' = pending \cup {k} /\ call[k].pc = "checked"
    BY <1>3 DEF Register
  <2>2. CallOK(k, At(k, "registered"), pending', waiters)
    BY <1>1, <1>2, <2>1 DEF CallOK
  <2>3. QED
    BY <1>1, <2>1, <2>2, WentOn
<1>4. CASE Write(k) /\ Goto(k, "sent")
  <2>1. pending' = pending /\ call[k].pc = "registered"
    <3>1. ASSUME Goto(k, "failed")
          PROVE  FALSE
      BY <1>2, <1>4, <3>1, GotoAt, SMT DEF CallInv
    <3>2. QED
      BY <1>4, <3>1 DEF Write
  <2>2. CallOK(k, At(k, "sent"), pending', waiters)
    BY <1>1, <1>2, <2>1 DEF CallOK
  <2>3. QED
    BY <1>1, <1>4, <2>1, <2>2, WentOn
<1>5. CASE /\ Goto(k, "failed") /\ call[k].pc \in {"registered", "sent", "acked"}
           /\ pending' \in SUBSET Calls /\ pending' \ {k} = pending \ {k}
           /\ k \in pending' => k \in pending
  <2>1. CallOK(k, At(k, "failed"), pending', waiters)
    BY <1>1, <1>2, <1>5 DEF CallOK
  <2>2. QED
    BY <1>1, <1>5, <2>1, WentOn
<1>6. CASE /\ Goto(k, "acked") /\ call[k].pc = "sent" /\ pending' = pending \ {k}
           /\ call[k].resp # <<>>
  <2>1. CallOK(k, At(k, "acked"), pending', waiters)
    BY <1>1, <1>2, <1>6 DEF CallOK
  <2>2. QED
    BY <1>1, <1>6, <2>1, WentOn
<1>7. CASE /\ Goto(k, "placed") /\ call[k].pc = "acked" /\ pending' = pending
           /\ call[k].upd # <<>> /\ Head(call[k].upd) = k
  <2>1. CallOK(k, At(k, "placed"), pending', waiters)
    BY <1>1, <1>2, <1>7 DEF CallOK
  <2>2. QED
    BY <1>1, <1>7, <2>1, WentOn
<1>8. CASE Write(k)
  BY <1>1, <1>4, <1>5, <1>8 DEF Write
<1>9. CASE Answered(k)
  BY <1>1, <1>5, <1>6, <1>9 DEF Answered
<1>10. CASE Updated(k)
  BY <1>1, <1>5, <1>7, <1>10 DEF Updated, tableVars
<1>11. CASE CallerGivesUp(k)
  BY <1>1, <1>5, <1>11 DEF CallerGivesUp
<1>12. QED
  BY <1>3, <1>8, <1>9, <1>10, <1>11

\* unwatchOrder.
LEMMA UnwatchCall ==
    ASSUME CallInv, NEW k \in Calls, Unwatch(k)
    PROVE  CallInv'
<1> DEFINE where == IF call[k].pc = "placed" THEN "order" ELSE "error"
           z == call[k].coid
<1>1. /\ call[k] \in CallState /\ CallOK(k, call[k], pending, waiters)
      /\ call[k].pc \in {"placed", "failed"}
      /\ waiters \in [Coids -> Calls \cup {None}] /\ pending' = pending /\ pending \in SUBSET Calls
  BY DEF CallInv, Unwatch
<1>2. where \in Where /\ z \in Coids
  BY <1>1 DEF Where, CallOK
<1>3. call' = [call EXCEPT ![k] = At(k, where)]
  BY <1>2, GotoAt DEF Unwatch
<1>4. /\ waiters'[z] = IF waiters[z] = k THEN None ELSE waiters[z]
      /\ \A y \in Coids \ {z} : waiters'[y] = waiters[y]
      /\ waiters' \in [Coids -> Calls \cup {None}]
  BY <1>1, <1>2 DEF Unwatch
<1>5. OnlyCall(k, At(k, where))
  BY <1>1, <1>2, <1>3, <1>4 DEF OnlyCall
<1>6. CallOK(k, At(k, where), pending', waiters')
  <2>1. /\ At(k, where).pc = where /\ At(k, where).coid = call[k].coid
        /\ At(k, where).resp = call[k].resp /\ At(k, where).upd = call[k].upd
    BY <1>2, AtFields
  <2>2. where \notin {"idle", "unused", "refused", "checked", "registered", "sent", "placed",
                     "failed"} \cup Watching
    BY DEF Watching
  <2>3. where = "order" => call[k].pc = "placed"
    OBVIOUS
  <2> HIDE DEF where
  <2>4. QED
    BY <1>1, <2>1, <2>2, <2>3 DEF CallOK
<1>7. ASSUME NEW y \in Coids, waiters'[y] = k
      PROVE  FALSE
  <2>1. y # z /\ waiters[y] = k
    BY <1>2, <1>4, <1>7, NoneAssumption
  <2>2. WaiterOK(call[k], y)
    BY <2>1, Watches
  <2>3. QED
    BY <2>1, <2>2 DEF WaiterOK
<1>8. QED
  BY <1>2, <1>5, <1>6, <1>7, AtFields, OneCall


\* rejectPending and rejectOrderWaiters send one message to each call in a table.
LEMMA RejectAllCalls ==
    ASSUME CallInv, RejectAll
    PROVE  CallInv'
<1> DEFINE held(q) == \E x \in Coids : waiters[x] = q
<1>1. /\ pending' = {} /\ waiters' \in [Coids -> Calls \cup {None}]
      /\ \A x \in Coids : waiters'[x] = None
  BY DEF RejectAll
<1>2. ASSUME NEW q \in Calls
      PROVE  call'[q] \in CallState /\ CallOK(q, call'[q], pending', waiters')
  <2>1. /\ call[q] \in CallState /\ CallOK(q, call[q], pending, waiters)
        /\ call[q].resp \in Seq({"ok", "err", "lost"}) /\ call[q].upd \in Seq(Calls \cup {None})
    BY DEF CallInv, CallState
  <2> DEFINE r == IF q \in pending THEN Append(call[q].resp, "lost") ELSE call[q].resp
             u == IF held(q) THEN Append(call[q].upd, None) ELSE call[q].upd
  <2>2. call'[q] = [call[q] EXCEPT !.resp = r, !.upd = u]
    BY DEF RejectAll
  <2>3. /\ r \in Seq({"ok", "err", "lost"}) /\ Len(r) <= 1
        /\ q \in pending => r # <<>>
        /\ q \notin pending => r = call[q].resp
    BY <2>1, Appended, SMT DEF CallOK
  <2>4. ASSUME held(q)
        PROVE  call[q].upd = <<>> /\ call[q].pc \in Watching \cup {"failed"}
    <3>1. PICK x \in Coids : waiters[x] = q
      BY <2>4
    <3>2. WaiterOK(call[q], x)
      BY <3>1, Watches
    <3>3. QED
      BY <3>2 DEF WaiterOK
  <2>5. /\ u \in Seq(Calls \cup {None}) /\ Len(u) <= 1
        /\ held(q) => u # <<>>
        /\ ~held(q) => u = call[q].upd
    BY <2>1, <2>4, Appended, SMT DEF CallOK
  <2>6. call[q].pc \in Watching /\ call[q].upd = <<>> => held(q)
    BY <2>1 DEF CallOK, Watching
  <2> HIDE DEF r, u, held
  <2>7. /\ call'[q] \in CallState /\ call'[q].pc = call[q].pc /\ call'[q].coid = call[q].coid
        /\ call'[q].resp = r /\ call'[q].upd = u
    BY <2>1, <2>2, <2>3, <2>5 DEF CallState
  <2>8. CallOK(q, call'[q], pending', waiters')
    BY <1>1, <2>1, <2>3, <2>4, <2>5, <2>6, <2>7 DEF CallOK, Watching
  <2>9. QED
    BY <2>7, <2>8
<1>3. call' \in [Calls -> CallState]
  BY <1>2 DEF RejectAll
<1>4. QED
  BY <1>1, <1>2, <1>3 DEF CallInv

\* resolvePending: the answer goes to its command, once.
LEMMA ResolvedCall ==
    ASSUME CallInv, NEW f, f.id \in Calls, ResolvePending(f), UNCHANGED waiters
    PROVE  CallInv'
<1> DEFINE k == f.id
           r == IF f.ok THEN "ok" ELSE "err"
<1>1. /\ call[k] \in CallState /\ CallOK(k, call[k], pending, waiters)
      /\ call[k].resp \in Seq({"ok", "err", "lost"}) /\ pending' = pending \ {k}
      /\ waiters \in [Coids -> Calls \cup {None}] /\ pending \in SUBSET Calls
  BY DEF CallInv, CallState, ResolvePending
<1>2. CASE k \in pending
  <2> DEFINE d == [call[k] EXCEPT !.resp = Append(call[k].resp, r)]
  <2>1. call' = [call EXCEPT ![k] = d]
    BY <1>2 DEF ResolvePending, Reply, CallInv
  <2>2. /\ Append(call[k].resp, r) \in Seq({"ok", "err", "lost"})
        /\ Append(call[k].resp, r) # <<>> /\ Len(Append(call[k].resp, r)) = 1
    <3>1. r \in {"ok", "err", "lost"} /\ call[k].resp = <<>>
      BY <1>1, <1>2 DEF CallOK
    <3> HIDE DEF r
    <3>2. QED
      BY <1>1, <3>1, Appended, SMT
  <2>3. /\ d \in CallState /\ d.pc = call[k].pc /\ d.coid = call[k].coid /\ d.upd = call[k].upd
        /\ d.resp # <<>> /\ Len(d.resp) = 1
    BY <1>1, <2>2 DEF CallState
  <2> HIDE DEF d
  <2>4. OnlyCall(k, d)
    BY <1>1, <2>1 DEF OnlyCall
  <2>5. CallOK(k, d, pending', waiters')
    <3>1. k \notin pending' /\ waiters' = waiters /\ Len(d.resp) <= 1
      BY <1>1, <2>3, SMT
    <3>2. d.pc \notin {"idle", "unused", "refused", "checked"}
      BY <1>1, <1>2, <2>3 DEF CallOK
    <3>3. QED
      BY <1>1, <2>3, <3>1, <3>2 DEF CallOK
  <2>6. ASSUME NEW x \in Coids, waiters'[x] = k
        PROVE  WaiterOK(d, x)
    <3>1. WaiterOK(call[k], x)
      BY <1>1, <2>6, Watches
    <3>2. QED
      BY <2>3, <3>1 DEF WaiterOK
  <2>7. QED
    BY <2>3, <2>4, <2>5, <2>6, OneCall
<1>3. CASE k \notin pending
  <2>1. call' = call /\ pending' = pending
    BY <1>1, <1>3 DEF ResolvePending
  <2>2. QED
    BY <2>1 DEF CallInv
<1>4. QED
  BY <1>2, <1>3

\* resolveOrderWaiters: the update goes to the watch of its client order id.
LEMMA DeliveredUpdate ==
    ASSUME CallInv, NEW f, f.kind = "update" => f.coid \in Coids \cup {None},
           f.kind = "update" => f.id \in Calls \cup {None},
           ResolveOrderWaiters(f), UNCHANGED pending
    PROVE  CallInv'
<1>1. CASE ~(f.kind = "update" /\ f.coid # None /\ waiters[f.coid] # None)
  <2>1. call' = call /\ waiters' = waiters
    BY <1>1 DEF ResolveOrderWaiters
  <2>2. QED
    BY <2>1 DEF CallInv
<1>2. CASE f.kind = "update" /\ f.coid # None /\ waiters[f.coid] # None
  <2> DEFINE z == f.coid
             k == waiters[z]
             d == [call[k] EXCEPT !.upd = Append(call[k].upd, f.id)]
  <2>1. /\ z \in Coids /\ f.id \in Calls \cup {None} /\ waiters \in [Coids -> Calls \cup {None}]
        /\ k \in Calls /\ pending' = pending /\ pending \in SUBSET Calls
    BY <1>2 DEF CallInv
  <2>2. /\ call[k] \in CallState /\ CallOK(k, call[k], pending, waiters)
        /\ call[k].upd \in Seq(Calls \cup {None}) /\ WaiterOK(call[k], z)
    BY <1>2, <2>1 DEF CallInv, CallState
  <2>3. call' = [call EXCEPT ![k] = d] /\ waiters' = [waiters EXCEPT ![z] = None]
    BY <1>2 DEF ResolveOrderWaiters, CallInv
  <2>4. /\ Append(call[k].upd, f.id) \in Seq(Calls \cup {None})
        /\ Append(call[k].upd, f.id) # <<>> /\ Len(Append(call[k].upd, f.id)) = 1
    <3>1. call[k].upd = <<>>
      BY <2>2 DEF WaiterOK
    <3>2. Len(<<>>) + 1 = 1
      BY SMT
    <3>3. /\ Append(call[k].upd, f.id) \in Seq(Calls \cup {None})
          /\ Append(call[k].upd, f.id) # <<>>
          /\ Len(Append(call[k].upd, f.id)) = Len(call[k].upd) + 1
      <4> DEFINE u == call[k].upd
                 S == Calls \cup {None}
      <4>1. u \in Seq(S) /\ f.id \in S
        BY <2>1, <2>2
      <4> HIDE DEF u, S
      <4>2. Append(u, f.id) \in Seq(S) /\ Append(u, f.id) # <<>> /\ Len(Append(u, f.id)) = Len(u) + 1
        BY <4>1, Appended
      <4>3. QED
        BY <4>2 DEF u, S
    <3>4. QED
      BY <3>1, <3>2, <3>3
  <2>5. /\ d \in CallState /\ d.pc = call[k].pc /\ d.coid = call[k].coid /\ d.resp = call[k].resp
        /\ d.upd # <<>> /\ Len(d.upd) = 1
    BY <2>2, <2>4 DEF CallState
  <2>6. /\ waiters'[z] = None /\ \A y \in Coids \ {z} : waiters'[y] = waiters[y]
        /\ waiters' \in [Coids -> Calls \cup {None}]
    BY <2>1, <2>3
  <2> HIDE DEF d
  <2>7. OnlyCall(k, d)
    BY <2>1, <2>3, <2>6 DEF OnlyCall
  <2>8. CallOK(k, d, pending', waiters')
    <3>1. d.pc \in Watching \cup {"failed"} /\ d.coid = z /\ Len(d.upd) <= 1
      BY <2>2, <2>5, SMT DEF WaiterOK
    <3>2. /\ d.pc \notin {"idle", "unused", "refused", "placed", "order"}
          /\ d.pc \in {"checked", "registered", "sent", "acked", "failed"}
      BY <3>1 DEF Watching
    <3>3. QED
      BY <2>1, <2>2, <2>5, <3>1, <3>2 DEF CallOK
  <2>9. ASSUME NEW y \in Coids, waiters'[y] = k
        PROVE  FALSE
    <3>1. y # z /\ waiters[y] = k
      BY <1>2, <2>6, <2>9
    <3>2. WaiterOK(call[k], y)
      BY <1>2, <3>1 DEF CallInv
    <3>3. QED
      BY <2>2, <3>1, <3>2 DEF WaiterOK
  <2>10. QED
    BY <2>1, <2>5, <2>7, <2>8, <2>9, OneCall
<1>3. QED
  BY <1>1, <1>2


\* Every step keeps the calls and their tables.
LEMMA CallStep ==
    ASSUME IInv, [Next]_vars
    PROVE  CallInv'
<1>c. CallInv /\ WireInv
  BY DEF IInv
<1>1. CASE UNCHANGED <<call, tableVars>>
  BY <1>c, <1>1 DEF CallInv, tableVars
<1>2. CASE ReadFails \/ GiveUp \/ CloseReject
  BY <1>c, <1>2, RejectAllCalls DEF ReadFails, GiveUp, CloseReject
<1>3. CASE Handle
  <2>1. Head(batch) \in Frames(srv.seq) /\ srv.seq \in Nat
    BY <1>c, <1>3, HeadAndTail DEF Handle, WireInv
  <2>2. CASE Head(batch).kind = "answer"
    <3>1. ResolvePending(Head(batch)) /\ UNCHANGED waiters
      BY <1>3, <2>2 DEF Handle
    <3>2. Head(batch).id \in Calls
      BY <2>1, <2>2, FrameFields
    <3>3. QED
      BY <1>c, <3>1, <3>2, ResolvedCall
  <2>3. CASE Head(batch).kind # "answer"
    <3>1. ResolveOrderWaiters(Head(batch)) /\ UNCHANGED pending
      BY <1>3, <2>3 DEF Handle
    <3>2. Head(batch).kind = "update" => /\ Head(batch).coid \in Coids \cup {None}
                                         /\ Head(batch).id \in Calls \cup {None}
      BY <2>1, FrameFields
    <3>3. QED
      BY <1>c, <3>1, <3>2, DeliveredUpdate
  <2>4. QED
    BY <2>2, <2>3
<1>4. CASE \E k \in Calls : PlaceOrder(k) \/ CallerGivesUp(k)
  BY <1>c, <1>4, WatchCall, MoveCall, UnwatchCall DEF PlaceOrder
<1>5. CASE UNCHANGED vars
  BY <1>1, <1>5 DEF vars
<1>6. CASE Server \/ Lose \/ Age \/ Consume
  BY <1>1, <1>6 DEF Server, Other, Notify, Serve, Lose, Age, Consume
<1>7. CASE Read \/ HandleGap \/ NextRead \/ PublishConn \/ Reconnected \/ Leave \/ Done
  BY <1>1, <1>7 DEF Read, HandleGap, NextRead, PublishConn, Reconnected, Leave, Done
<1>8. CASE Connecting \/ Heartbeat
  BY <1>1, <1>8 DEF Connecting, Authenticate, QueueEarly, Subscribed, Dial, HandshakeCancelled,
     Heartbeat, Tick, CloseStale
<1>9. CASE CloseCancel \/ CloseTake \/ CloseReturns
  BY <1>1, <1>9 DEF CloseCancel, CloseTake, CloseReturns
<1>10. QED
  BY <1>2, <1>3, <1>4, <1>5, <1>6, <1>7, <1>8, <1>9 DEF Next, ReadLoop, Close

-----------------------------------------------------------------------------
(* The theorems                                                            *)

\* OpenSession begins its handshake with empty tables and queues.
LEMMA InitSound == Init => IInv
<1> SUFFICES ASSUME Init
             PROVE  IInv
  OBVIOUS
<1>1. PICK l \in Loads :
        /\ call = [k \in Calls |-> [Idle EXCEPT !.pc = IF k \in l.calls THEN "idle" ELSE "unused"]]
        /\ srv = [seq |-> 0, got |-> {}, left |-> l.updates, notes |-> l.notes]
        /\ faults = l.faults
  BY DEF Init
<1>2. l.notes \in BOOLEAN /\ l.updates \in Nat /\ l.faults \in Nat
  BY LoadAssumption
<1>3. WireInv
  <2>1. \A S : <<>> \in Seq(S)
    BY SMT
  <2>2. Len(<<>>) = 0
    OBVIOUS
  <2>3. QED
    BY <1>1, <1>2, <2>1, <2>2, CapAssumption, SMT DEF Init, WireInv
<1>4. ConnInv /\ GapInv
  BY DEF Init, ConnInv, GapInv, Shaking, Serving
<1>5. CallInv
  <2>1. ASSUME NEW k \in Calls
        PROVE  /\ call[k] \in CallState /\ call[k].pc \in {"idle", "unused"}
               /\ call[k].resp = <<>> /\ call[k].upd = <<>>
    <3>1. call[k] = [Idle EXCEPT !.pc = IF k \in l.calls THEN "idle" ELSE "unused"]
      BY <1>1
    <3>2. /\ call[k].pc \in {"idle", "unused"} /\ call[k].coid = None
          /\ call[k].resp = <<>> /\ call[k].upd = <<>>
          /\ call[k] = [pc |-> call[k].pc, coid |-> None, resp |-> <<>>, upd |-> <<>>]
      BY <3>1 DEF Idle
    <3>3. \A S : <<>> \in Seq(S)
      BY SMT
    <3>4. QED
      BY <3>2, <3>3 DEF CallState, Where
  <2>2. pending = {} /\ waiters = [x \in Coids |-> None]
    BY DEF Init
  <2>3. \A k \in Calls : CallOK(k, call[k], pending, waiters)
    BY <2>1, <2>2, SMT DEF CallOK, Watching
  <2>4. call \in [Calls -> CallState]
    BY <1>1, <2>1
  <2>5. QED
    BY <2>2, <2>3, <2>4 DEF CallInv
<1>6. QED
  BY <1>3, <1>4, <1>5 DEF IInv

\* Every step of the session, its callers, the server and the network keeps the
\* inductive invariant.
THEOREM SessionSound == Spec => []IInv
<1>1. Init => IInv
  BY InitSound
<1>2. IInv /\ [Next]_vars => IInv'
  BY WireStep, ConnStep, GapStep, CallStep DEF IInv
<1>3. QED
  BY <1>1, <1>2, PTL DEF Spec

\* For any calls, client order ids and capacities: no call is lost from the
\* tables of commands and watched orders, whoever delivers an answer, an update
\* or a rejection never blocks, and PlaceOrder returns the order it placed
\* (sendCommand, watchOrder, resolvePending, resolveOrderWaiters, the rejections
\* and unwatchOrder).
THEOREM CallsStayTracked == Spec => []CallsTracked
<1>1. IInv => CallsTracked
  <2> SUFFICES ASSUME IInv
               PROVE  CallsTracked
    OBVIOUS
  <2>1. TypeOK
    BY DEF IInv, WireInv, ConnInv, CallInv, TypeOK
  <2>2. SendNeverBlocks
    BY DEF IInv, CallInv, CallOK, SendNeverBlocks
  <2>3. NobodyForgotten
    BY DEF IInv, CallInv, CallOK, NobodyForgotten, Watching
  <2>4. OwnOrder
    BY DEF IInv, CallInv, CallOK, OwnOrder
  <2>5. QED
    BY <2>1, <2>2, <2>3, <2>4 DEF CallsTracked
<1>2. QED
  BY <1>1, SessionSound, PTL

\* For any number of updates, losses and reconnections: a gap in the numbers of
\* the updates handed to the application is announced first, unless the session
\* is cancelled (handlePayload, sequenceResync, reconnect).
THEOREM SessionGapsAnnounced == Spec => []GapsAnnounced
<1>1. IInv => GapsAnnounced
  BY DEF IInv, GapInv, GapsAnnounced
<1>2. QED
  BY <1>1, SessionSound, PTL

\* Once the reader has ended no connection is open, wherever Close, the heartbeat
\* and a loss met reconnect (readLoop, reconnect, Close).
THEOREM SessionLeaksNothing == Spec => []NothingLeaks
<1>1. IInv => NothingLeaks
  BY DEF IInv, ConnInv, Shaking, Serving, NothingLeaks
<1>2. QED
  BY <1>1, SessionSound, PTL

-----------------------------------------------------------------------------
(*****************************************************************************)
(* PerpsBuilders: the builder terms of a session                             *)
(*****************************************************************************)

BuilderPcs == {"idle", "status", "approvals", "store", "lock", "version", "submit", "approved"}
BuilderTerms == [rate : Nat, version : Nat]

\* The shape of the session, the owner's consents and the calls underway.
BuilderState ==
    [part : {"builder"}, cap : Nat, consents : Seq(Nat), terms : BuilderTerms, addressed : BOOLEAN,
     pc : [BuilderCallers -> BuilderPcs], rate : [BuilderCallers -> Nat],
     read : [BuilderCallers -> BuilderTerms], version : [BuilderCallers -> Nat],
     lock : BuilderCallers \cup {0}, calls : Nat, excused : BOOLEAN, clash : BOOLEAN]

\* The consent in force after some, and terms that keep to theirs.
InForce(consents) == IF consents = <<>> THEN 0 ELSE consents[Len(consents)]
GoodTerms(s, terms) ==
    /\ terms.rate <= s.cap
    /\ terms.rate > 0 => terms.version \in 1..Len(s.consents)
                         /\ terms.rate <= s.consents[terms.version]

\* consentMu is held from the reading of the version to the submission, and
\* so the version that was read is still the next one.
ConsentInv(s) ==
    /\ ~s.clash
    /\ \A c \in BuilderCallers :
          /\ s.pc[c] \in {"version", "submit"} => s.lock = c
          /\ s.pc[c] = "submit" => s.version[c] = Len(s.consents) + 1

\* Terms kept or about to be kept were read from a consent.
TermsInv(s) ==
    /\ GoodTerms(s, s.terms)
    /\ \A c \in BuilderCallers : GoodTerms(s, s.read[c])
    /\ ~s.addressed => s.terms.rate = 0

\* Without overlap and failure the terms follow the consent in force.
FollowInv(s) ==
    ~s.excused =>
        /\ \A c, d \in BuilderCallers : s.pc[c] # "idle" /\ s.pc[d] # "idle" => c = d
        /\ (\A c \in BuilderCallers : s.pc[c] = "idle") => s.terms.rate <= InForce(s.consents)
        /\ \A c \in BuilderCallers : s.pc[c] = "store" => s.read[c].rate <= InForce(s.consents)

BuilderInv(s) == s \in BuilderState /\ ConsentInv(s) /\ TermsInv(s) /\ FollowInv(s)

\* Another consent leaves the terms read from earlier ones good.
LEMMA TermsStayGood ==
    ASSUME NEW s \in BuilderState, NEW t \in BuilderState, NEW rate \in Nat, t.cap = s.cap,
           t.consents = s.consents \/ t.consents = Append(s.consents, rate),
           NEW terms \in BuilderTerms, GoodTerms(s, terms)
    PROVE  GoodTerms(t, terms)
<1>1. terms.rate \in Nat /\ terms.version \in Nat /\ s.consents \in Seq(Nat)
  BY DEF BuilderTerms, BuilderState
<1>2. CASE t.consents = s.consents
  BY <1>2 DEF GoodTerms
<1>3. CASE t.consents = Append(s.consents, rate)
  <2>1. ASSUME NEW n \in 1..Len(s.consents)
        PROVE  n \in 1..Len(Append(s.consents, rate)) /\ Append(s.consents, rate)[n] = s.consents[n]
    BY <1>1, SMT
  <2>2. QED
    BY <1>3, <2>1 DEF GoodTerms
<1>4. QED
  BY <1>2, <1>3

\* One goroutine moves: what its step must keep to.
OthersKept(s, t, c) ==
    \A d \in BuilderCallers : d # c =>
        t.pc[d] = s.pc[d] /\ t.read[d] = s.read[d] /\ t.version[d] = s.version[d]
ConsentsKept(s, t, c) ==
    \/ t.consents = s.consents
    \/ /\ s.pc[c] = "submit" /\ t.pc[c] \notin {"submit", "store"}
       /\ \E rate \in Nat : t.consents = Append(s.consents, rate)
LockKept(s, t, c) ==
    /\ t.lock = s.lock \/ (t.lock = c /\ s.lock = 0) \/ (t.lock = 0 /\ s.lock = c)
    /\ t.pc[c] \in {"version", "submit"} => t.lock = c
    /\ t.pc[c] = "submit" => t.version[c] = Len(t.consents) + 1
TermsKept(s, t, c) ==
    GoodTerms(s, t.terms) /\ GoodTerms(s, t.read[c]) /\ (~t.addressed => t.terms.rate = 0)
FollowKept(s, t, c) ==
    ~t.excused => /\ \A d \in BuilderCallers : d # c => s.pc[d] = "idle"
                  /\ t.pc[c] = "idle" => t.terms.rate <= InForce(t.consents)
                  /\ t.pc[c] = "store" => t.read[c].rate <= InForce(t.consents)

\* Such a step keeps the invariant.
LEMMA BuilderMoves ==
    ASSUME NEW s, NEW t \in BuilderState, NEW c \in BuilderCallers, BuilderInv(s),
           t.cap = s.cap, ~t.clash, OthersKept(s, t, c), ConsentsKept(s, t, c),
           LockKept(s, t, c), TermsKept(s, t, c), FollowKept(s, t, c)
    PROVE  BuilderInv(t)
<1>1. s \in BuilderState /\ ConsentInv(s) /\ TermsInv(s) /\ FollowInv(s)
  BY DEF BuilderInv
<1>2. PICK rate \in Nat : t.consents = s.consents \/ t.consents = Append(s.consents, rate)
  <2>1. 0 \in Nat
    BY SMT
  <2>2. QED
    BY <2>1 DEF ConsentsKept
<1>3. ConsentInv(t)
  <2>1. SUFFICES ASSUME NEW d \in BuilderCallers, d # c
                 PROVE  /\ t.pc[d] \in {"version", "submit"} => t.lock = d
                        /\ t.pc[d] = "submit" => t.version[d] = Len(t.consents) + 1
    BY DEF ConsentInv, LockKept
  <2>2. t.pc[d] = s.pc[d] /\ t.version[d] = s.version[d]
    BY <2>1 DEF OthersKept
  <2>3. ASSUME s.pc[d] \in {"version", "submit"}
        PROVE  t.lock = d /\ t.consents = s.consents
    <3>1. s.lock = d /\ s.lock # c /\ s.lock # 0
      BY <1>1, <2>1, <2>3, BuilderAssumption DEF ConsentInv
    <3>2. s.pc[c] # "submit"
      BY <1>1, <3>1 DEF ConsentInv
    <3>3. QED
      BY <3>1, <3>2 DEF LockKept, ConsentsKept
  <2>4. QED
    BY <1>1, <2>2, <2>3 DEF ConsentInv
<1>4. TermsInv(t)
  <2>1. t.terms \in BuilderTerms /\ \A d \in BuilderCallers : t.read[d] \in BuilderTerms
    BY DEF BuilderState
  <2>2. GoodTerms(t, t.terms)
    BY <1>1, <1>2, <2>1, TermsStayGood DEF TermsKept
  <2>3. ASSUME NEW d \in BuilderCallers PROVE GoodTerms(t, t.read[d])
    <3>1. GoodTerms(s, t.read[d])
      <4>1. CASE d = c
        BY <4>1 DEF TermsKept
      <4>2. CASE d # c
        BY <1>1, <4>2 DEF TermsInv, OthersKept
      <4>3. QED
        BY <4>1, <4>2
    <3>2. t.read[d] \in BuilderTerms
      BY <2>1
    <3>3. QED
      BY <1>1, <1>2, <3>1, <3>2, TermsStayGood
  <2>4. QED
    BY <2>2, <2>3 DEF TermsInv, TermsKept
<1>5. FollowInv(t)
  <2>1. SUFFICES ASSUME ~t.excused
                 PROVE  /\ \A b, d \in BuilderCallers : t.pc[b] # "idle" /\ t.pc[d] # "idle" => b = d
                        /\ (\A d \in BuilderCallers : t.pc[d] = "idle")
                              => t.terms.rate <= InForce(t.consents)
                        /\ \A d \in BuilderCallers :
                              t.pc[d] = "store" => t.read[d].rate <= InForce(t.consents)
    BY DEF FollowInv
  <2>2. \A d \in BuilderCallers : t.pc[d] # "idle" => d = c
    BY <2>1 DEF FollowKept, OthersKept
  <2>3. \A d \in BuilderCallers : t.pc[d] = "store" => d = c
    BY <2>2
  <2>4. QED
    BY <2>1, <2>2, <2>3 DEF FollowKept
<1>6. QED
  BY <1>3, <1>4, <1>5 DEF BuilderInv

\* A call starts; it is excused when it finds another underway.
LEMMA BuilderStarted ==
    ASSUME st \in BuilderState, NEW c \in BuilderCallers, NEW b, b = BuilderStarts(c)
    PROVE  /\ b \in BuilderState
           /\ b.part = st.part /\ b.cap = st.cap /\ b.consents = st.consents /\ b.terms = st.terms
           /\ b.addressed = st.addressed /\ b.pc = st.pc /\ b.rate = st.rate /\ b.read = st.read
           /\ b.version = st.version /\ b.lock = st.lock /\ b.clash = st.clash
           /\ ~b.excused => ~st.excused /\ \A d \in BuilderCallers : st.pc[d] = "idle"
<1>1. st.calls \in Nat
  BY DEF BuilderState
<1>2. st.calls + 1 \in Nat
  BY <1>1, SMT
<1>3. PICK calls \in Nat, excused \in BOOLEAN :
        /\ b = [st EXCEPT !.calls = calls, !.excused = excused]
        /\ excused = (st.excused \/ \E d \in BuilderCallers : st.pc[d] # "idle")
  BY <1>2 DEF BuilderStarts, BuilderState
<1>4. b \in BuilderState
  <2>1. b = [st EXCEPT !.calls = calls, !.excused = excused]
    BY <1>3
  <2>2. QED
    BY <2>1 DEF BuilderState
<1>5. /\ b.part = st.part /\ b.cap = st.cap /\ b.consents = st.consents /\ b.terms = st.terms
      /\ b.addressed = st.addressed /\ b.pc = st.pc /\ b.rate = st.rate /\ b.read = st.read
      /\ b.version = st.version /\ b.lock = st.lock /\ b.clash = st.clash
      /\ b.excused = excused
  BY <1>3 DEF BuilderState
<1>6. QED
  BY <1>3, <1>4, <1>5

\* A call fails: it lets go of consentMu and is an excuse from then on.
LEMMA BuilderFailed ==
    ASSUME NEW s \in BuilderState, NEW c \in BuilderCallers, NEW b, b = BuilderFails(s, c)
    PROVE  /\ b \in BuilderState
           /\ b.part = s.part /\ b.cap = s.cap /\ b.consents = s.consents /\ b.terms = s.terms
           /\ b.addressed = s.addressed /\ b.rate = s.rate /\ b.read = s.read
           /\ b.version = s.version /\ b.clash = s.clash /\ b.excused
           /\ b.pc[c] = "idle" /\ \A d \in BuilderCallers : d # c => b.pc[d] = s.pc[d]
           /\ (s.lock = c /\ b.lock = 0) \/ (s.lock # c /\ b.lock = s.lock)
<1>1. s.pc \in [BuilderCallers -> BuilderPcs] /\ s.lock \in BuilderCallers \cup {0}
  BY DEF BuilderState
<1>2. PICK pc, lock :
        /\ b = [s EXCEPT !.pc = pc, !.excused = TRUE, !.lock = lock]
        /\ pc = [s.pc EXCEPT ![c] = "idle"] /\ lock = IF s.lock = c THEN 0 ELSE s.lock
  BY DEF BuilderFails, BuilderState
<1>3. pc \in [BuilderCallers -> BuilderPcs] /\ lock \in BuilderCallers \cup {0}
  BY <1>1, <1>2 DEF BuilderPcs
<1>4. pc[c] = "idle" /\ \A d \in BuilderCallers : d # c => pc[d] = s.pc[d]
  BY <1>1, <1>2
<1>5. b \in BuilderState
  BY <1>2, <1>3 DEF BuilderState
<1>6. /\ b.part = s.part /\ b.cap = s.cap /\ b.consents = s.consents /\ b.terms = s.terms
      /\ b.addressed = s.addressed /\ b.rate = s.rate /\ b.read = s.read
      /\ b.version = s.version /\ b.clash = s.clash /\ b.excused /\ b.pc = pc /\ b.lock = lock
  BY <1>2 DEF BuilderState
<1>7. (s.lock = c /\ b.lock = 0) \/ (s.lock # c /\ b.lock = s.lock)
  BY <1>2, <1>6
<1>8. b.pc[c] = "idle" /\ \A d \in BuilderCallers : d # c => b.pc[d] = s.pc[d]
  BY <1>4, <1>6
<1>9. QED
  BY <1>5, <1>6, <1>7, <1>8

\* A call that fails changes nothing else.
LEMMA BuilderFailsStep ==
    ASSUME BuilderInv(st), NEW c \in BuilderCallers, st' = BuilderFails(st, c)
    PROVE  BuilderInv(st')
<1>1. st \in BuilderState /\ TermsInv(st) /\ ConsentInv(st)
  BY DEF BuilderInv
<1>2. /\ st' \in BuilderState
      /\ st'.cap = st.cap /\ st'.consents = st.consents /\ st'.terms = st.terms
      /\ st'.addressed = st.addressed /\ st'.rate = st.rate /\ st'.read = st.read
      /\ st'.version = st.version /\ st'.clash = st.clash /\ st'.excused
      /\ st'.pc[c] = "idle" /\ \A d \in BuilderCallers : d # c => st'.pc[d] = st.pc[d]
      /\ (st.lock = c /\ st'.lock = 0) \/ (st.lock # c /\ st'.lock = st.lock)
  <2>1. st \in BuilderState /\ st' = BuilderFails(st, c)
    BY <1>1
  <2>2. QED
    BY ONLY <2>1, c \in BuilderCallers, BuilderFailed
<1>3. OthersKept(st, st', c) /\ ConsentsKept(st, st', c) /\ LockKept(st, st', c)
  BY <1>2 DEF OthersKept, ConsentsKept, LockKept
<1>4. ~st'.clash /\ TermsKept(st, st', c) /\ FollowKept(st, st', c)
  BY <1>1, <1>2 DEF TermsInv, ConsentInv, TermsKept, FollowKept
<1>5. QED
  BY <1>2, <1>3, <1>4, BuilderMoves

\* NoTerms is good.
LEMMA NoTermsGood ==
    ASSUME NEW s \in BuilderState
    PROVE  NoTerms \in BuilderTerms /\ NoTerms.rate = 0 /\ GoodTerms(s, NoTerms)
<1>1. NoTerms \in BuilderTerms /\ NoTerms.rate = 0
  BY SMT DEF NoTerms, BuilderTerms
<1>2. s.cap \in Nat
  BY DEF BuilderState
<1>3. 0 <= s.cap /\ ~(0 > 0)
  BY <1>2, SMT
<1>4. QED
  BY <1>1, <1>3 DEF GoodTerms

\* The consent in force is a rate.
LEMMA InForceType ==
    ASSUME NEW consents \in Seq(Nat) PROVE InForce(consents) \in Nat /\ 0 <= InForce(consents)
<1>1. consents # <<>> => consents[Len(consents)] \in Nat
  BY SMT
<1>2. \A n \in Nat : 0 <= n
  BY SMT
<1>3. 0 \in Nat
  BY SMT
<1>4. QED
  BY <1>1, <1>2, <1>3 DEF InForce

\* RefreshBuilder, and the start of an approval.
LEMMA BuilderCallStep ==
    ASSUME BuilderInv(st), NEW c \in BuilderCallers, RefreshBuilder(c) \/ ApproveBuilderFee(c)
    PROVE  BuilderInv(st')
<1> DEFINE b == BuilderStarts(c)
<1>1. st \in BuilderState /\ TermsInv(st) /\ ConsentInv(st) /\ FollowInv(st) /\ st.pc[c] = "idle"
  BY DEF BuilderInv, RefreshBuilder, ApproveBuilderFee, BuilderAt
<1>2. /\ b \in BuilderState
      /\ b.part = st.part /\ b.cap = st.cap /\ b.consents = st.consents /\ b.terms = st.terms
      /\ b.addressed = st.addressed /\ b.pc = st.pc /\ b.rate = st.rate /\ b.read = st.read
      /\ b.version = st.version /\ b.lock = st.lock /\ b.clash = st.clash
      /\ ~b.excused => ~st.excused /\ \A d \in BuilderCallers : st.pc[d] = "idle"
  BY <1>1, BuilderStarted
<1> HIDE DEF b
<1>3. NoTerms \in BuilderTerms /\ NoTerms.rate = 0 /\ GoodTerms(st, NoTerms)
  BY <1>1, NoTermsGood
<1>4. 0 <= InForce(st.consents)
  BY <1>1, InForceType DEF BuilderState
<1>5. ASSUME NEW pc \in {"status", "lock"}, NEW rate \in Nat,
             st' = [b EXCEPT !.pc[c] = pc, !.rate[c] = rate]
                \/ st' = [b EXCEPT !.pc[c] = pc]
      PROVE  BuilderInv(st')
  <2>1. b.pc \in [BuilderCallers -> BuilderPcs] /\ b.rate \in [BuilderCallers -> Nat]
    BY <1>2 DEF BuilderState
  <2>2. PICK pcs, rates :
          /\ st' = [b EXCEPT !.pc = pcs, !.rate = rates]
          /\ pcs = [b.pc EXCEPT ![c] = pc] /\ rates \in {b.rate, [b.rate EXCEPT ![c] = rate]}
    <3>1. CASE st' = [b EXCEPT !.pc[c] = pc]
      <4>1. st' = [b EXCEPT !.pc = [b.pc EXCEPT ![c] = pc], !.rate = b.rate]
        BY <1>2, <3>1 DEF BuilderState
      <4>2. QED
        BY <4>1
    <3>2. CASE st' = [b EXCEPT !.pc[c] = pc, !.rate[c] = rate]
      <4>1. st' = [b EXCEPT !.pc = [b.pc EXCEPT ![c] = pc], !.rate = [b.rate EXCEPT ![c] = rate]]
        BY <1>2, <3>2 DEF BuilderState
      <4>2. QED
        BY <4>1
    <3>3. QED
      BY <1>5, <3>1, <3>2
  <2>3. pcs \in [BuilderCallers -> BuilderPcs] /\ rates \in [BuilderCallers -> Nat]
    BY <2>1, <2>2 DEF BuilderPcs
  <2>4. st' \in BuilderState
    BY <1>2, <2>2, <2>3 DEF BuilderState
  <2>5. /\ st'.pc = pcs
        /\ st'.cap = b.cap /\ st'.consents = b.consents /\ st'.terms = b.terms
        /\ st'.addressed = b.addressed /\ st'.read = b.read
        /\ st'.version = b.version /\ st'.lock = b.lock /\ st'.clash = b.clash
        /\ st'.excused = b.excused
    BY <1>2, <2>2 DEF BuilderState
  <2>6. st'.pc[c] = pc /\ \A d \in BuilderCallers : d # c => st'.pc[d] = st.pc[d]
    <3>1. pcs = [b.pc EXCEPT ![c] = pc] /\ st'.pc = pcs /\ b.pc = st.pc
      BY <1>2, <2>2, <2>5
    <3>2. QED
      BY <2>1, <3>1
  <2>7. OthersKept(st, st', c) /\ ConsentsKept(st, st', c) /\ LockKept(st, st', c)
    BY <1>2, <2>5, <2>6 DEF OthersKept, ConsentsKept, LockKept
  <2>8. ~st'.clash /\ st'.cap = st.cap /\ TermsKept(st, st', c)
    BY <1>1, <1>2, <2>5 DEF TermsInv, ConsentInv, TermsKept
  <2>8a. FollowKept(st, st', c)
    <3>1. st'.pc[c] \notin {"idle", "store"}
      BY <2>6
    <3>2. ~st'.excused => \A d \in BuilderCallers : st.pc[d] = "idle"
      BY <1>2, <2>5
    <3>3. QED
      BY <3>1, <3>2 DEF FollowKept
  <2>9. QED
    BY <2>4, <2>7, <2>8, <2>8a, BuilderMoves
<1>6. CASE st' = [b EXCEPT !.terms = NoTerms, !.addressed = FALSE]
  <2>1. st' \in BuilderState
    BY <1>2, <1>3, <1>6 DEF BuilderState
  <2>2. /\ st'.pc = st.pc
        /\ st'.cap = st.cap /\ st'.consents = st.consents /\ st'.terms = NoTerms
        /\ st'.read = st.read
        /\ st'.version = st.version /\ st'.lock = st.lock /\ st'.clash = st.clash
        /\ st'.excused = b.excused
    BY <1>2, <1>6 DEF BuilderState
  <2>3. OthersKept(st, st', c) /\ ConsentsKept(st, st', c) /\ LockKept(st, st', c)
    BY <1>1, <2>2 DEF OthersKept, ConsentsKept, LockKept
  <2>4. st'.terms.rate = 0 /\ 0 <= InForce(st'.consents) /\ st'.pc[c] = "idle"
    BY <1>1, <1>3, <1>4, <2>2
  <2>5. ~st'.clash /\ TermsKept(st, st', c) /\ FollowKept(st, st', c)
    BY <1>1, <1>2, <1>3, <2>2, <2>4 DEF TermsInv, ConsentInv, TermsKept, FollowKept
  <2>6. QED
    BY <2>1, <2>2, <2>3, <2>5, BuilderMoves
<1>7. CASE RefreshBuilder(c)
  <2>1. 0 \in Nat
    BY SMT
  <2>2. QED
    BY <1>5, <1>6, <1>7, <2>1 DEF RefreshBuilder, b
<1>8. CASE ApproveBuilderFee(c)
  <2>1. FeeRates \subseteq Nat
    BY BuilderAssumption
  <2>2. QED
    BY <1>5, <1>8, <2>1 DEF ApproveBuilderFee, b
<1>9. QED
  BY <1>7, <1>8

\* Without an excuse a call underway is alone.
LEMMA BuilderAlone ==
    ASSUME BuilderInv(st), NEW c \in BuilderCallers, st.pc[c] # "idle"
    PROVE  ~st.excused => \A d \in BuilderCallers : d # c => st.pc[d] = "idle"
BY DEF BuilderInv, FollowInv

\* The rate that is read keeps to the cap and to the consent in force.
LEMMA RateRead ==
    ASSUME NEW s \in BuilderState,
           NEW rate, rate = IF s.cap < InForce(s.consents) THEN s.cap ELSE InForce(s.consents),
           NEW terms, terms = IF rate = 0 THEN NoTerms
                              ELSE [rate |-> rate, version |-> Len(s.consents)]
    PROVE  terms \in BuilderTerms /\ GoodTerms(s, terms) /\ terms.rate <= InForce(s.consents)
<1>1. s.cap \in Nat /\ s.consents \in Seq(Nat) /\ Len(s.consents) \in Nat
      /\ InForce(s.consents) \in Nat /\ 0 <= InForce(s.consents)
  <2>1. s.cap \in Nat /\ s.consents \in Seq(Nat)
    BY DEF BuilderState
  <2>2. QED
    BY <2>1, InForceType, SMT
<1>2. rate \in Nat /\ rate <= s.cap /\ rate <= InForce(s.consents)
  BY <1>1, SMT
<1>3. CASE rate = 0
  BY <1>1, <1>3, NoTermsGood
<1>4. CASE rate # 0
  <2>1. terms = [rate |-> rate, version |-> Len(s.consents)]
    BY <1>4
  <2>2. terms \in BuilderTerms /\ terms.rate = rate /\ terms.version = Len(s.consents)
    <3>1. rate \in Nat /\ Len(s.consents) \in Nat
      BY <1>1, <1>2
    <3>2. terms \in BuilderTerms
      BY ONLY <2>1, <3>1 DEF BuilderTerms
    <3>3. QED
      BY ONLY <2>1, <3>2
  <2>3. s.consents # <<>>
    <3>1. SUFFICES ASSUME s.consents = <<>> PROVE FALSE
      OBVIOUS
    <3>2. rate <= 0
      BY <1>2, <3>1 DEF InForce
    <3>3. QED
      BY <1>2, <1>4, <3>2, SMT
  <2>4. InForce(s.consents) = s.consents[Len(s.consents)]
    BY <2>3 DEF InForce
  <2>5. Len(s.consents) \in 1..Len(s.consents)
    BY <1>1, <2>3, SMT
  <2>6. QED
    BY <1>2, <2>2, <2>4, <2>5 DEF GoodTerms
<1>5. QED
  BY <1>3, <1>4

\* The builder's status is read.
LEMMA ResolveStatusStep ==
    ASSUME BuilderInv(st), NEW c \in BuilderCallers, resolveStatus(c) PROVE BuilderInv(st')
<1>1. /\ st \in BuilderState /\ ConsentInv(st) /\ TermsInv(st) /\ FollowInv(st)
      /\ st.pc[c] = "status"
  BY DEF BuilderInv, resolveStatus, BuilderAt
<1>2. /\ st.pc \in [BuilderCallers -> BuilderPcs] /\ st.read \in [BuilderCallers -> BuilderTerms]
      /\ st.version \in [BuilderCallers -> Nat] /\ st.lock \in BuilderCallers \cup {0}
      /\ st.consents \in Seq(Nat) /\ st.terms \in BuilderTerms /\ st.addressed \in BOOLEAN
      /\ st.rate \in [BuilderCallers -> Nat]
  BY <1>1 DEF BuilderState
<1>3. ~st.excused => \A d \in BuilderCallers : d # c => st.pc[d] = "idle"
  BY <1>1, BuilderAlone
<1>4. SUFFICES ASSUME st' # BuilderFails(st, c) PROVE BuilderInv(st')
  BY BuilderFailsStep
<1>5. PICK pcs : st' = [st EXCEPT !.pc = pcs] /\ pcs = [st.pc EXCEPT ![c] = "approvals"]
  BY <1>1, <1>4 DEF resolveStatus, BuilderState
<1>6. /\ pcs \in [BuilderCallers -> BuilderPcs] /\ pcs[c] = "approvals"
      /\ \A d \in BuilderCallers : d # c => pcs[d] = st.pc[d]
  BY <1>2, <1>5 DEF BuilderPcs
<1>7. st' = [st EXCEPT !.pc = pcs]
  BY <1>5
<1>8. st' \in BuilderState
  <2>1. st \in BuilderState
    BY <1>1, <1>2
  <2>2. QED
    BY <1>6, <1>7, <2>1 DEF BuilderState
<1>9. /\ st'.pc = pcs /\ st'.cap = st.cap /\ st'.consents = st.consents /\ st'.terms = st.terms
      /\ st'.addressed = st.addressed /\ st'.read = st.read /\ st'.version = st.version
      /\ st'.lock = st.lock /\ st'.clash = st.clash /\ st'.excused = st.excused
  <2>1. st \in BuilderState
    BY <1>1
  <2>2. QED
    BY <1>7, <2>1 DEF BuilderState
<1>10. OthersKept(st, st', c) /\ ConsentsKept(st, st', c) /\ LockKept(st, st', c)
  BY <1>1, <1>6, <1>9 DEF OthersKept, ConsentsKept, LockKept, ConsentInv
<1>11. ~st'.clash /\ TermsKept(st, st', c)
  BY <1>1, <1>9 DEF ConsentInv, TermsKept, TermsInv
<1>12. FollowKept(st, st', c)
  BY <1>1, <1>3, <1>6, <1>9 DEF FollowKept, FollowInv
<1>13. QED
  BY ONLY <1>8, <1>9, <1>10, <1>11, <1>12, BuilderInv(st), c \in BuilderCallers, BuilderMoves

\* The saved consent is read.
LEMMA ResolveBuilderStep ==
    ASSUME BuilderInv(st), NEW c \in BuilderCallers, resolveBuilder(c) PROVE BuilderInv(st')
<1>1. /\ st \in BuilderState /\ ConsentInv(st) /\ TermsInv(st) /\ FollowInv(st)
      /\ st.pc[c] = "approvals"
  BY DEF BuilderInv, resolveBuilder, BuilderAt
<1>2. /\ st.pc \in [BuilderCallers -> BuilderPcs] /\ st.read \in [BuilderCallers -> BuilderTerms]
      /\ st.version \in [BuilderCallers -> Nat] /\ st.lock \in BuilderCallers \cup {0}
      /\ st.consents \in Seq(Nat) /\ st.terms \in BuilderTerms /\ st.addressed \in BOOLEAN
      /\ st.rate \in [BuilderCallers -> Nat]
  BY <1>1 DEF BuilderState
<1>3. ~st.excused => \A d \in BuilderCallers : d # c => st.pc[d] = "idle"
  BY <1>1, BuilderAlone
<1>4. SUFFICES ASSUME st' # BuilderFails(st, c) PROVE BuilderInv(st')
  BY BuilderFailsStep
<1>5. PICK pcs, reads, terms :
        /\ st' = [st EXCEPT !.pc = pcs, !.read = reads]
        /\ pcs = [st.pc EXCEPT ![c] = "store"] /\ reads = [st.read EXCEPT ![c] = terms]
        /\ terms \in BuilderTerms /\ GoodTerms(st, terms) /\ terms.rate <= InForce(st.consents)
  <2>1. Consent = InForce(st.consents)
    BY DEF Consent, InForce
  <2>2. PICK rate, terms :
          /\ rate = IF st.cap < InForce(st.consents) THEN st.cap ELSE InForce(st.consents)
          /\ terms = IF rate = 0 THEN NoTerms ELSE [rate |-> rate, version |-> Len(st.consents)]
          /\ st' = [st EXCEPT !.pc[c] = "store", !.read[c] = terms]
    BY <1>4, <2>1 DEF resolveBuilder
  <2>3. terms \in BuilderTerms /\ GoodTerms(st, terms) /\ terms.rate <= InForce(st.consents)
    BY <1>1, <2>2, RateRead
  <2>4. st' = [st EXCEPT !.pc = [st.pc EXCEPT ![c] = "store"],
                         !.read = [st.read EXCEPT ![c] = terms]]
    BY <1>1, <2>2 DEF BuilderState
  <2>5. QED
    BY <2>3, <2>4
<1>5a. /\ reads \in [BuilderCallers -> BuilderTerms] /\ reads[c] = terms
       /\ \A d \in BuilderCallers : d # c => reads[d] = st.read[d]
  BY <1>2, <1>5
<1>6. /\ pcs \in [BuilderCallers -> BuilderPcs] /\ pcs[c] = "store"
      /\ \A d \in BuilderCallers : d # c => pcs[d] = st.pc[d]
  BY <1>2, <1>5 DEF BuilderPcs
<1>7. st' = [st EXCEPT !.pc = pcs, !.read = reads]
  BY <1>5
<1>8. st' \in BuilderState
  <2>1. st \in BuilderState /\ reads \in [BuilderCallers -> BuilderTerms]
    BY <1>1, <1>2, <1>5a
  <2>2. QED
    BY <1>6, <1>7, <2>1 DEF BuilderState
<1>9. /\ st'.pc = pcs /\ st'.cap = st.cap /\ st'.consents = st.consents /\ st'.terms = st.terms
      /\ st'.addressed = st.addressed /\ st'.read = reads /\ st'.version = st.version
      /\ st'.lock = st.lock /\ st'.clash = st.clash /\ st'.excused = st.excused
  <2>1. st \in BuilderState
    BY <1>1
  <2>2. QED
    BY <1>7, <2>1 DEF BuilderState
<1>10. OthersKept(st, st', c) /\ ConsentsKept(st, st', c) /\ LockKept(st, st', c)
  BY <1>1, <1>6, <1>9, <1>5a DEF OthersKept, ConsentsKept, LockKept, ConsentInv
<1>11. ~st'.clash /\ TermsKept(st, st', c)
  BY <1>1, <1>9, <1>5, <1>5a DEF ConsentInv, TermsKept, TermsInv
<1>12. FollowKept(st, st', c)
  BY <1>1, <1>3, <1>6, <1>9, <1>5, <1>5a DEF FollowKept, FollowInv
<1>13. QED
  BY ONLY <1>8, <1>9, <1>10, <1>11, <1>12, BuilderInv(st), c \in BuilderCallers, BuilderMoves

\* The session takes the terms that were read.
LEMMA StoreTermsStep ==
    ASSUME BuilderInv(st), NEW c \in BuilderCallers, storeTerms(c) PROVE BuilderInv(st')
<1>1. /\ st \in BuilderState /\ ConsentInv(st) /\ TermsInv(st) /\ FollowInv(st)
      /\ st.pc[c] = "store"
  BY DEF BuilderInv, storeTerms, BuilderAt
<1>2. /\ st.pc \in [BuilderCallers -> BuilderPcs] /\ st.read \in [BuilderCallers -> BuilderTerms]
      /\ st.version \in [BuilderCallers -> Nat] /\ st.lock \in BuilderCallers \cup {0}
      /\ st.consents \in Seq(Nat) /\ st.terms \in BuilderTerms /\ st.addressed \in BOOLEAN
      /\ st.rate \in [BuilderCallers -> Nat]
  BY <1>1 DEF BuilderState
<1>3. ~st.excused => \A d \in BuilderCallers : d # c => st.pc[d] = "idle"
  BY <1>1, BuilderAlone
<1>5. PICK pcs, terms :
        /\ st' = [st EXCEPT !.pc = pcs, !.terms = terms, !.addressed = TRUE]
        /\ pcs = [st.pc EXCEPT ![c] = "idle"] /\ terms = st.read[c]
  BY <1>1 DEF storeTerms, BuilderState
<1>6. /\ pcs \in [BuilderCallers -> BuilderPcs] /\ pcs[c] = "idle"
      /\ \A d \in BuilderCallers : d # c => pcs[d] = st.pc[d]
  BY <1>2, <1>5 DEF BuilderPcs
<1>7. st' = [st EXCEPT !.pc = pcs, !.terms = terms, !.addressed = TRUE]
  BY <1>5
<1>8. st' \in BuilderState
  <2>1. st \in BuilderState /\ terms \in BuilderTerms
    BY <1>1, <1>2, <1>5
  <2>2. QED
    BY <1>6, <1>7, <2>1 DEF BuilderState
<1>9. /\ st'.pc = pcs /\ st'.cap = st.cap /\ st'.consents = st.consents /\ st'.terms = terms
      /\ st'.addressed = TRUE /\ st'.read = st.read /\ st'.version = st.version
      /\ st'.lock = st.lock /\ st'.clash = st.clash /\ st'.excused = st.excused
  <2>1. st \in BuilderState
    BY <1>1
  <2>2. QED
    BY <1>7, <2>1 DEF BuilderState
<1>10. OthersKept(st, st', c) /\ ConsentsKept(st, st', c) /\ LockKept(st, st', c)
  BY <1>1, <1>6, <1>9 DEF OthersKept, ConsentsKept, LockKept, ConsentInv
<1>11. ~st'.clash /\ TermsKept(st, st', c)
  BY <1>1, <1>9, <1>5 DEF ConsentInv, TermsKept, TermsInv
<1>12. FollowKept(st, st', c)
  <2>1. ~st.excused => terms.rate <= InForce(st.consents)
    BY <1>1, <1>5 DEF FollowInv
  <2>2. QED
    BY <1>3, <1>6, <1>9, <2>1 DEF FollowKept
<1>13. QED
  BY ONLY <1>8, <1>9, <1>10, <1>11, <1>12, BuilderInv(st), c \in BuilderCallers, BuilderMoves

\* consentMu is taken when it is free.
LEMMA LockConsentStep ==
    ASSUME BuilderInv(st), NEW c \in BuilderCallers, lockConsent(c) PROVE BuilderInv(st')
<1>1. /\ st \in BuilderState /\ ConsentInv(st) /\ TermsInv(st) /\ FollowInv(st)
      /\ st.pc[c] = "lock"
  BY DEF BuilderInv, lockConsent, BuilderAt
<1>2. /\ st.pc \in [BuilderCallers -> BuilderPcs] /\ st.read \in [BuilderCallers -> BuilderTerms]
      /\ st.version \in [BuilderCallers -> Nat] /\ st.lock \in BuilderCallers \cup {0}
      /\ st.consents \in Seq(Nat) /\ st.terms \in BuilderTerms /\ st.addressed \in BOOLEAN
      /\ st.rate \in [BuilderCallers -> Nat]
  BY <1>1 DEF BuilderState
<1>3. ~st.excused => \A d \in BuilderCallers : d # c => st.pc[d] = "idle"
  BY <1>1, BuilderAlone
<1>5. PICK pcs :
        /\ st' = [st EXCEPT !.pc = pcs, !.lock = c] /\ st.lock = 0
        /\ pcs = [st.pc EXCEPT ![c] = "version"]
  BY <1>1 DEF lockConsent, BuilderState
<1>6. /\ pcs \in [BuilderCallers -> BuilderPcs] /\ pcs[c] = "version"
      /\ \A d \in BuilderCallers : d # c => pcs[d] = st.pc[d]
  BY <1>2, <1>5 DEF BuilderPcs
<1>7. st' = [st EXCEPT !.pc = pcs, !.lock = c]
  BY <1>5
<1>8. st' \in BuilderState
  <2>1. st \in BuilderState
    BY <1>1, <1>2
  <2>2. QED
    BY <1>6, <1>7, <2>1 DEF BuilderState
<1>9. /\ st'.pc = pcs /\ st'.cap = st.cap /\ st'.consents = st.consents /\ st'.terms = st.terms
      /\ st'.addressed = st.addressed /\ st'.read = st.read /\ st'.version = st.version
      /\ st'.lock = c /\ st'.clash = st.clash /\ st'.excused = st.excused
  <2>1. st \in BuilderState
    BY <1>1
  <2>2. QED
    BY <1>7, <2>1 DEF BuilderState
<1>10. OthersKept(st, st', c) /\ ConsentsKept(st, st', c) /\ LockKept(st, st', c)
  <2>1. OthersKept(st, st', c) /\ ConsentsKept(st, st', c)
    BY <1>6, <1>9 DEF OthersKept, ConsentsKept
  <2>2. st.lock = 0 /\ st'.lock = c /\ st'.pc[c] = "version"
    BY <1>5, <1>6, <1>9
  <2>3. QED
    BY <2>1, <2>2 DEF LockKept
<1>11. ~st'.clash /\ TermsKept(st, st', c)
  BY <1>1, <1>9 DEF ConsentInv, TermsKept, TermsInv
<1>12. FollowKept(st, st', c)
  BY <1>1, <1>3, <1>6, <1>9 DEF FollowKept, FollowInv
<1>13. QED
  BY ONLY <1>8, <1>9, <1>10, <1>11, <1>12, BuilderInv(st), c \in BuilderCallers, BuilderMoves

\* The next version is read under consentMu.
LEMMA ReadVersionStep ==
    ASSUME BuilderInv(st), NEW c \in BuilderCallers, readVersion(c) PROVE BuilderInv(st')
<1>1. /\ st \in BuilderState /\ ConsentInv(st) /\ TermsInv(st) /\ FollowInv(st)
      /\ st.pc[c] = "version"
  BY DEF BuilderInv, readVersion, BuilderAt
<1>2. /\ st.pc \in [BuilderCallers -> BuilderPcs] /\ st.read \in [BuilderCallers -> BuilderTerms]
      /\ st.version \in [BuilderCallers -> Nat] /\ st.lock \in BuilderCallers \cup {0}
      /\ st.consents \in Seq(Nat) /\ st.terms \in BuilderTerms /\ st.addressed \in BOOLEAN
      /\ st.rate \in [BuilderCallers -> Nat]
  BY <1>1 DEF BuilderState
<1>3. ~st.excused => \A d \in BuilderCallers : d # c => st.pc[d] = "idle"
  BY <1>1, BuilderAlone
<1>4. SUFFICES ASSUME st' # BuilderFails(st, c) PROVE BuilderInv(st')
  BY BuilderFailsStep
<1>5. PICK pcs, versions :
        /\ st' = [st EXCEPT !.pc = pcs, !.version = versions]
        /\ pcs = [st.pc EXCEPT ![c] = "submit"]
        /\ versions = [st.version EXCEPT ![c] = Len(st.consents) + 1]
  <2>1. st' = [st EXCEPT !.pc[c] = "submit", !.version[c] = Len(st.consents) + 1]
    BY <1>4 DEF readVersion
  <2>2. QED
    BY <1>1, <2>1 DEF BuilderState
<1>5a. Len(st.consents) + 1 \in Nat
  <2>1. st.consents \in Seq(Nat)
    BY <1>2
  <2>2. QED
    BY <2>1, SMT
<1>5b. /\ versions \in [BuilderCallers -> Nat] /\ versions[c] = Len(st.consents) + 1
       /\ \A d \in BuilderCallers : d # c => versions[d] = st.version[d]
  BY <1>2, <1>5, <1>5a
<1>6. /\ pcs \in [BuilderCallers -> BuilderPcs] /\ pcs[c] = "submit"
      /\ \A d \in BuilderCallers : d # c => pcs[d] = st.pc[d]
  BY <1>2, <1>5 DEF BuilderPcs
<1>7. st' = [st EXCEPT !.pc = pcs, !.version = versions]
  BY <1>5
<1>8. st' \in BuilderState
  <2>1. st \in BuilderState /\ versions \in [BuilderCallers -> Nat]
    BY <1>1, <1>2, <1>5b
  <2>2. QED
    BY <1>6, <1>7, <2>1 DEF BuilderState
<1>9. /\ st'.pc = pcs /\ st'.cap = st.cap /\ st'.consents = st.consents /\ st'.terms = st.terms
      /\ st'.addressed = st.addressed /\ st'.read = st.read /\ st'.version = versions
      /\ st'.lock = st.lock /\ st'.clash = st.clash /\ st'.excused = st.excused
  <2>1. st \in BuilderState
    BY <1>1
  <2>2. QED
    BY <1>7, <2>1 DEF BuilderState
<1>10. OthersKept(st, st', c) /\ ConsentsKept(st, st', c) /\ LockKept(st, st', c)
  BY <1>1, <1>6, <1>9, <1>5b DEF OthersKept, ConsentsKept, LockKept, ConsentInv
<1>11. ~st'.clash /\ TermsKept(st, st', c)
  BY <1>1, <1>9 DEF ConsentInv, TermsKept, TermsInv
<1>12. FollowKept(st, st', c)
  BY <1>1, <1>3, <1>6, <1>9 DEF FollowKept, FollowInv
<1>13. QED
  BY ONLY <1>8, <1>9, <1>10, <1>11, <1>12, BuilderInv(st), c \in BuilderCallers, BuilderMoves

\* An approval goes on to refresh the terms; a revocation ends them.
LEMMA AfterApprovalStep ==
    ASSUME BuilderInv(st), NEW c \in BuilderCallers, afterApproval(c) PROVE BuilderInv(st')
<1>1. /\ st \in BuilderState /\ ConsentInv(st) /\ TermsInv(st) /\ FollowInv(st)
      /\ st.pc[c] = "approved"
  BY DEF BuilderInv, afterApproval, BuilderAt
<1>2. /\ st.pc \in [BuilderCallers -> BuilderPcs] /\ st.read \in [BuilderCallers -> BuilderTerms]
      /\ st.version \in [BuilderCallers -> Nat] /\ st.lock \in BuilderCallers \cup {0}
      /\ st.consents \in Seq(Nat) /\ st.terms \in BuilderTerms /\ st.addressed \in BOOLEAN
      /\ st.rate \in [BuilderCallers -> Nat]
  BY <1>1 DEF BuilderState
<1>3. ~st.excused => \A d \in BuilderCallers : d # c => st.pc[d] = "idle"
  BY <1>1, BuilderAlone
<1>4. 0 <= InForce(st.consents) /\ NoTerms \in BuilderTerms /\ NoTerms.rate = 0
      /\ GoodTerms(st, NoTerms)
  BY <1>1, <1>2, InForceType, NoTermsGood
<1>5. PICK pcs, terms, addressed :
        /\ st' = [st EXCEPT !.pc = pcs, !.terms = terms, !.addressed = addressed]
        /\ \/ pcs = [st.pc EXCEPT ![c] = "status"] /\ terms = st.terms /\ addressed = st.addressed
           \/ pcs = [st.pc EXCEPT ![c] = "idle"] /\ terms = NoTerms /\ addressed = FALSE
           \/ /\ pcs = [st.pc EXCEPT ![c] = "idle"] /\ terms = st.terms
              /\ addressed = st.addressed /\ ~st.addressed
  <2>1. CASE st' = [st EXCEPT !.pc[c] = "status"]
    <3>1. st' = [st EXCEPT !.pc = [st.pc EXCEPT ![c] = "status"], !.terms = st.terms,
                           !.addressed = st.addressed]
      BY <1>1, <2>1 DEF BuilderState
    <3>2. QED
      BY <3>1
  <2>2. CASE st' = [st EXCEPT !.pc[c] = "idle", !.terms = NoTerms, !.addressed = FALSE]
    <3>1. st' = [st EXCEPT !.pc = [st.pc EXCEPT ![c] = "idle"], !.terms = NoTerms,
                           !.addressed = FALSE]
      BY <1>1, <2>2 DEF BuilderState
    <3>2. QED
      BY <3>1
  <2>3. CASE ~st.addressed /\ st' = [st EXCEPT !.pc[c] = "idle"]
    <3>1. st' = [st EXCEPT !.pc = [st.pc EXCEPT ![c] = "idle"], !.terms = st.terms,
                           !.addressed = st.addressed]
      BY <1>1, <2>3 DEF BuilderState
    <3>2. QED
      BY <2>3, <3>1
  <2>4. QED
    BY <2>1, <2>2, <2>3 DEF afterApproval
<1>5a. /\ terms \in BuilderTerms /\ addressed \in BOOLEAN /\ GoodTerms(st, terms)
       /\ ~addressed => terms.rate = 0
  BY <1>1, <1>2, <1>4, <1>5 DEF TermsInv
<1>5b. pcs[c] = "idle" => terms.rate <= InForce(st.consents)
  <2>1. pcs[c] = "idle" => terms = NoTerms \/ (~st.addressed /\ terms = st.terms)
    <3>1. pcs = [st.pc EXCEPT ![c] = "status"] => pcs[c] = "status"
      BY <1>2
    <3>2. \/ pcs = [st.pc EXCEPT ![c] = "status"]
          \/ terms = NoTerms \/ (~st.addressed /\ terms = st.terms)
      BY <1>5
    <3>3. QED
      BY <3>1, <3>2
  <2>2. terms = NoTerms \/ (~st.addressed /\ terms = st.terms) => terms.rate = 0
    BY <1>1, <1>4 DEF TermsInv
  <2>3. QED
    BY <1>4, <2>1, <2>2
<1>6. /\ pcs \in [BuilderCallers -> BuilderPcs] /\ pcs[c] \in {"idle", "status"}
      /\ \A d \in BuilderCallers : d # c => pcs[d] = st.pc[d]
  BY <1>2, <1>5 DEF BuilderPcs
<1>7. st' = [st EXCEPT !.pc = pcs, !.terms = terms, !.addressed = addressed]
  BY <1>5
<1>8. st' \in BuilderState
  <2>1. st \in BuilderState /\ terms \in BuilderTerms /\ addressed \in BOOLEAN
    BY <1>1, <1>2, <1>5a
  <2>2. QED
    BY <1>6, <1>7, <2>1 DEF BuilderState
<1>9. /\ st'.pc = pcs /\ st'.cap = st.cap /\ st'.consents = st.consents /\ st'.terms = terms
      /\ st'.addressed = addressed /\ st'.read = st.read /\ st'.version = st.version
      /\ st'.lock = st.lock /\ st'.clash = st.clash /\ st'.excused = st.excused
  <2>1. st \in BuilderState
    BY <1>1
  <2>2. QED
    BY <1>7, <2>1 DEF BuilderState
<1>10. OthersKept(st, st', c) /\ ConsentsKept(st, st', c) /\ LockKept(st, st', c)
  BY <1>1, <1>6, <1>9 DEF OthersKept, ConsentsKept, LockKept, ConsentInv
<1>11. ~st'.clash /\ TermsKept(st, st', c)
  BY <1>1, <1>9, <1>5a DEF ConsentInv, TermsKept, TermsInv
<1>12. FollowKept(st, st', c)
  BY <1>1, <1>3, <1>6, <1>9, <1>5b DEF FollowKept, FollowInv
<1>13. QED
  BY ONLY <1>8, <1>9, <1>10, <1>11, <1>12, BuilderInv(st), c \in BuilderCallers, BuilderMoves

\* The service takes the consent: nobody else has submitted one since the
\* version was read.
LEMMA SubmitConsentStep ==
    ASSUME BuilderInv(st), NEW c \in BuilderCallers, submitConsent(c) PROVE BuilderInv(st')
<1>1. /\ st \in BuilderState /\ ConsentInv(st) /\ TermsInv(st) /\ FollowInv(st)
      /\ st.pc[c] = "submit"
  BY DEF BuilderInv, submitConsent, BuilderAt
<1>2. /\ st.pc \in [BuilderCallers -> BuilderPcs] /\ st.consents \in Seq(Nat)
      /\ st.rate[c] \in Nat
  BY <1>1 DEF BuilderState
<1>3. st.lock = c /\ st.version[c] = Len(st.consents) + 1 /\ c # 0
  BY <1>1, BuilderAssumption DEF ConsentInv
<1>4. SUFFICES ASSUME st' # BuilderFails(st, c) PROVE BuilderInv(st')
  BY BuilderFailsStep
<1>5. PICK saved, consents :
        /\ saved = [st EXCEPT !.lock = 0, !.consents = consents]
        /\ consents = Append(st.consents, st.rate[c])
        /\ st' = BuilderFails(saved, c) \/ st' = [saved EXCEPT !.pc[c] = "approved"]
  <2>1. [[st EXCEPT !.lock = IF @ = c THEN 0 ELSE @] EXCEPT !.consents = Append(@, st.rate[c])]
          = [st EXCEPT !.lock = 0, !.consents = Append(st.consents, st.rate[c])]
    BY <1>1, <1>3 DEF BuilderState
  <2>2. QED
    BY <1>3, <1>4, <2>1 DEF submitConsent
<1>6. consents \in Seq(Nat)
  <2>1. st.consents \in Seq(Nat) /\ st.rate[c] \in Nat /\ consents = Append(st.consents, st.rate[c])
    BY <1>2, <1>5
  <2>2. QED
    BY <2>1, SMT
<1>7. saved \in BuilderState
  <2>1. saved = [st EXCEPT !.lock = 0, !.consents = consents] /\ st \in BuilderState
    BY <1>1, <1>5
  <2>2. QED
    BY <1>6, <2>1 DEF BuilderState
<1>8. /\ saved.cap = st.cap /\ saved.consents = consents /\ saved.terms = st.terms
      /\ saved.addressed = st.addressed /\ saved.read = st.read /\ saved.version = st.version
      /\ saved.lock = 0 /\ saved.clash = st.clash /\ saved.excused = st.excused
      /\ saved.pc = st.pc
  <2>1. saved = [st EXCEPT !.lock = 0, !.consents = consents] /\ st \in BuilderState
    BY <1>1, <1>5
  <2>2. QED
    BY <2>1 DEF BuilderState
<1>9. /\ st' \in BuilderState /\ st'.cap = saved.cap /\ st'.consents = saved.consents
      /\ st'.terms = saved.terms /\ st'.addressed = saved.addressed /\ st'.read = saved.read
      /\ st'.version = saved.version /\ st'.clash = saved.clash
      /\ \A d \in BuilderCallers : d # c => st'.pc[d] = saved.pc[d]
      /\ st'.lock = 0 /\ st'.pc[c] \in {"idle", "approved"}
      /\ st'.pc[c] = "idle" => st'.excused
      /\ ~st'.excused => ~saved.excused
  <2>1. CASE st' = BuilderFails(saved, c)
    <3>1. saved.lock # c
      BY <1>3, <1>8
    <3>2. QED
      BY ONLY <1>7, <1>8, <2>1, <3>1, c \in BuilderCallers, BuilderFailed
  <2>2. CASE st' = [saved EXCEPT !.pc[c] = "approved"]
    <3>1. PICK pcs : /\ st' = [saved EXCEPT !.pc = pcs]
                     /\ pcs = [saved.pc EXCEPT ![c] = "approved"]
      BY <1>7, <2>2 DEF BuilderState
    <3>2. /\ pcs \in [BuilderCallers -> BuilderPcs] /\ pcs[c] = "approved"
          /\ \A d \in BuilderCallers : d # c => pcs[d] = saved.pc[d]
      BY <1>2, <1>8, <3>1 DEF BuilderPcs
    <3>3. st' = [saved EXCEPT !.pc = pcs]
      BY <3>1
    <3>4. st' \in BuilderState
      BY <1>7, <3>2, <3>3 DEF BuilderState
    <3>5. /\ st'.cap = saved.cap /\ st'.consents = saved.consents /\ st'.terms = saved.terms
          /\ st'.addressed = saved.addressed /\ st'.read = saved.read
          /\ st'.version = saved.version /\ st'.clash = saved.clash /\ st'.lock = saved.lock
          /\ st'.excused = saved.excused /\ st'.pc = pcs
      BY <1>7, <3>3 DEF BuilderState
    <3>6. QED
      BY <1>8, <3>2, <3>4, <3>5
  <2>3. QED
    BY <1>5, <2>1, <2>2
<1>10. OthersKept(st, st', c)
  BY <1>8, <1>9 DEF OthersKept
<1>11. ConsentsKept(st, st', c)
  <2>1. st'.consents = Append(st.consents, st.rate[c]) /\ st'.pc[c] \notin {"submit", "store"}
    BY <1>5, <1>8, <1>9
  <2>2. QED
    BY <1>1, <1>2, <2>1 DEF ConsentsKept
<1>12. LockKept(st, st', c)
  <2>1. st'.lock = 0 /\ st.lock = c /\ st'.pc[c] \notin {"version", "submit"}
    BY <1>3, <1>9
  <2>2. QED
    BY <2>1 DEF LockKept
<1>13. ~st'.clash /\ TermsKept(st, st', c)
  BY <1>1, <1>8, <1>9 DEF ConsentInv, TermsKept, TermsInv
<1>14. FollowKept(st, st', c)
  <2>1. ~st.excused => \A d \in BuilderCallers : d # c => st.pc[d] = "idle"
    BY <1>1, BuilderAlone
  <2>2. st'.pc[c] # "store"
    BY <1>9
  <2>3. QED
    BY <1>8, <1>9, <2>1, <2>2 DEF FollowKept
<1>15. st'.cap = st.cap /\ st' \in BuilderState
  BY <1>8, <1>9
<1>16. QED
  BY ONLY <1>10, <1>11, <1>12, <1>13, <1>14, <1>15, BuilderInv(st), c \in BuilderCallers,
          BuilderMoves

\* A session begins without terms.
LEMMA BuilderBegins == ASSUME BuilderInit PROVE BuilderInv(st)
<1>1. PICK cap \in FeeRates \ {0} :
        st = [part |-> "builder", cap |-> cap, consents |-> <<>>, terms |-> NoTerms, addressed |-> FALSE,
              pc |-> [c \in BuilderCallers |-> "idle"], rate |-> [c \in BuilderCallers |-> 0],
              read |-> [c \in BuilderCallers |-> NoTerms], version |-> [c \in BuilderCallers |-> 0],
              lock |-> 0, calls |-> 0, excused |-> FALSE, clash |-> FALSE]
  BY DEF BuilderInit
<1>2. PICK pcs, rates, reads, versions :
        /\ pcs = [c \in BuilderCallers |-> "idle"] /\ rates = [c \in BuilderCallers |-> 0]
        /\ reads = [c \in BuilderCallers |-> NoTerms] /\ versions = [c \in BuilderCallers |-> 0]
  OBVIOUS
<1>3. st = [part |-> "builder", cap |-> cap, consents |-> <<>>, terms |-> NoTerms, addressed |-> FALSE,
            pc |-> pcs, rate |-> rates, read |-> reads, version |-> versions,
            lock |-> 0, calls |-> 0, excused |-> FALSE, clash |-> FALSE]
  BY <1>1, <1>2
<1>4. cap \in Nat /\ 0 \in Nat /\ <<>> \in Seq(Nat) /\ NoTerms \in BuilderTerms /\ NoTerms.rate = 0
  <2>1. cap \in Nat
    BY BuilderAssumption
  <2>2. 0 \in Nat /\ <<>> \in Seq(Nat)
    BY SMT
  <2>3. NoTerms \in BuilderTerms /\ NoTerms.rate = 0
    BY <2>2 DEF NoTerms, BuilderTerms
  <2>4. QED
    BY <2>1, <2>2, <2>3
<1>5. /\ pcs \in [BuilderCallers -> BuilderPcs] /\ rates \in [BuilderCallers -> Nat]
      /\ reads \in [BuilderCallers -> BuilderTerms] /\ versions \in [BuilderCallers -> Nat]
      /\ \A c \in BuilderCallers : pcs[c] = "idle" /\ reads[c] = NoTerms
  BY <1>2, <1>4 DEF BuilderPcs
<1>6. st \in BuilderState
  BY <1>3, <1>4, <1>5 DEF BuilderState
<1>7. /\ st.consents = <<>> /\ st.terms = NoTerms /\ st.pc = pcs /\ st.read = reads /\ ~st.clash
  BY <1>3
<1>8. ConsentInv(st)
  BY <1>5, <1>7 DEF ConsentInv
<1>9. GoodTerms(st, NoTerms)
  BY <1>6, NoTermsGood
<1>10. TermsInv(st)
  BY <1>4, <1>5, <1>7, <1>9 DEF TermsInv
<1>11. FollowInv(st)
  <2>1. 0 <= InForce(st.consents)
    BY <1>4, <1>7, InForceType
  <2>2. QED
    BY <1>4, <1>5, <1>7, <2>1 DEF FollowInv
<1>12. QED
  BY <1>6, <1>8, <1>10, <1>11 DEF BuilderInv

(***************************************************************************)
(* Whatever goroutines refresh, approve and revoke, the terms a session    *)
(* signs with keep to the cap and to the consent they were read from, they *)
(* follow the consent in force unless calls overlapped or failed, and no   *)
(* approval made under consentMu is refused because of another.            *)
(***************************************************************************)
THEOREM BuilderTermsStaySafe == BuilderSpec => []BuilderTermsSafe
<1>1. BuilderInit => BuilderInv(st)
  BY BuilderBegins
<1>2. BuilderInv(st) /\ [BuilderNext]_st => BuilderInv(st)'
  <2>1. SUFFICES ASSUME BuilderInv(st), [BuilderNext]_st PROVE BuilderInv(st')
    OBVIOUS
  <2>2. CASE UNCHANGED st
    BY <2>1, <2>2
  <2>3. CASE BuilderNext
    <3>1. PICK c \in BuilderCallers :
            \/ RefreshBuilder(c) \/ resolveStatus(c) \/ resolveBuilder(c) \/ storeTerms(c)
            \/ ApproveBuilderFee(c) \/ lockConsent(c) \/ readVersion(c) \/ submitConsent(c)
            \/ afterApproval(c)
      BY <2>3 DEF BuilderNext
    <3>2. QED
      BY <2>1, <3>1, BuilderCallStep, ResolveStatusStep, ResolveBuilderStep, StoreTermsStep,
         LockConsentStep, ReadVersionStep, SubmitConsentStep, AfterApprovalStep
  <2>4. QED
    BY <2>1, <2>2, <2>3
<1>3. BuilderInv(st) => BuilderTermsSafe
  <2>1. SUFFICES ASSUME BuilderInv(st) PROVE BuilderTermsSafe
    OBVIOUS
  <2>2. st \in BuilderState /\ ConsentInv(st) /\ TermsInv(st) /\ FollowInv(st)
    BY <2>1 DEF BuilderInv
  <2>3. VersionsDoNotClash
    BY <2>2 DEF VersionsDoNotClash, ConsentInv
  <2>4. Consent = InForce(st.consents)
    BY DEF Consent, InForce
  <2>5. st.terms.rate > 0 => st.terms.version > 0 /\ st.terms.rate <= st.consents[st.terms.version]
    <3>1. \A n, m : n \in 1..m => n > 0
      BY SMT
    <3>2. QED
      BY <2>2, <3>1 DEF TermsInv, GoodTerms
  <2>6. FeeWithinConsent
    BY <2>2, <2>4, <2>5 DEF FeeWithinConsent, TermsInv, GoodTerms, FollowInv
  <2>7. QED
    BY <2>3, <2>6 DEF BuilderTermsSafe
<1>4. QED
  BY <1>1, <1>2, <1>3, PTL DEF BuilderSpec

=============================================================================
