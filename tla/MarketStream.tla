---------------------------- MODULE MarketStream ----------------------------
(***************************************************************************)
(* perps/market_pool.go and perps/market_lifecycle.go: the pool of public   *)
(* market handles.  One goroutine owns the handles, the socket, the filters *)
(* acknowledged on it and the one change in flight.  A reader and a writer  *)
(* goroutine per socket report to it; the users add, cancel and close their *)
(* handles at any time.                                                     *)
(*                                                                          *)
(* One topic with an ::all channel is modelled (tickers, say).  A sequence  *)
(* number is kept as what the owner compares it for: the instruments whose  *)
(* updates were lost on the channel before this frame.  One loop of the     *)
(* owner is three steps, because a context may be cancelled between them:   *)
(* "prune", "act" and "select".                                             *)
(***************************************************************************)
EXTENDS Naturals, Sequences, FiniteSets

CONSTANTS
    Handles,        \* calls of Subscribe that may be going on at once
    Instruments,    \* instruments of the topic
    All,            \* the ::all channel of the topic
    FilterChoices,  \* the sets of channels a caller may ask for
    Lively,         \* channels on which the server publishes updates
    Lossy,          \* channels on which updates may be lost
    QueueCap,       \* capacity of a handle's event queue
    InboxCap        \* messages a reader holds for the owner

Channels == Instruments \cup {All}

ASSUME ChannelAssumption ==
    /\ All \notin Instruments
    /\ FilterChoices \subseteq (SUBSET Channels \ {{}})
    /\ Lively \subseteq Channels /\ Lossy \subseteq Channels
ASSUME CapAssumption == QueueCap \in Nat \ {0} /\ InboxCap \in Nat \ {0, 1}

VARIABLES
    hd,        \* a handle: its fields, and where its user is
    pc,        \* the owner: "prune", "act", "select" or "exited"
    sock,      \* the owner's transport: reader, conn, wire, sequences, pending, writer
    net,       \* the socket and the server behind it
    retry,     \* retryAt lies in the future
    connected, \* o.connected: a socket was open since the pool was last idle
    wake,      \* s.wake holds a token
    closed     \* the stream's context is cancelled

vars == <<hd, pc, sock, net, retry, connected, wake, closed>>

-----------------------------------------------------------------------------
(* Handles.  gap and torn are history: an update was lost since the last    *)
(* event, and an update was delivered all the same.                         *)

Free == [user |-> "idle", filter |-> {}, cancelled |-> FALSE, owned |-> FALSE,
         ready |-> FALSE, reply |-> "none", done |-> FALSE, queue |-> 0,
         gap |-> FALSE, torn |-> FALSE]

\* A transport that is not there.
NoSock == [reader |-> FALSE, conn |-> FALSE, wire |-> {}, known |-> {},
           pending |-> {}, req |-> "none", writer |-> "idle"]
NoNet == [link |-> "none", server |-> {}, sent |-> {}, skipped |-> {},
          request |-> FALSE, inbox |-> <<>>]

Message == [type : {"conn", "err"}] \cup [type : {"ack"}, ok : BOOLEAN]
           \cup [type : {"frame"}, ch : Channels, ins : Instruments, lost : SUBSET Instruments]

Init ==
    /\ hd = [h \in Handles |-> Free]
    /\ pc = "prune"
    /\ sock = NoSock
    /\ net = NoNet
    /\ retry = FALSE /\ connected = FALSE /\ wake = FALSE /\ closed = FALSE

Owned == {h \in Handles : hd[h].owned}

\* The ::all channel carries every instrument.
Carries(S, c) == c \in S \/ All \in S
Covers(S, filter) == \A c \in filter : Carries(S, c)
matches(filter, i) == Carries(filter, i)

\* The channels that the handles hs want on the wire.
desired(hs) ==
    LET channels == UNION {hd[h].filter : h \in hs}
    IN  {c \in channels : c = All \/ All \notin channels}

-----------------------------------------------------------------------------
(* Operators on a handle's record.                                          *)

\* What ending the transport means to a handle: a ready one misses updates.
Cut(r) == IF r.owned /\ r.ready THEN [r EXCEPT !.gap = TRUE] ELSE r

\* What lost updates of the instruments mean to it.
Missing(r, lost) ==
    IF r.owned /\ r.ready /\ \E i \in lost : matches(r.filter, i)
    THEN [r EXCEPT !.gap = TRUE] ELSE r

\* Faulty variant: a caller that waits in Subscribe gets no answer.
finishSilently(r) == [r EXCEPT !.owned = FALSE, !.cancelled = TRUE, !.done = TRUE]

finish(r) == [r EXCEPT !.owned = FALSE, !.cancelled = TRUE, !.done = TRUE,
                       !.reply = IF r.ready THEN @ ELSE "err"]

Overflowed(r) == ~r.cancelled /\ r.queue = QueueCap

emitResync(r) ==
    IF r.cancelled THEN r
    ELSE IF Overflowed(r) THEN [r EXCEPT !.cancelled = TRUE]
    ELSE [r EXCEPT !.queue = @ + 1, !.gap = FALSE]

emitUpdate(r) ==
    IF r.cancelled THEN r
    ELSE IF Overflowed(r) THEN [r EXCEPT !.cancelled = TRUE]
    ELSE [r EXCEPT !.queue = @ + 1, !.torn = @ \/ r.gap]

\* The AfterFunc of every context cancelled by this step leaves a token.
Cancels == \E h \in Handles : hd'[h].owned /\ hd'[h].cancelled /\ ~hd[h].cancelled

-----------------------------------------------------------------------------
(* Users.                                                                   *)

Subscribe(h, filter) ==
    /\ hd[h].user = "idle"
    /\ hd' = [hd EXCEPT ![h] = [Free EXCEPT !.user = "adding", !.filter = filter]]
    /\ UNCHANGED <<pc, sock, net, retry, connected, wake, closed>>

\* Subscribe's first select: the context or the stream ended before the owner
\* took the handle.
SubscribeGivesUp(h) ==
    /\ hd[h].user = "adding"
    /\ hd[h].cancelled \/ pc = "exited"
    /\ hd' = [hd EXCEPT ![h] = Free]
    /\ UNCHANGED <<pc, sock, net, retry, connected, wake, closed>>

CancelContext(h) ==
    /\ hd[h].user \in {"adding", "waiting", "live"}
    /\ ~hd[h].cancelled
    /\ hd' = [hd EXCEPT ![h].cancelled = TRUE]
    /\ wake' = (wake \/ hd[h].owned)
    /\ UNCHANGED <<pc, sock, net, retry, connected, closed>>

\* Subscribe's second select.
SubscribeReturns(h) ==
    /\ hd[h].user = "waiting"
    /\ \/ /\ hd[h].reply = "ok" /\ ~hd[h].cancelled
          /\ hd' = [hd EXCEPT ![h].user = "live"]
       \/ /\ hd[h].reply = "err" \/ pc = "exited"
          /\ hd' = [hd EXCEPT ![h] = Free]
    /\ UNCHANGED <<pc, sock, net, retry, connected, wake, closed>>

\* MarketHandle.Close, called by Subscribe when its context has ended.
SubscribeCancelled(h) ==
    /\ hd[h].user = "waiting" /\ hd[h].cancelled
    /\ hd' = [hd EXCEPT ![h].user = "closing"]
    /\ wake' = TRUE
    /\ UNCHANGED <<pc, sock, net, retry, connected, closed>>

\* MarketHandle.Close, called by the user.
Close(h) ==
    /\ hd[h].user = "live"
    /\ hd' = [hd EXCEPT ![h] = [@ EXCEPT !.user = "closing", !.cancelled = TRUE]]
    /\ wake' = TRUE
    /\ UNCHANGED <<pc, sock, net, retry, connected, closed>>

CloseReturns(h) ==
    /\ hd[h].user = "closing" /\ hd[h].done
    /\ hd' = [hd EXCEPT ![h] = Free]
    /\ UNCHANGED <<pc, sock, net, retry, connected, wake, closed>>

Consume(h) ==
    /\ hd[h].user = "live" /\ hd[h].queue > 0
    /\ hd' = [hd EXCEPT ![h].queue = @ - 1]
    /\ UNCHANGED <<pc, sock, net, retry, connected, wake, closed>>

CloseStream ==
    /\ ~closed
    /\ closed' = TRUE
    /\ UNCHANGED <<hd, pc, sock, net, retry, connected, wake>>

-----------------------------------------------------------------------------
(* The owner.                                                               *)

\* The transport is stopped and its workers are joined.
stopTransport == sock' = NoSock /\ net' = NoNet

\* Faulty variant: an unfinished Subscribe waits for the next socket.
disconnectedKeepAll ==
    /\ hd' = [h \in Handles |-> Cut(hd[h])]
    /\ stopTransport
    /\ retry' = TRUE
    /\ UNCHANGED connected

\* Every unfinished Subscribe fails; ready handles stay for the next socket.
disconnected ==
    /\ hd' = [h \in Handles |->
                IF hd[h].owned /\ ~hd[h].ready THEN finish(hd[h]) ELSE Cut(hd[h])]
    /\ stopTransport
    /\ retry' = TRUE
    /\ UNCHANGED connected

\* The loop ends: the transport is stopped, every handle finished, s.done closed.
Exit ==
    /\ closed /\ pc \in {"prune", "select"}
    /\ hd' = [h \in Handles |-> IF hd[h].owned THEN finish(hd[h]) ELSE hd[h]]
    /\ stopTransport
    /\ pc' = "exited"
    /\ UNCHANGED <<retry, connected, wake, closed>>

\* A change in flight that the surviving handles no longer want has an unknown
\* outcome: the socket is given up.
Uncertain(hs) ==
    \E c \in sock.pending : (c \in desired(hs)) # (sock.req = "sub")

\* o.prune, and opening or closing the socket with the first or last handle.
prune ==
    /\ pc = "prune" /\ ~closed
    /\ LET gone == {h \in Owned : hd[h].cancelled}
           left == Owned \ gone
           stop == left = {} \/ (gone # {} /\ Uncertain(left))
           rest == IF stop THEN NoSock ELSE sock
           due == left # {} /\ ~rest.reader /\ ~retry
       IN /\ hd' = [h \in Handles |-> IF h \in gone THEN finish(hd[h])
                                      ELSE IF stop THEN Cut(hd[h]) ELSE hd[h]]
          /\ sock' = IF due THEN [rest EXCEPT !.reader = TRUE] ELSE rest
          /\ net' = IF due THEN [NoNet EXCEPT !.link = "dialing"]
                    ELSE IF stop THEN NoNet ELSE net
          /\ retry' = (retry /\ left # {})
          /\ connected' = (connected /\ left # {})
    /\ pc' = "act"
    /\ UNCHANGED <<wake, closed>>

\* activateCovered: the filters a handle may rely on.
Available == sock.wire \ (IF sock.req = "unsub" THEN sock.pending ELSE {})

\* Faulty variant: filters are removed before their replacement is added.
ChangeRemoveFirst ==
    LET added == desired(Owned) \ sock.wire
        removed == sock.wire \ desired(Owned)
    IN  IF removed # {} THEN <<"unsub", removed>> ELSE <<"sub", added>>

\* reconcile: what to ask the server for next.
Change ==
    LET added == desired(Owned) \ sock.wire
        removed == sock.wire \ desired(Owned)
    IN  IF added # {} THEN <<"sub", added>> ELSE <<"unsub", removed>>

\* activateCovered, then reconcile when nothing is in flight.
reconcile ==
    /\ pc = "act"
    /\ hd' = [h \in Handles |->
                IF /\ sock.conn /\ hd[h].owned /\ ~hd[h].ready /\ ~hd[h].cancelled
                   /\ Covers(Available, hd[h].filter)
                THEN [hd[h] EXCEPT !.ready = TRUE, !.reply = "ok"]
                ELSE hd[h]]
    /\ sock' = IF sock.conn /\ sock.pending = {} /\ sock.writer = "idle" /\ Change[2] # {}
               THEN [sock EXCEPT !.req = Change[1], !.pending = Change[2], !.writer = "change"]
               ELSE sock
    /\ pc' = "select"
    /\ UNCHANGED <<net, retry, connected, wake, closed>>

\* Case s.add.
Add(h) ==
    /\ pc = "select" /\ hd[h].user = "adding"
    /\ hd' = [hd EXCEPT ![h] = [@ EXCEPT !.user = "waiting", !.owned = TRUE]]
    /\ wake' = (wake \/ hd[h].cancelled)
    /\ pc' = "prune"
    /\ UNCHANGED <<sock, net, retry, connected, closed>>

\* Case s.wake.
Wake ==
    /\ pc = "select" /\ wake
    /\ wake' = FALSE
    /\ pc' = "prune"
    /\ UNCHANGED <<hd, sock, net, retry, connected, closed>>

\* Case written.
Written ==
    /\ pc = "select" /\ sock.writer \in {"written", "failed"}
    /\ IF sock.writer = "failed" THEN disconnected
       ELSE /\ sock' = [sock EXCEPT !.writer = "idle"]
            /\ UNCHANGED <<hd, net, retry, connected>>
    /\ pc' = "prune"
    /\ UNCHANGED <<wake, closed>>

\* Case tick: the acknowledgement is overdue.
AckTimeout ==
    /\ pc = "select" /\ sock.pending # {}
    /\ disconnected
    /\ pc' = "prune"
    /\ UNCHANGED <<wake, closed>>

\* Case tick: the peer has been silent for too long.
Stale ==
    /\ pc = "select" /\ sock.conn /\ sock.pending = {}
    /\ disconnected
    /\ pc' = "prune"
    /\ UNCHANGED <<wake, closed>>

\* Case tick: a heartbeat is due.
Ping ==
    /\ pc = "select" /\ sock.conn /\ sock.writer = "idle"
    /\ sock' = [sock EXCEPT !.writer = "ping"]
    /\ pc' = "prune"
    /\ UNCHANGED <<hd, net, retry, connected, wake, closed>>

\* Case tick: nothing is due, but retryAt may have passed.
Tick ==
    /\ pc = "select"
    /\ retry' \in {retry, FALSE}
    /\ pc' = "prune"
    /\ UNCHANGED <<hd, sock, net, connected, wake, closed>>

\* The reader has dialled a socket: a replacement is announced to ready handles.
Connected ==
    /\ hd' = [h \in Handles |-> IF connected /\ hd[h].owned /\ hd[h].ready
                                THEN emitResync(hd[h]) ELSE hd[h]]
    /\ sock' = [sock EXCEPT !.conn = TRUE]
    /\ connected' = TRUE
    /\ UNCHANGED retry

\* The acknowledgement of the change in flight; a refusal gives the socket up.
Acknowledged(ok) ==
    IF ~ok THEN disconnected
    ELSE /\ sock' = [sock EXCEPT !.wire = IF sock.req = "sub" THEN @ \cup sock.pending
                                          ELSE @ \ sock.pending,
                                 !.known = IF sock.req = "sub" THEN @ ELSE @ \ sock.pending,
                                 !.pending = {}, !.req = "none"]
         /\ UNCHANGED <<hd, retry, connected>>

\* Faulty variant: sequence numbers are recorded but not compared.
UpdateUnchecked(m) ==
    /\ hd' = [h \in Handles |-> IF hd[h].owned /\ matches(hd[h].filter, m.ins)
                                THEN emitUpdate(Missing(hd[h], m.lost)) ELSE Missing(hd[h], m.lost)]
    /\ sock' = [sock EXCEPT !.known = @ \cup {m.ch}]
    /\ UNCHANGED <<retry, connected>>

\* An update goes to the handles that match it, after the gap it reveals.
Update(m) ==
    LET announced(r) == IF m.lost # {} /\ m.ch \in sock.known THEN emitResync(r) ELSE r
    IN  /\ hd' = [h \in Handles |-> IF hd[h].owned /\ matches(hd[h].filter, m.ins)
                                    THEN emitUpdate(announced(Missing(hd[h], m.lost)))
                                    ELSE Missing(hd[h], m.lost)]
        /\ sock' = [sock EXCEPT !.known = @ \cup {m.ch}]
        /\ UNCHANGED <<retry, connected>>

\* Case messages: o.payload.  What the reader reports after the socket was
\* given up is gone with it.
Receive ==
    /\ pc = "select" /\ net.inbox # <<>>
    /\ LET m == Head(net.inbox)
           taken == net' = [net EXCEPT !.inbox = Tail(@)]
       IN \/ m.type = "err" /\ disconnected
          \/ m.type = "conn" /\ Connected /\ taken
          \/ m.type = "ack" /\ Acknowledged(m.ok) /\ (m.ok => taken)
          \/ m.type = "frame" /\ Update(m) /\ taken
    /\ pc' = "prune"
    /\ wake' = (wake \/ Cancels)
    /\ UNCHANGED closed

-----------------------------------------------------------------------------
(* Reader, writer and server.                                               *)

Room == Len(net.inbox) < InboxCap

Dialled(ok) ==
    /\ net.link = "dialing"
    /\ net' = IF ok THEN [net EXCEPT !.link = "open", !.inbox = <<[type |-> "conn"]>>]
              ELSE [net EXCEPT !.link = "broken", !.inbox = <<[type |-> "err"]>>]
    /\ UNCHANGED <<hd, pc, sock, retry, connected, wake, closed>>

\* The writer goroutine: its write succeeds on an open socket or fails.
WriterEnds ==
    /\ sock.writer \in {"change", "ping"}
    /\ \/ /\ net.link = "open"
          /\ sock' = [sock EXCEPT !.writer = "written"]
          /\ net' = [net EXCEPT !.request = @ \/ sock.writer = "change"]
       \/ sock' = [sock EXCEPT !.writer = "failed"] /\ UNCHANGED net
    /\ UNCHANGED <<hd, pc, retry, connected, wake, closed>>

\* The server applies a change and acknowledges it, or refuses it.
ServerAnswers(ok) ==
    /\ net.request /\ net.link = "open" /\ Room
    /\ LET left == IF sock.req = "sub" THEN net.server \cup sock.pending
                   ELSE net.server \ sock.pending
           now == IF ok THEN left ELSE net.server
       IN net' = [net EXCEPT !.request = FALSE, !.server = now,
                             !.sent = @ \cap now,
                             !.skipped = @ \cap (now \X Instruments),
                             !.inbox = Append(@, [type |-> "ack", ok |-> ok])]
    /\ UNCHANGED <<hd, pc, sock, retry, connected, wake, closed>>

Publish(c, i) ==
    /\ net.link = "open" /\ Room /\ c \in net.server \cap Lively /\ c \in {i, All}
    /\ LET lost == {j \in Instruments : <<c, j>> \in net.skipped}
       IN net' = [net EXCEPT !.sent = @ \cup {c}, !.skipped = @ \ ({c} \X lost),
                             !.inbox = Append(@, [type |-> "frame", ch |-> c, ins |-> i,
                                                  lost |-> lost])]
    /\ UNCHANGED <<hd, pc, sock, retry, connected, wake, closed>>

\* An update is lost on its way, on the only channel that carries it.  Losing
\* the first ones of a subscription is no different from having subscribed later.
Lose(c, i) ==
    /\ net.link = "open" /\ c \in net.sent \cap Lossy /\ net.server \cap {i, All} = {c}
    /\ net' = [net EXCEPT !.skipped = @ \cup {<<c, i>>}]
    /\ UNCHANGED <<hd, pc, sock, retry, connected, wake, closed>>

LinkBreaks ==
    /\ net.link = "open" /\ Room
    /\ net' = [net EXCEPT !.link = "broken", !.server = {}, !.sent = {}, !.skipped = {},
                          !.request = FALSE, !.inbox = Append(@, [type |-> "err"])]
    /\ UNCHANGED <<hd, pc, sock, retry, connected, wake, closed>>

-----------------------------------------------------------------------------

UserStep(h) ==
    \/ \E filter \in FilterChoices : Subscribe(h, filter)
    \/ SubscribeGivesUp(h) \/ CancelContext(h) \/ SubscribeReturns(h)
    \/ SubscribeCancelled(h)
    \/ Close(h) \/ CloseReturns(h) \/ Consume(h)

OwnerStep ==
    \/ prune \/ reconcile \/ Exit
    \/ \E h \in Handles : Add(h)
    \/ Wake \/ Written \/ AckTimeout \/ Stale \/ Ping \/ Tick \/ Receive

NetStep ==
    \/ \E ok \in BOOLEAN : Dialled(ok) \/ ServerAnswers(ok)
    \/ WriterEnds \/ LinkBreaks
    \/ \E c \in Channels, i \in Instruments : Publish(c, i) \/ Lose(c, i)

Next == CloseStream \/ (\E h \in Handles : UserStep(h)) \/ OwnerStep \/ NetStep

Spec == Init /\ [][Next]_vars

\* The workers of a socket and the owner run; dials and writes end by their own
\* timeouts; Go's select takes a case that is ready again and again; a change in
\* flight is acknowledged or times out; a Subscribe or Close that can return does.
\* Nothing is assumed of the server or of what users begin.
Fairness ==
    /\ WF_vars(prune) /\ WF_vars(reconcile) /\ WF_vars(Exit)
    /\ SF_vars(Tick /\ ~retry') /\ SF_vars(Written) /\ SF_vars(Receive)
    /\ SF_vars((AckTimeout \/ Receive) /\ sock.pending # {} /\ sock'.pending = {})
    /\ WF_vars(\E ok \in BOOLEAN : Dialled(ok)) /\ WF_vars(WriterEnds)
    /\ \A h \in Handles :
         /\ SF_vars(Add(h))
         /\ WF_vars(SubscribeGivesUp(h)) /\ WF_vars(SubscribeReturns(h))
         /\ WF_vars(SubscribeCancelled(h))
         /\ WF_vars(CloseReturns(h))

FairSpec == Spec /\ Fairness

-----------------------------------------------------------------------------
(* Properties.                                                              *)

TypeOK ==
    /\ hd \in [Handles -> [user : {"idle", "adding", "waiting", "live", "closing"},
                           filter : SUBSET Channels, cancelled : BOOLEAN, owned : BOOLEAN,
                           ready : BOOLEAN, reply : {"none", "ok", "err"}, done : BOOLEAN,
                           queue : 0..QueueCap, gap : BOOLEAN, torn : BOOLEAN]]
    /\ pc \in {"prune", "act", "select", "exited"}
    /\ sock \in [reader : BOOLEAN, conn : BOOLEAN, wire : SUBSET Channels,
                 known : SUBSET Channels, pending : SUBSET Channels,
                 req : {"none", "sub", "unsub"},
                 writer : {"idle", "change", "ping", "written", "failed"}]
    /\ net.link \in {"none", "dialing", "open", "broken"}
    /\ net.server \subseteq Channels /\ net.sent \subseteq Channels
    /\ net.skipped \subseteq net.sent \X Instruments /\ net.request \in BOOLEAN
    /\ net.inbox \in Seq(Message) /\ Len(net.inbox) <= InboxCap
    /\ retry \in BOOLEAN /\ connected \in BOOLEAN /\ wake \in BOOLEAN /\ closed \in BOOLEAN

\* o.wire is what the server serves, except for the one change in flight: no
\* subscription is orphaned on the server and none is believed that is not there.
WireIsServed ==
    net.link = "open" =>
        \/ net.server = sock.wire
        \/ sock.req = "sub" /\ net.server = sock.wire \cup sock.pending
        \/ sock.req = "unsub" /\ net.server = sock.wire \ sock.pending

\* Replacing an instrument's channel by ::all, or back, never leaves a ready
\* handle without its updates while the socket stays open (reconcile's "Add
\* replacement coverage before removing old coverage").
CoverageKept ==
    [][\A h \in Handles :
        /\ hd[h].owned /\ hd[h].ready /\ hd'[h].owned /\ ~hd'[h].cancelled
        /\ net.link = "open" /\ net'.link = "open"
        /\ Covers(net.server, hd[h].filter)
        => Covers(net'.server, hd[h].filter)]_vars

\* Subscribe reports success only while the server serves every filter of the
\* handle, also when the removal of a filter that would serve it is in flight.
ReadyIsServed ==
    [][\A h \in Handles :
        ~hd[h].ready /\ hd'[h].ready /\ net.link = "open"
        => Covers(net.server, hd[h].filter)]_vars

\* After a lost socket or lost updates, a ready handle gets a resync event
\* before it gets another update (perps/README.md: handles "emit
\* reconnect/sequence-gap resync events").
GapsAnnounced == \A h \in Handles : ~hd[h].torn

\* A handle is released exactly once: whoever waits in Subscribe or Close finds
\* either the owner still holding the handle, or its answer.
NobodyStranded ==
    \A h \in Handles :
        /\ hd[h].user = "waiting" => hd[h].owned \/ hd[h].reply # "none"
        /\ hd[h].user = "closing" => hd[h].owned \/ hd[h].done
        /\ hd[h].owned => ~hd[h].done

\* MarketHandle.Close returns, whatever the socket and the server do.
HandleCloses == \A h \in Handles : hd[h].user = "closing" ~> hd[h].user # "closing"

\* MarketStream.Close returns: the owner leaves once its context is cancelled.
StreamCloses == closed ~> pc = "exited"

\* Subscribe returns even if the server never answers: the acknowledgement times
\* out and every handle that waits fails.
SubscribeReturnsAlways ==
    \A h \in Handles : hd[h].user \in {"adding", "waiting"} ~> hd[h].user \in {"idle", "live"}

\* The owner's bookkeeping of handles is well formed and leaves no caller of
\* Subscribe or Close without an answer.
HandlesOwned == TypeOK /\ NobodyStranded

\* What the server serves follows the handles: the owner knows it, reports a handle
\* ready only when it is served, and keeps it served while it changes filters.
ServesHandles == []WireIsServed /\ CoverageKept /\ ReadyIsServed

\* Subscribe, MarketHandle.Close and MarketStream.Close return.
EveryCallReturns == HandleCloses /\ StreamCloses /\ SubscribeReturnsAlways
=============================================================================
