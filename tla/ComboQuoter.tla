----------------------------- MODULE ComboQuoter -----------------------------
(***************************************************************************)
(* A combo RFQ quoter session (clob/combo_quoter_session.go and            *)
(* combo_quoter_events.go): several goroutines send commands on one        *)
(* socket, a reader settles them from acknowledgements that name no        *)
(* command, and any doubt ends the session.                                *)
(*                                                                         *)
(* A section under s.mu is one step, and so is a channel operation.  The   *)
(* gateway answers each command at most once, in any order, and may        *)
(* broadcast events; either side may lose the socket.                      *)
(***************************************************************************)
EXTENDS Integers, Sequences, FiniteSets, OneCaller

CONSTANTS Callers,        \* goroutines that send commands
          AckKeys,        \* acknowledgement keys of commands (kind, RFQ, quote)
          MaxCommands,    \* commands of a behaviour, authentication included
          EventBuffer,    \* capacity of the events channel
          MaxEvents       \* broadcasts of the gateway

ASSUME QuoterAssumption ==
    /\ Callers # {} /\ Callers \cap {"none", "free"} = {}
    /\ {MaxCommands, EventBuffer, MaxEvents} \subseteq Nat

CommandKeys == AckKeys \cup {"auth"}
Opener == CHOOSE c \in Callers : TRUE
NoAck == [id |-> 0, ok |-> FALSE]
IdleCaller == [pc |-> "idle", key |-> "none", id |-> 0, ack |-> NoAck, result |-> "none"]

\* OpenComboRFQSession after the dial: the reader runs and the opener is about
\* to authenticate.
QuoterInit ==
    st = [part |-> "quoter", open |-> FALSE, closed |-> FALSE, err |-> "none", gate |-> "free",
          caller |-> [c \in Callers |-> IF c = Opener
                                        THEN [IdleCaller EXCEPT !.pc = "gate", !.key = "auth"]
                                        ELSE IdleCaller],
          pending |-> [k \in CommandKeys |-> "none"], issued |-> 0,
          asked |-> {}, frames |-> <<>>, reader |-> "on", sent |-> 0, queue |-> 0, taken |-> 0,
          lost |-> 0, closing |-> FALSE]

Quoting == st.part = "quoter"
QuoterAt(c, pc) == Quoting /\ st.caller[c].pc = pc
SetCaller(s, c, rec) == [s EXCEPT !.caller = [@ EXCEPT ![c] = rec]]

\* A command returns: to its goroutine, or, for authentication, to
\* OpenComboRFQSession, which closes the session on an error.
CmdReturn(s, c, result) ==
    LET ended == SetCaller(s, c, [s.caller[c] EXCEPT !.pc = "returned", !.result = result]) IN
    IF s.caller[c].key # "auth" THEN ended
    ELSE IF result = "ok" THEN [ended EXCEPT !.open = TRUE]
         ELSE [ended EXCEPT !.closing = TRUE]

\* finish: the first reason sticks and every pending command gets it.
finish(s, reason) ==
    IF s.closed THEN s
    ELSE [s EXCEPT !.closed = TRUE, !.err = reason,
                   !.caller = [c \in Callers |->
                       IF \E k \in CommandKeys : s.pending[k] = c
                       THEN [s.caller[c] EXCEPT !.ack = [id |-> s.caller[c].id, ok |-> FALSE]]
                       ELSE s.caller[c]],
                   !.pending = [k \in CommandKeys |-> "none"]]

\* resolve: the command pending under the key, if any, gets the result.
resolve(s, key, ack) ==
    IF s.pending[key] = "none" THEN s
    ELSE LET c == s.pending[key]
         IN  [s EXCEPT !.caller = [@ EXCEPT ![c] = [s.caller[c] EXCEPT !.ack = ack]],
                       !.pending = [@ EXCEPT ![key] = "none"]]

-----------------------------------------------------------------------------
(* command: the sending goroutine *)

\* Quote, CancelQuote, RespondToConfirmation once the message is built.
beginCommand(c) ==
    /\ QuoterAt(c, "idle") \/ QuoterAt(c, "returned")
    /\ st.open
    /\ st.issued < MaxCommands
    /\ \E key \in AckKeys : st' = SetCaller(st, c, [IdleCaller EXCEPT !.pc = "gate", !.key = key])

waitForGate(c) ==
    /\ QuoterAt(c, "gate")
    /\ \/ st.gate = "free" /\ st' = SetCaller([st EXCEPT !.gate = c], c, [st.caller[c] EXCEPT !.pc = "register"])
       \/ st' = CmdReturn(st, c, "context")
       \/ st.closed /\ st' = CmdReturn(st, c, "closed")

register(c) ==
    /\ QuoterAt(c, "register")
    /\ LET freed == [st EXCEPT !.gate = "free"]
           key == st.caller[c].key IN
       \/ st' = CmdReturn(freed, c, "context")
       \/ IF st.closed THEN st' = CmdReturn(freed, c, "closed")
          ELSE IF st.pending[key] # "none" THEN st' = CmdReturn(freed, c, "pending")
          ELSE st' = [st EXCEPT !.pending = [@ EXCEPT ![key] = c], !.issued = @ + 1,
                                !.caller = [@ EXCEPT ![c] = [st.caller[c] EXCEPT !.pc = "write",
                                                                                 !.id = st.issued + 1]]]

\* conn.Write and the release of the gate: a failed write may have reached
\* the gateway.
writeCommand(c) ==
    /\ QuoterAt(c, "write")
    /\ LET freed == [st EXCEPT !.gate = "free"]
           reached == [freed EXCEPT !.asked = @ \cup {[key |-> st.caller[c].key, id |-> st.caller[c].id]}]
       IN \/ ~st.closed /\ st' = SetCaller(reached, c, [st.caller[c] EXCEPT !.pc = "await"])
          \/ \E s \in {freed, reached} : st' = SetCaller(s, c, [st.caller[c] EXCEPT !.pc = "end"])

awaitAck(c) ==
    /\ QuoterAt(c, "await")
    /\ \/ /\ st.caller[c].ack # NoAck
          /\ st' = CmdReturn(st, c, IF st.caller[c].ack.ok THEN "ok" ELSE "refused")
       \/ st' = SetCaller(st, c, [st.caller[c] EXCEPT !.pc = "end"])    \* the acknowledgement timeout

\* Faulty variant: a timeout only forgets the command.
endForgets(c) ==
    /\ QuoterAt(c, "end")
    /\ LET kept(k) == IF st.pending[k] = c THEN "none" ELSE st.pending[k]
       IN  st' = CmdReturn([st EXCEPT !.pending = [k \in CommandKeys |-> kept(k)]], c, "context")

\* A failed write or a timeout ends the session: its acknowledgement may still come.
endInDoubt(c) ==
    /\ QuoterAt(c, "end")
    /\ st' = CmdReturn(finish(st, "context"), c, "context")

-----------------------------------------------------------------------------
(* readLoop *)

\* Faulty variant: an event that finds the buffer full is dropped.
deliverOrDrop(s) ==
    IF s.queue < EventBuffer THEN [s EXCEPT !.queue = @ + 1] ELSE [s EXCEPT !.lost = @ + 1]

\* A valid event goes to the buffer; one too many ends session and reader.
deliverEvent(s) ==
    IF s.queue < EventBuffer THEN [s EXCEPT !.queue = @ + 1]
    ELSE [finish(s, "overflow") EXCEPT !.reader = "done", !.lost = @ + 1]

\* handleInbound for one frame; unreadable frames are skipped.
handleInbound ==
    /\ Quoting
    /\ st.reader = "on"
    /\ st.frames # <<>>
    /\ LET frame == Head(st.frames)
           rest == [st EXCEPT !.frames = Tail(@)] IN
       CASE frame.kind = "ack" -> st' = resolve(rest, frame.key, [id |-> frame.id, ok |-> frame.ok])
         [] frame.kind = "uncorrelated" -> st' = finish(rest, "uncorrelated")
         [] frame.kind = "noise" -> st' = rest
         [] frame.kind = "event" ->
            \/ st' = deliverEvent(rest)
            \/ st.closed /\ st' = [rest EXCEPT !.reader = "done", !.lost = @ + 1]

\* conn.Read fails: the socket was closed by finish, or lost.
readFails ==
    /\ Quoting
    /\ st.reader = "on"
    /\ st' = [finish(st, "lost") EXCEPT !.reader = "done"]

-----------------------------------------------------------------------------
(* Close, the context, the consumer and the gateway *)

Close ==
    /\ Quoting
    /\ (st.open \/ st.closing) /\ ~st.closed
    /\ st' = [finish(st, "nil") EXCEPT !.closing = TRUE]

contextEnds ==
    /\ Quoting
    /\ ~st.closed
    /\ st' = finish(st, "context")

consumeEvent ==
    /\ Quoting
    /\ st.queue > 0
    /\ st' = [st EXCEPT !.queue = @ - 1, !.taken = @ + 1]

gatewayAnswers ==
    /\ Quoting
    /\ ~st.closed
    /\ \E command \in st.asked :
          \E frame \in {[kind |-> "ack", key |-> command.key, id |-> command.id, ok |-> TRUE],
                        [kind |-> "ack", key |-> command.key, id |-> command.id, ok |-> FALSE],
                        [kind |-> "uncorrelated"], [kind |-> "noise"]} :
             st' = [st EXCEPT !.asked = @ \ {command}, !.frames = Append(@, frame)]

gatewayBroadcasts ==
    /\ Quoting
    /\ ~st.closed
    /\ st.sent < MaxEvents
    /\ st' = [st EXCEPT !.sent = @ + 1, !.frames = Append(@, [kind |-> "event"])]

QuoterNext ==
    \/ \E c \in Callers : \/ beginCommand(c) \/ waitForGate(c) \/ register(c) \/ writeCommand(c)
                          \/ awaitAck(c) \/ endInDoubt(c)
    \/ handleInbound \/ readFails \/ Close \/ contextEnds \/ consumeEvent
    \/ gatewayAnswers \/ gatewayBroadcasts

QuoterSpec == QuoterInit /\ [][QuoterNext]_st

-----------------------------------------------------------------------------

(***************************************************************************)
(* Although acknowledgements name no command, one settles only the command *)
(* it answers: a late acknowledgement of a command that timed out, or of a *)
(* failed write, never settles a later command with the same key.          *)
(***************************************************************************)
AckSettlesItsCommand ==
    st.part = "quoter" =>
        \A c \in Callers : st.caller[c].ack # NoAck => st.caller[c].ack.id = st.caller[c].id

(***************************************************************************)
(* When the session is over nobody is left waiting for the timeout: finish *)
(* gives every pending command its result and none is registered after it. *)
(***************************************************************************)
EndReachesEveryCommand ==
    st.part = "quoter" /\ st.closed =>
        \A c \in Callers : st.caller[c].pc = "await" => st.caller[c].ack # NoAck

(***************************************************************************)
(* No event is lost in silence: what the gateway broadcast is delivered,   *)
(* buffered or still to be read as long as the session lives; it ends      *)
(* rather than drop one.                                                   *)
(***************************************************************************)
EventsNotDropped ==
    st.part = "quoter" =>
        /\ st.lost > 0 => st.closed
        /\ ~st.closed => st.taken + st.queue
                         + Cardinality({i \in DOMAIN st.frames : st.frames[i].kind = "event"}) = st.sent

(***************************************************************************)
(* Neither a pending command nor an event is lost in silence when a quoter *)
(* session overflows, fails or is closed.                                  *)
(***************************************************************************)
SessionLosesNothing == EndReachesEveryCommand /\ EventsNotDropped
=============================================================================
