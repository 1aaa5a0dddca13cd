------------------------------ MODULE Heartbeats ------------------------------
(***************************************************************************)
(* The heartbeat lifecycle of an authenticated client (clob/heartbeat.go): *)
(* StartHeartbeats, StopHeartbeats and Close from any goroutine, and the   *)
(* loop that posts the current heartbeat id.                               *)
(*                                                                         *)
(* A section under heartbeatMu is one step.  Ids are numbers; the server   *)
(* expects one, rotates it with every accepted post, and names it when it  *)
(* rejects another; id 0 is the empty id, which registers anew.  An answer *)
(* may be lost or omit the next id, and another process of the account may *)
(* rotate the id.  "told" is whether a loop has been told the id that the  *)
(* server still expects.                                                   *)
(***************************************************************************)
EXTENDS Integers, FiniteSets, OneCaller

CONSTANTS MaxLoops,     \* heartbeat loops started in a behaviour
          MaxRotations  \* ids of the server

ASSUME HeartbeatBounds == MaxLoops \in Nat /\ MaxRotations \in Nat

NoLoop == [pc |-> "none", cancelled |-> FALSE, id |-> 0, again |-> FALSE, answer |-> "none"]

HeartbeatInit ==
    st = [part |-> "heartbeat", closed |-> FALSE, current |-> 0, id |-> 0, expected |-> 1,
          loop |-> [n \in 1..MaxLoops |-> NoLoop], started |-> 0, told |-> FALSE, rejectedInSync |-> FALSE,
          joining |-> [c \in {"stop", "close"} |-> 0], joined |-> [c \in {"stop", "close"} |-> 0],
          quiet |-> FALSE]

LoopsModelled == st.part = "heartbeat"
LoopAt(n, pc) == LoopsModelled /\ st.loop[n].pc = pc
Alive(n) == st.loop[n].pc \notin {"none", "exited"}

-----------------------------------------------------------------------------
(* StartHeartbeats, StopHeartbeats, Close and Shutdown *)

\* StartHeartbeats: refused once closed or while a loop is registered.
StartHeartbeats ==
    /\ LoopsModelled
    /\ st.started < MaxLoops
    /\ ~st.closed
    /\ st.current = 0
    /\ LET n == st.started + 1 IN
       st' = [st EXCEPT !.started = n, !.current = n, !.loop[n].pc = "wait"]

\* StopHeartbeats: cancel the registered loop, then wait for it.
StopHeartbeats ==
    /\ LoopsModelled
    /\ st.joining["stop"] = 0
    /\ st.current # 0
    /\ st' = [st EXCEPT !.joining["stop"] = st.current, !.loop[st.current].cancelled = TRUE]

\* closeHeartbeats: the same, for good.
closeHeartbeats ==
    /\ LoopsModelled
    /\ ~st.closed
    /\ IF st.current = 0
       THEN st' = [st EXCEPT !.closed = TRUE, !.quiet = TRUE]
       ELSE st' = [st EXCEPT !.closed = TRUE, !.joining["close"] = st.current,
                             !.loop[st.current].cancelled = TRUE]

\* The loop has ended, or the context of the call has.
joinReturns ==
    /\ LoopsModelled
    /\ \E c \in {"stop", "close"} :
          /\ st.joining[c] # 0
          /\ \/ /\ st.loop[st.joining[c]].pc = "exited"
                /\ st' = [st EXCEPT !.joined[c] = st.joining[c], !.joining[c] = 0,
                                    !.quiet = @ \/ c = "close"]
             \/ st' = [st EXCEPT !.joining[c] = 0]

\* The context given to StartHeartbeats ends.
parentEnds ==
    /\ LoopsModelled
    /\ \E n \in 1..MaxLoops : Alive(n) /\ ~st.loop[n].cancelled /\ st' = [st EXCEPT !.loop[n].cancelled = TRUE]

-----------------------------------------------------------------------------
(* runHeartbeatLoop *)

\* The select of the loop: a cancelled loop returns, also when the tick wins,
\* since its post fails before it is sent.
tick(n) ==
    /\ LoopAt(n, "wait")
    /\ IF st.loop[n].cancelled
       THEN st' = [st EXCEPT !.loop[n] = [@ EXCEPT !.pc = "exit"]]
       ELSE st' = [st EXCEPT !.loop[n] = [@ EXCEPT !.pc = "flight", !.id = st.id, !.again = FALSE]]

\* A loop that has an answer, and the id it then holds.
heardBack(loop, answer, id) == [loop EXCEPT !.pc = "answered", !.answer = answer, !.id = id]

\* A post, answered by the server: accepted, with or without the next id, or
\* rejected with the expected id, or lost on the way there or back.
postHeartbeat(n) ==
    /\ LoopAt(n, "flight")
    /\ LET id == st.loop[n].id IN
       \/ st' = [st EXCEPT !.loop[n] = heardBack(@, "error", id)]
       \/ /\ id \in {0, st.expected}
          /\ st.expected < MaxRotations
          /\ \E a \in {"accepted", "omitted", "error"} :
                st' = [st EXCEPT !.expected = @ + 1, !.told = FALSE,
                                 !.loop[n] = heardBack(@, a, IF a = "accepted" THEN st.expected + 1 ELSE id)]
       \/ /\ id # st.expected
          /\ st' = [st EXCEPT !.rejectedInSync = @ \/ st.told,
                              !.loop[n] = heardBack(@, "mismatch", st.expected)]

\* Faulty variant: the id the server expects is used once and not kept.
adoptNothing(n, id) == st.id

\* adoptHeartbeatID: only the registered loop may store an id.
adoptHeartbeatID(n, id) == IF st.current = n THEN id ELSE st.id

\* The loop after an answer: a mismatch is adopted and posted again at once,
\* an accepted post stores the next id, anything else waits for the next tick.
afterAnswer(n) ==
    /\ LoopAt(n, "answered")
    /\ LET loop == st.loop[n]
           ended == loop.cancelled /\ loop.answer \in {"error", "mismatch"}
           adopts == loop.answer = "accepted" \/ (loop.answer = "mismatch" /\ ~loop.again) IN
       \/ ended /\ st' = [st EXCEPT !.loop[n] = [@ EXCEPT !.pc = "exit"]]
       \/ ~ended /\ ~adopts /\ st' = [st EXCEPT !.loop[n] = [@ EXCEPT !.pc = "wait"]]
       \/ /\ ~ended /\ adopts
          /\ st' = [st EXCEPT !.told = loop.id = st.expected, !.id = adoptHeartbeatID(n, loop.id),
                              !.loop[n] = IF loop.answer = "accepted" THEN [@ EXCEPT !.pc = "wait"]
                                          ELSE [@ EXCEPT !.pc = "flight", !.again = TRUE]]

\* The deferred end of the loop.
loopExits(n) ==
    /\ LoopAt(n, "exit")
    /\ st' = [st EXCEPT !.loop[n].pc = "exited", !.current = IF @ = n THEN 0 ELSE @]

\* Another process of the account posts.
foreignPost ==
    /\ LoopsModelled
    /\ st.expected < MaxRotations
    /\ st' = [st EXCEPT !.expected = @ + 1, !.told = FALSE]

HeartbeatNext ==
    \/ StartHeartbeats \/ StopHeartbeats \/ closeHeartbeats \/ joinReturns \/ parentEnds \/ foreignPost
    \/ \E n \in 1..MaxLoops : tick(n) \/ postHeartbeat(n) \/ afterAnswer(n) \/ loopExits(n)

HeartbeatSpec == HeartbeatInit /\ [][HeartbeatNext]_st

-----------------------------------------------------------------------------

(***************************************************************************)
(* Once a loop has been told the id the server expects, by an accepted     *)
(* post or by a rejection, no later post is rejected until somebody        *)
(* rotates that id unheard, also across StopHeartbeats and StartHeartbeats.*)
(***************************************************************************)
HeartbeatHeals == st.part = "heartbeat" => ~st.rejectedInSync

(***************************************************************************)
(* There is never more than one loop, a StopHeartbeats or Close that       *)
(* returned nil has seen its loop end, and after Close returned nil no     *)
(* heartbeat is posted again.                                              *)
(***************************************************************************)
OneLoopQuietAfterClose ==
    st.part = "heartbeat" =>
        /\ Cardinality({n \in 1..MaxLoops : Alive(n)}) <= 1
        /\ \A c \in {"stop", "close"} : st.joined[c] # 0 => ~Alive(st.joined[c])
        /\ st.quiet => \A n \in 1..MaxLoops : ~Alive(n)

(***************************************************************************)
(* The heartbeat keeps to the server's id, in one loop at a time, until    *)
(* Close.                                                                  *)
(***************************************************************************)
HeartbeatsKept == HeartbeatHeals /\ OneLoopQuietAfterClose
=============================================================================
