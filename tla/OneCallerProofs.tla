--------------------------- MODULE OneCallerProofs ---------------------------
(***************************************************************************)
(* Proofs about modules that share the state st: Heartbeats, for any number *)
(* of loops and of rotations; Relay, for any number of retries, polls and   *)
(* other clients; ComboQuoter, for any goroutines, acknowledgement keys and *)
(* bounds; SportsStream, for any buffer, timeout and backoff.               *)
(***************************************************************************)
EXTENDS Heartbeats, Relay, ComboQuoter, SportsStream, FiniteSetTheorems, TLAPS

-----------------------------------------------------------------------------
(*****************************************************************************)
(* Heartbeats                                                                *)
(*****************************************************************************)

Answers == {"none", "error", "accepted", "omitted", "mismatch"}
LoopState == [pc : {"none", "wait", "flight", "answered", "exit", "exited"}, cancelled : BOOLEAN,
              id : Nat, again : BOOLEAN, answer : Answers]
Joiner == {"stop", "close"}

\* The shape of the client, its loops and the server.
HeartbeatState ==
    [part : {"heartbeat"}, closed : BOOLEAN, current : 0..MaxLoops, id : Nat, expected : Nat,
     loop : [1..MaxLoops -> LoopState], started : 0..MaxLoops, told : BOOLEAN,
     rejectedInSync : BOOLEAN, joining : [Joiner -> 0..MaxLoops],
     joined : [Joiner -> 0..MaxLoops], quiet : BOOLEAN]

\* The client's state has that shape.
HeartbeatType == st \in HeartbeatState

\* A live loop is the registered one, and a loop that has run was started.
RegisteredInv ==
    /\ \A n \in 1..MaxLoops : Alive(n) => st.current = n
    /\ \A n \in 1..MaxLoops : st.loop[n].pc # "none" => n <= st.started

\* Whoever was joined has exited; once closed no other loop is registered; and
\* a Close that returned nil left none.
JoinInv ==
    /\ \A c \in Joiner : st.joined[c] # 0 => st.loop[st.joined[c]].pc = "exited"
    /\ st.joining["close"] # 0 => st.closed /\ st.current \in {0, st.joining["close"]}
    /\ st.quiet => st.closed /\ \A n \in 1..MaxLoops : ~Alive(n)

\* While the client has been told the expected id it has stored it and posts it.
ToldInv ==
    /\ st.told => st.id = st.expected
    /\ st.told => \A n \in 1..MaxLoops : st.loop[n].pc = "flight" => st.loop[n].id = st.expected
    /\ ~st.rejectedInSync

HInv == HeartbeatType /\ RegisteredInv /\ JoinInv /\ ToldInv

-----------------------------------------------------------------------------
(* Each step preserves the invariant.                                      *)

\* A live loop n moves to r and, with it, the ids and what the client was told.
Moved(n, r, id, expected, told) ==
    [st EXCEPT !.loop = [st.loop EXCEPT ![n] = r], !.id = id, !.expected = expected, !.told = told]

\* Most leaves are set and first-order reasoning; those with arithmetic or large
\* records cite SMT.
USE Zenon

\* Any such move is safe if what the client is told is stored and posted.
LEMMA MoveStep ==
    ASSUME HInv, NEW n \in 1..MaxLoops, NEW r \in LoopState, NEW id \in Nat, NEW expected \in Nat,
           NEW told \in BOOLEAN, Alive(n), r.pc \notin {"none", "exited"},
           told => id = expected /\ (r.pc = "flight" => r.id = expected),
           st' = Moved(n, r, id, expected, told)
    PROVE  HInv'
<1>1. HeartbeatType
  BY DEF HInv
<1>2. [st.loop EXCEPT ![n] = r] \in [1..MaxLoops -> LoopState]
  BY <1>1 DEF HeartbeatType, HeartbeatState
<1>3. HeartbeatType'
  BY <1>1, <1>2 DEF HeartbeatType, HeartbeatState, Moved
<1>4. /\ st'.loop = [st.loop EXCEPT ![n] = r] /\ st'.id = id /\ st'.expected = expected
      /\ st'.told = told /\ st'.current = st.current /\ st'.started = st.started
      /\ st'.joined = st.joined /\ st'.joining = st.joining /\ st'.closed = st.closed
      /\ st'.quiet = st.quiet /\ st'.rejectedInSync = st.rejectedInSync
  BY <1>1 DEF HeartbeatType, HeartbeatState, Moved
<1>5. \A m \in 1..MaxLoops : st'.loop[m] = IF m = n THEN r ELSE st.loop[m]
  BY <1>1, <1>4 DEF HeartbeatType, HeartbeatState
<1>6. \A m \in 1..MaxLoops : Alive(m) <=> Alive(m)'
  BY <1>5 DEF Alive
<1>7. RegisteredInv'
  BY <1>4, <1>5, <1>6 DEF HInv, RegisteredInv, Alive
<1>8. JoinInv'
  BY <1>1, <1>4, <1>5, <1>6, SMT DEF HInv, JoinInv, Alive, HeartbeatType, HeartbeatState, Joiner
<1>9. ToldInv'
  <2>1. ASSUME NEW m \in 1..MaxLoops, m # n PROVE st'.loop[m].pc # "flight"
    BY <2>1, <1>5, <1>6 DEF HInv, RegisteredInv, Alive
  <2>2. QED
    BY <2>1, <1>4, <1>5, SMT DEF HInv, ToldInv
<1>10. QED
  BY <1>3, <1>7, <1>8, <1>9 DEF HInv

\* The select of runHeartbeatLoop: a post carries the stored id.
LEMMA TickStep == ASSUME HInv, NEW n \in 1..MaxLoops, tick(n) PROVE HInv'
<1>1. /\ st \in HeartbeatState /\ st.loop[n] \in LoopState /\ Alive(n) /\ st.current = n
      /\ st.loop[n].id \in Nat
  BY DEF HInv, HeartbeatType, HeartbeatState, RegisteredInv, tick, LoopAt, Alive, LoopState
<1>2. /\ st.id \in Nat /\ st.expected \in Nat /\ st.told \in BOOLEAN /\ ~st.rejectedInSync
      /\ st.told => st.id = st.expected /\ (st.loop[n].pc = "flight" => st.loop[n].id = st.expected)
  BY <1>1 DEF HInv, ToldInv, HeartbeatState
<1>3. CASE st.loop[n].cancelled
  <2> DEFINE r == [st.loop[n] EXCEPT !.pc = "exit"]
  <2>1. r \in LoopState /\ r.pc = "exit"
    BY <1>1, <1>2 DEF LoopState, Answers
  <2>2. st' = Moved(n, r, st.id, st.expected, st.told)
    BY <1>1, <1>2, <1>3 DEF tick, Moved, HeartbeatState
  <2> HIDE DEF r
  <2>3. QED
    BY <1>1, <1>2, <2>1, <2>2, MoveStep
<1>4. CASE ~st.loop[n].cancelled
  <2> DEFINE r == [st.loop[n] EXCEPT !.pc = "flight", !.id = st.id, !.again = FALSE]
  <2>1. r \in LoopState /\ r.pc = "flight" /\ r.id = st.id
    BY <1>1, <1>2 DEF LoopState, Answers
  <2>2. st' = Moved(n, r, st.id, st.expected, st.told)
    BY <1>1, <1>2, <1>4 DEF tick, Moved, HeartbeatState
  <2> HIDE DEF r
  <2>3. QED
    BY <1>1, <1>2, <2>1, <2>2, MoveStep
<1>5. QED
  BY <1>3, <1>4

\* The server rejects no post while the client has been told the expected id.
LEMMA PostStep == ASSUME HInv, NEW n \in 1..MaxLoops, postHeartbeat(n) PROVE HInv'
<1>1. /\ st \in HeartbeatState /\ st.loop[n] \in LoopState /\ Alive(n) /\ st.current = n
      /\ st.loop[n].id \in Nat
  BY DEF HInv, HeartbeatType, HeartbeatState, RegisteredInv, postHeartbeat, LoopAt, Alive, LoopState
<1>2. /\ st.id \in Nat /\ st.expected \in Nat /\ st.told \in BOOLEAN /\ ~st.rejectedInSync
      /\ st.told => st.id = st.expected /\ (st.loop[n].pc = "flight" => st.loop[n].id = st.expected)
  BY <1>1 DEF HInv, ToldInv, HeartbeatState
<1>3. CASE st' = [st EXCEPT !.loop[n] = heardBack(@, "error", st.loop[n].id)]
  <2> DEFINE r == heardBack(st.loop[n], "error", st.loop[n].id)
  <2>1. r \in LoopState /\ r.pc = "answered"
    BY <1>1, <1>2 DEF LoopState, Answers, heardBack
  <2> HIDE DEF r
  <2>2. st' = Moved(n, r, st.id, st.expected, st.told)
    BY <1>1, <1>2, <1>3 DEF Moved, HeartbeatState, r
  <2>3. QED
    BY <1>1, <1>2, <2>1, <2>2, MoveStep
<1>4. st.expected + 1 \in Nat
  BY <1>2, SMT
<1>5. ASSUME NEW a \in {"accepted", "omitted", "error"}, NEW id \in Nat,
             st' = [st EXCEPT !.expected = @ + 1, !.told = FALSE, !.loop[n] = heardBack(@, a, id)]
      PROVE  HInv'
  <2> DEFINE r == heardBack(st.loop[n], a, id)
  <2>1. r \in LoopState /\ r.pc = "answered"
    BY <1>1, <1>5 DEF LoopState, Answers, heardBack
  <2> HIDE DEF r
  <2>2. st' = Moved(n, r, st.id, st.expected + 1, FALSE)
    BY <1>1, <1>2, <1>5 DEF Moved, HeartbeatState, r
  <2>3. QED
    BY <1>1, <1>2, <1>4, <2>1, <2>2, MoveStep
<1>6. CASE /\ st.loop[n].id # st.expected
           /\ st' = [st EXCEPT !.rejectedInSync = @ \/ st.told,
                               !.loop[n] = heardBack(@, "mismatch", st.expected)]
  <2> DEFINE r == heardBack(st.loop[n], "mismatch", st.expected)
  <2>1. r \in LoopState /\ r.pc = "answered"
    BY <1>1, <1>2 DEF LoopState, Answers, heardBack
  <2> HIDE DEF r
  <2>0. ~st.told
    BY <1>2, <1>6 DEF postHeartbeat, LoopAt
  <2>2. st' = Moved(n, r, st.id, st.expected, st.told)
    BY <1>1, <1>2, <1>6, <2>0 DEF Moved, HeartbeatState, r
  <2>3. QED
    BY <1>1, <1>2, <2>0, <2>1, <2>2, MoveStep
<1>7. \A a : (IF a = "accepted" THEN st.expected + 1 ELSE st.loop[n].id) \in Nat
  BY <1>1, <1>4
<1>8. QED
  BY <1>3, <1>5, <1>6, <1>7 DEF postHeartbeat

\* The registered loop stores the id it was told, and posts that one again.
LEMMA AnswerStep == ASSUME HInv, NEW n \in 1..MaxLoops, afterAnswer(n) PROVE HInv'
<1>1. /\ st \in HeartbeatState /\ st.loop[n] \in LoopState /\ Alive(n) /\ st.current = n
      /\ st.loop[n].id \in Nat
  BY DEF HInv, HeartbeatType, HeartbeatState, RegisteredInv, afterAnswer, LoopAt, Alive, LoopState
<1>2. /\ st.id \in Nat /\ st.expected \in Nat /\ st.told \in BOOLEAN /\ ~st.rejectedInSync
      /\ st.told => st.id = st.expected /\ (st.loop[n].pc = "flight" => st.loop[n].id = st.expected)
  BY <1>1 DEF HInv, ToldInv, HeartbeatState
<1>3. CASE st' = [st EXCEPT !.loop[n] = [@ EXCEPT !.pc = "exit"]]
  <2> DEFINE r == [st.loop[n] EXCEPT !.pc = "exit"]
  <2>1. r \in LoopState /\ r.pc = "exit"
    BY <1>1, <1>2 DEF LoopState, Answers, heardBack
  <2> HIDE DEF r
  <2>2. st' = Moved(n, r, st.id, st.expected, st.told)
    BY <1>1, <1>2, <1>3 DEF Moved, HeartbeatState, r
  <2>3. QED
    BY <1>1, <1>2, <2>1, <2>2, MoveStep
<1>4. CASE st' = [st EXCEPT !.loop[n] = [@ EXCEPT !.pc = "wait"]]
  <2> DEFINE r == [st.loop[n] EXCEPT !.pc = "wait"]
  <2>1. r \in LoopState /\ r.pc = "wait"
    BY <1>1, <1>2 DEF LoopState, Answers, heardBack
  <2> HIDE DEF r
  <2>2. st' = Moved(n, r, st.id, st.expected, st.told)
    BY <1>1, <1>2, <1>4 DEF Moved, HeartbeatState, r
  <2>3. QED
    BY <1>1, <1>2, <2>1, <2>2, MoveStep
<1> DEFINE told == st.loop[n].id = st.expected
           loop == IF st.loop[n].answer = "accepted" THEN [st.loop[n] EXCEPT !.pc = "wait"]
                   ELSE [st.loop[n] EXCEPT !.pc = "flight", !.again = TRUE]
<1>5. adoptHeartbeatID(n, st.loop[n].id) = st.loop[n].id
  BY <1>1 DEF adoptHeartbeatID
<1>6. loop \in LoopState /\ loop.pc \in {"wait", "flight"} /\ loop.id = st.loop[n].id
  BY <1>1 DEF LoopState
<1>7. told \in BOOLEAN
  OBVIOUS
<1>8. CASE st' = [st EXCEPT !.told = told, !.id = adoptHeartbeatID(n, st.loop[n].id), !.loop[n] = loop]
  <2> HIDE DEF loop
  <2>1. st' = Moved(n, loop, st.loop[n].id, st.expected, told)
    BY <1>1, <1>2, <1>5, <1>8 DEF Moved, HeartbeatState
  <2>2. QED
    BY <1>1, <1>2, <1>6, <1>7, <2>1, MoveStep
<1>9. QED
  BY <1>3, <1>4, <1>8 DEF afterAnswer

\* The context given to StartHeartbeats ends.
LEMMA ParentStep == ASSUME HInv, parentEnds PROVE HInv'
<1>1. PICK n \in 1..MaxLoops : Alive(n) /\ st' = [st EXCEPT !.loop[n].cancelled = TRUE]
  BY DEF parentEnds
<1> DEFINE r == [st.loop[n] EXCEPT !.cancelled = TRUE]
<1>2. st \in HeartbeatState /\ st.loop[n] \in LoopState
  BY DEF HInv, HeartbeatType, HeartbeatState
<1>3. r \in LoopState /\ r.pc = st.loop[n].pc /\ r.id = st.loop[n].id
  BY <1>2 DEF LoopState
<1>4. st' = Moved(n, r, st.id, st.expected, st.told)
  BY <1>1, <1>2 DEF Moved, HeartbeatState
<1> HIDE DEF r
<1>5. st.id \in Nat /\ st.expected \in Nat /\ st.told \in BOOLEAN
  BY <1>2 DEF HeartbeatState
<1>6. QED
  BY <1>1, <1>3, <1>4, <1>5, MoveStep, SMT DEF HInv, ToldInv, Alive

\* A loop is started only while none is registered, and none is once closed.
LEMMA StartStep == ASSUME HInv, StartHeartbeats PROVE HInv'
<1> DEFINE n == st.started + 1
           r == [st.loop[n] EXCEPT !.pc = "wait"]
<1>1. st \in HeartbeatState /\ st.started \in 0..MaxLoops /\ st.started < MaxLoops /\ MaxLoops \in Nat
  BY HeartbeatBounds DEF HInv, HeartbeatType, HeartbeatState, StartHeartbeats
<1>2. n \in 1..MaxLoops /\ n \in 0..MaxLoops
  BY <1>1, SMT
<1>3. st.loop[n] \in LoopState
  BY <1>1, <1>2 DEF HeartbeatState
<1>4. r \in LoopState /\ r.pc = "wait"
  BY <1>3 DEF LoopState
<1>5. \A m \in 1..MaxLoops : ~Alive(m) /\ (st.loop[m].pc # "none" => m <= n)
  BY <1>1, SMT DEF HInv, RegisteredInv, StartHeartbeats
<1>6. st' = [st EXCEPT !.started = n, !.current = n, !.loop = [st.loop EXCEPT ![n] = r]]
  BY <1>1 DEF StartHeartbeats
<1>7. ~st.closed /\ st.loop[n].pc = "none"
  BY <1>1, <1>2, <1>3, SMT DEF HInv, RegisteredInv, StartHeartbeats
<1> HIDE DEF n, r
<1>8. [st.loop EXCEPT ![n] = r] \in [1..MaxLoops -> LoopState]
  BY <1>1, <1>4 DEF HeartbeatState
<1>9. HeartbeatType'
  BY <1>1, <1>2, <1>6, <1>8 DEF HeartbeatType, HeartbeatState
<1>10. /\ st'.loop = [st.loop EXCEPT ![n] = r] /\ st'.current = n /\ st'.started = n
       /\ st'.id = st.id /\ st'.expected = st.expected /\ st'.told = st.told /\ st'.closed = st.closed
       /\ st'.joined = st.joined /\ st'.joining = st.joining /\ st'.quiet = st.quiet
       /\ st'.rejectedInSync = st.rejectedInSync
  BY <1>1, <1>6 DEF HeartbeatState
<1>11. \A m \in 1..MaxLoops : st'.loop[m] = IF m = n THEN r ELSE st.loop[m]
  BY <1>1, <1>10 DEF HeartbeatState
<1>12. RegisteredInv'
  <2>1. n <= n
    BY <1>1, SMT DEF n
  <2>2. QED
    BY <1>5, <1>10, <1>11, <2>1 DEF RegisteredInv, Alive
<1>13. JoinInv'
  BY <1>7, <1>10, <1>11, SMT DEF HInv, JoinInv, Alive
<1>14. ToldInv'
  BY <1>4, <1>10, <1>11 DEF HInv, ToldInv
<1>15. QED
  BY <1>9, <1>12, <1>13, <1>14 DEF HInv

\* Stop and Close cancel the registered loop and wait for that one.
LEMMA CancelStep ==
    ASSUME HInv, NEW c \in Joiner, NEW closed \in BOOLEAN, st.current # 0,
           c = "close" => closed, st.closed => closed,
           st' = [st EXCEPT !.closed = closed, !.joining[c] = st.current,
                            !.loop[st.current].cancelled = TRUE]
    PROVE  HInv'
<1> DEFINE n == st.current
           r == [st.loop[n] EXCEPT !.cancelled = TRUE]
<1>1. st \in HeartbeatState /\ n \in 0..MaxLoops /\ MaxLoops \in Nat
  BY HeartbeatBounds DEF HInv, HeartbeatType, HeartbeatState
<1>2. n \in 1..MaxLoops
  BY <1>1, SMT
<1>3. st.loop[n] \in LoopState
  BY <1>1, <1>2 DEF HeartbeatState
<1>4. r \in LoopState /\ r.pc = st.loop[n].pc /\ r.id = st.loop[n].id
  BY <1>3 DEF LoopState
<1>5. st' = [st EXCEPT !.closed = closed, !.joining = [st.joining EXCEPT ![c] = n],
                       !.loop = [st.loop EXCEPT ![n] = r]]
  BY <1>1 DEF HeartbeatState
<1> HIDE DEF r
<1>6. /\ [st.loop EXCEPT ![n] = r] \in [1..MaxLoops -> LoopState]
      /\ [st.joining EXCEPT ![c] = n] \in [Joiner -> 0..MaxLoops]
  BY <1>1, <1>4 DEF HeartbeatState
<1>7. HeartbeatType'
  BY <1>1, <1>5, <1>6 DEF HeartbeatType, HeartbeatState
<1>8. /\ st'.loop = [st.loop EXCEPT ![n] = r] /\ st'.joining = [st.joining EXCEPT ![c] = n]
      /\ st'.current = n /\ st'.started = st.started /\ st'.id = st.id /\ st'.expected = st.expected
      /\ st'.told = st.told /\ st'.closed = closed /\ st'.joined = st.joined /\ st'.quiet = st.quiet
      /\ st'.rejectedInSync = st.rejectedInSync
  BY <1>1, <1>5 DEF HeartbeatState
<1>9. \A m \in 1..MaxLoops : /\ st'.loop[m].pc = st.loop[m].pc
                             /\ st'.loop[m].id = st.loop[m].id
                             /\ Alive(m)' <=> Alive(m)
  BY <1>1, <1>4, <1>8, SMT DEF HeartbeatState, Alive
<1>10. RegisteredInv'
  BY <1>8, <1>9 DEF HInv, RegisteredInv
<1>11. JoinInv'
  <2>1. \A d \in Joiner : st.joined[d] # 0 => st.joined[d] \in 1..MaxLoops
    BY <1>1, SMT DEF HeartbeatState
  <2>2. st'.joining["close"] \in {n, st.joining["close"]}
    BY <1>1, <1>8 DEF HeartbeatState, Joiner
  <2>3. st'.joining["close"] # 0 => closed /\ n \in {0, st'.joining["close"]}
    <3>1. CASE c = "close"
      BY <1>1, <1>8, <3>1 DEF HeartbeatState, Joiner
    <3>2. CASE c # "close"
      BY <1>1, <1>8, <3>2 DEF HeartbeatState, Joiner, HInv, JoinInv
    <3>3. QED
      BY <3>1, <3>2
  <2>4. QED
    BY <1>8, <1>9, <2>1, <2>3, SMT DEF HInv, JoinInv
<1>12. ToldInv'
  BY <1>8, <1>9, SMT DEF HInv, ToldInv
<1>13. QED
  BY <1>7, <1>10, <1>11, <1>12 DEF HInv

\* StopHeartbeats joins the loop it cancelled.
LEMMA StopStep == ASSUME HInv, StopHeartbeats PROVE HInv'
<1>1. st \in HeartbeatState
  BY DEF HInv, HeartbeatType
<1>2. st' = [st EXCEPT !.closed = st.closed, !.joining["stop"] = st.current,
                       !.loop[st.current].cancelled = TRUE]
  BY <1>1 DEF StopHeartbeats, HeartbeatState
<1>3. st.current # 0 /\ st.closed \in BOOLEAN /\ "stop" \in Joiner
  BY <1>1 DEF StopHeartbeats, HeartbeatState, Joiner
<1>4. QED
  BY <1>2, <1>3, CancelStep

\* A Close that finds no loop leaves none; any other joins the registered one.
LEMMA CloseStep == ASSUME HInv, closeHeartbeats PROVE HInv'
<1>1. st \in HeartbeatState
  BY DEF HInv, HeartbeatType
<1>2. CASE st.current = 0
  <2>1. st' = [st EXCEPT !.closed = TRUE, !.quiet = TRUE]
    BY <1>2 DEF closeHeartbeats
  <2>2. HeartbeatType'
    BY <1>1, <2>1 DEF HeartbeatType, HeartbeatState
  <2>3. /\ st'.closed /\ st'.loop = st.loop /\ st'.joining = st.joining /\ st'.joined = st.joined
        /\ st'.current = st.current /\ st'.started = st.started /\ st'.id = st.id
        /\ st'.expected = st.expected /\ st'.told = st.told /\ st'.rejectedInSync = st.rejectedInSync
    BY <1>1, <2>1 DEF HeartbeatState
  <2>4. \A m \in 1..MaxLoops : ~Alive(m) /\ (Alive(m)' <=> Alive(m))
    BY <1>2, <2>3, SMT DEF HInv, RegisteredInv, Alive
  <2>5. RegisteredInv' /\ JoinInv' /\ ToldInv'
    BY <1>2, <2>3, <2>4, SMT DEF HInv, RegisteredInv, JoinInv, ToldInv
  <2>6. QED
    BY <2>2, <2>5 DEF HInv
<1>3. CASE st.current # 0
  <2>1. st' = [st EXCEPT !.closed = TRUE, !.joining["close"] = st.current,
                         !.loop[st.current].cancelled = TRUE]
    BY <1>3 DEF closeHeartbeats
  <2>2. TRUE \in BOOLEAN /\ "close" \in Joiner
    BY DEF Joiner
  <2>3. QED
    BY <1>3, <2>1, <2>2, CancelStep
<1>4. QED
  BY <1>2, <1>3

\* A call that joined a loop returns: the loop has exited, or its context ended.
LEMMA JoinStep == ASSUME HInv, joinReturns PROVE HInv'
<1>1. st \in HeartbeatState
  BY DEF HInv, HeartbeatType
<1>2. PICK c \in Joiner :
        /\ st.joining[c] # 0
        /\ \/ /\ st.loop[st.joining[c]].pc = "exited"
              /\ st' = [st EXCEPT !.joined[c] = st.joining[c], !.joining[c] = 0,
                                  !.quiet = @ \/ c = "close"]
           \/ st' = [st EXCEPT !.joining[c] = 0]
  BY DEF joinReturns, Joiner
<1>3. PICK joined \in [Joiner -> 0..MaxLoops], quiet \in BOOLEAN :
        /\ st' = [st EXCEPT !.joined = joined, !.joining = [st.joining EXCEPT ![c] = 0], !.quiet = quiet]
        /\ \/ joined = st.joined /\ quiet = st.quiet
           \/ /\ st.loop[st.joining[c]].pc = "exited"
              /\ joined = [st.joined EXCEPT ![c] = st.joining[c]]
              /\ quiet <=> (st.quiet \/ c = "close")
  <2>1. CASE st' = [st EXCEPT !.joining[c] = 0]
    <3>1. /\ st.joined \in [Joiner -> 0..MaxLoops] /\ st.quiet \in BOOLEAN
          /\ st' = [st EXCEPT !.joined = st.joined, !.joining = [st.joining EXCEPT ![c] = 0],
                              !.quiet = st.quiet]
      BY <1>1, <2>1 DEF HeartbeatState
    <3>2. QED
      BY <3>1
  <2>2. CASE /\ st.loop[st.joining[c]].pc = "exited"
             /\ st' = [st EXCEPT !.joined[c] = st.joining[c], !.joining[c] = 0,
                                 !.quiet = @ \/ c = "close"]
    <3> DEFINE j == [st.joined EXCEPT ![c] = st.joining[c]]
               q == st.quiet \/ c = "close"
    <3>1. j \in [Joiner -> 0..MaxLoops] /\ q \in BOOLEAN
      BY <1>1 DEF HeartbeatState
    <3>2. st' = [st EXCEPT !.joined = j, !.joining = [st.joining EXCEPT ![c] = 0], !.quiet = q]
      BY <1>1, <2>2 DEF HeartbeatState
    <3>3. QED
      BY <2>2, <3>1, <3>2
  <2>3. QED
    BY <1>2, <2>1, <2>2
<1>4. 0 \in 0..MaxLoops
  BY HeartbeatBounds, SMT
<1>5. [st.joining EXCEPT ![c] = 0] \in [Joiner -> 0..MaxLoops]
  BY <1>1, <1>4 DEF HeartbeatState
<1>6. HeartbeatType'
  BY <1>1, <1>3, <1>5 DEF HeartbeatType, HeartbeatState
<1>7. /\ st'.joined = joined /\ st'.joining = [st.joining EXCEPT ![c] = 0] /\ st'.quiet = quiet
      /\ st'.loop = st.loop /\ st'.closed = st.closed /\ st'.current = st.current
      /\ st'.started = st.started /\ st'.id = st.id /\ st'.expected = st.expected
      /\ st'.told = st.told /\ st'.rejectedInSync = st.rejectedInSync
  BY <1>1, <1>3 DEF HeartbeatState
<1>8. \A m \in 1..MaxLoops : Alive(m)' <=> Alive(m)
  BY <1>7 DEF Alive
<1>9. RegisteredInv' /\ ToldInv'
  BY <1>7, <1>8 DEF HInv, RegisteredInv, ToldInv
<1>10. JoinInv'
  <2>1. \A d \in Joiner : joined[d] # 0 => st.loop[joined[d]].pc = "exited"
    BY <1>1, <1>3 DEF HInv, JoinInv, HeartbeatState
  <2>2. st'.joining["close"] # 0 => st.closed /\ st.current \in {0, st'.joining["close"]}
    BY <1>1, <1>7 DEF HInv, JoinInv, HeartbeatState, Joiner
  <2>3. quiet => st.closed /\ \A m \in 1..MaxLoops : ~Alive(m)
    <3>1. CASE st.quiet
      BY <3>1 DEF HInv, JoinInv
    <3>2. CASE c = "close" /\ st.loop[st.joining[c]].pc = "exited"
      BY <1>2, <3>2, SMT DEF HInv, JoinInv, RegisteredInv, Alive
    <3>3. QED
      BY <1>3, <3>1, <3>2
  <2>4. QED
    BY <1>7, <1>8, <2>1, <2>2, <2>3 DEF JoinInv
<1>11. QED
  BY <1>6, <1>9, <1>10 DEF HInv

\* Another process of the account rotates the id, of which nobody is told.
LEMMA ForeignStep == ASSUME HInv, foreignPost PROVE HInv'
<1>1. st \in HeartbeatState /\ st.expected \in Nat
  BY DEF HInv, HeartbeatType, HeartbeatState
<1>2. st.expected + 1 \in Nat
  BY <1>1, SMT
<1>3. HeartbeatType'
  BY <1>1, <1>2 DEF HeartbeatType, HeartbeatState, foreignPost
<1>4. /\ st'.loop = st.loop /\ st'.joining = st.joining /\ st'.joined = st.joined /\ ~st'.told
      /\ st'.quiet = st.quiet /\ st'.closed = st.closed /\ st'.current = st.current
      /\ st'.started = st.started /\ st'.rejectedInSync = st.rejectedInSync
  BY <1>1 DEF HeartbeatState, foreignPost
<1>5. \A m \in 1..MaxLoops : Alive(m)' <=> Alive(m)
  BY <1>4 DEF Alive
<1>6. QED
  BY <1>3, <1>4, <1>5 DEF HInv, RegisteredInv, JoinInv, ToldInv

\* The loop that exits was the registered one, so none is left.
LEMMA ExitStep == ASSUME HInv, NEW n \in 1..MaxLoops, loopExits(n) PROVE HInv'
<1> DEFINE r == [st.loop[n] EXCEPT !.pc = "exited"]
<1>1. st \in HeartbeatState /\ st.loop[n] \in LoopState /\ st.current = n
  BY DEF HInv, HeartbeatType, HeartbeatState, RegisteredInv, loopExits, LoopAt, Alive
<1>2. r \in LoopState /\ r.pc = "exited"
  BY <1>1 DEF LoopState
<1>3. st' = [st EXCEPT !.loop = [st.loop EXCEPT ![n] = r], !.current = 0]
  BY <1>1 DEF loopExits, HeartbeatState
<1>4. st.loop[n].pc = "exit"
  BY DEF loopExits, LoopAt
<1> HIDE DEF r
<1>5. [st.loop EXCEPT ![n] = r] \in [1..MaxLoops -> LoopState] /\ 0 \in 0..MaxLoops
  BY <1>1, <1>2, HeartbeatBounds, SMT DEF HeartbeatState
<1>6. HeartbeatType'
  BY <1>1, <1>3, <1>5 DEF HeartbeatType, HeartbeatState
<1>7. /\ st'.loop = [st.loop EXCEPT ![n] = r] /\ st'.current = 0 /\ st'.started = st.started
      /\ st'.joining = st.joining /\ st'.joined = st.joined /\ st'.quiet = st.quiet
      /\ st'.closed = st.closed /\ st'.id = st.id /\ st'.expected = st.expected
      /\ st'.told = st.told /\ st'.rejectedInSync = st.rejectedInSync
  BY <1>1, <1>3 DEF HeartbeatState
<1>8. \A m \in 1..MaxLoops : st'.loop[m] = IF m = n THEN r ELSE st.loop[m]
  BY <1>1, <1>7 DEF HeartbeatState
<1>9. \A m \in 1..MaxLoops : ~Alive(m)'
  BY <1>1, <1>2, <1>8 DEF HInv, RegisteredInv, Alive
<1>10. RegisteredInv'
  BY <1>4, <1>7, <1>8, <1>9 DEF HInv, RegisteredInv
<1>11. JoinInv'
  <2>1. \A c \in Joiner : st.joined[c] # 0 => st.joined[c] \in 1..MaxLoops
    BY <1>1, SMT DEF HeartbeatState
  <2>2. QED
    BY <1>2, <1>7, <1>8, <1>9, <2>1, SMT DEF HInv, JoinInv
<1>12. ToldInv'
  BY <1>2, <1>7, <1>8 DEF HInv, ToldInv
<1>13. QED
  BY <1>6, <1>10, <1>11, <1>12 DEF HInv

-----------------------------------------------------------------------------

(***************************************************************************)
(* The invariant holds in every state of StartHeartbeats, StopHeartbeats,  *)
(* Close, the loops and the server.                                        *)
(***************************************************************************)
THEOREM HeartbeatInvariance == HeartbeatSpec => []HInv
<1>1. HeartbeatInit => HInv
  <2> SUFFICES ASSUME HeartbeatInit PROVE HInv
    OBVIOUS
  <2>1. NoLoop \in LoopState /\ NoLoop.pc = "none" /\ 0 \in 0..MaxLoops
    BY HeartbeatBounds, SMT DEF NoLoop, LoopState, Answers
  <2> HIDE DEF NoLoop
  <2>2. /\ [n \in 1..MaxLoops |-> NoLoop] \in [1..MaxLoops -> LoopState]
        /\ [c \in Joiner |-> 0] \in [Joiner -> 0..MaxLoops]
    BY <2>1
  <2>3. HeartbeatType
    BY <2>1, <2>2 DEF HeartbeatInit, HeartbeatType, HeartbeatState, Joiner
  <2>4. RegisteredInv /\ JoinInv /\ ToldInv
    BY <2>1 DEF HeartbeatInit, RegisteredInv, JoinInv, ToldInv, Alive, Joiner
  <2>5. QED
    BY <2>3, <2>4 DEF HInv
<1>2. HInv /\ [HeartbeatNext]_st => HInv'
  <2> SUFFICES ASSUME HInv, [HeartbeatNext]_st PROVE HInv'
    OBVIOUS
  <2>1. CASE HeartbeatNext
    BY <2>1, StartStep, StopStep, CloseStep, JoinStep, ParentStep, ForeignStep, TickStep, PostStep,
       AnswerStep, ExitStep DEF HeartbeatNext
  <2>2. CASE UNCHANGED st
    BY <2>2 DEF HInv, HeartbeatType, RegisteredInv, JoinInv, ToldInv, Alive
  <2>3. QED
    BY <2>1, <2>2
<1>3. QED
  BY <1>1, <1>2, PTL DEF HeartbeatSpec

(***************************************************************************)
(* For any number of starts, stops and rotations: at most one heartbeat    *)
(* loop lives, a Stop or Close that returned nil has seen its loop end,    *)
(* none posts after Close, and no post is rejected while the loop has been *)
(* told the id the server expects.                                         *)
(***************************************************************************)
THEOREM HeartbeatsAreKept == HeartbeatSpec => []HeartbeatsKept
<1>1. HInv => HeartbeatsKept
  <2> SUFFICES ASSUME HInv PROVE HeartbeatsKept
    OBVIOUS
  <2> DEFINE living == {n \in 1..MaxLoops : Alive(n)}
  <2>1. living \subseteq {st.current}
    BY DEF HInv, RegisteredInv
  <2>2. IsFiniteSet({st.current}) /\ Cardinality({st.current}) = 1
    BY FS_Singleton
  <2> HIDE DEF living
  <2>3. IsFiniteSet(living) /\ Cardinality(living) <= 1
    BY <2>1, <2>2, FS_Subset
  <2>4. Cardinality({n \in 1..MaxLoops : Alive(n)}) <= 1
    BY <2>3 DEF living
  <2>5. OneLoopQuietAfterClose
    BY <2>4 DEF OneLoopQuietAfterClose, HInv, JoinInv, Joiner, Alive
  <2>6. QED
    BY <2>5 DEF HeartbeatsKept, HeartbeatHeals, HInv, ToldInv
<1>2. QED
  BY <1>1, HeartbeatInvariance, PTL

-----------------------------------------------------------------------------
(*****************************************************************************)
(* Relay                                                                     *)
(*****************************************************************************)

RelayAnswer == {"none", "limited", "refused", "lost", "busy", "low", "accepted"}
Results == RelayAnswer \cup {"invalid", "failed", "already deployed", "ready", "cancelled",
                       "confirmed", "timeout", "reverted"}
Places == {"begin", "safe", "build", "submit", "flight", "judge", "sleep", "status", "wait", "view", "done"}
DeployOps == {"deploy", "deploySafe", "ensure"}

\* The shape of an operation, the relayer and the chain.
RelayState ==
    [part : {"relay"}, op : RelayOps, wallet : {"EOA", "PROXY", "SAFE", "WALLET"}, owner : BOOLEAN,
     view : {"absent", "other", "expected"}, pc : Places, attempt : Int, polls : Int, chain : Int,
     moves : Int, nonce : Int, named : Int, corrected : BOOLEAN, answer : RelayAnswer,
     taken : BOOLEAN, tx : {"none", "new", "confirmed", "failed"}, executed : {0, 1},
     handle : BOOLEAN, confirmed : BOOLEAN,
     result : Results]

\* A transaction exists only once taken, and a pending one has not executed.
TakenInv ==
    /\ IF st.taken THEN st.tx # "none" ELSE st.executed = 0 /\ st.tx = "none"
    /\ st.tx = "new" => st.executed = 0

\* A batch the relayer took is not sent again: its answer was an acceptance or
\* was lost, and neither is retried.  What is waited for was taken.
SentInv ==
    /\ Kind = "batch" /\ st.taken =>
          \/ st.pc = "judge" /\ st.answer \in {"accepted", "lost"}
          \/ st.pc \in {"wait", "status", "view", "done"}
    /\ (st.pc = "judge" /\ st.answer = "accepted") \/ st.pc \in {"wait", "status", "view"} => st.taken

\* The chain counts executions and other clients; a corrected nonce was on it.
NonceInv ==
    /\ Nonced => st.chain = 1 + st.moves + st.executed
    /\ st.moves >= 0
    /\ st.pc = "judge" /\ st.answer = "low" => st.named >= 1 /\ st.nonce < st.chain
    /\ st.corrected => st.nonce >= 1

\* A confirmation is of a mined transaction, and only owners deploy.
WaitInv ==
    /\ st.confirmed => st.pc \in {"view", "done"}
    /\ st.pc = "view" /\ st.op = "authorize" => st.confirmed
    /\ st.op \in DeployOps /\ (st.pc \notin {"begin", "safe", "done"} \/ st.taken)
          => st.owner /\ st.wallet \in {"SAFE", "WALLET"}
    /\ st.pc = "safe" => st.op = "ensure"
    /\ st.pc # "done" => st.result = "none"

RInv == /\ st \in RelayState /\ TakenInv /\ SentInv /\ NonceInv /\ WaitInv
        /\ StaleNonceIsCorrected /\ RelayOutcomeTruthful

-----------------------------------------------------------------------------
(* Each step preserves the invariant.                                      *)

\* What a step of the caller leaves alone.
Kept ==
    /\ st'.op = st.op /\ st'.wallet = st.wallet /\ st'.owner = st.owner /\ st'.view = st.view
    /\ st'.taken = st.taken /\ st'.tx = st.tx /\ st'.executed = st.executed
    /\ st'.chain = st.chain /\ st'.moves = st.moves /\ st'.confirmed = st.confirmed

\* Where such a step may lead, and with what.
Moves ==
    /\ Kind = "batch" /\ st.taken =>
          \/ st'.pc = "judge" /\ st'.answer \in {"accepted", "lost"}
          \/ st'.pc \in {"wait", "status", "view", "done"}
    /\ (st'.pc = "judge" /\ st'.answer = "accepted") \/ st'.pc \in {"wait", "status", "view"} => st.taken
    /\ st.confirmed => st'.pc \in {"view", "done"}
    /\ st'.pc = "view" /\ st.op = "authorize" => st.confirmed
    /\ st.op \in DeployOps /\ st'.pc \notin {"begin", "safe", "done"}
          => st.owner /\ st.wallet \in {"SAFE", "WALLET"}
    /\ st'.pc = "safe" => st.op = "ensure"
    /\ st'.pc # "done" => st'.result = "none"

\* Which nonce it may hold.
Nonces ==
    /\ st'.pc = "judge" /\ st'.answer = "low" => st'.named >= 1 /\ st'.nonce < st.chain
    /\ st'.corrected => st'.nonce >= 1

\* What it may report.
Reports ==
    /\ st'.pc = "done" /\ Kind = "batch" /\ st.wallet = "WALLET" /\ st'.result = "low"
          => st'.attempt = SubmitRetryAttempts /\ st.moves > 0
    /\ st'.result = "ready" => Ready \/ (st.op = "ensure" /\ st.wallet = "EOA")
    /\ st'.result = "ready" /\ st.op = "authorize" => st.confirmed
    /\ st'.result = "reverted" => st.tx = "failed"

\* The operation submits the same kind as before.
LEMMA SameKind ==
    ASSUME st'.op = st.op, st'.wallet = st.wallet
    PROVE  Kind' = Kind /\ (Nonced' <=> Nonced) /\ (st'.view = st.view => (Ready' <=> Ready))
<1>1. Kind' = Kind
  BY DEF Kind
<1>2. QED
  BY <1>1 DEF Nonced, Ready

\* A step of the caller that keeps to these preserves the invariant.
LEMMA QuietStep == ASSUME RInv, st' \in RelayState, Kept, Moves, Nonces, Reports PROVE RInv'
<1>1. Kind' = Kind /\ (Nonced' <=> Nonced) /\ (Ready' <=> Ready)
  BY SameKind DEF Kept
<1>2. TakenInv'
  BY DEF RInv, TakenInv, Kept
<1>3. SentInv'
  BY <1>1 DEF RInv, SentInv, Kept, Moves
<1>4. NonceInv'
  BY <1>1 DEF RInv, NonceInv, Kept, Nonces
<1>5. WaitInv'
  BY SMT DEF RInv, WaitInv, RelayOutcomeTruthful, RelayState, Kept, Moves, DeployOps
<1>6. StaleNonceIsCorrected'
  BY <1>1 DEF StaleNonceIsCorrected, Kept, Reports
<1>7. RelayOutcomeTruthful'
  BY <1>1 DEF RInv, RelayOutcomeTruthful, RelayState, Kept, Reports
<1>8. QED
  BY <1>2, <1>3, <1>4, <1>5, <1>6, <1>7 DEF RInv

\* The caller only moves on to another place.
LEMMA GoStep ==
    ASSUME RInv, NEW pc \in Places, st' = [st EXCEPT !.pc = pc],
           Kind = "batch" /\ st.taken => pc \in {"wait", "status", "view", "done"},
           pc \in {"wait", "status", "view"} => st.taken,
           st.confirmed => pc \in {"view", "done"},
           pc = "view" /\ st.op = "authorize" => st.confirmed,
           st.op \in DeployOps /\ pc # "safe" => st.owner /\ st.wallet \in {"SAFE", "WALLET"},
           pc = "safe" => st.op = "ensure",
           pc \notin {"judge", "done"}, st.pc # "done"
    PROVE  RInv'
<1>1. st \in RelayState
  BY DEF RInv
<1>2. st' \in RelayState
  BY <1>1 DEF RelayState
<1>3. Kept /\ st'.pc = pc /\ st'.result = st.result /\ st'.nonce = st.nonce /\ st'.corrected = st.corrected
  BY <1>1 DEF RelayState, Kept
<1>4. st.result = "none"
  BY DEF RInv, WaitInv
<1>5. Moves
  BY <1>3, <1>4 DEF Moves
<1>6. Nonces /\ Reports
  BY <1>3, <1>4 DEF RInv, NonceInv, Nonces, Reports
<1>7. QED
  BY <1>2, <1>3, <1>5, <1>6, QuietStep

\* A call ends, with an outcome that is so.
LEMMA ReturnStep ==
    ASSUME RInv, NEW result \in Results, RelayReturn(result), st.pc # "done",
           result = "low" /\ Kind = "batch" /\ st.wallet = "WALLET" =>
              st.attempt = SubmitRetryAttempts /\ st.moves > 0,
           result = "ready" => Ready \/ (st.op = "ensure" /\ st.wallet = "EOA"),
           result = "ready" /\ st.op = "authorize" => st.confirmed,
           result = "reverted" => st.tx = "failed"
    PROVE  RInv'
<1>1. st \in RelayState /\ "done" \in Places
  BY DEF RInv, Places
<1>2. st' \in RelayState
  BY <1>1 DEF RelayState, RelayReturn
<1>3. /\ Kept /\ st'.pc = "done" /\ st'.result = result /\ st'.nonce = st.nonce
      /\ st'.corrected = st.corrected /\ st'.attempt = st.attempt
  BY <1>1 DEF RelayState, Kept, RelayReturn
<1>4. Moves /\ Reports
  BY <1>3 DEF Moves, Reports
<1>5. Nonces
  BY <1>3 DEF RInv, NonceInv, Nonces
<1>6. QED
  BY <1>2, <1>3, <1>4, <1>5, QuietStep

\* The checks before a submission.
LEMMA BeginStep ==
    ASSUME RInv, beginSigned \/ beginCreate \/ beginSafe \/ EnsureWalletReady PROVE RInv'
<1>1. /\ st \in RelayState /\ st.pc \in {"begin", "safe"} /\ ~st.confirmed
      /\ ~(Kind = "batch" /\ st.taken) /\ (st.pc = "safe" => st.op = "ensure")
  BY DEF RInv, WaitInv, SentInv, beginSigned, beginCreate, beginSafe, EnsureWalletReady, RelayAt
<1>2. ASSUME NEW pc \in {"build", "submit", "safe"}, RelayGo(pc),
             st.op \in DeployOps /\ pc # "safe" => st.owner /\ st.wallet \in {"SAFE", "WALLET"},
             pc = "safe" => st.op = "ensure"
      PROVE  RInv'
  BY <1>1, <1>2, GoStep DEF RelayGo, Places
<1>3. ASSUME NEW result \in {"invalid", "failed", "already deployed"}, RelayReturn(result) PROVE RInv'
  BY <1>1, <1>3, ReturnStep DEF Results
<1>4. CASE beginSigned
  <2>1. st.op \notin DeployOps
    BY <1>1, <1>4 DEF RelayState, RelayOps, DeployOps, beginSigned, Nonced, Kind
  <2>2. QED
    BY <1>2, <1>3, <1>4, <2>1 DEF beginSigned
<1>5. CASE beginCreate
  BY <1>2, <1>3, <1>5 DEF beginCreate, requireDepositWalletDeploymentTarget
<1>6. CASE beginSafe
  BY <1>2, <1>3, <1>6 DEF beginSafe, requireSafeDeploymentTarget
<1>7. CASE EnsureWalletReady
  <2>1. CASE RelayReturn("ready") /\ (st.wallet = "EOA" \/ st.view = "expected")
    BY <1>1, <1>7, <2>1, ReturnStep DEF EnsureWalletReady, Ready, Results
  <2>2. CASE RelayGo("safe")
    BY <1>2, <1>7, <2>2 DEF EnsureWalletReady
  <2>3. CASE RelayGo("submit") /\ requireDepositWalletDeploymentTarget
    BY <1>2, <2>3 DEF requireDepositWalletDeploymentTarget
  <2>4. CASE RelayReturn("failed") \/ RelayReturn("invalid")
    BY <1>3, <2>4
  <2>5. QED
    BY <1>7, <2>1, <2>2, <2>3, <2>4 DEF EnsureWalletReady
<1>8. QED
  BY <1>4, <1>5, <1>6, <1>7

\* A batch is signed for a nonce the endpoint reports.
LEMMA BuildStep == ASSUME RInv, BuildGaslessSubmit PROVE RInv'
<1>1. /\ st \in RelayState /\ st.pc = "build" /\ ~st.confirmed /\ ~(Kind = "batch" /\ st.taken)
      /\ st.result = "none"
      /\ st.op \in DeployOps => st.owner /\ st.wallet \in {"SAFE", "WALLET"}
  BY DEF RInv, WaitInv, SentInv, BuildGaslessSubmit, RelayAt
<1>2. ASSUME NEW nonce \in Int, st' = [st EXCEPT !.pc = "submit", !.nonce = nonce, !.corrected = FALSE]
      PROVE  RInv'
  <2>1. st' \in RelayState
    BY <1>1, <1>2 DEF RelayState, Places
  <2>2. Kept /\ st'.pc = "submit" /\ ~st'.corrected /\ st'.result = "none"
    BY <1>1, <1>2 DEF RelayState, Kept
  <2>3. Moves /\ Nonces /\ Reports
    BY <1>1, <2>2 DEF Moves, Nonces, Reports
  <2>4. QED
    BY <2>1, <2>2, <2>3, QuietStep
<1>3. ASSUME NEW answer \in {"limited", "refused"}, st' = [st EXCEPT !.pc = "judge", !.answer = answer]
      PROVE  RInv'
  <2>1. st' \in RelayState
    BY ZenonT(60), <1>1, <1>3 DEF RelayState, Places, RelayAnswer
  <2>2. /\ Kept /\ st'.pc = "judge" /\ st'.answer = answer /\ st'.result = "none"
        /\ st'.corrected = st.corrected /\ st'.nonce = st.nonce
    BY <1>1, <1>3 DEF RelayState, Kept
  <2>3. Moves /\ Nonces /\ Reports
    BY <1>1, <1>3, <2>2 DEF RInv, NonceInv, Moves, Nonces, Reports
  <2>4. QED
    BY <2>1, <2>2, <2>3, QuietStep
<1>4. CASE RelayReturn("failed")
  BY <1>1, <1>4, ReturnStep DEF Results
<1>5. \A nonce \in {st.chain - 1, st.chain} : nonce \in Int
  BY <1>1, SMT DEF RelayState
<1>6. QED
  BY <1>2, <1>3, <1>4, <1>5 DEF BuildGaslessSubmit

\* submit only moves on.
LEMMA SubmitStep == ASSUME RInv, submit PROVE RInv'
<1>1. /\ st.pc = "submit" /\ ~st.confirmed /\ ~(Kind = "batch" /\ st.taken)
      /\ st.op \in DeployOps => st.owner /\ st.wallet \in {"SAFE", "WALLET"}
  BY DEF RInv, WaitInv, SentInv, submit, RelayAt
<1>2. QED
  BY <1>1, GoStep DEF submit, RelayGo, Places

\* The relayer takes what was not taken before, and an answer follows.
LEMMA RelayerStep == ASSUME RInv, relayAnswers PROVE RInv'
<1>1. /\ st \in RelayState /\ st.pc = "flight" /\ ~st.confirmed /\ ~(Kind = "batch" /\ st.taken)
      /\ st.result = "none"
      /\ st.op \in DeployOps => st.owner /\ st.wallet \in {"SAFE", "WALLET"}
  BY DEF RInv, WaitInv, SentInv, relayAnswers, RelayAt
<1>2. ASSUME NEW answer \in RelayAnswer, answer # "low", answer = "accepted" => st.taken,
             st' = [st EXCEPT !.pc = "judge", !.answer = answer]
      PROVE  RInv'
  <2>1. st' \in RelayState
    BY <1>1, <1>2 DEF RelayState, Places
  <2>2. /\ Kept /\ st'.pc = "judge" /\ st'.answer = answer /\ st'.result = "none"
        /\ st'.corrected = st.corrected /\ st'.nonce = st.nonce
    BY <1>1, <1>2 DEF RelayState, Kept
  <2>3. Moves /\ Nonces /\ Reports
    BY <1>1, <1>2, <2>2 DEF RInv, NonceInv, Moves, Nonces, Reports
  <2>4. QED
    BY <2>1, <2>2, <2>3, QuietStep
<1>3. CASE /\ Nonced /\ st.nonce < st.chain
           /\ st' = [st EXCEPT !.named = st.chain, !.pc = "judge", !.answer = "low"]
  <2>1. st' \in RelayState
    <3>1. "judge" \in Places /\ "low" \in RelayAnswer /\ st.chain \in Int
      BY <1>1 DEF Places, RelayAnswer, RelayState
    <3>2. QED
      BY <1>1, <1>3, <3>1 DEF RelayState
  <2>2. /\ Kept /\ st'.pc = "judge" /\ st'.answer = "low" /\ st'.result = "none"
        /\ st'.corrected = st.corrected /\ st'.nonce = st.nonce /\ st'.named = st.chain
    BY <1>1, <1>3 DEF RelayState, Kept
  <2>3. st.chain >= 1
    BY <1>1, <1>3, SMT DEF RInv, NonceInv, RelayState
  <2>4. Moves /\ Nonces /\ Reports
    BY <1>1, <1>3, <2>2, <2>3 DEF RInv, NonceInv, Moves, Nonces, Reports
  <2>5. QED
    BY <2>1, <2>2, <2>4, QuietStep
<1>4. ASSUME NEW answer \in {"accepted", "lost"}, ~st.taken,
             st' = [st EXCEPT !.taken = TRUE, !.tx = "new", !.pc = "judge", !.answer = answer]
      PROVE  RInv'
  <2>1. st' \in RelayState
    <3>1. "judge" \in Places /\ answer \in RelayAnswer
      BY DEF Places, RelayAnswer
    <3>2. QED
      BY <1>1, <1>4, <3>1 DEF RelayState
  <2>2. /\ st'.op = st.op /\ st'.wallet = st.wallet /\ st'.owner = st.owner /\ st'.view = st.view
        /\ st'.taken /\ st'.tx = "new" /\ st'.executed = st.executed /\ st'.chain = st.chain
        /\ st'.moves = st.moves /\ ~st'.confirmed /\ st'.pc = "judge" /\ st'.answer = answer
        /\ st'.result = "none" /\ st'.corrected = st.corrected /\ st'.nonce = st.nonce
    BY <1>1, <1>4 DEF RelayState
  <2>3. Kind' = Kind /\ (Nonced' <=> Nonced)
    BY <2>2, SameKind
  <2>4. TakenInv' /\ SentInv'
    BY <1>4, <2>2 DEF RInv, TakenInv, SentInv
  <2>5. NonceInv'
    BY <1>4, <2>2, <2>3 DEF RInv, NonceInv
  <2>6. WaitInv' /\ StaleNonceIsCorrected'
    BY <1>1, <2>2 DEF WaitInv, StaleNonceIsCorrected
  <2>7. RelayOutcomeTruthful'
    BY <1>1, <2>2 DEF RelayOutcomeTruthful, DeployOps
  <2>8. QED
    BY <2>1, <2>4, <2>5, <2>6, <2>7 DEF RInv
<1>5. Repeated <=> st.taken
  BY <1>1 DEF Repeated
<1>6. QED
  BY <1>2, <1>3, <1>4, <1>5 DEF relayAnswers, Take, RelayAnswer

\* A batch is given up for a low nonce only in the last attempt, and after
\* another client moved the nonce.
LEMMA LowNonce ==
    ASSUME RInv, st.pc = "judge", st.answer = "low", Kind = "batch", st.wallet = "WALLET",
           ~CorrectDepositNonce
    PROVE  st.moves > 0
<1>1. st \in RelayState /\ ~st.taken /\ st.corrected
  BY DEF RInv, SentInv, CorrectDepositNonce, RelayState
<1>2. st.executed = 0 /\ Nonced /\ st.nonce >= 1 /\ st.nonce < st.chain
  BY <1>1 DEF RInv, TakenInv, NonceInv, Nonced
<1>3. QED
  BY <1>1, <1>2, SMT DEF RInv, NonceInv, RelayState

\* An accepted submission is waited for, a low nonce corrected, a retryable
\* answer retried.
LEMMA JudgeStep == ASSUME RInv, judge PROVE RInv'
<1>1. /\ st \in RelayState /\ st.pc = "judge" /\ ~st.confirmed /\ st.result = "none"
      /\ st.op \in DeployOps => st.owner /\ st.wallet \in {"SAFE", "WALLET"}
      /\ Kind = "batch" /\ st.taken => st.answer \in {"accepted", "lost"}
      /\ st.answer = "accepted" => st.taken
  BY DEF RInv, WaitInv, SentInv, judge, RelayAt
<1>2. CASE st.answer = "accepted"
  <2> DEFINE pc == IF Kind = "session" THEN "status" ELSE "wait"
  <2>1. pc \in {"status", "wait"} /\ pc \in Places
    BY DEF Places
  <2>2. st' = [st EXCEPT !.pc = pc, !.handle = TRUE]
    BY <1>2 DEF judge, CorrectDepositNonce
  <2> HIDE DEF pc
  <2>3. st' \in RelayState
    BY <1>1, <2>1, <2>2 DEF RelayState
  <2>4. /\ Kept /\ st'.pc = pc /\ st'.result = "none"
        /\ st'.corrected = st.corrected /\ st'.nonce = st.nonce
    BY <1>1, <2>2 DEF RelayState, Kept
  <2>5. Moves /\ Nonces /\ Reports
    BY <1>1, <1>2, <2>1, <2>4 DEF RInv, NonceInv, Moves, Nonces, Reports
  <2>6. QED
    BY <2>3, <2>4, <2>5, QuietStep
<1>3. CASE CorrectDepositNonce
  <2>1. CASE RelayReturn("failed")
    BY <1>1, <2>1, ReturnStep DEF Results
  <2>2. CASE st' = [st EXCEPT !.pc = "submit", !.nonce = st.named, !.corrected = TRUE]
    <3>1. st' \in RelayState
      BY <1>1, <2>2 DEF RelayState, Places
    <3>2. Kept /\ st'.pc = "submit" /\ st'.nonce = st.named /\ st'.result = "none"
      BY <1>1, <2>2 DEF RelayState, Kept
    <3>3. st.answer = "low" /\ st.named >= 1
      BY <1>1, <1>3 DEF RInv, NonceInv, CorrectDepositNonce
    <3>4. Moves /\ Nonces /\ Reports
      BY <1>1, <3>2, <3>3 DEF Moves, Nonces, Reports
    <3>5. QED
      BY <3>1, <3>2, <3>4, QuietStep
  <2>3. st.answer # "accepted"
    BY <1>3 DEF CorrectDepositNonce
  <2>4. QED
    BY <1>3, <2>1, <2>2, <2>3 DEF judge
<1>4. CASE st.answer # "accepted" /\ ~CorrectDepositNonce
  <2>1. CASE RelayReturn(st.answer) /\ (st.attempt = SubmitRetryAttempts \/ ~isRetryable(Kind, st.answer))
    <3>1. st.answer \in Results /\ st.answer \notin {"ready", "reverted"}
      BY <1>1 DEF RelayState, RelayAnswer, Results
    <3>2. st.answer = "low" /\ Kind = "batch" => st.attempt = SubmitRetryAttempts
      BY <2>1 DEF isRetryable
    <3>3. st.answer = "low" /\ Kind = "batch" /\ st.wallet = "WALLET" => st.moves > 0
      BY <1>1, <1>4, LowNonce
    <3>4. QED
      BY <1>1, <2>1, <3>1, <3>2, <3>3, ReturnStep
  <2>2. CASE RelayGo("sleep") /\ isRetryable(Kind, st.answer)
    <3>1. ~(Kind = "batch" /\ st.taken)
      BY <1>1, <1>4, <2>2 DEF isRetryable
    <3>2. QED
      BY <1>1, <2>2, <3>1, GoStep DEF RelayGo, Places
  <2>3. QED
    BY <1>4, <2>1, <2>2 DEF judge
<1>5. QED
  BY <1>2, <1>3, <1>4

\* The pause before a retry.
LEMMA SleepStep == ASSUME RInv, sleepCtx PROVE RInv'
<1>1. /\ st \in RelayState /\ st.pc = "sleep" /\ ~st.confirmed /\ ~(Kind = "batch" /\ st.taken)
      /\ st.result = "none"
      /\ st.op \in DeployOps => st.owner /\ st.wallet \in {"SAFE", "WALLET"}
  BY DEF RInv, WaitInv, SentInv, sleepCtx, RelayAt
<1>2. CASE RelayReturn("cancelled")
  BY <1>1, <1>2, ReturnStep DEF Results
<1>3. ASSUME NEW pc \in {"build", "submit"}, st' = [st EXCEPT !.pc = pc, !.attempt = @ + 1] PROVE RInv'
  <2>1. st.attempt + 1 \in Int /\ pc \in Places
    BY <1>1, SMT DEF RelayState, Places
  <2>2. st' \in RelayState
    BY <1>1, <1>3, <2>1 DEF RelayState
  <2>3. /\ Kept /\ st'.pc = pc /\ st'.result = "none"
        /\ st'.corrected = st.corrected /\ st'.nonce = st.nonce
    BY <1>1, <1>3 DEF RelayState, Kept
  <2>4. Moves /\ Nonces /\ Reports
    BY <1>1, <2>3 DEF RInv, NonceInv, Moves, Nonces, Reports
  <2>5. QED
    BY <2>2, <2>3, <2>4, QuietStep
<1>4. QED
  BY <1>2, <1>3 DEF sleepCtx

\* Another read of the transaction or of the view.
LEMMA AgainStep == ASSUME RInv, st.pc \in {"wait", "view"}, Again(st.pc) PROVE RInv'
<1>1. st \in RelayState /\ st.result = "none"
  BY DEF RInv, WaitInv
<1>2. CASE RelayReturn("timeout")
  BY <1>2, ReturnStep DEF Results
<1>3. CASE st' = [st EXCEPT !.pc = st.pc, !.polls = @ + 1]
  <2>1. st.polls + 1 \in Int
    BY <1>1, SMT DEF RelayState
  <2>2. st' \in RelayState
    BY <1>1, <1>3, <2>1 DEF RelayState
  <2>3. /\ Kept /\ st'.pc = st.pc /\ st'.result = "none"
        /\ st'.corrected = st.corrected /\ st'.nonce = st.nonce
    BY <1>1, <1>3 DEF RelayState, Kept
  <2>4. Moves /\ Nonces /\ Reports
    BY <1>1, <2>3 DEF RInv, NonceInv, SentInv, WaitInv, Moves, Nonces, Reports
  <2>5. QED
    BY <2>2, <2>3, <2>4, QuietStep
<1>4. QED
  BY <1>2, <1>3 DEF Again

\* The waits report what they saw.
LEMMA WaitStep == ASSUME RInv, validateSessionKeyStatus \/ PollUntilTerminal \/ pollView PROVE RInv'
<1>1. /\ st \in RelayState /\ st.pc \in {"status", "wait", "view"} /\ st.result = "none"
      /\ st.op \in DeployOps => st.owner /\ st.wallet \in {"SAFE", "WALLET"}
      /\ st.pc # "view" => ~st.confirmed
      /\ st.taken
      /\ st.pc = "view" /\ st.op = "authorize" => st.confirmed
  BY DEF RInv, SentInv, WaitInv, validateSessionKeyStatus, PollUntilTerminal, pollView, RelayAt
<1>2. ASSUME NEW result \in {"failed", "cancelled"}, RelayReturn(result) PROVE RInv'
  BY <1>1, <1>2, ReturnStep DEF Results
<1>3. CASE validateSessionKeyStatus
  <2>1. CASE RelayGo(IF st.op = "revoke" THEN "view" ELSE "wait")
    BY <1>1, <1>3, <2>1, GoStep DEF RelayGo, Places, validateSessionKeyStatus, RelayAt
  <2>2. QED
    BY <1>2, <1>3, <2>1 DEF validateSessionKeyStatus
<1>4. CASE PollUntilTerminal
  <2>1. st.pc = "wait" /\ ~st.confirmed
    BY <1>1, <1>4 DEF PollUntilTerminal, RelayAt
  <2>2. CASE Again("wait")
    BY <2>1, <2>2, AgainStep
  <2>3. CASE st.tx = "failed" /\ RelayReturn("reverted")
    BY <2>1, <2>3, ReturnStep DEF Results
  <2>4. CASE st.tx = "confirmed" /\ st' = afterConfirmed
    <3> DEFINE pc == IF st.op \in {"ensure", "authorize"} THEN "view" ELSE "done"
               result == IF st.op \in {"ensure", "authorize"} THEN st.result ELSE "confirmed"
    <3>1. /\ pc \in {"view", "done"} /\ pc \in Places /\ result \in Results
          /\ result \in {"none", "confirmed"} /\ (pc = "view" => result = "none") /\ 0 \in Int
      BY <1>1, SMT DEF Places, Results, RelayAnswer
    <3>2. st' = [st EXCEPT !.confirmed = TRUE, !.polls = 0, !.pc = pc, !.result = result]
      BY <1>1, <2>4 DEF afterConfirmed, RelayState
    <3> HIDE DEF pc, result
    <3>3. st' \in RelayState
      BY <1>1, <3>1, <3>2 DEF RelayState
    <3>4. /\ st'.op = st.op /\ st'.wallet = st.wallet /\ st'.owner = st.owner /\ st'.view = st.view
          /\ st'.taken = st.taken /\ st'.tx = st.tx /\ st'.executed = st.executed
          /\ st'.chain = st.chain /\ st'.moves = st.moves /\ st'.confirmed /\ st'.pc = pc
          /\ st'.result = result /\ st'.corrected = st.corrected /\ st'.nonce = st.nonce
      BY <1>1, <3>2 DEF RelayState
    <3>5. Kind' = Kind /\ (Nonced' <=> Nonced)
      BY <3>4, SameKind
    <3>6. TakenInv' /\ SentInv'
      BY <1>1, <3>1, <3>4 DEF RInv, TakenInv, SentInv
    <3>7. NonceInv'
      BY <3>1, <3>4, <3>5 DEF RInv, NonceInv
    <3>8. WaitInv' /\ StaleNonceIsCorrected'
      BY <1>1, <3>1, <3>4 DEF RInv, WaitInv, RelayOutcomeTruthful, RelayState, DeployOps,
                              StaleNonceIsCorrected
    <3>9. RelayOutcomeTruthful'
      BY <2>4, <3>1, <3>4 DEF RInv, RelayOutcomeTruthful, RelayState
    <3>10. QED
      BY <3>3, <3>6, <3>7, <3>8, <3>9 DEF RInv
  <2>5. st.tx \in {"new", "confirmed", "failed"}
    BY <1>1, <2>1 DEF RInv, SentInv, TakenInv, RelayState
  <2>6. QED
    BY <1>2, <1>4, <2>2, <2>3, <2>4, <2>5 DEF PollUntilTerminal
<1>5. CASE pollView
  <2>1. st.pc = "view"
    BY <1>5 DEF pollView, RelayAt
  <2>2. CASE Again("view")
    BY <2>1, <2>2, AgainStep
  <2>3. CASE Ready /\ RelayReturn("ready")
    BY <1>1, <2>1, <2>3, ReturnStep DEF Results
  <2>4. QED
    BY <1>2, <1>5, <2>2, <2>3 DEF pollView
<1>6. QED
  BY <1>3, <1>4, <1>5

\* A taken transaction is mined once.
LEMMA ExecuteStep == ASSUME RInv, relayExecutes PROVE RInv'
<1>1. /\ st \in RelayState /\ st.tx = "new" /\ st.pc \notin {"begin", "done"} /\ st.result = "none"
      /\ st.executed = 0 /\ st.taken /\ ~st.confirmed
  BY DEF RInv, RelayState, TakenInv, WaitInv, RelayOutcomeTruthful, relayExecutes, RelayRunning
<1> DEFINE chain == IF Nonced THEN st.chain + 1 ELSE st.chain
<1>2. chain \in Int /\ chain >= st.chain /\ 0 + 1 = 1
  BY <1>1, SMT DEF RelayState
<1>3. PICK outcome \in {"confirmed", "failed"} :
        st' = [st EXCEPT !.tx = outcome, !.executed = 1, !.chain = chain]
  <2>1. PICK outcome \in {"confirmed", "failed"} :
          st' = [st EXCEPT !.tx = outcome, !.executed = st.executed + 1, !.chain = chain]
    BY DEF relayExecutes
  <2>2. QED
    BY <1>1, <1>2, <2>1
<1>4. /\ st'.op = st.op /\ st'.wallet = st.wallet /\ st'.owner = st.owner /\ st'.view = st.view
      /\ st'.taken /\ st'.tx = outcome /\ st'.executed = 1 /\ st'.chain = chain /\ st'.moves = st.moves
      /\ st'.confirmed = st.confirmed /\ st'.pc = st.pc /\ st'.answer = st.answer
      /\ st'.result = "none" /\ st'.corrected = st.corrected /\ st'.nonce = st.nonce
      /\ st'.named = st.named
  BY <1>1, <1>3 DEF RelayState
<1>5. Kind' = Kind /\ (Nonced' <=> Nonced)
  BY <1>4, SameKind
<1>6. NonceInv'
  <2>1. Nonced => chain = 1 + st.moves + 1
    BY <1>1, SMT DEF RInv, NonceInv, RelayState
  <2>2. st.pc = "judge" /\ st.answer = "low" => st.nonce < chain
    BY <1>1, <1>2, SMT DEF RInv, NonceInv, RelayState
  <2> HIDE DEF chain
  <2>3. QED
    BY <1>4, <1>5, <2>1, <2>2 DEF RInv, NonceInv
<1> HIDE DEF chain
<1>7. st' \in RelayState
  <2>1. outcome \in {"none", "new", "confirmed", "failed"} /\ 1 \in {0, 1}
    OBVIOUS
  <2>2. QED
    BY ZenonT(60), <1>1, <1>2, <1>3, <2>1 DEF RelayState
<1>8. TakenInv' /\ SentInv'
  BY <1>1, <1>4, <1>5 DEF RInv, TakenInv, SentInv
<1>9. WaitInv' /\ StaleNonceIsCorrected'
  BY <1>1, <1>4 DEF RInv, WaitInv, StaleNonceIsCorrected
<1>10. RelayOutcomeTruthful'
  BY <1>1, <1>4 DEF RInv, RelayOutcomeTruthful, RelayState
<1>11. QED
  BY <1>6, <1>7, <1>8, <1>9, <1>10 DEF RInv

\* The view changes, and with it maybe what another client did, while the
\* operation has not returned.
LEMMA ViewStep ==
    ASSUME RInv, NEW view \in {"absent", "other", "expected"}, NEW chain \in Int, NEW moves \in Int,
           st.pc # "done", moves >= 0, Nonced => chain = 1 + moves + st.executed, chain >= st.chain,
           st' = [st EXCEPT !.view = view, !.chain = chain, !.moves = moves]
    PROVE  RInv'
<1>1. st \in RelayState /\ st.result = "none"
  BY DEF RInv, WaitInv
<1>2. st' \in RelayState
  BY <1>1 DEF RelayState
<1>3. /\ st'.op = st.op /\ st'.wallet = st.wallet /\ st'.owner = st.owner
      /\ st'.taken = st.taken /\ st'.tx = st.tx /\ st'.executed = st.executed /\ st'.chain = chain
      /\ st'.moves = moves /\ st'.confirmed = st.confirmed /\ st'.pc = st.pc
      /\ st'.answer = st.answer /\ st'.result = "none" /\ st'.corrected = st.corrected
      /\ st'.nonce = st.nonce /\ st'.named = st.named
  BY <1>1 DEF RelayState
<1>4. Kind' = Kind /\ (Nonced' <=> Nonced)
  BY <1>3, SameKind
<1>5. TakenInv' /\ SentInv'
  BY <1>3, <1>4 DEF RInv, TakenInv, SentInv
<1>6. NonceInv'
  <2>1. st.pc = "judge" /\ st.answer = "low" => st.nonce < chain
    BY <1>1, SMT DEF RInv, NonceInv, RelayState
  <2>2. QED
    BY <1>3, <1>4, <2>1 DEF RInv, NonceInv
<1>7. WaitInv' /\ StaleNonceIsCorrected'
  BY <1>1, <1>3 DEF RInv, WaitInv, StaleNonceIsCorrected
<1>8. RelayOutcomeTruthful'
  BY <1>1, <1>3 DEF RInv, RelayOutcomeTruthful, RelayState
<1>9. QED
  BY <1>2, <1>5, <1>6, <1>7, <1>8 DEF RInv

\* The view follows the chain, and other clients act.
LEMMA WorldStep == ASSUME RInv, viewFollows \/ otherMoves PROVE RInv'
<1>1. /\ st \in RelayState /\ st.pc # "done" /\ st.moves \in Int /\ st.chain \in Int /\ st.moves >= 0
      /\ st.executed \in Int /\ (Nonced => st.chain = 1 + st.moves + st.executed)
  BY SMT DEF RInv, NonceInv, RelayState, viewFollows, otherMoves, RelayRunning
<1>2. CASE viewFollows
  <2> DEFINE view == IF st.op = "revoke" THEN "absent" ELSE "expected"
  <2>1. st' = [st EXCEPT !.view = view, !.chain = st.chain, !.moves = st.moves]
    BY <1>1, <1>2 DEF viewFollows, RelayState
  <2>2. view \in {"absent", "other", "expected"} /\ st.chain >= st.chain
    BY <1>1, SMT
  <2> HIDE DEF view
  <2>3. QED
    BY <1>1, <2>1, <2>2, ViewStep
<1>3. CASE otherMoves
  <2>1. CASE Nonced
    <3>1. st' = [st EXCEPT !.view = st.view, !.chain = st.chain + 1, !.moves = st.moves + 1]
      <4>1. st' = [st EXCEPT !.chain = st.chain + 1, !.moves = st.moves + 1]
        BY <1>3, <2>1 DEF otherMoves
      <4>2. \A a, b : [st EXCEPT !.chain = a, !.moves = b] =
                      [st EXCEPT !.view = st.view, !.chain = a, !.moves = b]
        BY <1>1 DEF RelayState
      <4>3. QED
        BY <4>1, <4>2
    <3>2. /\ st.chain + 1 \in Int /\ st.moves + 1 \in Int /\ st.moves + 1 >= 0
          /\ st.chain + 1 >= st.chain /\ (Nonced => st.chain + 1 = 1 + (st.moves + 1) + st.executed)
      BY <1>1, SMT
    <3>3. st.view \in {"absent", "other", "expected"}
      BY <1>1 DEF RelayState
    <3>4. QED
      BY <1>1, <3>1, <3>2, <3>3, ViewStep
  <2>2. CASE ~Nonced
    <3>1. st' = [st EXCEPT !.view = "expected", !.chain = st.chain, !.moves = st.moves + 1]
      <4>1. st' = [st EXCEPT !.view = "expected", !.moves = st.moves + 1]
        BY <1>3, <2>2 DEF otherMoves
      <4>2. \A a : [st EXCEPT !.view = "expected", !.moves = a] =
                   [st EXCEPT !.view = "expected", !.chain = st.chain, !.moves = a]
        BY <1>1 DEF RelayState
      <4>3. QED
        BY <4>1, <4>2
    <3>2. st.moves + 1 \in Int /\ st.moves + 1 >= 0 /\ st.chain >= st.chain
      BY <1>1, SMT
    <3>3. QED
      BY <1>1, <2>2, <3>1, <3>2, ViewStep
  <2>3. QED
    BY <2>1, <2>2
<1>4. QED
  BY <1>2, <1>3

-----------------------------------------------------------------------------

(***************************************************************************)
(* The invariant holds in every state of every relayed operation.          *)
(***************************************************************************)
THEOREM RelayInvariance == RelaySpec => []RInv
<1>1. RelayInit => RInv
  <2> SUFFICES ASSUME RelayInit PROVE RInv
    OBVIOUS
  <2>1. st \in RelayState
    BY SMT DEF RelayInit, RelayState, RelayOps, Places, RelayAnswer, Results
  <2>2. /\ st.pc = "begin" /\ ~st.taken /\ st.executed = 0 /\ st.tx = "none" /\ st.chain = 1
        /\ st.moves = 0 /\ ~st.corrected /\ ~st.confirmed /\ st.result = "none"
    BY SMT DEF RelayInit
  <2>3. QED
    BY <2>1, <2>2, SMT DEF RInv, TakenInv, SentInv, NonceInv, WaitInv, StaleNonceIsCorrected,
                      RelayOutcomeTruthful
<1>2. RInv /\ [RelayNext]_st => RInv'
  <2> SUFFICES ASSUME RInv, [RelayNext]_st PROVE RInv'
    OBVIOUS
  <2>1. CASE RelayNext
    BY <2>1, BeginStep, BuildStep, SubmitStep, RelayerStep, JudgeStep, SleepStep, WaitStep,
       ExecuteStep, WorldStep DEF RelayNext
  <2>2. CASE UNCHANGED st
    BY <2>2, SMT DEF RInv, TakenInv, SentInv, NonceInv, WaitInv, StaleNonceIsCorrected,
                RelayOutcomeTruthful, Kind, Nonced, Ready
  <2>3. QED
    BY <2>1, <2>2
<1>3. QED
  BY <1>1, <1>2, PTL DEF RelaySpec

(***************************************************************************)
(* However many resubmissions, corrections of the nonce and lost answers,  *)
(* the calls of one gasless transaction, plan or mutation execute at most  *)
(* once.                                                                   *)
(***************************************************************************)
THEOREM ExecutedAtMostOnce == RelaySpec => []BatchExecutedOnce
<1>1. RInv => BatchExecutedOnce
  BY SMT DEF RInv, RelayState, BatchExecutedOnce
<1>2. QED
  BY <1>1, RelayInvariance, PTL

(***************************************************************************)
(* A lagging nonce endpoint alone never fails a deposit wallet's batch,    *)
(* and what Handle.Wait, the deployment and the registry waits report is   *)
(* so, for every number of attempts and polls.                             *)
(***************************************************************************)
THEOREM RelayReportsTruly == RelaySpec => []RelayTruthful
<1>1. RInv => RelayTruthful
  BY DEF RInv, RelayTruthful
<1>2. QED
  BY <1>1, RelayInvariance, PTL

(*****************************************************************************)
(* ComboQuoter                                                               *)
(*****************************************************************************)

-----------------------------------------------------------------------------
(* The inductive invariant                                                 *)

\* Where a command is while its acknowledgement may be on the way, and from when
\* on it is registered.
Sent == {"await", "end"}
Registered == Sent \cup {"write"}

Acks == [id : Nat, ok : BOOLEAN]
CallerState ==
    [pc : {"idle", "gate", "register", "returned"} \cup Registered,
     key : CommandKeys \cup {"none"}, id : Nat, ack : Acks,
     result : {"none", "ok", "refused", "context", "closed", "pending"}]
AckFrames == [kind : {"ack"}, key : CommandKeys, id : Nat, ok : BOOLEAN]
Frames == AckFrames \cup [kind : {"uncorrelated", "noise", "event"}]

\* The shape of a session, its goroutines and its socket.
QuoterState ==
    [part : {"quoter"}, open : BOOLEAN, closed : BOOLEAN,
     err : {"none", "context", "overflow", "uncorrelated", "lost", "nil"},
     gate : Callers \cup {"free"}, caller : [Callers -> CallerState],
     pending : [CommandKeys -> Callers \cup {"none"}], issued : Nat,
     asked : SUBSET [key : CommandKeys, id : Nat], frames : Seq(Frames),
     reader : {"on", "done"}, sent : Nat, queue : Nat, taken : Nat, lost : Nat,
     closing : BOOLEAN]

\* What is pending is a registered command without its result, of a session that
\* has not ended.
PendingInv(closed, caller, pending) ==
    \A k \in CommandKeys : pending[k] # "none" =>
        /\ ~closed
        /\ caller[pending[k]].key = k
        /\ caller[pending[k]].pc \in Registered
        /\ caller[pending[k]].ack = NoAck

\* A registered command has its result or is pending; a result is its own, and
\* comes before the write only with the end of the session.
CallerInv(closed, caller, pending) ==
    \A c \in Callers :
        /\ caller[c].ack # NoAck => caller[c].ack.id = caller[c].id
        /\ caller[c].pc \in {"idle", "gate", "register"} => caller[c].ack = NoAck
        /\ caller[c].pc \notin {"idle"} => caller[c].key \in CommandKeys
        /\ caller[c].pc \in Registered =>
             /\ caller[c].id > 0
             /\ caller[c].ack = NoAck => pending[caller[c].key] = c
        /\ caller[c].pc = "write" /\ ~closed => caller[c].ack = NoAck

\* The command pending under a key is the one with this number, and was written.
Awaited(caller, pending, k, id) ==
    /\ pending[k] # "none"
    /\ caller[pending[k]].id = id /\ caller[pending[k]].pc \in Sent

IsAck(frames, i) == frames[i].kind = "ack"

\* As long as the session lives, an acknowledgement that may come or is on its
\* way answers the command pending under its key, and there is one at most.
TokenInv(caller, pending, asked, frames) ==
    /\ \A t \in asked : Awaited(caller, pending, t.key, t.id)
    /\ \A i \in DOMAIN frames : IsAck(frames, i) =>
           /\ Awaited(caller, pending, frames[i].key, frames[i].id)
           /\ \A t \in asked : t.key # frames[i].key
           /\ \A j \in DOMAIN frames : IsAck(frames, j) /\ frames[j].key = frames[i].key => j = i

Core(closed, caller, pending, asked, frames) ==
    /\ PendingInv(closed, caller, pending)
    /\ CallerInv(closed, caller, pending)
    /\ ~closed => TokenInv(caller, pending, asked, frames)

Events(frames) == {i \in DOMAIN frames : frames[i].kind = "event"}

\* The state is well formed, the commands and acknowledgements are in order, and
\* every event is accounted for or the session is over.
Sound(s) ==
    /\ s \in QuoterState
    /\ Core(s.closed, s.caller, s.pending, s.asked, s.frames)
    /\ s.lost > 0 => s.closed
    /\ ~s.closed => s.taken + s.queue + Cardinality(Events(s.frames)) = s.sent

IInv == Sound(st)

-----------------------------------------------------------------------------
(* What the sections under s.mu do to the commands and acknowledgements    *)

\* The locals of a goroutine, field by field.
LEMMA CallerTyped ==
    ASSUME NEW r \in CallerState
    PROVE  /\ r.pc \in {"idle", "gate", "register", "returned"} \cup Registered
           /\ r.key \in CommandKeys \cup {"none"} /\ r.id \in Nat /\ r.ack \in Acks
BY DEF CallerState

\* A goroutine whose command is not pending moves on, or one whose command is
\* written goes on to wait or to give up.
LEMMA CoreMove ==
    ASSUME NEW closed, NEW caller \in [Callers -> CallerState],
           NEW pending \in [CommandKeys -> Callers \cup {"none"}],
           NEW asked \in SUBSET [key : CommandKeys, id : Nat], NEW frames \in Seq(Frames),
           Core(closed, caller, pending, asked, frames),
           NEW c \in Callers, NEW r \in CallerState,
           r.ack # NoAck => r.ack.id = r.id,
           r.pc \in {"idle", "gate", "register"} => r.ack = NoAck,
           r.pc # "idle" => r.key \in CommandKeys,
           \/ /\ \A k \in CommandKeys : pending[k] # c
              /\ r.pc \in Registered => r.pc \in Sent /\ r.id > 0 /\ r.ack # NoAck
           \/ /\ r.key = caller[c].key /\ r.id = caller[c].id /\ r.ack = caller[c].ack
              /\ caller[c].pc \in Registered /\ r.pc \in Sent
    PROVE  Core(closed, [caller EXCEPT ![c] = r], pending, asked, frames)
<1> DEFINE next == [caller EXCEPT ![c] = r]
<1>1. next[c] = r /\ \A d \in Callers : d # c => next[d] = caller[d]
  OBVIOUS
<1> HIDE DEF next
<1>2. /\ PendingInv(closed, caller, pending) /\ CallerInv(closed, caller, pending)
      /\ ~closed => TokenInv(caller, pending, asked, frames)
  BY DEF Core
<1>3. Sent \subseteq Registered /\ {"idle", "gate", "register"} \cap Registered = {}
      /\ "write" \notin Sent /\ "write" \in Registered
  BY DEF Registered, Sent
<1>4. PendingInv(closed, next, pending)
  <2>1. ASSUME NEW k \in CommandKeys, pending[k] = c
        PROVE  /\ r.key = caller[c].key /\ r.id = caller[c].id /\ r.ack = caller[c].ack
               /\ r.pc \in Registered
    BY <1>3, <2>1
  <2>2. ASSUME NEW k \in CommandKeys, pending[k] # "none", pending[k] # c
        PROVE  next[pending[k]] = caller[pending[k]]
    BY <1>1, <2>2
  <2>3. ASSUME NEW k \in CommandKeys, pending[k] # "none"
        PROVE  /\ ~closed /\ next[pending[k]].key = k /\ next[pending[k]].pc \in Registered
               /\ next[pending[k]].ack = NoAck
    <3>1. /\ ~closed /\ caller[pending[k]].key = k /\ caller[pending[k]].pc \in Registered
          /\ caller[pending[k]].ack = NoAck
      BY <1>2, <2>3 DEF PendingInv
    <3>2. CASE pending[k] = c
      BY <1>1, <2>1, <3>1, <3>2
    <3>3. CASE pending[k] # c
      BY <2>2, <2>3, <3>1, <3>3
    <3>4. QED
      BY <3>2, <3>3
  <2>4. QED
    BY <2>3 DEF PendingInv
<1>5. CallerInv(closed, next, pending)
  <2> DEFINE Own(d, l) == /\ l.ack # NoAck => l.ack.id = l.id
                          /\ l.pc \in {"idle", "gate", "register"} => l.ack = NoAck
                          /\ l.pc \notin {"idle"} => l.key \in CommandKeys
                          /\ l.pc \in Registered =>
                               /\ l.id > 0
                               /\ l.ack = NoAck => pending[l.key] = d
                          /\ l.pc = "write" /\ ~closed => l.ack = NoAck
  <2>1. \A d \in Callers : Own(d, caller[d])
    BY <1>2 DEF CallerInv
  <2>2. Own(c, r)
    BY <1>3, <2>1
  <2> HIDE DEF Own
  <2>3. ASSUME NEW d \in Callers
        PROVE  Own(d, next[d])
    <3>1. CASE d = c
      BY <1>1, <2>2, <3>1
    <3>2. CASE d # c
      BY <1>1, <2>1, <3>2
    <3>3. QED
      BY <3>1, <3>2
  <2>4. QED
    BY <2>3 DEF CallerInv, Own
<1>6. ASSUME NEW k \in CommandKeys, NEW id, Awaited(caller, pending, k, id)
      PROVE  Awaited(next, pending, k, id)
  BY <1>1, <1>6 DEF Awaited
<1>7. ASSUME ~closed, TokenInv(caller, pending, asked, frames)
      PROVE  TokenInv(next, pending, asked, frames)
  <2>1. \A t \in asked : t.key \in CommandKeys
    BY <1>7
  <2>2. \A i \in DOMAIN frames : IsAck(frames, i) => frames[i].key \in CommandKeys
    BY <1>7, SMT DEF IsAck, Frames, AckFrames
  <2>3. QED
    BY <1>6, <1>7, <2>1, <2>2 DEF TokenInv
<1>8. QED
  BY <1>2, <1>4, <1>5, <1>7 DEF Core, next

\* finish: every pending command has its own result and none is pending.
LEMMA CoreFinish ==
    ASSUME NEW caller \in [Callers -> CallerState],
           NEW pending \in [CommandKeys -> Callers \cup {"none"}],
           NEW asked, NEW frames, Core(FALSE, caller, pending, asked, frames)
    PROVE  Core(TRUE,
                [c \in Callers |-> IF \E k \in CommandKeys : pending[k] = c
                                   THEN [caller[c] EXCEPT !.ack = [id |-> caller[c].id, ok |-> FALSE]]
                                   ELSE caller[c]],
                [k \in CommandKeys |-> "none"], asked, frames)
<1> DEFINE isPending(c) == \E k \in CommandKeys : pending[k] = c
           given(c) == [caller[c] EXCEPT !.ack = [id |-> caller[c].id, ok |-> FALSE]]
           next == [c \in Callers |-> IF isPending(c) THEN given(c) ELSE caller[c]]
           empty == [k \in CommandKeys |-> "none"]
<1>1. PendingInv(TRUE, next, empty)
  BY DEF PendingInv
<1>2. ASSUME NEW c \in Callers
      PROVE  /\ next[c].ack # NoAck => next[c].ack.id = next[c].id
             /\ next[c].pc \in {"idle", "gate", "register"} => next[c].ack = NoAck
             /\ next[c].pc \notin {"idle"} => next[c].key \in CommandKeys
             /\ next[c].pc \in Registered => next[c].id > 0 /\ next[c].ack # NoAck
  <2>1. /\ caller[c].ack # NoAck => caller[c].ack.id = caller[c].id
        /\ caller[c].pc \in {"idle", "gate", "register"} => caller[c].ack = NoAck
        /\ caller[c].pc \notin {"idle"} => caller[c].key \in CommandKeys
        /\ caller[c].pc \in Registered =>
             caller[c].id > 0 /\ (caller[c].ack = NoAck => pending[caller[c].key] = c)
    BY DEF Core, CallerInv
  <2>2. CASE ~ isPending(c)
    <3>1. next[c] = caller[c]
      BY <2>2
    <3>2. caller[c].pc \in Registered => caller[c].ack # NoAck
      <4>1. SUFFICES ASSUME caller[c].pc \in Registered PROVE caller[c].ack # NoAck
        OBVIOUS
      <4>2. caller[c].pc \notin {"idle"}
        BY <4>1 DEF Registered, Sent
      <4>3. QED
        BY <2>1, <2>2, <4>1, <4>2
    <3>3. QED
      BY <2>1, <3>1, <3>2
  <2>3. CASE isPending(c)
    <3>1. PICK k \in CommandKeys : pending[k] = c
      BY <2>3
    <3>2. c # "none"
      BY QuoterAssumption
    <3>3. caller[c].pc \in Registered
      BY <3>1, <3>2 DEF Core, PendingInv
    <3>4. next[c] = given(c)
      BY <2>3
    <3>5. /\ given(c).ack = [id |-> caller[c].id, ok |-> FALSE] /\ given(c).pc = caller[c].pc
          /\ given(c).id = caller[c].id /\ given(c).key = caller[c].key
      BY DEF CallerState
    <3>6. [id |-> caller[c].id, ok |-> FALSE].id = caller[c].id /\ NoAck.id = 0
      BY DEF NoAck
    <3>7. caller[c].id > 0 /\ caller[c].id \in Nat
      BY <2>1, <3>3, CallerTyped
    <3>8. caller[c].pc \notin {"idle", "gate", "register"}
      BY <3>3 DEF Registered, Sent
    <3>9. given(c).ack # NoAck
      BY <3>5, <3>6, <3>7, SMT
    <3> HIDE DEF next, given
    <3>10. QED
      BY <2>1, <3>3, <3>4, <3>5, <3>6, <3>7, <3>8, <3>9
  <2>4. QED
    BY <2>2, <2>3
<1>3. CallerInv(TRUE, next, empty)
  BY <1>2 DEF CallerInv
<1>4. QED
  BY <1>1, <1>3 DEF Core

\* The head of the socket is read.
LEMMA CoreTail ==
    ASSUME NEW closed, NEW caller, NEW pending, NEW asked, NEW frames \in Seq(Frames),
           frames # <<>>, Core(closed, caller, pending, asked, frames)
    PROVE  Core(closed, caller, pending, asked, Tail(frames))
<1>1. /\ Len(frames) \in Nat /\ Len(frames) > 0 /\ DOMAIN frames = 1..Len(frames)
      /\ DOMAIN Tail(frames) = 1..(Len(frames) - 1)
      /\ \A i \in 1..(Len(frames) - 1) : Tail(frames)[i] = frames[i + 1]
  BY SMT
<1>2. ASSUME TokenInv(caller, pending, asked, frames)
      PROVE  TokenInv(caller, pending, asked, Tail(frames))
  <2>1. \A i \in DOMAIN Tail(frames) : i + 1 \in DOMAIN frames /\ Tail(frames)[i] = frames[i + 1]
    BY <1>1, SMT
  <2>2. \A i \in DOMAIN Tail(frames) : i \in Int
    BY <1>1, SMT
  <2> DEFINE rest == Tail(frames)
  <2>3. \A i \in DOMAIN rest : i \in Int /\ i + 1 \in DOMAIN frames /\ rest[i] = frames[i + 1]
    BY <2>1, <2>2
  <2> HIDE DEF rest
  <2>4. TokenInv(caller, pending, asked, rest)
    BY <1>2, <2>3, SMT DEF TokenInv, IsAck
  <2>5. QED
    BY <2>4 DEF rest
<1>3. QED
  BY <1>2 DEF Core

\* resolve, of a session that lives: the acknowledgement at the head answers the
\* command pending under its key.
LEMMA CoreResolve ==
    ASSUME NEW caller \in [Callers -> CallerState],
           NEW pending \in [CommandKeys -> Callers \cup {"none"}],
           NEW asked \in SUBSET [key : CommandKeys, id : Nat], NEW frames \in Seq(Frames),
           Core(FALSE, caller, pending, asked, frames),
           frames # <<>>, frames[1].kind = "ack", NEW k \in CommandKeys, frames[1].key = k,
           NEW ok \in BOOLEAN
    PROVE  /\ pending[k] \in Callers
           /\ Core(FALSE,
                   [caller EXCEPT ![pending[k]] = [caller[pending[k]] EXCEPT
                                                     !.ack = [id |-> frames[1].id, ok |-> ok]]],
                   [pending EXCEPT ![k] = "none"], asked, Tail(frames))
<1> DEFINE c == pending[k]
           id == frames[1].id
           r == [caller[c] EXCEPT !.ack = [id |-> id, ok |-> ok]]
           next == [caller EXCEPT ![c] = r]
           left == [pending EXCEPT ![k] = "none"]
           rest == Tail(frames)
<1>1. /\ 1 \in DOMAIN frames
      /\ \A i \in DOMAIN rest : i \in Int /\ i > 0 /\ i + 1 \in DOMAIN frames /\ rest[i] = frames[i + 1]
  BY SMT
<1>2. /\ PendingInv(FALSE, caller, pending) /\ CallerInv(FALSE, caller, pending)
      /\ TokenInv(caller, pending, asked, frames)
  BY DEF Core
<1>3. /\ Awaited(caller, pending, k, id)
      /\ \A t \in asked : t.key # k
      /\ \A j \in DOMAIN frames : IsAck(frames, j) /\ frames[j].key = k => j = 1
  BY <1>1, <1>2 DEF TokenInv, IsAck
<1>4. /\ c \in Callers /\ caller[c].id = id /\ caller[c].pc \in Sent /\ caller[c].key = k
      /\ caller[c].pc \in Registered /\ caller[c].id > 0 /\ caller[c].id \in Nat
  <2>1. c \in Callers /\ caller[c].id = id /\ caller[c].pc \in Sent
    BY <1>3 DEF Awaited
  <2>2. c # "none"
    BY <2>1, QuoterAssumption
  <2>3. caller[c].key = k /\ caller[c].pc \in Registered
    BY <1>2, <2>2 DEF PendingInv
  <2>4. caller[c].id > 0 /\ caller[c].id \in Nat
    BY <1>2, <2>1, <2>3, CallerTyped DEF CallerInv
  <2>5. QED
    BY <2>1, <2>3, <2>4
<1>5. /\ r.pc = caller[c].pc /\ r.key = k /\ r.id = id /\ r.ack.id = id
  BY <1>4, SMT DEF CallerState
<1>6. r.ack # NoAck
  BY <1>4, <1>5, SMT DEF NoAck
<1>7. /\ next[c] = r /\ \A d \in Callers : d # c => next[d] = caller[d]
      /\ left[k] = "none" /\ \A l \in CommandKeys : l # k => left[l] = pending[l]
  BY <1>4
<1>8. \A l \in CommandKeys : l # k /\ pending[l] # "none" => pending[l] \in Callers \ {c}
  BY <1>2, <1>4 DEF PendingInv
<1> HIDE DEF next, left, r, rest, c, id
<1>9. PendingInv(FALSE, next, left)
  BY <1>2, <1>7, <1>8, SMT DEF PendingInv
<1>10. CallerInv(FALSE, next, left)
  <2>1. SUFFICES ASSUME NEW d \in Callers
                 PROVE  /\ next[d].ack # NoAck => next[d].ack.id = next[d].id
                        /\ next[d].pc \in {"idle", "gate", "register"} => next[d].ack = NoAck
                        /\ next[d].pc \notin {"idle"} => next[d].key \in CommandKeys
                        /\ next[d].pc \in Registered =>
                             /\ next[d].id > 0
                             /\ next[d].ack = NoAck => left[next[d].key] = d
                        /\ next[d].pc = "write" => next[d].ack = NoAck
    BY DEF CallerInv
  <2>2. CASE d = c
    <3>1. r.pc \notin {"idle", "gate", "register", "write"}
      BY <1>4, <1>5 DEF Sent
    <3>2. QED
      BY <1>4, <1>5, <1>6, <1>7, <2>2, <3>1
  <2>3. CASE d # c
    <3>1. next[d] = caller[d]
      BY <1>7, <2>3
    <3>2. caller[d].pc \in Registered /\ caller[d].ack = NoAck => left[caller[d].key] = d
      <4>1. SUFFICES ASSUME caller[d].pc \in Registered, caller[d].ack = NoAck
                     PROVE  left[caller[d].key] = d
        OBVIOUS
      <4>2. caller[d].pc \notin {"idle"}
        BY <4>1 DEF Registered, Sent
      <4>3. caller[d].key \in CommandKeys /\ pending[caller[d].key] = d
        BY <1>2, <4>1, <4>2 DEF CallerInv
      <4>4. caller[d].key # k
        BY <2>3, <4>3 DEF c
      <4>5. QED
        BY <1>7, <4>3, <4>4
    <3>3. QED
      BY <1>2, <3>1, <3>2 DEF CallerInv
  <2>4. QED
    BY <2>2, <2>3
<1>11. ASSUME NEW l \in CommandKeys, NEW n, Awaited(caller, pending, l, n), l # k
       PROVE  Awaited(next, left, l, n)
  BY <1>7, <1>8, <1>11 DEF Awaited
<1>12. TokenInv(next, left, asked, rest)
  <2>1. \A t \in asked : t.key \in CommandKeys /\ t.key # k
    BY <1>3
  <2>2. \A t \in asked : Awaited(next, left, t.key, t.id)
    BY <1>2, <1>11, <2>1 DEF TokenInv
  <2>3. ASSUME NEW i \in DOMAIN rest, IsAck(rest, i)
        PROVE  /\ Awaited(next, left, rest[i].key, rest[i].id)
               /\ \A t \in asked : t.key # rest[i].key
               /\ \A j \in DOMAIN rest : IsAck(rest, j) /\ rest[j].key = rest[i].key => j = i
    <3>1. IsAck(frames, i + 1) /\ i + 1 \in DOMAIN frames /\ i + 1 # 1
      BY <1>1, <2>3, SMT DEF IsAck
    <3>2. rest[i] = frames[i + 1] /\ frames[i + 1] \in Frames
      BY <1>1, SMT
    <3>3. rest[i].key \in CommandKeys /\ rest[i].key # k
      BY <1>3, <3>1, <3>2 DEF Frames, AckFrames, IsAck
    <3>4. Awaited(caller, pending, rest[i].key, rest[i].id) /\ \A t \in asked : t.key # rest[i].key
      BY <1>2, <3>1, <3>2 DEF TokenInv
    <3>5. \A j \in DOMAIN rest : IsAck(rest, j) /\ rest[j].key = rest[i].key => j + 1 = i + 1
      BY <1>1, <1>2, <3>1, <3>2 DEF TokenInv, IsAck
    <3>6. QED
      BY <1>1, <1>11, <3>3, <3>4, <3>5, SMT
  <2>4. QED
    BY <2>2, <2>3 DEF TokenInv
<1>13. QED
  BY <1>4, <1>9, <1>10, <1>12 DEF Core, next, left, r, rest, c, id

\* register: the command that holds the gate is pending under its free key.
LEMMA CoreRegister ==
    ASSUME NEW caller \in [Callers -> CallerState],
           NEW pending \in [CommandKeys -> Callers \cup {"none"}],
           NEW asked \in SUBSET [key : CommandKeys, id : Nat], NEW frames \in Seq(Frames),
           Core(FALSE, caller, pending, asked, frames),
           NEW c \in Callers, caller[c].pc = "register", pending[caller[c].key] = "none",
           NEW id \in Nat, id > 0
    PROVE  Core(FALSE, [caller EXCEPT ![c] = [caller[c] EXCEPT !.pc = "write", !.id = id]],
                [pending EXCEPT ![caller[c].key] = c], asked, frames)
<1> DEFINE k == caller[c].key
           r == [caller[c] EXCEPT !.pc = "write", !.id = id]
           next == [caller EXCEPT ![c] = r]
           more == [pending EXCEPT ![k] = c]
<1>1. /\ PendingInv(FALSE, caller, pending) /\ CallerInv(FALSE, caller, pending)
      /\ TokenInv(caller, pending, asked, frames)
  BY DEF Core
<1>2. k \in CommandKeys /\ caller[c].ack = NoAck
  BY <1>1 DEF CallerInv
<1>3. r.pc = "write" /\ r.key = k /\ r.id = id /\ r.ack = NoAck
  BY <1>2 DEF CallerState
<1>4. /\ next[c] = r /\ \A d \in Callers : d # c => next[d] = caller[d]
      /\ more[k] = c /\ \A l \in CommandKeys : l # k => more[l] = pending[l]
  BY <1>2
<1>5. \A l \in CommandKeys : pending[l] # c
  <2>1. "register" \notin Registered /\ c # "none"
    BY QuoterAssumption DEF Registered, Sent
  <2>2. QED
    BY <1>1, <2>1 DEF PendingInv
<1>6. "write" \in Registered /\ "write" \notin {"idle", "gate", "register"}
  BY DEF Registered
<1>7. pending[k] = "none"
  OBVIOUS
<1> HIDE DEF next, more, r, k
<1>8. PendingInv(FALSE, next, more)
  <2>1. SUFFICES ASSUME NEW l \in CommandKeys, more[l] # "none"
                 PROVE  /\ next[more[l]].key = l
                        /\ next[more[l]].pc \in Registered
                        /\ next[more[l]].ack = NoAck
    BY DEF PendingInv
  <2>2. CASE l = k
    BY <1>3, <1>4, <1>6, <2>2
  <2>3. CASE l # k
    BY <1>1, <1>4, <1>5, <2>1, <2>3, SMT DEF PendingInv
  <2>4. QED
    BY <2>2, <2>3
<1>9. CallerInv(FALSE, next, more)
  <2>1. SUFFICES ASSUME NEW d \in Callers
                 PROVE  /\ next[d].ack # NoAck => next[d].ack.id = next[d].id
                        /\ next[d].pc \in {"idle", "gate", "register"} => next[d].ack = NoAck
                        /\ next[d].pc \notin {"idle"} => next[d].key \in CommandKeys
                        /\ next[d].pc \in Registered =>
                             /\ next[d].id > 0
                             /\ next[d].ack = NoAck => more[next[d].key] = d
                        /\ next[d].pc = "write" => next[d].ack = NoAck
    BY DEF CallerInv
  <2>2. CASE d = c
    BY <1>2, <1>3, <1>4, <1>6, <2>2
  <2>3. CASE d # c
    <3>1. caller[d].pc \in Registered /\ caller[d].ack = NoAck => more[caller[d].key] = d
      <4>1. SUFFICES ASSUME caller[d].pc \in Registered, caller[d].ack = NoAck
                     PROVE  more[caller[d].key] = d
        OBVIOUS
      <4>2. caller[d].pc \notin {"idle"}
        BY <4>1 DEF Registered, Sent
      <4>3. caller[d].key \in CommandKeys /\ pending[caller[d].key] = d
        BY <1>1, <4>1, <4>2 DEF CallerInv
      <4>4. caller[d].key # k
        BY <1>7, <4>3, QuoterAssumption
      <4>5. QED
        BY <1>4, <4>3, <4>4
    <3>2. next[d] = caller[d]
      BY <1>4, <2>3
    <3>3. QED
      BY <1>1, <3>1, <3>2 DEF CallerInv
  <2>4. QED
    BY <2>2, <2>3
<1>10. ASSUME NEW l \in CommandKeys, NEW n, Awaited(caller, pending, l, n)
       PROVE  Awaited(next, more, l, n)
  BY <1>4, <1>5, <1>7, <1>10, SMT DEF Awaited
<1>11. TokenInv(next, more, asked, frames)
  <2>1. \A t \in asked : t.key \in CommandKeys
    OBVIOUS
  <2>2. \A i \in DOMAIN frames : IsAck(frames, i) => frames[i].key \in CommandKeys
    BY SMT DEF IsAck, Frames, AckFrames
  <2>3. QED
    BY <1>1, <1>10, <2>1, <2>2 DEF TokenInv
<1>12. QED
  BY <1>8, <1>9, <1>11 DEF Core, next, more, r, k

\* writeCommand: the command may have reached the gateway, which has not answered it.
LEMMA CoreWrite ==
    ASSUME NEW closed, NEW caller \in [Callers -> CallerState],
           NEW pending \in [CommandKeys -> Callers \cup {"none"}],
           NEW asked \in SUBSET [key : CommandKeys, id : Nat], NEW frames \in Seq(Frames),
           Core(closed, caller, pending, asked, frames),
           NEW c \in Callers, caller[c].pc = "write", NEW r \in CallerState,
           r.key = caller[c].key, r.id = caller[c].id, r.ack = caller[c].ack, r.pc \in Sent
    PROVE  /\ Core(closed, [caller EXCEPT ![c] = r], pending, asked, frames)
           /\ Core(closed, [caller EXCEPT ![c] = r], pending,
                   asked \cup {[key |-> caller[c].key, id |-> caller[c].id]}, frames)
<1> DEFINE next == [caller EXCEPT ![c] = r]
           k == caller[c].key
           new == [key |-> k, id |-> caller[c].id]
<1>1. "write" \in Registered /\ "write" \notin Sent /\ "write" \notin {"idle"}
      /\ Sent \cap {"idle", "gate", "register"} = {}
  BY DEF Registered, Sent
<1>2. CallerInv(closed, caller, pending)
  BY DEF Core
<1>3. /\ k \in CommandKeys /\ (caller[c].ack # NoAck => caller[c].ack.id = caller[c].id)
      /\ caller[c].ack = NoAck => pending[k] = c
      /\ ~closed => caller[c].ack = NoAck
  BY <1>1, <1>2 DEF CallerInv
<1>4. Core(closed, next, pending, asked, frames)
  BY <1>1, <1>3, CoreMove
<1>5. next[c] = r
  OBVIOUS
<1>6. new.key = k /\ new.id = caller[c].id
  OBVIOUS
<1> HIDE DEF next, new, k
<1>7. ASSUME ~closed
      PROVE  TokenInv(next, pending, asked \cup {new}, frames)
  <2>1. TokenInv(caller, pending, asked, frames) /\ TokenInv(next, pending, asked, frames)
    BY <1>4, <1>7 DEF Core
  <2>2. pending[k] = c
    BY <1>3, <1>7
  <2>3. \A n : ~ Awaited(caller, pending, k, n)
    BY <1>1, <2>2 DEF Awaited
  <2>4. Awaited(next, pending, new.key, new.id)
    BY <1>5, <1>6, <2>2, QuoterAssumption DEF Awaited, k
  <2>5. ASSUME NEW i \in DOMAIN frames, IsAck(frames, i) PROVE frames[i].key # k
    <3>1. Awaited(caller, pending, frames[i].key, frames[i].id)
      BY <2>1, <2>5 DEF TokenInv
    <3>2. QED
      BY <2>3, <3>1
  <2>6. QED
    BY <1>6, <2>1, <2>4, <2>5 DEF TokenInv
<1>8. Core(closed, next, pending, asked \cup {new}, frames)
  BY <1>4, <1>7 DEF Core
<1>9. QED
  BY <1>4, <1>8 DEF next, new, k

\* A frame of the gateway that acknowledges nothing, or a command that has no
\* other acknowledgement to come.
LEMMA CoreAppend ==
    ASSUME NEW caller, NEW pending, NEW asked, NEW less \in SUBSET asked,
           NEW frames \in Seq(Frames), Core(FALSE, caller, pending, asked, frames),
           NEW f \in Frames,
           f.kind = "ack" => /\ Awaited(caller, pending, f.key, f.id)
                             /\ \A t \in less : t.key # f.key
                             /\ \A i \in DOMAIN frames : IsAck(frames, i) => frames[i].key # f.key
    PROVE  Core(FALSE, caller, pending, less, Append(frames, f))
<1> DEFINE next == Append(frames, f)
<1>1. /\ DOMAIN next = DOMAIN frames \cup {Len(frames) + 1}
      /\ Len(frames) + 1 \notin DOMAIN frames
      /\ \A i \in DOMAIN frames : next[i] = frames[i]
      /\ next[Len(frames) + 1] = f
  BY SMT
<1>2. TokenInv(caller, pending, asked, frames)
  BY DEF Core
<1> DEFINE last == Len(frames) + 1
<1>3. /\ DOMAIN next = DOMAIN frames \cup {last} /\ last \notin DOMAIN frames
      /\ \A i \in DOMAIN frames : next[i] = frames[i]
      /\ next[last] = f
  BY <1>1
<1> HIDE DEF next, last
<1>4. \A t \in less : Awaited(caller, pending, t.key, t.id)
  BY <1>2 DEF TokenInv
<1>5. ASSUME NEW i \in DOMAIN next, IsAck(next, i)
      PROVE  /\ Awaited(caller, pending, next[i].key, next[i].id)
             /\ \A t \in less : t.key # next[i].key
             /\ \A j \in DOMAIN next : IsAck(next, j) /\ next[j].key = next[i].key => j = i
  <2>1. CASE i = last
    BY <1>3, <1>5, <2>1 DEF IsAck
  <2>2. CASE i \in DOMAIN frames
    <3>1. IsAck(frames, i) /\ next[i] = frames[i]
      BY <1>3, <1>5, <2>2 DEF IsAck
    <3>2. ASSUME NEW j \in DOMAIN next, IsAck(next, j), next[j].key = next[i].key
          PROVE  j = i
      <4>1. CASE j = last
        BY <1>3, <2>2, <3>1, <3>2, <4>1 DEF IsAck
      <4>2. CASE j \in DOMAIN frames
        BY <1>2, <1>3, <2>2, <3>1, <3>2, <4>2 DEF IsAck, TokenInv
      <4>3. QED
        BY <1>3, <4>1, <4>2
    <3>3. QED
      BY <1>2, <2>2, <3>1, <3>2 DEF TokenInv
  <2>3. QED
    BY <1>3, <2>1, <2>2
<1>6. TokenInv(caller, pending, less, next)
  BY <1>4, <1>5 DEF TokenInv
<1>7. QED
  BY <1>6 DEF Core, next

\* The acknowledgement of a command the gateway has not answered.
LEMMA CoreAnswer ==
    ASSUME NEW caller, NEW pending, NEW asked \in SUBSET [key : CommandKeys, id : Nat],
           NEW frames \in Seq(Frames), Core(FALSE, caller, pending, asked, frames),
           NEW t \in asked, NEW f \in Frames, f.kind = "ack" => f.key = t.key /\ f.id = t.id
    PROVE  Core(FALSE, caller, pending, asked \ {t}, Append(frames, f))
<1>1. TokenInv(caller, pending, asked, frames)
  BY DEF Core
<1>2. ASSUME NEW u \in asked \ {t} PROVE u.key # t.key
  <2>1. u.key = t.key => u.id = t.id
    BY <1>1 DEF TokenInv, Awaited
  <2>2. u = [key |-> u.key, id |-> u.id] /\ t = [key |-> t.key, id |-> t.id]
    OBVIOUS
  <2>3. QED
    BY <2>1, <2>2
<1>3. /\ Awaited(caller, pending, t.key, t.id)
      /\ \A i \in DOMAIN frames : IsAck(frames, i) => frames[i].key # t.key
  BY <1>1 DEF TokenInv
<1>4. asked \ {t} \in SUBSET asked
  OBVIOUS
<1>5. QED
  BY <1>2, <1>3, <1>4, CoreAppend

-----------------------------------------------------------------------------
(* The events still to be read                                             *)

\* The events of the socket are finitely many, one more with an event at its end.
LEMMA EventsAppend ==
    ASSUME NEW frames \in Seq(Frames), NEW f \in Frames
    PROVE  /\ Cardinality(Events(frames)) \in Nat
           /\ Cardinality(Events(Append(frames, f))) =
                IF f.kind = "event" THEN Cardinality(Events(frames)) + 1
                ELSE Cardinality(Events(frames))
<1> DEFINE next == Append(frames, f)
           last == Len(frames) + 1
<1>1. /\ DOMAIN next = DOMAIN frames \cup {last} /\ last \notin DOMAIN frames
      /\ \A i \in DOMAIN frames : next[i] = frames[i]
      /\ next[last] = f
  BY SMT
<1>2. IsFiniteSet(DOMAIN frames)
  BY FS_Interval, SMT
<1>3. IsFiniteSet(Events(frames))
  BY <1>2, FS_Subset DEF Events
<1> HIDE DEF next, last
<1>4. last \notin Events(frames)
  BY <1>1 DEF Events
<1>5. Cardinality(Events(frames)) \in Nat
  BY <1>3, FS_CardinalityType
<1>6. CASE f.kind = "event"
  <2>1. Events(next) = Events(frames) \cup {last}
    BY <1>1, <1>6 DEF Events
  <2>2. QED
    BY <1>3, <1>4, <1>5, <1>6, <2>1, FS_AddElement DEF next
<1>7. CASE f.kind # "event"
  <2>1. Events(next) = Events(frames)
    BY <1>1, <1>7 DEF Events
  <2>2. QED
    BY <1>5, <1>7, <2>1 DEF next
<1>8. QED
  BY <1>6, <1>7

\* There is one event less to read when the head of the socket was one.
LEMMA EventsTail ==
    ASSUME NEW frames \in Seq(Frames), frames # <<>>
    PROVE  /\ Cardinality(Events(frames)) \in Nat
           /\ Cardinality(Events(Tail(frames))) \in Nat
           /\ Cardinality(Events(frames)) =
                IF Head(frames).kind = "event" THEN Cardinality(Events(Tail(frames))) + 1
                ELSE Cardinality(Events(Tail(frames)))
<1> DEFINE rest == Tail(frames)
           later == Events(frames) \ {1}
           shift == [i \in Events(rest) |-> i + 1]
<1>1. /\ Len(frames) \in Nat /\ Len(frames) > 0 /\ DOMAIN frames = 1..Len(frames)
      /\ DOMAIN rest = 1..(Len(frames) - 1)
      /\ \A i \in 1..(Len(frames) - 1) : rest[i] = frames[i + 1]
      /\ Head(frames) = frames[1]
  BY SMT
<1> HIDE DEF rest
<1>2. IsFiniteSet(Events(frames)) /\ IsFiniteSet(Events(rest))
  <2>1. IsFiniteSet(1..Len(frames)) /\ IsFiniteSet(1..(Len(frames) - 1))
    BY <1>1, FS_Interval, SMT
  <2>2. Events(frames) \in SUBSET (1..Len(frames)) /\ Events(rest) \in SUBSET (1..(Len(frames) - 1))
    BY <1>1 DEF Events
  <2>3. QED
    BY <2>1, <2>2, FS_Subset
<1>3. Cardinality(Events(frames)) \in Nat /\ Cardinality(Events(rest)) \in Nat
  BY <1>2, FS_CardinalityType
<1>4. ExistsBijection(Events(rest), later)
  <2>1. ASSUME NEW i \in Events(rest) PROVE i + 1 \in later /\ i \in Int
    BY <1>1, SMT DEF Events
  <2>2. shift \in [Events(rest) -> later]
    BY <2>1
  <2>3. \A i, j \in Events(rest) : shift[i] = shift[j] => i = j
    BY <2>1, SMT
  <2>4. ASSUME NEW j \in later PROVE \E i \in Events(rest) : shift[i] = j
    <3>1. j \in 1..Len(frames) /\ j # 1 /\ frames[j].kind = "event"
      BY <1>1 DEF Events
    <3>2. j - 1 \in 1..(Len(frames) - 1) /\ (j - 1) + 1 = j
      BY <1>1, <3>1, SMT
    <3>3. rest[j - 1] = frames[j]
      BY <1>1, <3>2
    <3>4. j - 1 \in Events(rest)
      BY <1>1, <3>1, <3>2, <3>3 DEF Events
    <3>5. QED
      BY <3>2, <3>4
  <2>5. shift \in Bijection(Events(rest), later)
    <3> HIDE DEF shift, later
    <3>1. QED
      BY <2>2, <2>3, <2>4 DEF Bijection, Injection, Surjection, IsInjective
  <2>6. QED
    BY <2>5 DEF ExistsBijection
<1>5. Cardinality(later) = Cardinality(Events(rest))
  BY <1>2, <1>4, FS_Bijection
<1>6. Cardinality(later) = IF 1 \in Events(frames) THEN Cardinality(Events(frames)) - 1
                           ELSE Cardinality(Events(frames))
  BY <1>2, FS_RemoveElement
<1>7. 1 \in Events(frames) <=> Head(frames).kind = "event"
  BY <1>1, SMT DEF Events
<1>8. QED
  BY <1>3, <1>5, <1>6, <1>7, SMT DEF rest

-----------------------------------------------------------------------------
(* What the model's operators do to a sound state                          *)

\* A goroutine whose command is over, not begun or settled is not pending.
LEMMA NotPending ==
    ASSUME NEW s, Sound(s), NEW c \in Callers,
           \/ s.closed \/ s.caller[c].pc \notin Registered \/ s.caller[c].ack # NoAck
    PROVE  \A k \in CommandKeys : s.pending[k] # c
<1>1. PendingInv(s.closed, s.caller, s.pending) /\ c # "none"
  BY QuoterAssumption DEF Sound, Core
<1>2. QED
  BY <1>1 DEF PendingInv

\* The fields of a session, one by one.
LEMMA Fields ==
    ASSUME NEW s \in QuoterState
    PROVE  /\ s.closed \in BOOLEAN /\ s.caller \in [Callers -> CallerState]
           /\ s.pending \in [CommandKeys -> Callers \cup {"none"}]
           /\ s.asked \in SUBSET [key : CommandKeys, id : Nat] /\ s.frames \in Seq(Frames)
           /\ s.sent \in Nat /\ s.queue \in Nat /\ s.taken \in Nat /\ s.lost \in Nat /\ s.issued \in Nat
BY DEF QuoterState

\* The gate, the flags of OpenComboRFQSession and Close, and the reader's end
\* change nothing else.
LEMMA QuietSound ==
    ASSUME NEW s, Sound(s), NEW t \in QuoterState,
           t.closed = s.closed, t.caller = s.caller, t.pending = s.pending, t.asked = s.asked,
           t.frames = s.frames, t.sent = s.sent, t.queue = s.queue, t.taken = s.taken, t.lost = s.lost
    PROVE  Sound(t)
BY DEF Sound

\* SetCaller, under the conditions of CoreMove.
LEMMA MoveSound ==
    ASSUME NEW s, Sound(s), NEW c \in Callers, NEW r \in CallerState,
           r.ack # NoAck => r.ack.id = r.id,
           r.pc \in {"idle", "gate", "register"} => r.ack = NoAck,
           r.pc # "idle" => r.key \in CommandKeys,
           \/ /\ \A k \in CommandKeys : s.pending[k] # c
              /\ r.pc \in Registered => r.pc \in Sent /\ r.id > 0 /\ r.ack # NoAck
           \/ /\ r.key = s.caller[c].key /\ r.id = s.caller[c].id /\ r.ack = s.caller[c].ack
              /\ s.caller[c].pc \in Registered /\ r.pc \in Sent
    PROVE  Sound(SetCaller(s, c, r))
<1> DEFINE t == SetCaller(s, c, r)
<1>1. s \in QuoterState
  BY DEF Sound
<1>2. t \in QuoterState
  BY <1>1 DEF SetCaller, QuoterState
<1>3. /\ t.caller = [s.caller EXCEPT ![c] = r]
      /\ t.closed = s.closed /\ t.pending = s.pending /\ t.asked = s.asked /\ t.frames = s.frames
      /\ t.sent = s.sent /\ t.queue = s.queue /\ t.taken = s.taken /\ t.lost = s.lost
  BY <1>1 DEF SetCaller, QuoterState
<1> HIDE DEF t
<1>4. Core(t.closed, t.caller, t.pending, t.asked, t.frames)
  <2>1. Core(s.closed, s.caller, s.pending, s.asked, s.frames)
    BY DEF Sound
  <2>2. Core(s.closed, [s.caller EXCEPT ![c] = r], s.pending, s.asked, s.frames)
    BY <1>1, <2>1, Fields, CoreMove
  <2>3. QED
    BY <1>3, <2>2
<1>5. Sound(t)
  BY <1>2, <1>3, <1>4 DEF Sound
<1>6. QED
  BY <1>5 DEF t

\* CmdReturn, of a command that is not pending.
LEMMA ReturnSound ==
    ASSUME NEW s, Sound(s), NEW c \in Callers, s.caller[c].pc # "idle",
           \A k \in CommandKeys : s.pending[k] # c,
           NEW result \in {"ok", "refused", "context", "closed", "pending"}
    PROVE  Sound(CmdReturn(s, c, result))
<1> DEFINE r == [s.caller[c] EXCEPT !.pc = "returned", !.result = result]
           t == SetCaller(s, c, r)
<1>1. s.caller[c] \in CallerState
  BY Fields DEF Sound
<1>2. r \in CallerState
  BY <1>1 DEF CallerState
<1>3. r.pc = "returned" /\ r.key = s.caller[c].key /\ r.id = s.caller[c].id /\ r.ack = s.caller[c].ack
  BY <1>1 DEF CallerState
<1>4. /\ s.caller[c].ack # NoAck => s.caller[c].ack.id = s.caller[c].id
      /\ s.caller[c].key \in CommandKeys
  BY DEF Sound, Core, CallerInv
<1>5. "returned" \notin Registered
  BY DEF Registered, Sent
<1> HIDE DEF r
<1>6. Sound(t)
  BY <1>2, <1>3, <1>4, <1>5, MoveSound
<1>7. t \in QuoterState
  BY <1>6 DEF Sound
<1> HIDE DEF t
<1>8. ASSUME NEW u \in {[t EXCEPT !.open = TRUE], [t EXCEPT !.closing = TRUE]}
      PROVE  Sound(u)
  <2>1. u \in QuoterState
    <3>1. CASE u = [t EXCEPT !.open = TRUE]
      BY <1>7, <3>1 DEF QuoterState
    <3>2. CASE u = [t EXCEPT !.closing = TRUE]
      BY <1>7, <3>2 DEF QuoterState
    <3>3. QED
      BY <3>1, <3>2
  <2>2. /\ u.closed = t.closed /\ u.caller = t.caller /\ u.pending = t.pending /\ u.asked = t.asked
        /\ u.frames = t.frames /\ u.sent = t.sent /\ u.queue = t.queue /\ u.taken = t.taken
        /\ u.lost = t.lost
    BY <1>7, SMT DEF QuoterState
  <2>3. QED
    BY <1>6, <2>1, <2>2, QuietSound
<1>9. CmdReturn(s, c, result) \in {t, [t EXCEPT !.open = TRUE], [t EXCEPT !.closing = TRUE]}
  BY DEF CmdReturn, t, r
<1>10. QED
  BY <1>6, <1>8, <1>9

\* finish ends a session that lives and leaves one that is over alone.
LEMMA FinishSound ==
    ASSUME NEW s \in QuoterState, Core(s.closed, s.caller, s.pending, s.asked, s.frames),
           NEW reason \in {"context", "overflow", "uncorrelated", "lost", "nil"}
    PROVE  LET t == finish(s, reason) IN
           /\ Sound(t) /\ t.closed
           /\ \A c \in Callers : t.caller[c].pc = s.caller[c].pc
           /\ t.frames = s.frames /\ t.asked = s.asked /\ t.sent = s.sent /\ t.queue = s.queue
           /\ t.taken = s.taken /\ t.lost = s.lost
<1> DEFINE t == finish(s, reason)
<1>1. s \in QuoterState /\ Core(s.closed, s.caller, s.pending, s.asked, s.frames)
  OBVIOUS
<1>2. CASE s.closed
  <2>1. finish(s, reason) = s
    BY <1>2 DEF finish
  <2>2. Sound(s)
    BY <1>2 DEF Sound
  <2>3. QED
    BY <1>2, <2>1, <2>2
<1>3. CASE ~s.closed
  <2> DEFINE given == [c \in Callers |->
                         IF \E k \in CommandKeys : s.pending[k] = c
                         THEN [s.caller[c] EXCEPT !.ack = [id |-> s.caller[c].id, ok |-> FALSE]]
                         ELSE s.caller[c]]
             empty == [k \in CommandKeys |-> "none"]
  <2>1. t = [s EXCEPT !.closed = TRUE, !.err = reason, !.caller = given, !.pending = empty]
    BY <1>3 DEF finish
  <2>2. ASSUME NEW c \in Callers
        PROVE  given[c] \in CallerState /\ given[c].pc = s.caller[c].pc
    <3>1. s.caller[c] \in CallerState
      BY <1>1, Fields
    <3>2. [id |-> s.caller[c].id, ok |-> FALSE] \in Acks
      BY <3>1, CallerTyped DEF Acks
    <3> HIDE DEF Acks
    <3>3. QED
      BY <3>1, <3>2 DEF CallerState
  <2>3. given \in [Callers -> CallerState]
    BY <2>2
  <2>4. empty \in [CommandKeys -> Callers \cup {"none"}]
    OBVIOUS
  <2>5. Core(TRUE, given, empty, s.asked, s.frames)
    BY <1>1, <1>3, Fields, CoreFinish
  <2> HIDE DEF given, empty, t
  <2>6. t \in QuoterState
    BY <1>1, <2>1, <2>3, <2>4 DEF QuoterState
  <2>7. /\ t.closed = TRUE /\ t.caller = given /\ t.pending = empty
        /\ t.frames = s.frames /\ t.asked = s.asked /\ t.sent = s.sent /\ t.queue = s.queue
        /\ t.taken = s.taken /\ t.lost = s.lost
    BY <1>1, <2>1 DEF QuoterState
  <2>8. Sound(t)
    BY <2>5, <2>6, <2>7 DEF Sound
  <2>9. QED
    BY <2>2, <2>7, <2>8 DEF t
<1>4. QED
  BY <1>2, <1>3

-----------------------------------------------------------------------------
(* The steps of a sending goroutine                                        *)

\* A goroutine starts on its next command.
LEMMA CommandBeginStep ==
    ASSUME Sound(st), NEW c \in Callers, beginCommand(c)
    PROVE  Sound(st')
<1>1. PICK key \in AckKeys : st' = SetCaller(st, c, [IdleCaller EXCEPT !.pc = "gate", !.key = key])
  BY DEF beginCommand
<1> DEFINE r == [IdleCaller EXCEPT !.pc = "gate", !.key = key]
<1>2. st.caller[c].pc \notin Registered
  BY DEF beginCommand, QuoterAt, Registered, Sent
<1>3. NoAck \in Acks /\ key \in CommandKeys
  BY DEF NoAck, Acks, CommandKeys
<1>4. /\ IdleCaller \in CallerState /\ IdleCaller.ack = NoAck
  <2>1. "idle" \in {"idle", "gate", "register", "returned"} \cup Registered
    OBVIOUS
  <2>2. "none" \in CommandKeys \cup {"none"} /\ 0 \in Nat
    OBVIOUS
  <2>3. "none" \in {"none", "ok", "refused", "context", "closed", "pending"}
    OBVIOUS
  <2>4. QED
    BY <1>3, <2>1, <2>2, <2>3 DEF IdleCaller, CallerState
<1>5. r \in CallerState
  BY <1>3, <1>4 DEF CallerState
<1>6. r.pc = "gate" /\ r.key = key /\ r.ack = NoAck /\ "gate" \notin Registered
  <2>1. "gate" \notin Registered
    BY DEF Registered, Sent
  <2>2. QED
    BY <1>4, <2>1 DEF CallerState
<1> HIDE DEF r
<1>7. Sound(SetCaller(st, c, r))
  BY <1>2, <1>3, <1>5, <1>6, NotPending, MoveSound
<1>8. QED
  BY <1>1, <1>7 DEF r

\* The gate is taken or released, and nothing else changes.
LEMMA GateSound ==
    ASSUME NEW s, Sound(s), NEW g \in Callers \cup {"free"}
    PROVE  /\ Sound([s EXCEPT !.gate = g])
           /\ [s EXCEPT !.gate = g].caller = s.caller /\ [s EXCEPT !.gate = g].pending = s.pending
           /\ [s EXCEPT !.gate = g].closed = s.closed /\ [s EXCEPT !.gate = g].asked = s.asked
           /\ [s EXCEPT !.gate = g].frames = s.frames
<1> DEFINE t == [s EXCEPT !.gate = g]
<1>1. s \in QuoterState
  BY DEF Sound
<1>2. t \in QuoterState
  BY <1>1 DEF QuoterState
<1>3. /\ t.closed = s.closed /\ t.caller = s.caller /\ t.pending = s.pending /\ t.asked = s.asked
      /\ t.frames = s.frames /\ t.sent = s.sent /\ t.queue = s.queue /\ t.taken = s.taken
      /\ t.lost = s.lost
  BY <1>1 DEF QuoterState
<1> HIDE DEF t
<1>4. Sound(t)
  BY <1>2, <1>3, QuietSound
<1>5. QED
  BY <1>3, <1>4 DEF t

\* The gate is taken, or the command returns without it.
LEMMA GateStep ==
    ASSUME Sound(st), NEW c \in Callers, waitForGate(c)
    PROVE  Sound(st')
<1>1. st.caller[c].pc = "gate"
  BY DEF waitForGate, QuoterAt
<1>2. \A k \in CommandKeys : st.pending[k] # c
  <2>1. "gate" \notin Registered
    BY DEF Registered, Sent
  <2>2. QED
    BY <1>1, <2>1, NotPending
<1>3. CASE st' \in {CmdReturn(st, c, "context"), CmdReturn(st, c, "closed")}
  BY <1>1, <1>2, <1>3, ReturnSound
<1>4. CASE st' = SetCaller([st EXCEPT !.gate = c], c, [st.caller[c] EXCEPT !.pc = "register"])
  <2> DEFINE r == [st.caller[c] EXCEPT !.pc = "register"]
             s == [st EXCEPT !.gate = c]
  <2>1. st.caller[c] \in CallerState
    BY Fields DEF Sound
  <2>2. r \in CallerState /\ r.pc = "register" /\ r.key = st.caller[c].key /\ r.ack = st.caller[c].ack
    BY <2>1 DEF CallerState
  <2>3. st.caller[c].ack = NoAck /\ st.caller[c].key \in CommandKeys
    BY <1>1 DEF Sound, Core, CallerInv
  <2>4. Sound(s) /\ s.pending = st.pending
    BY GateSound
  <2>5. "register" \notin Registered
    BY DEF Registered, Sent
  <2> HIDE DEF r, s
  <2>6. Sound(SetCaller(s, c, r))
    BY <1>2, <2>2, <2>3, <2>4, <2>5, MoveSound
  <2>7. QED
    BY <1>4, <2>6 DEF r, s
<1>5. QED
  BY <1>3, <1>4 DEF waitForGate

\* The command is registered, or returns and releases the gate.
LEMMA RegisterStep ==
    ASSUME Sound(st), NEW c \in Callers, register(c)
    PROVE  Sound(st')
<1> DEFINE freed == [st EXCEPT !.gate = "free"]
           key == st.caller[c].key
           r == [st.caller[c] EXCEPT !.pc = "write", !.id = st.issued + 1]
           callers == [st.caller EXCEPT ![c] = r]
           more == [st.pending EXCEPT ![key] = c]
<1>1. st.caller[c].pc = "register"
  BY DEF register, QuoterAt
<1>2. \A k \in CommandKeys : st.pending[k] # c
  <2>1. "register" \notin Registered
    BY DEF Registered, Sent
  <2>2. QED
    BY <1>1, <2>1, NotPending
<1>3. CASE \E result \in {"context", "closed", "pending"} : st' = CmdReturn(freed, c, result)
  <2>1. Sound(freed) /\ freed.caller = st.caller /\ freed.pending = st.pending
    BY GateSound
  <2> HIDE DEF freed
  <2>2. QED
    BY <1>1, <1>2, <1>3, <2>1, ReturnSound
<1>4. CASE /\ ~st.closed /\ st.pending[key] = "none"
           /\ st' = [st EXCEPT !.pending = more, !.issued = st.issued + 1, !.caller = callers]
  <2>1. /\ st \in QuoterState /\ Core(FALSE, st.caller, st.pending, st.asked, st.frames)
        /\ st.caller[c] \in CallerState /\ st.issued \in Nat
    BY <1>4, Fields DEF Sound
  <2>2. st.issued + 1 \in Nat /\ st.issued + 1 > 0
    BY <2>1, SMT
  <2>3. key \in CommandKeys
    BY <1>1, <2>1 DEF Core, CallerInv
  <2>4. r \in CallerState
    <3>1. "write" \in {"idle", "gate", "register", "returned"} \cup Registered
      BY DEF Registered
    <3>2. QED
      BY <2>1, <2>2, <3>1 DEF CallerState
  <2>5. more \in [CommandKeys -> Callers \cup {"none"}]
    BY <2>1, Fields
  <2>6. Core(FALSE, callers, more, st.asked, st.frames)
    BY <1>1, <1>4, <2>1, <2>2, Fields, CoreRegister
  <2> HIDE DEF r
  <2>7. callers \in [Callers -> CallerState]
    BY <2>1, <2>4, Fields
  <2> HIDE DEF callers, more
  <2>8. st' \in QuoterState
    BY <1>4, <2>1, <2>2, <2>5, <2>7 DEF QuoterState
  <2>9. /\ st'.closed = st.closed /\ st'.caller = callers /\ st'.pending = more /\ st'.asked = st.asked
        /\ st'.frames = st.frames /\ st'.sent = st.sent /\ st'.queue = st.queue
        /\ st'.taken = st.taken /\ st'.lost = st.lost
    BY <1>4, <2>1 DEF QuoterState
  <2>10. st.closed = FALSE
    BY <1>4, <2>1, Fields
  <2>11. QED
    BY <2>6, <2>8, <2>9, <2>10 DEF Sound
<1>5. \/ st' = CmdReturn(freed, c, "context")
      \/ st' = CmdReturn(freed, c, "closed")
      \/ st' = CmdReturn(freed, c, "pending")
      \/ /\ ~st.closed /\ st.pending[key] = "none"
         /\ st' = [st EXCEPT !.pending = more, !.issued = st.issued + 1, !.caller = callers]
  BY DEF register
<1>6. QED
  BY <1>3, <1>4, <1>5

\* The command is written, or the write fails and may have reached the gateway.
LEMMA WriteStep ==
    ASSUME Sound(st), NEW c \in Callers, writeCommand(c)
    PROVE  Sound(st')
<1> DEFINE freed == [st EXCEPT !.gate = "free"]
           new == [key |-> st.caller[c].key, id |-> st.caller[c].id]
           reached == [freed EXCEPT !.asked = @ \cup {new}]
<1>1. st.caller[c].pc = "write"
  BY DEF writeCommand, QuoterAt
<1>2. PICK pc \in Sent : \E s \in {freed, reached} :
                           st' = SetCaller(s, c, [st.caller[c] EXCEPT !.pc = pc])
  BY DEF writeCommand, Sent
<1> DEFINE r == [st.caller[c] EXCEPT !.pc = pc]
<1>3. Sound(freed) /\ freed.caller = st.caller /\ freed.pending = st.pending /\ freed.closed = st.closed
      /\ freed.asked = st.asked /\ freed.frames = st.frames
  BY GateSound
<1>4. st \in QuoterState /\ st.caller[c] \in CallerState /\ freed \in QuoterState
  BY <1>3, Fields DEF Sound
<1>5. r \in CallerState
  BY <1>4 DEF CallerState, Registered
<1>6. r.key = st.caller[c].key /\ r.id = st.caller[c].id /\ r.ack = st.caller[c].ack /\ r.pc = pc
  BY <1>4 DEF CallerState
<1>7. "write" \in Registered
  BY DEF Registered
<1>8. /\ Core(st.closed, [st.caller EXCEPT ![c] = r], st.pending, st.asked, st.frames)
      /\ Core(st.closed, [st.caller EXCEPT ![c] = r], st.pending, st.asked \cup {new}, st.frames)
  <2>1. Core(st.closed, st.caller, st.pending, st.asked, st.frames)
    BY DEF Sound
  <2> HIDE DEF r
  <2>2. QED
    BY <1>1, <1>4, <1>5, <1>6, <2>1, Fields, CoreWrite
<1>9. st.caller[c].key \in CommandKeys /\ st.caller[c].id \in Nat
  BY <1>1, <1>4, CallerTyped DEF Sound, Core, CallerInv
<1>10. st.asked \cup {new} \in SUBSET [key : CommandKeys, id : Nat]
  BY <1>4, <1>9, Fields, SMT
<1> HIDE DEF freed, r, new
<1>11. CASE st' = SetCaller(freed, c, r)
  <2>1. st' = [freed EXCEPT !.caller = [st.caller EXCEPT ![c] = r]]
    BY <1>3, <1>4, <1>11 DEF SetCaller
  <2>2. [st.caller EXCEPT ![c] = r] \in [Callers -> CallerState]
    BY <1>4, <1>5, Fields
  <2>3. st' \in QuoterState
    BY <1>4, <2>1, <2>2 DEF QuoterState
  <2>4. /\ st'.closed = st.closed /\ st'.pending = st.pending /\ st'.asked = st.asked
        /\ st'.frames = st.frames /\ st'.sent = freed.sent /\ st'.queue = freed.queue
        /\ st'.taken = freed.taken /\ st'.lost = freed.lost
        /\ st'.caller = [st.caller EXCEPT ![c] = r]
    BY <1>3, <1>4, <2>1 DEF QuoterState
  <2>5. QED
    BY <1>3, <1>8, <2>3, <2>4 DEF Sound
<1>12. CASE st' = SetCaller(reached, c, r)
  <2>1. st' = [freed EXCEPT !.asked = st.asked \cup {new}, !.caller = [st.caller EXCEPT ![c] = r]]
    BY <1>3, <1>4, <1>12 DEF SetCaller, QuoterState
  <2>2. [st.caller EXCEPT ![c] = r] \in [Callers -> CallerState]
    BY <1>4, <1>5, Fields
  <2>3. st' \in QuoterState
    BY <1>4, <1>10, <2>1, <2>2 DEF QuoterState
  <2>4. /\ st'.closed = st.closed /\ st'.pending = st.pending /\ st'.asked = st.asked \cup {new}
        /\ st'.frames = st.frames /\ st'.sent = freed.sent /\ st'.queue = freed.queue
        /\ st'.taken = freed.taken /\ st'.lost = freed.lost
        /\ st'.caller = [st.caller EXCEPT ![c] = r]
    BY <1>3, <1>4, <2>1 DEF QuoterState
  <2>5. QED
    BY <1>3, <1>8, <2>3, <2>4 DEF Sound
<1>13. QED
  BY <1>2, <1>11, <1>12 DEF r, new

\* The result is taken, or the acknowledgement timeout passes.
LEMMA AwaitStep ==
    ASSUME Sound(st), NEW c \in Callers, awaitAck(c)
    PROVE  Sound(st')
<1>1. st.caller[c].pc = "await"
  BY DEF awaitAck, QuoterAt
<1>2. CASE st.caller[c].ack # NoAck
           /\ \E result \in {"ok", "refused"} : st' = CmdReturn(st, c, result)
  <2>1. \A k \in CommandKeys : st.pending[k] # c
    BY <1>2, NotPending
  <2>2. QED
    BY <1>1, <1>2, <2>1, ReturnSound
<1>3. CASE st' = SetCaller(st, c, [st.caller[c] EXCEPT !.pc = "end"])
  <2> DEFINE r == [st.caller[c] EXCEPT !.pc = "end"]
  <2>1. st.caller[c] \in CallerState
    BY Fields DEF Sound
  <2>2. "end" \in Sent /\ "end" \in Registered /\ "await" \in Registered
    BY DEF Sent, Registered
  <2>3. r \in CallerState
    BY <2>1, <2>2 DEF CallerState
  <2>4. r.pc = "end" /\ r.key = st.caller[c].key /\ r.id = st.caller[c].id /\ r.ack = st.caller[c].ack
    BY <2>1 DEF CallerState
  <2>5. /\ st.caller[c].ack # NoAck => st.caller[c].ack.id = st.caller[c].id
        /\ st.caller[c].key \in CommandKeys
    BY <1>1 DEF Sound, Core, CallerInv
  <2> HIDE DEF r
  <2>6. Sound(SetCaller(st, c, r))
    BY <1>1, <2>2, <2>3, <2>4, <2>5, MoveSound
  <2>7. QED
    BY <1>3, <2>6 DEF r
<1>4. QED
  BY <1>2, <1>3 DEF awaitAck

\* A command in doubt ends the session and returns.
LEMMA DoubtStep ==
    ASSUME Sound(st), NEW c \in Callers, endInDoubt(c)
    PROVE  Sound(st')
<1> DEFINE s == finish(st, "context")
<1>1. st.caller[c].pc = "end" /\ st' = CmdReturn(s, c, "context")
  BY DEF endInDoubt, QuoterAt
<1>2. Sound(s) /\ s.closed /\ s.caller[c].pc = st.caller[c].pc
  BY FinishSound DEF Sound
<1> HIDE DEF s
<1>3. \A k \in CommandKeys : s.pending[k] # c
  BY <1>2, NotPending
<1>4. QED
  BY <1>1, <1>2, <1>3, ReturnSound

-----------------------------------------------------------------------------
(* The reader, the other ends of the session and the gateway               *)

\* The reader ends with a session that is over, whatever it drops.
LEMMA ReaderEnds ==
    ASSUME NEW s, Sound(s), s.closed, NEW n \in Nat
    PROVE  /\ Sound([s EXCEPT !.reader = "done"])
           /\ Sound([s EXCEPT !.reader = "done", !.lost = n])
<1>1. s \in QuoterState
  BY DEF Sound
<1>2. ASSUME NEW m \in Nat, NEW t, t = [s EXCEPT !.reader = "done", !.lost = m]
      PROVE  Sound(t)
  <2>1. t \in QuoterState
    BY <1>1, <1>2 DEF QuoterState
  <2>2. t.closed = s.closed /\ t.caller = s.caller /\ t.pending = s.pending /\ t.asked = s.asked
        /\ t.frames = s.frames
    BY <1>1, <1>2 DEF QuoterState
  <2>3. QED
    BY <2>1, <2>2 DEF Sound
<1>3. [s EXCEPT !.reader = "done"] = [s EXCEPT !.reader = "done", !.lost = s.lost] /\ s.lost \in Nat
  BY <1>1 DEF QuoterState
<1>4. QED
  BY <1>2, <1>3

\* The head of the socket is read: all is in order but for an event in hand.
LEMMA RestFacts ==
    ASSUME NEW s, Sound(s), s.frames # <<>>
    PROVE  LET rest == [s EXCEPT !.frames = Tail(@)] IN
           /\ rest \in QuoterState
           /\ Core(rest.closed, rest.caller, rest.pending, rest.asked, rest.frames)
           /\ rest.frames = Tail(s.frames) /\ rest.closed = s.closed /\ rest.caller = s.caller
           /\ rest.pending = s.pending /\ rest.asked = s.asked /\ rest.sent = s.sent
           /\ rest.queue = s.queue /\ rest.taken = s.taken /\ rest.lost = s.lost
           /\ Head(s.frames).kind # "event" \/ s.closed => Sound(rest)
           /\ Head(s.frames).kind = "event" /\ ~s.closed =>
                s.taken + s.queue + Cardinality(Events(rest.frames)) + 1 = s.sent
<1> DEFINE rest == [s EXCEPT !.frames = Tail(s.frames)]
<1>1. s \in QuoterState
  BY DEF Sound
<1>2. Tail(s.frames) \in Seq(Frames) /\ s.frames \in Seq(Frames)
  BY <1>1, Fields, SMT
<1>3. rest \in QuoterState
  BY <1>1, <1>2 DEF QuoterState
<1>4. /\ rest.frames = Tail(s.frames) /\ rest.closed = s.closed /\ rest.caller = s.caller
      /\ rest.pending = s.pending /\ rest.asked = s.asked /\ rest.sent = s.sent
      /\ rest.queue = s.queue /\ rest.taken = s.taken /\ rest.lost = s.lost
  BY <1>1 DEF QuoterState
<1> HIDE DEF rest
<1>5. Core(rest.closed, rest.caller, rest.pending, rest.asked, rest.frames)
  <2>1. Core(s.closed, s.caller, s.pending, s.asked, Tail(s.frames))
    BY <1>2, CoreTail DEF Sound
  <2>2. QED
    BY <1>4, <2>1
<1>6. /\ Cardinality(Events(s.frames)) \in Nat /\ Cardinality(Events(Tail(s.frames))) \in Nat
      /\ Cardinality(Events(s.frames)) =
           IF Head(s.frames).kind = "event" THEN Cardinality(Events(Tail(s.frames))) + 1
           ELSE Cardinality(Events(Tail(s.frames)))
  BY <1>2, EventsTail
<1>7. Head(s.frames).kind # "event" \/ s.closed => Sound(rest)
  BY <1>3, <1>4, <1>5, <1>6 DEF Sound
<1>8. Head(s.frames).kind = "event" /\ ~s.closed =>
        s.taken + s.queue + Cardinality(Events(rest.frames)) + 1 = s.sent
  <2>1. ~s.closed => s.taken + s.queue + Cardinality(Events(s.frames)) = s.sent
    BY DEF Sound
  <2>2. s.taken \in Nat /\ s.queue \in Nat /\ s.sent \in Nat
    BY <1>1, Fields
  <2>3. QED
    BY <1>4, <1>6, <2>1, <2>2, SMT
<1>9. QED
  BY <1>3, <1>4, <1>5, <1>7, <1>8 DEF rest

\* An acknowledgement settles the command pending under its key.
LEMMA AckStep ==
    ASSUME Sound(st), st.frames # <<>>, Head(st.frames).kind = "ack",
           st' = resolve([st EXCEPT !.frames = Tail(@)], Head(st.frames).key,
                         [id |-> Head(st.frames).id, ok |-> Head(st.frames).ok])
    PROVE  Sound(st')
<1> DEFINE rest == [st EXCEPT !.frames = Tail(@)]
           f == st.frames[1]
           k == f.key
           c == st.pending[k]
           ack == [id |-> f.id, ok |-> f.ok]
           r == [st.caller[c] EXCEPT !.ack = ack]
           callers == [st.caller EXCEPT ![c] = r]
           left == [st.pending EXCEPT ![k] = "none"]
<1>1. st \in QuoterState
  BY DEF Sound
<1>2. Head(st.frames) = f /\ f \in Frames
  BY <1>1, Fields, SMT
<1>3. f.kind = "ack" /\ k \in CommandKeys /\ f.id \in Nat /\ f.ok \in BOOLEAN
  BY <1>2 DEF Frames, AckFrames
<1>4. /\ rest \in QuoterState /\ Sound(rest)
      /\ rest.frames = Tail(st.frames) /\ rest.closed = st.closed /\ rest.caller = st.caller
      /\ rest.pending = st.pending /\ rest.asked = st.asked /\ rest.sent = st.sent
      /\ rest.queue = st.queue /\ rest.taken = st.taken /\ rest.lost = st.lost
  BY RestFacts
<1> HIDE DEF rest, f
<1>5. st' = resolve(rest, k, ack)
  BY <1>2 DEF rest
<1>6. CASE c = "none"
  BY <1>4, <1>5, <1>6 DEF resolve
<1>7. CASE c # "none"
  <2>1. st' = [rest EXCEPT !.caller = callers, !.pending = left]
    BY <1>4, <1>5, <1>7 DEF resolve
  <2>2. st.closed = FALSE
    BY <1>1, <1>3, <1>7, Fields DEF Sound, Core, PendingInv
  <2>3. c \in Callers /\ Core(FALSE, callers, left, st.asked, Tail(st.frames))
    <3>1. Core(FALSE, st.caller, st.pending, st.asked, st.frames)
      BY <2>2 DEF Sound
    <3>2. QED
      BY <1>1, <1>3, <3>1, Fields, CoreResolve DEF f
  <2>4. callers \in [Callers -> CallerState]
    <3>1. st.caller[c] \in CallerState /\ st.caller \in [Callers -> CallerState]
      BY <1>1, <2>3, Fields
    <3>2. ack \in Acks
      BY <1>3 DEF Acks
    <3>3. r \in CallerState
      <4> HIDE DEF ack
      <4>1. QED
        BY <3>1, <3>2 DEF CallerState
    <3> HIDE DEF r
    <3>4. QED
      BY <3>1, <3>3
  <2>5. left \in [CommandKeys -> Callers \cup {"none"}]
    BY <1>1, Fields
  <2> HIDE DEF callers, left, r, ack, c, k
  <2>6. st' \in QuoterState
    <3>1. rest \in QuoterState
      BY <1>4
    <3>2. QED
      BY <2>1, <2>4, <2>5, <3>1, ZenonT(60) DEF QuoterState
  <2>7. /\ st'.caller = callers /\ st'.pending = left /\ st'.frames = rest.frames
        /\ st'.closed = rest.closed /\ st'.asked = rest.asked /\ st'.sent = rest.sent
        /\ st'.queue = rest.queue /\ st'.taken = rest.taken /\ st'.lost = rest.lost
    BY <1>4, <2>1 DEF QuoterState
  <2>8. Core(st'.closed, st'.caller, st'.pending, st'.asked, st'.frames)
    BY <1>4, <2>2, <2>3, <2>7
  <2>9. QED
    BY <1>4, <2>6, <2>7, <2>8 DEF Sound
<1>8. QED
  BY <1>6, <1>7

\* An event goes to the buffer, or ends session and reader.
LEMMA EventStep ==
    ASSUME Sound(st), st.frames # <<>>, Head(st.frames).kind = "event",
           LET rest == [st EXCEPT !.frames = Tail(@)] IN
           \/ st' = deliverEvent(rest)
           \/ st.closed /\ st' = [rest EXCEPT !.reader = "done", !.lost = @ + 1]
    PROVE  Sound(st')
<1> DEFINE rest == [st EXCEPT !.frames = Tail(@)]
<1>1. /\ rest \in QuoterState
      /\ Core(rest.closed, rest.caller, rest.pending, rest.asked, rest.frames)
      /\ rest.closed = st.closed /\ rest.sent = st.sent /\ rest.queue = st.queue
      /\ rest.taken = st.taken /\ rest.lost = st.lost
      /\ st.closed => Sound(rest)
      /\ ~st.closed => st.taken + st.queue + Cardinality(Events(rest.frames)) + 1 = st.sent
  BY RestFacts
<1>2. \/ st' = deliverEvent(rest)
      \/ st.closed /\ st' = [rest EXCEPT !.reader = "done", !.lost = rest.lost + 1]
  OBVIOUS
<1> HIDE DEF rest
<1>3. /\ rest.lost \in Nat /\ rest.lost + 1 \in Nat /\ rest.queue \in Nat /\ rest.queue + 1 \in Nat
      /\ rest.taken \in Nat /\ rest.sent \in Nat /\ rest.frames \in Seq(Frames)
  BY <1>1, Fields, SMT
<1>4. Cardinality(Events(rest.frames)) \in Nat
  <2>1. [kind |-> "event"] \in Frames
    BY DEF Frames
  <2>2. QED
    BY <1>3, <2>1, EventsAppend
<1>5. CASE st.closed /\ st' = [rest EXCEPT !.reader = "done", !.lost = rest.lost + 1]
  BY <1>1, <1>3, <1>5, ReaderEnds
<1>6. CASE st' = [rest EXCEPT !.queue = rest.queue + 1]
  <2>1. st' \in QuoterState
    BY <1>1, <1>3, <1>6 DEF QuoterState
  <2>2. /\ st'.closed = rest.closed /\ st'.caller = rest.caller /\ st'.pending = rest.pending
        /\ st'.asked = rest.asked /\ st'.frames = rest.frames /\ st'.sent = rest.sent
        /\ st'.queue = rest.queue + 1 /\ st'.taken = rest.taken /\ st'.lost = rest.lost
    BY <1>1, <1>6 DEF QuoterState
  <2>3. ~st'.closed => st'.taken + st'.queue + Cardinality(Events(st'.frames)) = st'.sent
    <3>1. SUFFICES ASSUME ~st.closed
                   PROVE  rest.taken + (rest.queue + 1) + Cardinality(Events(rest.frames)) = rest.sent
      BY <1>1, <2>2
    <3>2. rest.taken + rest.queue + Cardinality(Events(rest.frames)) + 1 = rest.sent
      BY <1>1, <3>1
    <3>3. QED
      BY <1>3, <1>4, <3>2, SMT
  <2>4. st'.lost > 0 => st'.closed
    BY <1>1, <2>2 DEF Sound
  <2>5. QED
    BY <1>1, <2>1, <2>2, <2>3, <2>4 DEF Sound
<1>7. CASE st' = [finish(rest, "overflow") EXCEPT !.reader = "done", !.lost = @ + 1]
  <2> DEFINE s == finish(rest, "overflow")
  <2>1. Sound(s) /\ s.closed /\ s.lost = rest.lost
    BY <1>1, FinishSound
  <2>2. st' = [s EXCEPT !.reader = "done", !.lost = rest.lost + 1]
    BY <1>7, <2>1
  <2> HIDE DEF s
  <2>3. QED
    BY <1>3, <2>1, <2>2, ReaderEnds
<1>8. QED
  BY <1>2, <1>5, <1>6, <1>7 DEF deliverEvent

\* handleInbound, frame by frame.
LEMMA InboundStep ==
    ASSUME Sound(st), handleInbound
    PROVE  Sound(st')
<1> DEFINE rest == [st EXCEPT !.frames = Tail(@)]
           kind == Head(st.frames).kind
<1>1. st.frames # <<>>
  BY DEF handleInbound
<1>2. kind \in {"ack", "uncorrelated", "noise", "event"}
  <2>1. Head(st.frames) \in Frames
    BY <1>1, Fields, SMT DEF Sound
  <2>2. QED
    BY <2>1 DEF Frames, AckFrames
<1>3. CASE kind = "ack"
  BY <1>1, <1>3, AckStep DEF handleInbound
<1>4. CASE kind = "uncorrelated"
  <2>1. Sound(rest)
    BY <1>1, <1>4, RestFacts
  <2>2. st' = finish(rest, "uncorrelated")
    BY <1>4 DEF handleInbound
  <2> HIDE DEF rest
  <2>3. QED
    BY <2>1, <2>2, FinishSound DEF Sound
<1>5. CASE kind = "noise"
  <2>1. Sound(rest)
    BY <1>1, <1>5, RestFacts
  <2>2. st' = rest
    BY <1>5 DEF handleInbound
  <2>3. QED
    BY <2>1, <2>2
<1>6. CASE kind = "event"
  BY <1>1, <1>6, EventStep DEF handleInbound
<1>7. QED
  BY <1>2, <1>3, <1>4, <1>5, <1>6

\* A failed read, Close and the end of the context finish the session.
LEMMA EndSteps ==
    ASSUME Sound(st), readFails \/ Close \/ contextEnds
    PROVE  Sound(st')
<1>1. CASE readFails
  <2> DEFINE s == finish(st, "lost")
  <2>1. Sound(s) /\ s.closed
    BY FinishSound DEF Sound
  <2>2. st' = [s EXCEPT !.reader = "done"]
    BY <1>1 DEF readFails
  <2> HIDE DEF s
  <2>3. QED
    BY <2>1, <2>2, ReaderEnds
<1>2. CASE Close
  <2> DEFINE s == finish(st, "nil")
  <2>1. Sound(s)
    BY FinishSound DEF Sound
  <2>2. st' = [s EXCEPT !.closing = TRUE] /\ s \in QuoterState
    BY <1>2, <2>1 DEF Close, Sound
  <2> HIDE DEF s
  <2>3. st' \in QuoterState
    BY <2>2 DEF QuoterState
  <2>4. /\ st'.closed = s.closed /\ st'.caller = s.caller /\ st'.pending = s.pending
        /\ st'.asked = s.asked /\ st'.frames = s.frames /\ st'.sent = s.sent
        /\ st'.queue = s.queue /\ st'.taken = s.taken /\ st'.lost = s.lost
    BY <2>2 DEF QuoterState
  <2>5. QED
    BY <2>1, <2>3, <2>4, QuietSound
<1>3. CASE contextEnds
  BY <1>3, FinishSound DEF contextEnds, Sound
<1>4. QED
  BY <1>1, <1>2, <1>3

\* The consumer takes an event.
LEMMA ConsumeStep ==
    ASSUME Sound(st), consumeEvent
    PROVE  Sound(st')
<1>1. st \in QuoterState /\ st.queue > 0 /\ st' = [st EXCEPT !.queue = st.queue - 1, !.taken = st.taken + 1]
  BY DEF consumeEvent, Sound
<1>2. /\ st.queue - 1 \in Nat /\ st.taken + 1 \in Nat /\ st.queue \in Nat /\ st.taken \in Nat
      /\ (st.taken + 1) + (st.queue - 1) = st.taken + st.queue
  <2>1. st.queue \in Nat /\ st.taken \in Nat
    BY <1>1, Fields
  <2>2. st.queue > 0
    BY <1>1
  <2>3. QED
    BY <2>1, <2>2, SMT
<1>3. st' \in QuoterState
  BY <1>1, <1>2 DEF QuoterState
<1>4. /\ st'.closed = st.closed /\ st'.caller = st.caller /\ st'.pending = st.pending
      /\ st'.asked = st.asked /\ st'.frames = st.frames /\ st'.sent = st.sent
      /\ st'.queue = st.queue - 1 /\ st'.taken = st.taken + 1 /\ st'.lost = st.lost
  BY <1>1 DEF QuoterState
<1>5. st'.taken + st'.queue = st.taken + st.queue
  BY <1>2, <1>4
<1>6. QED
  BY <1>3, <1>4, <1>5 DEF Sound

\* The gateway answers a command at most once, in any order.
LEMMA CommandAnswerStep ==
    ASSUME Sound(st), gatewayAnswers
    PROVE  Sound(st')
<1>1. PICK t \in st.asked :
        \E f \in {[kind |-> "ack", key |-> t.key, id |-> t.id, ok |-> TRUE],
                  [kind |-> "ack", key |-> t.key, id |-> t.id, ok |-> FALSE],
                  [kind |-> "uncorrelated"], [kind |-> "noise"]} :
          st' = [st EXCEPT !.asked = st.asked \ {t}, !.frames = Append(st.frames, f)]
  BY DEF gatewayAnswers
<1>2. PICK f \in {[kind |-> "ack", key |-> t.key, id |-> t.id, ok |-> TRUE],
                  [kind |-> "ack", key |-> t.key, id |-> t.id, ok |-> FALSE],
                  [kind |-> "uncorrelated"], [kind |-> "noise"]} :
        st' = [st EXCEPT !.asked = st.asked \ {t}, !.frames = Append(st.frames, f)]
  BY <1>1
<1>3. st \in QuoterState /\ st.closed = FALSE
  BY Fields DEF gatewayAnswers, Sound
<1>4. t.key \in CommandKeys /\ t.id \in Nat
  BY <1>3, Fields
<1>5. f \in Frames /\ f.kind # "event" /\ (f.kind = "ack" => f.key = t.key /\ f.id = t.id)
  <2>1. CASE f \in {[kind |-> "uncorrelated"], [kind |-> "noise"]}
    BY <2>1, SMT DEF Frames
  <2>2. ASSUME NEW ok \in BOOLEAN, f = [kind |-> "ack", key |-> t.key, id |-> t.id, ok |-> ok]
        PROVE  f \in AckFrames /\ f.kind = "ack" /\ f.key = t.key /\ f.id = t.id
    BY <1>4, <2>2 DEF AckFrames
  <2>3. QED
    BY <2>1, <2>2 DEF Frames
<1> DEFINE less == st.asked \ {t}
           next == Append(st.frames, f)
<1>6. less \in SUBSET [key : CommandKeys, id : Nat] /\ next \in Seq(Frames)
  BY <1>3, <1>5, Fields, SMT
<1>7. Core(FALSE, st.caller, st.pending, less, next)
  BY <1>3, <1>5, Fields, CoreAnswer DEF Sound
<1>8. Cardinality(Events(next)) = Cardinality(Events(st.frames))
  BY <1>3, <1>5, Fields, EventsAppend
<1> HIDE DEF less, next
<1>9. st' = [st EXCEPT !.asked = less, !.frames = next]
  BY <1>2 DEF less, next
<1>10. st' \in QuoterState
  BY <1>3, <1>6, <1>9 DEF QuoterState
<1>11. /\ st'.closed = st.closed /\ st'.caller = st.caller /\ st'.pending = st.pending
       /\ st'.asked = less /\ st'.frames = next /\ st'.sent = st.sent
       /\ st'.queue = st.queue /\ st'.taken = st.taken /\ st'.lost = st.lost
  BY <1>3, <1>9 DEF QuoterState
<1>12. QED
  BY <1>3, <1>7, <1>8, <1>10, <1>11 DEF Sound

\* The gateway broadcasts an event.
LEMMA BroadcastStep ==
    ASSUME Sound(st), gatewayBroadcasts
    PROVE  Sound(st')
<1> DEFINE f == [kind |-> "event"]
           next == Append(st.frames, f)
<1>1. st \in QuoterState /\ st.closed = FALSE
  BY Fields DEF gatewayBroadcasts, Sound
<1>2. f \in Frames /\ f.kind = "event"
  BY DEF Frames
<1>3. next \in Seq(Frames) /\ st.sent + 1 \in Nat
  BY <1>1, <1>2, Fields, SMT
<1>4. st' = [st EXCEPT !.sent = st.sent + 1, !.frames = next]
  BY DEF gatewayBroadcasts
<1> HIDE DEF f
<1>5. Core(FALSE, st.caller, st.pending, st.asked, next)
  <2>1. f.kind # "ack" /\ st.asked \in SUBSET st.asked
    BY <1>2
  <2>2. Core(FALSE, st.caller, st.pending, st.asked, st.frames) /\ st.frames \in Seq(Frames)
    BY <1>1, Fields DEF Sound
  <2>3. QED
    BY <1>2, <2>1, <2>2, CoreAppend
<1>6. /\ Cardinality(Events(st.frames)) \in Nat
      /\ Cardinality(Events(next)) = Cardinality(Events(st.frames)) + 1
  BY <1>1, <1>2, Fields, EventsAppend
<1> HIDE DEF next
<1>7. st' \in QuoterState
  BY <1>1, <1>3, <1>4 DEF QuoterState
<1>8. /\ st'.closed = st.closed /\ st'.caller = st.caller /\ st'.pending = st.pending
      /\ st'.asked = st.asked /\ st'.frames = next /\ st'.sent = st.sent + 1
      /\ st'.queue = st.queue /\ st'.taken = st.taken /\ st'.lost = st.lost
  BY <1>1, <1>4 DEF QuoterState
<1>9. ~st'.closed => st'.taken + st'.queue + Cardinality(Events(st'.frames)) = st'.sent
  <2>1. st.taken \in Nat /\ st.queue \in Nat /\ st.sent \in Nat
    BY <1>1, Fields
  <2>2. st.taken + st.queue + Cardinality(Events(st.frames)) = st.sent
    BY <1>1 DEF Sound
  <2>3. QED
    BY <1>6, <1>8, <2>1, <2>2, SMT
<1>10. QED
  BY <1>1, <1>5, <1>7, <1>8, <1>9 DEF Sound

-----------------------------------------------------------------------------
(* The theorems                                                            *)

\* OpenComboRFQSession starts with nothing pending, asked or on the socket.
LEMMA QuoterInitSound == QuoterInit => IInv
<1> SUFFICES ASSUME QuoterInit PROVE Sound(st)
  BY DEF IInv
<1> DEFINE first == [IdleCaller EXCEPT !.pc = "gate", !.key = "auth"]
<1>1. NoAck \in Acks /\ "auth" \in CommandKeys
  BY DEF NoAck, Acks, CommandKeys
<1>2. IdleCaller \in CallerState /\ IdleCaller.ack = NoAck /\ IdleCaller.pc = "idle"
  <2>1. "idle" \in {"idle", "gate", "register", "returned"} \cup Registered
    OBVIOUS
  <2>2. "none" \in CommandKeys \cup {"none"} /\ 0 \in Nat
    OBVIOUS
  <2>3. "none" \in {"none", "ok", "refused", "context", "closed", "pending"}
    OBVIOUS
  <2>4. QED
    BY <1>1, <2>1, <2>2, <2>3 DEF IdleCaller, CallerState
<1>3. first \in CallerState /\ first.ack = NoAck /\ first.pc = "gate" /\ first.key = "auth"
  BY <1>1, <1>2 DEF CallerState
<1> DEFINE callers == [c \in Callers |-> IF c = Opener THEN first ELSE IdleCaller]
           empty == [k \in CommandKeys |-> "none"]
<1> HIDE DEF first
<1>4. callers \in [Callers -> CallerState] /\ empty \in [CommandKeys -> Callers \cup {"none"}]
  BY <1>2, <1>3
<1>5. Core(FALSE, callers, empty, {}, <<>>)
  <2>1. PendingInv(FALSE, callers, empty)
    BY DEF PendingInv
  <2>2. CallerInv(FALSE, callers, empty)
    <3>1. "idle" \notin Registered /\ "gate" \notin Registered
      BY DEF Registered, Sent
    <3>2. QED
      BY <1>1, <1>2, <1>3, <3>1 DEF CallerInv
  <2>3. TokenInv(callers, empty, {}, <<>>)
    BY SMT DEF TokenInv
  <2>4. QED
    BY <2>1, <2>2, <2>3 DEF Core
<1>6. Cardinality(Events(<<>>)) = 0
  <2>1. Events(<<>>) = {}
    BY SMT DEF Events
  <2>2. QED
    BY <2>1, FS_EmptySet
<1> HIDE DEF callers, empty
<1>7. st = [part |-> "quoter", open |-> FALSE, closed |-> FALSE, err |-> "none", gate |-> "free",
            caller |-> callers, pending |-> empty, issued |-> 0,
            asked |-> {}, frames |-> <<>>, reader |-> "on", sent |-> 0, queue |-> 0, taken |-> 0,
            lost |-> 0, closing |-> FALSE]
  BY DEF QuoterInit, callers, empty, first
<1>8. <<>> \in Seq(Frames) /\ {} \in SUBSET [key : CommandKeys, id : Nat]
      /\ "free" \in Callers \cup {"free"} /\ 0 \in Nat /\ FALSE \in BOOLEAN
  BY SMT
<1>9. st \in QuoterState
  BY <1>4, <1>7, <1>8 DEF QuoterState
<1>10. /\ st.closed = FALSE /\ st.caller = callers /\ st.pending = empty /\ st.asked = {}
       /\ st.frames = <<>> /\ st.lost = 0 /\ st.sent = 0 /\ st.queue = 0 /\ st.taken = 0
  BY <1>7
<1>11. st.taken + st.queue + Cardinality(Events(st.frames)) = st.sent
  BY <1>6, <1>10, SMT
<1>12. Core(st.closed, st.caller, st.pending, st.asked, st.frames) /\ ~(st.lost > 0)
  <2>1. Core(st.closed, st.caller, st.pending, st.asked, st.frames)
    BY <1>5, <1>10, Zenon
  <2>2. ~(st.lost > 0)
    BY <1>10, SMT
  <2>3. QED
    BY <2>1, <2>2
<1>13. QED
  BY <1>9, <1>11, <1>12 DEF Sound

\* Every step of the session keeps the invariant.
LEMMA QuoterStep == IInv /\ [QuoterNext]_st => IInv'
<1> SUFFICES ASSUME Sound(st), [QuoterNext]_st PROVE Sound(st')
  BY DEF IInv
<1>1. CASE \E c \in Callers : \/ beginCommand(c) \/ waitForGate(c) \/ register(c)
                              \/ writeCommand(c) \/ awaitAck(c) \/ endInDoubt(c)
  BY <1>1, CommandBeginStep, GateStep, RegisterStep, WriteStep, AwaitStep, DoubtStep
<1>2. CASE handleInbound
  BY <1>2, InboundStep
<1>3. CASE readFails \/ Close \/ contextEnds
  BY <1>3, EndSteps
<1>4. CASE consumeEvent
  BY <1>4, ConsumeStep
<1>5. CASE gatewayAnswers
  BY <1>5, CommandAnswerStep
<1>6. CASE gatewayBroadcasts
  BY <1>6, BroadcastStep
<1>7. CASE UNCHANGED st
  BY <1>7
<1>8. QED
  BY <1>1, <1>2, <1>3, <1>4, <1>5, <1>6, <1>7 DEF QuoterNext

(***************************************************************************)
(* The commands, acknowledgements and events of a quoter session stay in   *)
(* order, for any goroutines, keys and buffer: what is pending is a        *)
(* registered command without a result, and what the gateway may still     *)
(* answer of a session that lives is the command pending under its key.    *)
(***************************************************************************)
THEOREM QuoterInvariance == QuoterSpec => []IInv
<1>1. QuoterInit => IInv
  BY QuoterInitSound
<1>2. IInv /\ [QuoterNext]_st => IInv'
  BY QuoterStep
<1>3. QED
  BY <1>1, <1>2, PTL DEF QuoterSpec

(***************************************************************************)
(* resolve gives an acknowledgement to the command it answers and to no    *)
(* later one with its key, although it names neither: a command in doubt   *)
(* ends the session before its key is free again.                          *)
(***************************************************************************)
THEOREM AcksSettleTheirCommand == QuoterSpec => []AckSettlesItsCommand
<1>1. IInv => AckSettlesItsCommand
  BY DEF IInv, Sound, Core, CallerInv, AckSettlesItsCommand
<1>2. QED
  BY <1>1, QuoterInvariance, PTL

(***************************************************************************)
(* finish leaves nobody waiting and deliverEvent drops nothing in silence: *)
(* after the end every awaited command has its result, and until then      *)
(* every event is delivered, buffered or on the socket.                    *)
(***************************************************************************)
THEOREM SessionsLoseNothing == QuoterSpec => []SessionLosesNothing
<1>1. IInv => SessionLosesNothing
  <2> SUFFICES ASSUME Sound(st) PROVE EndReachesEveryCommand /\ EventsNotDropped
    BY DEF IInv, SessionLosesNothing
  <2>1. EndReachesEveryCommand
    <3>1. SUFFICES ASSUME st.closed, NEW c \in Callers, st.caller[c].pc = "await"
                   PROVE  st.caller[c].ack # NoAck
      BY DEF EndReachesEveryCommand
    <3>2. "await" \in Registered /\ "await" \notin {"idle"}
      BY DEF Registered, Sent
    <3>3. \A k \in CommandKeys : st.pending[k] # c
      BY <3>1, NotPending
    <3>4. QED
      BY <3>1, <3>2, <3>3 DEF Sound, Core, CallerInv
  <2>2. EventsNotDropped
    BY DEF Sound, Events, EventsNotDropped
  <2>3. QED
    BY <2>1, <2>2
<1>2. QED
  BY <1>1, QuoterInvariance, PTL

(*****************************************************************************)
(* SportsStream                                                              *)
(*****************************************************************************)

\* The shape of the stream, its connection and its consumer.
SportsState ==
    [part : {"sports"}, pc : {"read", "slow", "wait", "connect", "done"},
     cause : {"none", "closed", "parent", "ended"}, queue : Seq(Nat), got : Seq(Nat),
     sent : Nat, accepted : Nat, deadline : Nat, silence : Nat, delay : Nat, failures : Nat,
     err : {"none", "context", "slow"}, gaps : SUBSET Nat]

\* The results are in order, and something is missing only where there is a gap;
\* the last one is the one accepted last.
InOrder(all, gaps) ==
    \A i \in 1..Len(all) :
        LET before == IF i = 1 THEN 0 ELSE all[i - 1] IN
        before < all[i] /\ (all[i] # before + 1 => before \in gaps)
Latest(all) == IF Len(all) = 0 THEN 0 ELSE all[Len(all)]
Told(all, gaps, accepted) == InOrder(all, gaps) /\ Latest(all) = accepted

\* A result that was not accepted was lost with its connection, or ends the stream.
MissedInv(s) ==
    /\ s.accepted <= s.sent
    /\ s.pc = "read" /\ s.sent # s.accepted => s.accepted \in s.gaps
    /\ s.pc \in {"wait", "connect"} => s.accepted \in s.gaps
    /\ s.pc = "slow" => s.sent > s.accepted

\* The deadline and the silence of a connection add up; the delay has its limits.
TimeInv(s) ==
    /\ s.silence <= StaleTimeout
    /\ s.pc = "read" => s.deadline + s.silence = StaleTimeout
    /\ s.pc \in {"wait", "connect"} => s.delay \in ReconnectMin..ReconnectMax

\* Who ended the stream.
EndInv(s) ==
    /\ s.pc # "done" => s.cause # "ended"
    /\ s.pc = "done" => /\ s.cause # "none"
                        /\ s.err = "none" => s.cause = "closed"
                        /\ s.err = "context" => s.cause = "parent"
                        /\ s.err = "slow" => s.sent > s.accepted

SportsInv(s) ==
    /\ s \in SportsState
    /\ Told(s.got \o s.queue, s.gaps, s.accepted)
    /\ MissedInv(s) /\ TimeInv(s) /\ EndInv(s)

\* Concatenation of results is associative.
LEMMA ResultsAssociative ==
    \A a, b, c \in Seq(Nat) : (a \o b) \o c = a \o (b \o c)
BY SMT

\* The consumer takes a result: it has and will read the same.
LEMMA Consumed ==
    ASSUME NEW g \in Seq(Nat), NEW q \in Seq(Nat), q # <<>>
    PROVE  /\ Append(g, Head(q)) \o Tail(q) = g \o q
           /\ Append(g, Head(q)) \in Seq(Nat) /\ Tail(q) \in Seq(Nat)
<1> DEFINE h == Head(q)
           t == Tail(q)
<1>1. h \in Nat /\ t \in Seq(Nat)
  BY SMT
<1>2. q = <<h>> \o t
  <2>1. Len(q) > 0
    BY SMT
  <2>2. Len(<<h>> \o t) = Len(q) /\ <<h>> \o t \in Seq(Nat)
    BY <2>1, SMT
  <2>3. \A i \in 1..Len(q) : (<<h>> \o t)[i] = q[i]
    BY <2>1, SMT
  <2>4. QED
    BY <2>2, <2>3, SMT
<1> HIDE DEF h, t
<1>3. PICK one : one \in Seq(Nat) /\ one = <<h>>
  <2>1. <<h>> \in Seq(Nat)
    BY <1>1, SMT
  <2>2. QED
    BY <2>1
<1>4. Append(g, h) = g \o one /\ Append(g, h) \in Seq(Nat)
  BY <1>1, <1>3, SMT
<1>5. (g \o one) \o t = g \o (one \o t)
  <2>1. g \in Seq(Nat) /\ one \in Seq(Nat) /\ t \in Seq(Nat)
    BY <1>1, <1>3
  <2>2. QED
    BY ONLY <2>1, ResultsAssociative, Zenon
<1>6. QED
  BY <1>1, <1>2, <1>3, <1>4, <1>5 DEF h, t

\* A result is queued behind those it has not read.
LEMMA Queued ==
    ASSUME NEW g \in Seq(Nat), NEW q \in Seq(Nat), NEW e \in Nat
    PROVE  g \o Append(q, e) = Append(g \o q, e) /\ g \o q \in Seq(Nat) /\ Append(q, e) \in Seq(Nat)
BY SMT

\* More gaps excuse more.
LEMMA MoreGaps ==
    ASSUME NEW all, NEW gaps, NEW more, gaps \subseteq more, NEW accepted, Told(all, gaps, accepted)
    PROVE  Told(all, more, accepted)
BY DEF Told, InOrder

\* The next result is told, or one that follows a gap.
LEMMA NextTold ==
    ASSUME NEW all \in Seq(Nat), NEW gaps, NEW accepted \in Nat, Told(all, gaps, accepted),
           NEW e \in Nat, accepted < e, e # accepted + 1 => accepted \in gaps
    PROVE  Told(Append(all, e), gaps, e)
<1> DEFINE t == Append(all, e)
           n == Len(all) + 1
<1>1. /\ Len(all) \in Nat /\ Len(t) = n /\ t[n] = e
      /\ \A i \in 1..Len(all) : t[i] = all[i]
  BY SMT
<1>2. n # 0 /\ n - 1 = Len(all) /\ \A i \in 1..n : i = n \/ i \in 1..Len(all)
  BY <1>1, SMT
<1>3. \A i \in 1..Len(all) : i # 1 => i - 1 \in 1..Len(all)
  BY <1>1, SMT
<1>4. Len(all) # 0 => Len(all) \in 1..Len(all) /\ n # 1
  BY <1>1, SMT
<1>5. Len(all) = 0 => n = 1
  BY <1>1, SMT
<1> HIDE DEF t, n
<1>6. (IF n = 1 THEN 0 ELSE t[n - 1]) = accepted
  <2>1. CASE Len(all) = 0
    BY <1>5, <2>1 DEF Told, Latest
  <2>2. CASE Len(all) # 0
    BY <1>1, <1>2, <1>4, <2>2 DEF Told, Latest
  <2>3. QED
    BY <2>1, <2>2
<1>7. ASSUME NEW i \in 1..n
      PROVE  LET before == IF i = 1 THEN 0 ELSE t[i - 1]
             IN  before < t[i] /\ (t[i] # before + 1 => before \in gaps)
  <2>1. CASE i = n
    BY <1>1, <1>6, <2>1
  <2>2. CASE i # n
    <3>1. i \in 1..Len(all) /\ t[i] = all[i]
      BY <1>1, <1>2, <2>2
    <3>2. i # 1 => t[i - 1] = all[i - 1]
      BY <1>1, <1>3, <3>1
    <3>3. (IF i = 1 THEN 0 ELSE t[i - 1]) = (IF i = 1 THEN 0 ELSE all[i - 1])
      BY <3>2
    <3>4. QED
      BY <3>1, <3>3 DEF Told, InOrder
  <2>3. QED
    BY <2>1, <2>2
<1>8. InOrder(t, gaps) /\ Latest(t) = e
  BY <1>1, <1>2, <1>7 DEF InOrder, Latest
<1>9. QED
  BY <1>8 DEF Told, t

\* The end of run: the stream says why.
LEMMA RunEnds ==
    ASSUME NEW s \in SportsState, Told(s.got \o s.queue, s.gaps, s.accepted),
           s.accepted <= s.sent, s.silence <= StaleTimeout,
           NEW err \in {"none", "context", "slow"},
           err = "none" => s.cause = "closed", err = "context" => s.cause = "parent",
           err = "slow" => s.sent > s.accepted
    PROVE  SportsInv(runEnds(s, err))
<1> DEFINE t == runEnds(s, err)
<1>1. t \in SportsState
  BY DEF runEnds, SportsState
<1>2. /\ t.got = s.got /\ t.queue = s.queue /\ t.gaps = s.gaps /\ t.accepted = s.accepted
      /\ t.sent = s.sent /\ t.silence = s.silence /\ t.pc = "done" /\ t.err = err
      /\ t.cause = (IF s.cause = "none" THEN "ended" ELSE s.cause)
  BY SMT DEF runEnds, SportsState
<1> HIDE DEF t
<1>3. MissedInv(t) /\ TimeInv(t)
  BY <1>2 DEF MissedInv, TimeInv
<1>4. EndInv(t)
  BY <1>2 DEF EndInv
<1>5. QED
  BY <1>1, <1>2, <1>3, <1>4 DEF SportsInv, t

\* run after a failed read: it ends, or waits and records the gap.
LEMMA ReadReturns ==
    ASSUME NEW s \in SportsState, Told(s.got \o s.queue, s.gaps, s.accepted),
           s.accepted <= s.sent, s.silence <= StaleTimeout, s.cause # "ended",
           NEW err, err = "slow" => s.sent > s.accepted
    PROVE  SportsInv(readReturns(s, err))
<1> DEFINE t == readReturns(s, err)
<1>1. CASE s.cause # "none"
  <2>1. s.cause \in {"closed", "parent"}
    BY <1>1 DEF SportsState
  <2>2. /\ terminalOf(s) \in {"none", "context", "slow"} /\ terminalOf(s) # "slow"
        /\ terminalOf(s) = "none" => s.cause = "closed"
        /\ terminalOf(s) = "context" => s.cause = "parent"
    BY <2>1 DEF terminalOf
  <2>3. SportsInv(runEnds(s, terminalOf(s)))
    BY <2>2, RunEnds
  <2>4. QED
    BY <1>1, <2>3 DEF readReturns
<1>2. CASE s.cause = "none" /\ err = "slow"
  <2>1. t = [s EXCEPT !.pc = "slow"]
    BY <1>2 DEF readReturns
  <2>2. t \in SportsState
    BY <2>1 DEF SportsState
  <2>3. /\ t.got = s.got /\ t.queue = s.queue /\ t.gaps = s.gaps /\ t.accepted = s.accepted
        /\ t.sent = s.sent /\ t.silence = s.silence /\ t.pc = "slow" /\ t.cause = s.cause
    BY <2>1, SMT DEF SportsState
  <2> HIDE DEF t
  <2>4. MissedInv(t) /\ TimeInv(t) /\ EndInv(t)
    BY <1>2, <2>3 DEF MissedInv, TimeInv, EndInv
  <2>5. QED
    BY <2>2, <2>3, <2>4 DEF SportsInv, t
<1>3. CASE s.cause = "none" /\ err # "slow"
  <2>1. t = [s EXCEPT !.pc = "wait", !.delay = ReconnectMin, !.gaps = @ \cup {s.accepted}]
    BY <1>3 DEF readReturns
  <2>2. t \in SportsState
    <3>1. ReconnectMin \in Nat /\ s.gaps \cup {s.accepted} \in SUBSET Nat
      BY SportsAssumption DEF SportsState
    <3>2. QED
      BY <2>1, <3>1 DEF SportsState
  <2>3. /\ t.got = s.got /\ t.queue = s.queue /\ t.accepted = s.accepted /\ t.sent = s.sent
        /\ t.silence = s.silence /\ t.pc = "wait" /\ t.cause = s.cause
        /\ t.delay = ReconnectMin /\ t.gaps = s.gaps \cup {s.accepted}
    BY <2>1, SMT DEF SportsState
  <2>4. ReconnectMin \in ReconnectMin..ReconnectMax
    BY SportsAssumption, SMT
  <2> HIDE DEF t
  <2>5. Told(t.got \o t.queue, t.gaps, t.accepted)
    <3>1. s.gaps \subseteq t.gaps
      BY <2>3
    <3>2. QED
      BY <2>3, <3>1, MoreGaps
  <2>6. MissedInv(t) /\ TimeInv(t) /\ EndInv(t)
    BY <1>3, <2>3, <2>4 DEF MissedInv, TimeInv, EndInv
  <2>7. QED
    BY <2>2, <2>5, <2>6 DEF SportsInv, t
<1>4. QED
  BY <1>1, <1>2, <1>3

-----------------------------------------------------------------------------
(* Each step of the stream preserves its invariant.                        *)

\* An event is queued behind the others, or the stream is told to end.
LEMMA SportsEventStep == ASSUME SportsInv(st), readEvent PROVE SportsInv(st')
<1> DEFINE s == [st EXCEPT !.sent = @ + 1]
<1>1. /\ st \in SportsState /\ Told(st.got \o st.queue, st.gaps, st.accepted)
      /\ MissedInv(st) /\ TimeInv(st) /\ EndInv(st) /\ st.pc = "read"
  BY DEF SportsInv, readEvent, SportsAt
<1>2. /\ st.sent \in Nat /\ st.accepted \in Nat /\ st.sent + 1 \in Nat
      /\ st.queue \in Seq(Nat) /\ st.got \in Seq(Nat)
  BY <1>1, SMT DEF SportsState
<1>3. /\ st.accepted <= st.sent + 1 /\ st.sent + 1 > st.accepted /\ st.accepted < st.sent + 1
      /\ st.sent + 1 # st.accepted + 1 => st.sent # st.accepted
      /\ st.sent + 1 <= st.sent + 1
  BY <1>1, <1>2, SMT DEF MissedInv
<1>4. s \in SportsState
  BY <1>1, <1>2 DEF SportsState
<1>5. /\ s.got = st.got /\ s.queue = st.queue /\ s.gaps = st.gaps /\ s.accepted = st.accepted
      /\ s.sent = st.sent + 1 /\ s.silence = st.silence /\ s.pc = "read" /\ s.cause = st.cause
      /\ s.deadline = st.deadline
  BY <1>1, SMT DEF SportsState
<1>6. CASE st' = readReturns(s, "context") \/ st' = readReturns(s, "slow")
  <2> HIDE DEF s
  <2>1. Told(s.got \o s.queue, s.gaps, s.accepted) /\ s.accepted <= s.sent /\ s.sent > s.accepted
        /\ s.silence <= StaleTimeout /\ s.cause # "ended"
    BY <1>1, <1>3, <1>5 DEF TimeInv, EndInv
  <2>2. SportsInv(readReturns(s, "context")) /\ SportsInv(readReturns(s, "slow"))
    BY <1>4, <2>1, ReadReturns
  <2>3. QED
    BY <1>6, <2>2
<1>7. CASE st' = [s EXCEPT !.queue = Append(@, s.sent), !.accepted = s.sent]
  <2> HIDE DEF s
  <2>1. Append(s.queue, s.sent) \in Seq(Nat) /\ s.sent \in Nat
    BY <1>2, <1>5, Queued
  <2>2. st' \in SportsState
    BY <1>4, <1>7, <2>1 DEF SportsState
  <2>3. /\ st'.got = s.got /\ st'.queue = Append(s.queue, s.sent) /\ st'.gaps = s.gaps
        /\ st'.accepted = s.sent /\ st'.sent = s.sent /\ st'.silence = s.silence
        /\ st'.pc = s.pc /\ st'.cause = s.cause /\ st'.deadline = s.deadline
    BY <1>4, <1>7, SMT DEF SportsState
  <2>4. Told(st'.got \o st'.queue, st'.gaps, st'.accepted)
    <3>1. st.sent + 1 # st.accepted + 1 => st.accepted \in st.gaps
      BY <1>1, <1>3 DEF MissedInv
    <3>2. /\ st.got \o st.queue \in Seq(Nat)
          /\ st.got \o Append(st.queue, st.sent + 1) = Append(st.got \o st.queue, st.sent + 1)
      BY <1>2, Queued
    <3>3. Told(Append(st.got \o st.queue, st.sent + 1), st.gaps, st.sent + 1)
      BY <1>1, <1>2, <1>3, <3>1, <3>2, NextTold
    <3>4. QED
      BY <1>5, <2>3, <3>2, <3>3
  <2>5. MissedInv(st')
    BY <1>3, <1>5, <2>3 DEF MissedInv
  <2>6. TimeInv(st') /\ EndInv(st')
    BY <1>1, <1>5, <2>3 DEF TimeInv, EndInv
  <2>7. QED
    BY <2>2, <2>4, <2>5, <2>6 DEF SportsInv
<1>8. QED
  BY <1>6, <1>7 DEF readEvent

\* A failing connection is counted or not.
LEMMA Failed ==
    ASSUME NEW s \in SportsState, NEW f \in Nat
    PROVE  /\ [s EXCEPT !.failures = f] \in SportsState
           /\ [s EXCEPT !.failures = f].got = s.got /\ [s EXCEPT !.failures = f].queue = s.queue
           /\ [s EXCEPT !.failures = f].gaps = s.gaps
           /\ [s EXCEPT !.failures = f].accepted = s.accepted
           /\ [s EXCEPT !.failures = f].sent = s.sent
           /\ [s EXCEPT !.failures = f].silence = s.silence
           /\ [s EXCEPT !.failures = f].cause = s.cause
BY DEF SportsState

\* A ping moves the deadline, even if it cannot be answered.
LEMMA PingStep == ASSUME SportsInv(st), readPing PROVE SportsInv(st')
<1> DEFINE s == [st EXCEPT !.deadline = StaleTimeout, !.silence = 0]
           f == IF st.cause # "none" THEN s.failures ELSE s.failures + 1
<1>1. /\ st \in SportsState /\ Told(st.got \o st.queue, st.gaps, st.accepted)
      /\ MissedInv(st) /\ TimeInv(st) /\ EndInv(st) /\ st.pc = "read"
  BY DEF SportsInv, readPing, SportsAt
<1>2. StaleTimeout \in Nat /\ 0 \in Nat /\ 0 <= StaleTimeout /\ StaleTimeout + 0 = StaleTimeout
  BY SportsAssumption, SMT
<1>3. s \in SportsState
  BY <1>1, <1>2 DEF SportsState
<1>4. /\ s.got = st.got /\ s.queue = st.queue /\ s.gaps = st.gaps /\ s.accepted = st.accepted
      /\ s.sent = st.sent /\ s.silence = 0 /\ s.deadline = StaleTimeout /\ s.pc = "read"
      /\ s.cause = st.cause
  BY <1>1, SMT DEF SportsState
<1>5. f \in Nat
  <2>1. s.failures \in Nat
    BY <1>3 DEF SportsState
  <2>2. \A n \in Nat : n + 1 \in Nat
    BY SMT
  <2>3. QED
    BY <2>1, <2>2
<1>6. st' = s \/ st' = readReturns([s EXCEPT !.failures = f], "pong")
  BY <1>3 DEF readPing, SportsState
<1> HIDE DEF s, f
<1>7. CASE st' = s
  <2>1. Told(s.got \o s.queue, s.gaps, s.accepted)
    BY <1>1, <1>4
  <2>2. MissedInv(s) /\ TimeInv(s) /\ EndInv(s)
    BY <1>1, <1>2, <1>4 DEF MissedInv, TimeInv, EndInv
  <2>3. QED
    BY <1>3, <1>7, <2>1, <2>2 DEF SportsInv
<1>8. CASE st' = readReturns([s EXCEPT !.failures = f], "pong")
  <2> DEFINE r == [s EXCEPT !.failures = f]
  <2>1. /\ r \in SportsState /\ r.got = s.got /\ r.queue = s.queue /\ r.gaps = s.gaps
        /\ r.accepted = s.accepted /\ r.sent = s.sent /\ r.silence = s.silence
        /\ r.cause = s.cause
    BY <1>3, <1>5, Failed
  <2> HIDE DEF r
  <2>2. Told(r.got \o r.queue, r.gaps, r.accepted) /\ r.accepted <= r.sent
        /\ r.silence <= StaleTimeout /\ r.cause # "ended"
    BY <1>1, <1>2, <1>4, <2>1 DEF MissedInv, EndInv
  <2>3. SportsInv(readReturns(r, "pong"))
    BY <2>1, <2>2, ReadReturns
  <2>4. QED
    BY <1>8, <2>3 DEF r
<1>9. QED
  BY <1>6, <1>7, <1>8

\* A failed read ends the connection.
LEMMA FailureStep == ASSUME SportsInv(st), readFailsNow PROVE SportsInv(st')
<1> DEFINE f == st.failures + 1
           s == [st EXCEPT !.failures = f]
<1>1. /\ st \in SportsState /\ Told(st.got \o st.queue, st.gaps, st.accepted)
      /\ st.accepted <= st.sent /\ st.silence <= StaleTimeout /\ st.cause # "ended"
  BY DEF SportsInv, MissedInv, TimeInv, EndInv, readFailsNow, SportsAt
<1>2. f \in Nat
  BY <1>1, SMT DEF SportsState
<1>3. st' = readReturns(st, "stale") \/ st' = readReturns(s, "read")
  BY DEF readFailsNow
<1>4. /\ s \in SportsState /\ s.got = st.got /\ s.queue = st.queue /\ s.gaps = st.gaps
      /\ s.accepted = st.accepted /\ s.sent = st.sent /\ s.silence = st.silence
      /\ s.cause = st.cause
  BY <1>1, <1>2, Failed
<1> HIDE DEF f, s
<1>5. SportsInv(readReturns(st, "stale"))
  BY <1>1, ReadReturns
<1>6. Told(s.got \o s.queue, s.gaps, s.accepted) /\ s.accepted <= s.sent
      /\ s.silence <= StaleTimeout /\ s.cause # "ended"
  BY <1>1, <1>4
<1>7. SportsInv(readReturns(s, "read"))
  BY <1>4, <1>6, ReadReturns
<1>8. QED
  BY <1>3, <1>5, <1>7

\* The stream of a slow consumer ends with the result that was not queued.
LEMMA SlowStep == ASSUME SportsInv(st), endSlow PROVE SportsInv(st')
<1>1. /\ st \in SportsState /\ Told(st.got \o st.queue, st.gaps, st.accepted)
      /\ st.accepted <= st.sent /\ st.silence <= StaleTimeout /\ st.sent > st.accepted
  BY DEF SportsInv, MissedInv, TimeInv, endSlow, SportsAt
<1>2. SportsInv(runEnds(st, "slow"))
  BY <1>1, RunEnds
<1>3. QED
  BY <1>2 DEF endSlow

\* The doubled delay keeps to the limits.
LEMMA GrownWithin ==
    ASSUME NEW delay \in ReconnectMin..ReconnectMax
    PROVE  grown(delay) \in ReconnectMin..ReconnectMax /\ grown(delay) \in Nat
BY SportsAssumption, SMT DEF grown

\* After the delay the stream connects, or ends with its context.
LEMMA WaitedStep == ASSUME SportsInv(st), waited PROVE SportsInv(st')
<1>1. /\ st \in SportsState /\ Told(st.got \o st.queue, st.gaps, st.accepted)
      /\ MissedInv(st) /\ TimeInv(st) /\ EndInv(st) /\ st.pc = "wait" /\ st.cause # "ended"
  BY DEF SportsInv, EndInv, waited, SportsAt
<1>2. CASE st.cause # "none"
  <2>1. st.cause \in {"closed", "parent"}
    BY <1>1, <1>2 DEF SportsState
  <2>2. /\ terminalOf(st) \in {"none", "context", "slow"} /\ terminalOf(st) # "slow"
        /\ terminalOf(st) = "none" => st.cause = "closed"
        /\ terminalOf(st) = "context" => st.cause = "parent"
    BY <2>1 DEF terminalOf
  <2>3. st.accepted <= st.sent /\ st.silence <= StaleTimeout
    BY <1>1 DEF MissedInv, TimeInv
  <2>4. SportsInv(runEnds(st, terminalOf(st)))
    BY <1>1, <2>2, <2>3, RunEnds
  <2>5. QED
    BY <1>2, <2>4 DEF waited
<1>3. CASE st.cause = "none"
  <2>1. st' = [st EXCEPT !.pc = "connect"]
    BY <1>3 DEF waited
  <2>2. st' \in SportsState
    BY <1>1, <2>1 DEF SportsState
  <2>3. /\ st'.got = st.got /\ st'.queue = st.queue /\ st'.gaps = st.gaps
        /\ st'.accepted = st.accepted /\ st'.sent = st.sent /\ st'.silence = st.silence
        /\ st'.delay = st.delay /\ st'.pc = "connect" /\ st'.cause = st.cause
    BY <1>1, <2>1 DEF SportsState
  <2>4. MissedInv(st') /\ TimeInv(st') /\ EndInv(st')
    BY <1>1, <2>3 DEF MissedInv, TimeInv, EndInv
  <2>5. QED
    BY <1>1, <2>2, <2>3, <2>4 DEF SportsInv
<1>4. QED
  BY <1>2, <1>3

\* A new connection has a fresh deadline; a failed upgrade a longer delay.
LEMMA ReconnectStep == ASSUME SportsInv(st), reconnect PROVE SportsInv(st')
<1>1. /\ st \in SportsState /\ Told(st.got \o st.queue, st.gaps, st.accepted)
      /\ MissedInv(st) /\ TimeInv(st) /\ EndInv(st) /\ st.pc = "connect" /\ st.cause # "ended"
  BY DEF SportsInv, EndInv, reconnect, SportsAt
<1>2. StaleTimeout \in Nat /\ 0 \in Nat /\ 0 <= StaleTimeout /\ StaleTimeout + 0 = StaleTimeout
  BY SportsAssumption, SMT
<1>3. CASE st' = [st EXCEPT !.pc = "read", !.deadline = StaleTimeout, !.silence = 0, !.delay = 0]
  <2>1. st' \in SportsState
    BY <1>1, <1>2, <1>3 DEF SportsState
  <2>2. /\ st'.got = st.got /\ st'.queue = st.queue /\ st'.gaps = st.gaps
        /\ st'.accepted = st.accepted /\ st'.sent = st.sent /\ st'.silence = 0
        /\ st'.deadline = StaleTimeout /\ st'.pc = "read" /\ st'.cause = st.cause
    BY <1>1, <1>3, SMT DEF SportsState
  <2>3. MissedInv(st') /\ TimeInv(st') /\ EndInv(st')
    BY <1>1, <1>2, <2>2 DEF MissedInv, TimeInv, EndInv
  <2>4. QED
    BY <1>1, <2>1, <2>2, <2>3 DEF SportsInv
<1> DEFINE f == IF st.cause # "none" THEN st.failures ELSE st.failures + 1
           d == grown(st.delay)
<1>4. CASE st' = [st EXCEPT !.pc = "wait", !.delay = d, !.failures = f]
  <2>1. f \in Nat
    <3>1. st.failures \in Nat
      BY <1>1 DEF SportsState
    <3>2. \A n \in Nat : n + 1 \in Nat
      BY SMT
    <3>3. QED
      BY <3>1, <3>2
  <2>2. d \in ReconnectMin..ReconnectMax /\ d \in Nat
    BY <1>1, GrownWithin DEF TimeInv
  <2> HIDE DEF f, d
  <2>3. st' \in SportsState
    BY <1>1, <1>4, <2>1, <2>2 DEF SportsState
  <2>4. /\ st'.got = st.got /\ st'.queue = st.queue /\ st'.gaps = st.gaps
        /\ st'.accepted = st.accepted /\ st'.sent = st.sent /\ st'.silence = st.silence
        /\ st'.delay = d /\ st'.pc = "wait" /\ st'.cause = st.cause
    BY <1>1, <1>4, SMT DEF SportsState
  <2>5. MissedInv(st') /\ TimeInv(st') /\ EndInv(st')
    BY <1>1, <2>2, <2>4 DEF MissedInv, TimeInv, EndInv
  <2>6. QED
    BY <1>1, <2>3, <2>4, <2>5 DEF SportsInv
<1>5. QED
  BY <1>1, <1>3, <1>4 DEF reconnect, SportsState

\* The context of a stream that has not ended is cancelled, by Close or by its parent.
LEMMA SportsCancelStep == ASSUME SportsInv(st), CloseStream \/ parentContextEnds PROVE SportsInv(st')
<1>1. /\ st \in SportsState /\ Told(st.got \o st.queue, st.gaps, st.accepted)
      /\ MissedInv(st) /\ TimeInv(st) /\ EndInv(st) /\ st.cause = "none"
  BY DEF SportsInv, CloseStream, parentContextEnds
<1>2. PICK c \in {"closed", "parent"} : st' = [st EXCEPT !.cause = c]
  BY DEF CloseStream, parentContextEnds
<1>3. st' \in SportsState
  BY <1>1, <1>2 DEF SportsState
<1>4. /\ st'.got = st.got /\ st'.queue = st.queue /\ st'.gaps = st.gaps
      /\ st'.accepted = st.accepted /\ st'.sent = st.sent /\ st'.silence = st.silence
      /\ st'.deadline = st.deadline /\ st'.delay = st.delay /\ st'.pc = st.pc /\ st'.cause = c
  BY <1>1, <1>2, SMT DEF SportsState
<1>5. MissedInv(st') /\ TimeInv(st') /\ EndInv(st')
  BY <1>1, <1>4 DEF MissedInv, TimeInv, EndInv
<1>6. QED
  BY <1>1, <1>3, <1>4, <1>5 DEF SportsInv

\* The consumer reads a result.
LEMMA SportsConsumeStep == ASSUME SportsInv(st), consume PROVE SportsInv(st')
<1> DEFINE g == Append(st.got, Head(st.queue))
           q == Tail(st.queue)
<1>1. /\ st \in SportsState /\ Told(st.got \o st.queue, st.gaps, st.accepted)
      /\ MissedInv(st) /\ TimeInv(st) /\ EndInv(st) /\ st.queue # <<>>
  BY DEF SportsInv, consume
<1>2. st.got \in Seq(Nat) /\ st.queue \in Seq(Nat)
  BY <1>1 DEF SportsState
<1>3. g \o q = st.got \o st.queue /\ g \in Seq(Nat) /\ q \in Seq(Nat)
  BY <1>1, <1>2, Consumed
<1>4. st' = [st EXCEPT !.got = g, !.queue = q]
  BY <1>1 DEF consume, SportsState
<1> HIDE DEF g, q
<1>5. st' \in SportsState
  BY <1>1, <1>3, <1>4 DEF SportsState
<1>6. /\ st'.got = g /\ st'.queue = q /\ st'.gaps = st.gaps
      /\ st'.accepted = st.accepted /\ st'.sent = st.sent /\ st'.silence = st.silence
      /\ st'.deadline = st.deadline /\ st'.delay = st.delay /\ st'.pc = st.pc
      /\ st'.cause = st.cause /\ st'.err = st.err
  BY <1>1, <1>4, SMT DEF SportsState
<1>7. MissedInv(st') /\ TimeInv(st') /\ EndInv(st')
  BY <1>1, <1>6 DEF MissedInv, TimeInv, EndInv
<1>8. QED
  BY <1>1, <1>3, <1>5, <1>6, <1>7 DEF SportsInv

\* A result is published while there is no connection.
LEMMA MissedStep == ASSUME SportsInv(st), missedEvent PROVE SportsInv(st')
<1>1. /\ st \in SportsState /\ Told(st.got \o st.queue, st.gaps, st.accepted)
      /\ MissedInv(st) /\ TimeInv(st) /\ EndInv(st) /\ st.pc \in {"wait", "connect"}
      /\ st' = [st EXCEPT !.sent = st.sent + 1]
  BY DEF SportsInv, missedEvent, SportsState
<1>2. st.sent + 1 \in Nat /\ st.accepted <= st.sent + 1
  BY <1>1, SMT DEF SportsState, MissedInv
<1>3. st' \in SportsState
  BY <1>1, <1>2 DEF SportsState
<1>4. /\ st'.got = st.got /\ st'.queue = st.queue /\ st'.gaps = st.gaps
      /\ st'.accepted = st.accepted /\ st'.sent = st.sent + 1 /\ st'.silence = st.silence
      /\ st'.deadline = st.deadline /\ st'.delay = st.delay /\ st'.pc = st.pc
      /\ st'.cause = st.cause
  BY <1>1, SMT DEF SportsState
<1>5. MissedInv(st') /\ TimeInv(st') /\ EndInv(st')
  BY <1>1, <1>2, <1>4 DEF MissedInv, TimeInv, EndInv
<1>6. QED
  BY <1>1, <1>3, <1>4, <1>5 DEF SportsInv

\* Time passes on a connection whose deadline has not expired.
LEMMA TimeStep == ASSUME SportsInv(st), timePasses PROVE SportsInv(st')
<1>1. /\ st \in SportsState /\ Told(st.got \o st.queue, st.gaps, st.accepted)
      /\ MissedInv(st) /\ TimeInv(st) /\ EndInv(st) /\ st.pc = "read" /\ st.deadline > 0
      /\ st' = [st EXCEPT !.deadline = st.deadline - 1, !.silence = st.silence + 1]
  BY DEF SportsInv, timePasses, SportsAt, SportsState
<1>2. /\ st.deadline - 1 \in Nat /\ st.silence + 1 \in Nat /\ st.silence + 1 <= StaleTimeout
      /\ (st.deadline - 1) + (st.silence + 1) = StaleTimeout
  <2>1. /\ st.deadline \in Nat /\ st.silence \in Nat /\ st.deadline + st.silence = StaleTimeout
        /\ st.deadline > 0
    BY <1>1 DEF SportsState, TimeInv
  <2>2. QED
    BY <2>1, SMT
<1>3. st' \in SportsState
  BY <1>1, <1>2 DEF SportsState
<1>4. /\ st'.got = st.got /\ st'.queue = st.queue /\ st'.gaps = st.gaps
      /\ st'.accepted = st.accepted /\ st'.sent = st.sent /\ st'.silence = st.silence + 1
      /\ st'.deadline = st.deadline - 1 /\ st'.pc = st.pc /\ st'.cause = st.cause
  BY <1>1, SMT DEF SportsState
<1>5. MissedInv(st') /\ TimeInv(st') /\ EndInv(st')
  BY <1>1, <1>2, <1>4 DEF MissedInv, TimeInv, EndInv
<1>6. QED
  BY <1>1, <1>3, <1>4, <1>5 DEF SportsInv

\* A dialled stream has read and missed nothing.
LEMMA SportsInitSound == SportsInit => SportsInv(st)
<1> SUFFICES ASSUME SportsInit PROVE SportsInv(st)
  OBVIOUS
<1>1. StaleTimeout \in Nat /\ 0 \in Nat /\ 0 <= StaleTimeout /\ StaleTimeout + 0 = StaleTimeout
      /\ <<>> \in Seq(Nat) /\ 0 <= 0 /\ <<>> \o <<>> = <<>> /\ Len(<<>>) = 0
      /\ \A i \in 1..0 : FALSE
  BY SportsAssumption, SMT
<1>2. st \in SportsState
  BY <1>1 DEF SportsInit, SportsState
<1>3. Told(st.got \o st.queue, st.gaps, st.accepted)
  <2>1. Told(<<>>, {}, 0)
    BY <1>1 DEF Told, InOrder, Latest
  <2>2. QED
    BY <1>1, <2>1 DEF SportsInit
<1>4. MissedInv(st) /\ TimeInv(st) /\ EndInv(st)
  <2>1. /\ st.pc = "read" /\ st.cause = "none" /\ st.sent = 0 /\ st.accepted = 0
        /\ st.silence = 0 /\ st.deadline = StaleTimeout
    BY DEF SportsInit
  <2>2. QED
    BY <1>1, <2>1 DEF MissedInv, TimeInv, EndInv
<1>5. QED
  BY <1>2, <1>3, <1>4 DEF SportsInv

(***************************************************************************)
(* For any buffer, timeouts and number of failures, the stream skips       *)
(* results only across a replaced connection, gives up one that has been   *)
(* silent for StaleTimeout however many results it delivers, keeps the     *)
(* delay limit within ReconnectMin..ReconnectMax, and Err says what ended  *)
(* it.                                                                     *)
(***************************************************************************)
THEOREM SportsStaysFaithful == SportsSpec => []SportsFaithful
<1> DEFINE SInv == SportsInv(st)
<1>1. SportsInit => SInv
  BY SportsInitSound
<1>2. SInv /\ [SportsNext]_st => SInv'
  <2> SUFFICES ASSUME SInv, [SportsNext]_st PROVE SportsInv(st')
    OBVIOUS
  <2>1. CASE SportsNext
    BY <2>1, SportsEventStep, PingStep, FailureStep, SlowStep, WaitedStep, ReconnectStep, SportsCancelStep,
       SportsConsumeStep, MissedStep, TimeStep DEF SportsNext
  <2>2. CASE UNCHANGED st
    BY <2>2
  <2>3. QED
    BY <2>1, <2>2
<1>3. SInv => SportsFaithful
  <2> SUFFICES ASSUME SInv PROVE SportsFaithful
    OBVIOUS
  <2>1. NoResultDropped
    BY DEF SportsInv, Told, InOrder, NoResultDropped
  <2>2. SilenceIsNoticed /\ BackoffWithinLimits
    BY DEF SportsInv, TimeInv, SilenceIsNoticed, BackoffWithinLimits
  <2>3. StreamErrorTruthful
    BY DEF SportsInv, EndInv, StreamErrorTruthful
  <2>4. QED
    BY <2>1, <2>2, <2>3 DEF SportsFaithful
<1>4. QED
  BY <1>1, <1>2, <1>3, PTL DEF SportsSpec

=============================================================================
