----------------------- MODULE WsSubscriptionsProofs -----------------------
(***************************************************************************)
(* Proofs about WsSubscriptions, for one caller beside the reconnecting     *)
(* goroutine and any ids, subscriptions, faults and bounds: the counts      *)
(* agree with what is recorded, and a healthy connection streams what is    *)
(* counted.                                                                 *)
(***************************************************************************)
EXTENDS WsSubscriptions, FiniteSetTheorems, TLAPS

-----------------------------------------------------------------------------
(* The inductive invariant                                                 *)

OneCallerOnly == \E u : User = {u}

Custom(r) == r.target = "market" /\ r.custom

\* A caller whose subscription is recorded and not yet sent, or not yet rolled back.
Unsent(u) == pc[u] \in {"subscribe", "unrecord"}

\* A caller between its bookkeeping and its send or rollback.
CallInv ==
    /\ pc[Reconnector] \in {"idle", "snapshot", "replay"}
    /\ \A u \in User :
         /\ pc[u] \in {"subscribe", "unsubscribe", "unrecord", "restore"} => arg[u] \in Registration
         /\ pc[u] \in {"subscribe", "unsubscribe"} => outbox[u] # <<>>
         /\ Unsent(u) => Len(subs) > 0 /\ subs[Len(subs)] = arg[u]
         /\ pc[u] = "subscribe" =>
              /\ Head(outbox[u]).op = "subscribe" /\ Head(outbox[u]).target = arg[u].target
              /\ \A i \in arg[u].ids : refs[i] = 1 => i \in Head(outbox[u]).topics
              /\ Custom(arg[u]) => "custom" \in Head(outbox[u]).topics
         /\ pc[u] = "unsubscribe" =>
              /\ Head(outbox[u]).op = "unsubscribe" /\ Head(outbox[u]).topics \subseteq Id
              /\ \A i \in Head(outbox[u]).topics : refs[i] = 0

\* What is replayed only adds to what the server streams.
ReplayInv ==
    \A p \in Proc : pc[p] = "replay" =>
        \A q \in 1..Len(outbox[p]) : outbox[p][q].op = "subscribe"

\* Without credentials the only user subscription is the one that cannot be sent.
CredsInv ==
    ~undone /\ ~creds =>
        \A k \in 1..Len(subs) : subs[k].target = "user" =>
            \E u \in User : /\ Unsent(u) /\ k = Len(subs)
                            /\ \A i \in subs[k].ids : refs[i] = 1

\* Somebody is about to replay the topic.
Waits(x) ==
    \E p \in Proc :
        \/ pc[p] = "snapshot"
        \/ pc[p] = "replay" /\ \E q \in 1..Len(outbox[p]) :
               x \in outbox[p][q].topics /\ (outbox[p][q].target = "user" => creds)

\* Whatever is counted is streamed, or about to be replayed, or not yet sent.
ServedInv ==
    ~undone /\ wire = "open" =>
        /\ \A i \in Id : refs[i] > 0 =>
             i \in server \/ Waits(i) \/ \E u \in User : Unsent(u) /\ i \in arg[u].ids /\ refs[i] = 1
        /\ customFeature =>
             \/ "custom" \in server \/ Waits("custom")
             \/ \E u \in User : /\ Unsent(u) /\ Custom(arg[u])
                                /\ \A k \in 1..(Len(subs) - 1) : ~Custom(subs[k])

IInv == TypeOK /\ RefsMatch /\ CallInv /\ ReplayInv /\ CredsInv /\ ServedInv

-----------------------------------------------------------------------------
(* Lists of subscriptions                                                  *)

\* Most leaves are set and first-order reasoning; those with arithmetic or large
\* records cite SMT.
USE Zenon

\* The entries with the id.
At(s, i) == {k \in DOMAIN s : i \in s[k].ids}

\* A set of positions has a first one.
LEMMA FirstExists ==
    ASSUME NEW S \in SUBSET Nat, S # {}
    PROVE  First(S) # {}
<1>1. PICK x \in S : \A y \in S : ~(<<y, x>> \in OpToRel(<, Nat))
  BY NatLessThanWellFounded, WFMin
<1>2. ASSUME NEW y \in S
      PROVE  x <= y
  <2>1. ~(y < x)
    BY <1>1 DEF OpToRel
  <2>2. QED
    BY <2>1, SMT
<1>3. QED
  BY <1>2 DEF First

\* A subscription is recorded at the end.
LEMMA Recorded ==
    ASSUME NEW s \in Seq(Registration), NEW r \in Registration
    PROVE  /\ Append(s, r) \in Seq(Registration) /\ Len(Append(s, r)) = Len(s) + 1
           /\ Len(s) \in Nat /\ DOMAIN s = 1..Len(s) /\ DOMAIN Append(s, r) = 1..(Len(s) + 1)
           /\ \A k \in 1..Len(s) : Append(s, r)[k] = s[k] /\ s[k] \in Registration
           /\ Append(s, r)[Len(s) + 1] = r
BY SMT

\* The entry at a position is removed.
LEMMA Deleted ==
    ASSUME NEW s \in Seq(Registration), NEW k \in 1..Len(s)
    PROVE  /\ Delete(s, k) \in Seq(Registration) /\ Len(Delete(s, k)) = Len(s) - 1
           /\ Len(s) \in Nat \ {0} /\ DOMAIN s = 1..Len(s) /\ DOMAIN Delete(s, k) = 1..(Len(s) - 1)
           /\ \A j \in 1..(Len(s) - 1) :
                Delete(s, k)[j] = IF j < k THEN s[j] ELSE s[j + 1]
<1> DEFINE t == Delete(s, k)
<1>1. Len(s) \in Nat \ {0} /\ DOMAIN s = 1..Len(s) /\ s \in [1..Len(s) -> Registration]
  BY SMT
<1>2. t = [j \in 1..(Len(s) - 1) |-> IF j < k THEN s[j] ELSE s[j + 1]]
  BY DEF Delete
<1>3. \A j \in 1..(Len(s) - 1) : j \in 1..Len(s) /\ j + 1 \in 1..Len(s)
  BY <1>1, SMT
<1>4. t \in [1..(Len(s) - 1) -> Registration] /\ Len(s) - 1 \in Nat
  BY <1>1, <1>2, <1>3, SMT
<1>5. t \in Seq(Registration) /\ Len(t) = Len(s) - 1
  BY <1>4, SMT
<1>6. QED
  BY <1>1, <1>2, <1>5

\* The count of an id is a number.
LEMMA Counts ==
    ASSUME NEW s \in Seq(Registration), NEW i
    PROVE  /\ IsFiniteSet(At(s, i)) /\ Cardinality(At(s, i)) \in Nat
           /\ Cardinality(At(s, i)) > 0 <=> \E k \in 1..Len(s) : i \in s[k].ids
<1>1. DOMAIN s = 1..Len(s) /\ Len(s) \in Int /\ 1 \in Int
  BY SMT
<1>2. IsFiniteSet(1..Len(s))
  BY <1>1, FS_Interval
<1>3. At(s, i) \in SUBSET (1..Len(s))
  BY <1>1 DEF At
<1>4. IsFiniteSet(At(s, i))
  BY <1>2, <1>3, FS_Subset
<1>5. Cardinality(At(s, i)) \in Nat
  BY <1>4, FS_CardinalityType
<1>6. Cardinality(At(s, i)) = 0 <=> At(s, i) = {}
  BY <1>4, FS_EmptySet
<1>7. Cardinality(At(s, i)) > 0 <=> At(s, i) # {}
  BY <1>5, <1>6, SMT
<1>8. QED
  BY <1>1, <1>4, <1>5, <1>7 DEF At

\* Recording counts the ids of the subscription once more.
LEMMA CountRecorded ==
    ASSUME NEW s \in Seq(Registration), NEW r \in Registration, NEW i
    PROVE  Cardinality(At(Append(s, r), i)) =
             IF i \in r.ids THEN Cardinality(At(s, i)) + 1 ELSE Cardinality(At(s, i))
<1> DEFINE t == Append(s, r)
           n == Len(s) + 1
<1>1. /\ Len(s) \in Nat /\ DOMAIN s = 1..Len(s) /\ DOMAIN t = 1..n
      /\ \A k \in 1..Len(s) : t[k] = s[k]
      /\ t[n] = r
  BY Recorded
<1>2. n \notin 1..Len(s) /\ 1..n = 1..Len(s) \cup {n}
  BY <1>1, SMT
<1> HIDE DEF t, n
<1>3. CASE i \in r.ids
  <2>1. At(t, i) = At(s, i) \cup {n} /\ n \notin At(s, i)
    BY <1>1, <1>2, <1>3 DEF At
  <2>2. QED
    BY <1>3, <2>1, Counts, FS_AddElement DEF t
<1>4. CASE i \notin r.ids
  <2>1. At(t, i) = At(s, i)
    <3>1. ASSUME NEW k
          PROVE  k \in At(t, i) <=> k \in At(s, i)
      <4>1. CASE k \in 1..Len(s)
        BY <1>1, <1>2, <4>1 DEF At
      <4>2. CASE k \notin 1..Len(s)
        BY <1>1, <1>2, <1>4, <4>2 DEF At
      <4>3. QED
        BY <4>1, <4>2
    <3>2. QED
      BY <3>1
  <2>2. QED
    BY <1>4, <2>1 DEF t
<1>5. QED
  BY <1>3, <1>4

\* Removing counts the ids of the entry once less.
LEMMA CountDeleted ==
    ASSUME NEW s \in Seq(Registration), NEW k \in 1..Len(s), NEW i
    PROVE  Cardinality(At(Delete(s, k), i)) =
             IF i \in s[k].ids THEN Cardinality(At(s, i)) - 1 ELSE Cardinality(At(s, i))
<1> DEFINE t == Delete(s, k)
           S == At(t, i)
           T == At(s, i) \ {k}
           f == [j \in S |-> IF j < k THEN j ELSE j + 1]
<1>1. /\ t \in Seq(Registration) /\ Len(s) \in Nat \ {0}
      /\ DOMAIN s = 1..Len(s) /\ DOMAIN t = 1..(Len(s) - 1)
      /\ \A j \in 1..(Len(s) - 1) : t[j] = IF j < k THEN s[j] ELSE s[j + 1]
  BY Deleted
<1>2. /\ \A j \in S : j \in 1..(Len(s) - 1) /\ i \in t[j].ids
      /\ \A j \in 1..(Len(s) - 1) : i \in t[j].ids => j \in S
      /\ \A j \in T : j \in 1..Len(s) /\ j # k /\ i \in s[j].ids
      /\ \A j \in 1..Len(s) : j # k /\ i \in s[j].ids => j \in T
  BY <1>1 DEF At
<1> HIDE DEF S, T, t
<1>3. f \in [S -> T]
  <2>1. ASSUME NEW j \in S
        PROVE  (IF j < k THEN j ELSE j + 1) \in T
    <3>1. CASE j < k
      <4>1. j \in 1..Len(s) /\ j # k
        BY <1>1, <1>2, <3>1, SMT
      <4>2. i \in s[j].ids
        BY <1>1, <1>2, <3>1
      <4>3. QED
        BY <1>2, <3>1, <4>1, <4>2
    <3>2. CASE ~(j < k)
      <4>1. j + 1 \in 1..Len(s) /\ j + 1 # k
        BY <1>1, <1>2, <3>2, SMT
      <4>2. i \in s[j + 1].ids
        BY <1>1, <1>2, <3>2
      <4>3. QED
        BY <1>2, <3>2, <4>1, <4>2
    <3>3. QED
      BY <3>1, <3>2
  <2>2. QED
    BY <2>1
<1>4. \A a, b \in S : f[a] = f[b] => a = b
  BY <1>1, <1>2, SMT
<1>5. \A j \in T : \E a \in S : f[a] = j
  <2>1. SUFFICES ASSUME NEW j \in T
                 PROVE  \E a \in S : f[a] = j
    OBVIOUS
  <2>2. CASE j < k
    <3>1. j \in 1..(Len(s) - 1)
      BY <1>1, <1>2, <2>2, SMT
    <3>2. t[j] = s[j]
      BY <1>1, <2>2, <3>1
    <3>3. j \in S
      BY <1>2, <3>1, <3>2
    <3>4. QED
      BY <2>2, <3>3
  <2>3. CASE ~(j < k)
    <3>1. j - 1 \in 1..(Len(s) - 1) /\ ~(j - 1 < k) /\ (j - 1) + 1 = j
      BY <1>1, <1>2, <2>3, SMT
    <3>2. t[j - 1] = s[j]
      BY <1>1, <3>1
    <3>3. j - 1 \in S
      BY <1>2, <3>1, <3>2
    <3>4. f[j - 1] = j
      BY <3>1, <3>3
    <3>5. QED
      BY <3>3, <3>4
  <2>4. QED
    BY <2>2, <2>3
<1>6. ExistsBijection(S, T)
  <2>1. f \in Bijection(S, T)
    BY <1>3, <1>4, <1>5 DEF Bijection, Injection, Surjection, IsInjective
  <2>2. QED
    BY <2>1 DEF ExistsBijection
<1>7. IsFiniteSet(S) /\ IsFiniteSet(At(s, i))
  BY <1>1, Counts DEF S
<1>8. Cardinality(T) = Cardinality(S)
  BY <1>6, <1>7, FS_Bijection
<1>9. k \in At(s, i) <=> i \in s[k].ids
  BY <1>1 DEF At
<1>10. Cardinality(T) = IF k \in At(s, i) THEN Cardinality(At(s, i)) - 1 ELSE Cardinality(At(s, i))
  BY <1>7, FS_RemoveElement DEF T
<1>11. QED
  BY <1>8, <1>9, <1>10 DEF S, t


-----------------------------------------------------------------------------
(* The connection                                                          *)

\* Nothing is promised of a connection that is not open.
LEMMA NotOpen ==
    ASSUME IInv, wire' \in {"none", "silent", "dead"}, faults' \in 0..MaxFaults,
           UNCHANGED <<subVars, server, procVars>>
    PROVE  IInv'
<1>1. TypeOK'
  BY DEF IInv, TypeOK, subVars, procVars
<1>2. RefsMatch'
  BY DEF IInv, RefsMatch, subVars
<1>3. CallInv' /\ ReplayInv' /\ CredsInv'
  BY DEF IInv, CallInv, ReplayInv, CredsInv, Unsent, Custom, subVars, procVars
<1>4. ServedInv'
  BY DEF ServedInv
<1>5. QED
  BY <1>1, <1>2, <1>3, <1>4 DEF IInv

\* The network ends a connection, and the loops withdraw it.
LEMMA LinkStep ==
    ASSUME IInv, ConnectionLost \/ markDisconnected
    PROVE  IInv'
<1>1. faults \in 0..MaxFaults
  BY DEF IInv, TypeOK
<1>2. CASE ConnectionLost
  <2>1. wire' \in {"none", "silent", "dead"}
    BY <1>2 DEF ConnectionLost, Fail
  <2>2. faults' \in 0..MaxFaults
    <3>1. CASE Fault
      BY <1>1, <3>1, SubsAssumption, SMT DEF Fault
    <3>2. CASE UNCHANGED faults
      BY <1>1, <3>2
    <3>3. QED
      BY <1>2, <3>1, <3>2 DEF ConnectionLost
  <2>3. QED
    BY <1>2, <2>1, <2>2, NotOpen DEF ConnectionLost
<1>3. CASE markDisconnected
  BY <1>1, <1>3, NotOpen DEF markDisconnected, Withdraw
<1>4. QED
  BY <1>2, <1>3

\* What a send may do to the connection.
LEMMA SendMoves ==
    ASSUME TypeOK, NEW m \in Message, SendOK(m) \/ SendFails(m)
    PROVE  /\ wire' \in {"none", "open", "silent", "dead"} /\ server' \in SUBSET Topic
           /\ faults' \in 0..MaxFaults
           /\ wire' = "open" => /\ wire = "open"
                                /\ \/ server' = Applied(server, m)
                                   \/ server' = server /\ m.target = "user" /\ ~creds
<1>1. /\ wire \in {"none", "open", "silent", "dead"} /\ server \in SUBSET Topic
      /\ faults \in 0..MaxFaults
  BY DEF TypeOK
<1>2. Applied(server, m) \in SUBSET Topic
  <2>1. m.topics \in SUBSET Topic
    BY DEF Message
  <2>2. QED
    BY <1>1, <2>1 DEF Applied
<1>3. CASE SendOK(m)
  BY <1>1, <1>2, <1>3 DEF SendOK
<1>4. CASE SendFails(m)
  <2>1. server' = server
    BY <1>4 DEF SendFails
  <2>2. CASE ~Writable(m) /\ UNCHANGED <<wire, faults>>
    BY <1>1, <2>1, <2>2 DEF Writable
  <2>3. CASE Fault /\ wire' = "dead"
    <3>1. faults' \in 0..MaxFaults
      BY <1>1, <2>3, SubsAssumption, SMT DEF Fault
    <3>2. QED
      BY <1>1, <2>1, <2>3, <3>1
  <2>4. QED
    BY <1>4, <2>2, <2>3 DEF SendFails
<1>5. QED
  BY <1>3, <1>4

\* A caller or the reconnecting goroutine publishes a connection.
LEMMA PublishStep ==
    ASSUME IInv, NEW p \in Proc, Publish(p)
    PROVE  IInv'
<1>1. /\ pc[p] = "idle" /\ pc' = [pc EXCEPT ![p] = "snapshot"] /\ wire' = "open" /\ server' = {}
      /\ UNCHANGED <<subVars, outbox, arg, faults>>
  BY DEF Publish, Announce, Goto
<1>2. pc \in [Proc -> {"idle", "snapshot", "replay", "subscribe", "unsubscribe", "unrecord",
                        "restore"}]
  BY DEF IInv, TypeOK
<1>3. pc'[p] = "snapshot" /\ \A q \in Proc : q # p => pc'[q] = pc[q]
  BY <1>1, <1>2
<1>4. TypeOK'
  <2>1. pc' \in [Proc -> {"idle", "snapshot", "replay", "subscribe", "unsubscribe", "unrecord",
                          "restore"}]
    BY <1>1, <1>2
  <2>2. QED
    BY <1>1, <2>1 DEF IInv, TypeOK, subVars
<1>5. RefsMatch'
  BY <1>1 DEF IInv, RefsMatch, subVars
<1>6. Reconnector \in Proc /\ User \subseteq Proc
  BY DEF Proc
<1>7. CallInv'
  <2>1. pc'[Reconnector] \in {"idle", "snapshot", "replay"}
    BY <1>3, <1>6 DEF IInv, CallInv
  <2>2. ASSUME NEW u \in User, pc'[u] \notin {"idle", "snapshot", "replay"}
        PROVE  pc'[u] = pc[u]
    BY <1>3, <1>6, <2>2
  <2>3. QED
    BY <1>1, <2>1, <2>2 DEF IInv, CallInv, Unsent, subVars
<1>8. ReplayInv'
  BY <1>1, <1>3 DEF IInv, ReplayInv
<1>9. CredsInv'
  <2>1. ASSUME NEW u \in User, Unsent(u)
        PROVE  Unsent(u)'
    BY <1>1, <1>3, <1>6, <2>1 DEF Unsent
  <2>2. QED
    BY <1>1, <2>1 DEF IInv, CredsInv, subVars
<1>10. ServedInv'
  <2>1. \A x : Waits(x)'
    BY <1>3 DEF Waits
  <2>2. QED
    BY <2>1 DEF ServedInv
<1>11. QED
  BY <1>4, <1>5, <1>7, <1>8, <1>9, <1>10 DEF IInv


\* A process that replays leaves the bookkeeping and the calls alone.
LEMMA ReplayKeeps ==
    ASSUME IInv, NEW p \in Proc, pc[p] \in {"snapshot", "replay"}, NEW w \in {"idle", "replay"},
           pc' = [pc EXCEPT ![p] = w], NEW s \in Seq(Message), outbox' = [outbox EXCEPT ![p] = s],
           wire' \in {"none", "open", "silent", "dead"}, server' \in SUBSET Topic,
           faults' \in 0..MaxFaults, UNCHANGED <<subVars, arg>>
    PROVE  /\ TypeOK' /\ RefsMatch' /\ CallInv' /\ CredsInv'
           /\ pc'[p] = w /\ outbox'[p] = s
           /\ \A q \in Proc : q # p => pc'[q] = pc[q] /\ outbox'[q] = outbox[q]
           /\ \A u \in User : Unsent(u) => Unsent(u)'
<1>1. /\ pc \in [Proc -> {"idle", "snapshot", "replay", "subscribe", "unsubscribe", "unrecord",
                          "restore"}]
      /\ outbox \in [Proc -> Seq(Message)]
  BY DEF IInv, TypeOK
<1>2. /\ pc'[p] = w /\ outbox'[p] = s
      /\ \A q \in Proc : q # p => pc'[q] = pc[q] /\ outbox'[q] = outbox[q]
  BY <1>1
<1>3. TypeOK'
  <2>1. /\ pc' \in [Proc -> {"idle", "snapshot", "replay", "subscribe", "unsubscribe", "unrecord",
                             "restore"}]
        /\ outbox' \in [Proc -> Seq(Message)]
    BY <1>1
  <2>2. QED
    BY <2>1 DEF IInv, TypeOK, subVars
<1>4. RefsMatch'
  BY DEF IInv, RefsMatch, subVars
<1>5. Reconnector \in Proc /\ User \subseteq Proc
  BY DEF Proc
<1>6. CallInv'
  <2>1. pc'[Reconnector] \in {"idle", "snapshot", "replay"}
    BY <1>2, <1>5 DEF IInv, CallInv
  <2>2. ASSUME NEW u \in User, pc'[u] \notin {"idle", "snapshot", "replay"}
        PROVE  pc'[u] = pc[u] /\ outbox'[u] = outbox[u]
    BY <1>2, <1>5, <2>2
  <2>3. subs' = subs /\ refs' = refs /\ arg' = arg
    BY DEF subVars
  <2>4. ASSUME NEW u \in User
        PROVE  /\ pc'[u] \in {"subscribe", "unsubscribe", "unrecord", "restore"} =>
                    arg'[u] \in Registration
               /\ pc'[u] \in {"subscribe", "unsubscribe"} => outbox'[u] # <<>>
               /\ Unsent(u)' => Len(subs') > 0 /\ subs'[Len(subs')] = arg'[u]
    BY <2>2, <2>3 DEF IInv, CallInv, Unsent
  <2>5. ASSUME NEW u \in User
        PROVE  /\ pc'[u] = "subscribe" =>
                    /\ Head(outbox'[u]).op = "subscribe"
                    /\ Head(outbox'[u]).target = arg'[u].target
                    /\ \A i \in arg'[u].ids : refs'[i] = 1 => i \in Head(outbox'[u]).topics
                    /\ Custom(arg'[u]) => "custom" \in Head(outbox'[u]).topics
               /\ pc'[u] = "unsubscribe" =>
                    /\ Head(outbox'[u]).op = "unsubscribe" /\ Head(outbox'[u]).topics \subseteq Id
                    /\ \A i \in Head(outbox'[u]).topics : refs'[i] = 0
    BY <2>2, <2>3 DEF IInv, CallInv
  <2>6. QED
    BY <2>1, <2>4, <2>5 DEF CallInv, Custom
<1>7. ASSUME NEW u \in User, Unsent(u)
      PROVE  Unsent(u)'
  BY <1>2, <1>5, <1>7 DEF Unsent
<1>8. CredsInv'
  BY <1>7 DEF IInv, CredsInv, subVars
<1>9. QED
  BY <1>2, <1>3, <1>4, <1>6, <1>7, <1>8

\* What a replay sends: whatever is counted, and the custom features.
LEMMA ReplayHas ==
    ASSUME IInv
    PROVE  /\ ReplayMessages \in Seq(Message)
           /\ \A q \in 1..Len(ReplayMessages) : ReplayMessages[q].op = "subscribe"
           /\ \A k \in 1..Len(subs) : \A i \in subs[k].ids : refs[i] > 0 =>
                \E q \in 1..Len(ReplayMessages) :
                    /\ i \in ReplayMessages[q].topics
                    /\ ReplayMessages[q].target = subs[k].target
           /\ customFeature => \E q \in 1..Len(ReplayMessages) :
                                    /\ "custom" \in ReplayMessages[q].topics
                                    /\ ReplayMessages[q].target = "market"
<1> DEFINE counted(target) == {i \in Id : refs[i] > 0 /\
                                 \E r \in Registration : r.target = target /\ i \in r.ids}
           active(target) == \E k \in DOMAIN subs : subs[k].target = target
           market == [op |-> "subscribe", target |-> "market",
                      topics |-> counted("market") \cup (IF customFeature THEN {"custom"} ELSE {})]
           user == [op |-> "subscribe", target |-> "user",
                    topics |-> IF counted("user") = {} THEN {"allMarkets"} ELSE counted("user")]
           all == ReplayMessages
<1>1. all = (IF active("market") THEN <<market>> ELSE <<>>)
              \o (IF active("user") THEN <<user>> ELSE <<>>)
  BY DEF ReplayMessages
<1>2. /\ market \in Message /\ market.op = "subscribe" /\ market.target = "market"
      /\ counted("market") \subseteq market.topics /\ (customFeature => "custom" \in market.topics)
  BY DEF Message, Topic
<1>3. /\ user \in Message /\ user.op = "subscribe" /\ user.target = "user"
      /\ counted("user") \subseteq user.topics
  BY DEF Message, Topic
<1>4. subs \in Seq(Registration) /\ customFeature = HasCustom(subs)
  BY DEF IInv, TypeOK, RefsMatch
<1>5. DOMAIN subs = 1..Len(subs) /\ \A k \in 1..Len(subs) : subs[k] \in Registration
  BY <1>4, SMT
<1>6. customFeature => active("market")
  BY <1>4 DEF HasCustom
<1>7. ASSUME NEW k \in 1..Len(subs), NEW i \in subs[k].ids, refs[i] > 0
      PROVE  active(subs[k].target) /\ i \in counted(subs[k].target)
             /\ subs[k].target \in {"market", "user"}
  <2>1. subs[k].ids \subseteq Id /\ subs[k].target \in {"market", "user"}
    BY <1>5, RegistrationAssumption
  <2>2. QED
    BY <1>5, <1>7, <2>1
<1> DEFINE a == active("market")
           b == active("user")
<1> HIDE DEF counted, active, market, user, all, a, b
<1>8. /\ all \in Seq(Message)
      /\ \A q \in 1..Len(all) : all[q] = market \/ all[q] = user
      /\ active("market") => \E q \in 1..Len(all) : all[q] = market
      /\ active("user") => \E q \in 1..Len(all) : all[q] = user
  <2>1. all = (IF a THEN <<market>> ELSE <<>>) \o (IF b THEN <<user>> ELSE <<>>)
    BY <1>1 DEF a, b
  <2>2. CASE a /\ b
    <3>1. all = <<market>> \o <<user>>
      BY <2>1, <2>2
    <3>2. /\ <<market>> \in Seq(Message) /\ Len(<<market>>) = 1 /\ <<market>>[1] = market
          /\ <<user>> \in Seq(Message) /\ Len(<<user>>) = 1 /\ <<user>>[1] = user
      BY <1>2, <1>3, SMT
    <3>3. all \in Seq(Message) /\ Len(all) = 2 /\ all[1] = market /\ all[2] = user
      BY <3>1, <3>2, SMT
    <3>4. QED
      BY <3>3, SMT
  <2>3. CASE a /\ ~b
    <3>1. all = <<market>>
      BY <2>1, <2>3, SMT
    <3>2. QED
      BY <1>2, <2>3, <3>1, SMT DEF b
  <2>4. CASE ~a /\ b
    <3>1. all = <<user>>
      BY <2>1, <2>4, SMT
    <3>2. QED
      BY <1>3, <2>4, <3>1, SMT DEF a
  <2>5. CASE ~a /\ ~b
    <3>1. all = <<>>
      BY <2>1, <2>5, SMT
    <3>2. QED
      BY <2>5, <3>1, SMT DEF a, b
  <2>6. QED
    BY <2>2, <2>3, <2>4, <2>5
<1>9. ASSUME NEW k \in 1..Len(subs), NEW i \in subs[k].ids, refs[i] > 0
      PROVE  \E q \in 1..Len(all) : i \in all[q].topics /\ all[q].target = subs[k].target
  <2>1. CASE subs[k].target = "market"
    BY <1>2, <1>7, <1>8, <1>9, <2>1
  <2>2. CASE subs[k].target = "user"
    BY <1>3, <1>7, <1>8, <1>9, <2>2
  <2>3. QED
    BY <1>7, <1>9, <2>1, <2>2
<1>10. customFeature => \E q \in 1..Len(all) : "custom" \in all[q].topics /\ all[q].target = "market"
  BY <1>2, <1>6, <1>8
<1>11. \A q \in 1..Len(all) : all[q].op = "subscribe"
  BY <1>2, <1>3, <1>8
<1>12. QED
  BY <1>8, <1>9, <1>10, <1>11 DEF all


\* A replay is prepared: everything counted is about to be sent, but a user
\* subscription that cannot be sent.
LEMMA SnapshotStep ==
    ASSUME IInv, NEW p \in Proc, Snapshot(p)
    PROVE  IInv'
<1> DEFINE all == ReplayMessages
<1>1. /\ all \in Seq(Message)
      /\ \A q \in 1..Len(all) : all[q].op = "subscribe"
      /\ \A k \in 1..Len(subs) : \A i \in subs[k].ids : refs[i] > 0 =>
           \E q \in 1..Len(all) : i \in all[q].topics /\ all[q].target = subs[k].target
      /\ customFeature => \E q \in 1..Len(all) :
                               "custom" \in all[q].topics /\ all[q].target = "market"
  BY ReplayHas
<1>2. /\ pc[p] = "snapshot" /\ pc' = [pc EXCEPT ![p] = "replay"]
      /\ outbox' = [outbox EXCEPT ![p] = all]
      /\ UNCHANGED <<wire, subVars, server, arg, faults>>
  BY DEF Snapshot, Goto
<1> HIDE DEF all
<1>3. /\ wire' \in {"none", "open", "silent", "dead"} /\ server' \in SUBSET Topic
      /\ faults' \in 0..MaxFaults
  BY <1>2 DEF IInv, TypeOK
<1>4. /\ TypeOK' /\ RefsMatch' /\ CallInv' /\ CredsInv'
      /\ pc'[p] = "replay" /\ outbox'[p] = all
      /\ \A q \in Proc : q # p => pc'[q] = pc[q] /\ outbox'[q] = outbox[q]
      /\ \A u \in User : Unsent(u) => Unsent(u)'
  BY <1>1, <1>2, <1>3, ReplayKeeps
<1>5. ReplayInv'
  <2>1. ASSUME NEW q \in Proc, pc'[q] = "replay", NEW k \in 1..Len(outbox'[q])
        PROVE  outbox'[q][k].op = "subscribe"
    <3>1. CASE q = p
      BY <1>1, <1>4, <2>1, <3>1
    <3>2. CASE q # p
      BY <1>4, <2>1, <3>2 DEF IInv, ReplayInv
    <3>3. QED
      BY <3>1, <3>2
  <2>2. QED
    BY <2>1 DEF ReplayInv
<1>6. ServedInv'
  <2>1. SUFFICES ASSUME ~undone
                 PROVE  /\ \A i \in Id : refs[i] > 0 =>
                             \/ Waits(i)'
                             \/ \E u \in User : Unsent(u)' /\ i \in arg[u].ids /\ refs[i] = 1
                        /\ customFeature => Waits("custom")'
    BY <1>2 DEF ServedInv, subVars
  <2>2. ASSUME NEW x, NEW q \in 1..Len(all), x \in all[q].topics, all[q].target = "user" => creds
        PROVE  Waits(x)'
    <3>1. creds => creds'
      BY <1>2 DEF subVars
    <3>2. x \in outbox'[p][q].topics /\ (outbox'[p][q].target = "user" => creds')
      BY <1>4, <2>2, <3>1
    <3>3. q \in 1..Len(outbox'[p])
      BY <1>4
    <3>4. QED
      BY <1>4, <3>2, <3>3 DEF Waits
  <2>3. ASSUME NEW i \in Id, refs[i] > 0
        PROVE  \/ Waits(i)'
               \/ \E u \in User : Unsent(u)' /\ i \in arg[u].ids /\ refs[i] = 1
    <3>1. PICK k \in 1..Len(subs) : i \in subs[k].ids
      BY <2>3, Counts DEF IInv, TypeOK, RefsMatch, At
    <3>2. PICK q \in 1..Len(all) : i \in all[q].topics /\ all[q].target = subs[k].target
      BY <1>1, <2>3, <3>1
    <3>3. CASE subs[k].target = "user" => creds
      BY <2>2, <3>2, <3>3
    <3>4. CASE subs[k].target = "user" /\ ~creds
      <4>1. PICK u \in User : Unsent(u) /\ k = Len(subs) /\ \A j \in subs[k].ids : refs[j] = 1
        BY <2>1, <3>4 DEF IInv, CredsInv
      <4>2. arg[u] = subs[k]
        BY <4>1 DEF IInv, CallInv
      <4>3. QED
        BY <1>4, <3>1, <4>1, <4>2
    <3>5. QED
      BY <3>3, <3>4
  <2>4. ASSUME customFeature
        PROVE  Waits("custom")'
    <3>1. PICK q \in 1..Len(all) : "custom" \in all[q].topics /\ all[q].target = "market"
      BY <1>1, <2>4
    <3>2. QED
      BY <2>2, <3>1
  <2>5. QED
    BY <2>3, <2>4
<1>7. QED
  BY <1>4, <1>5, <1>6 DEF IInv

\* A replayed message is sent, or the connection is gone, or it needs credentials.
LEMMA ReplayStep ==
    ASSUME IInv, NEW p \in Proc, Replay(p)
    PROVE  IInv'
<1> DEFINE o == outbox[p]
           m == Head(o)
           s == Tail(o)
<1>1. /\ pc[p] = "replay" /\ o # <<>> /\ (SendOK(m) \/ SendFails(m))
      /\ outbox' = [outbox EXCEPT ![p] = s]
      /\ UNCHANGED <<subVars, pc, arg>>
  BY DEF Replay
<1>2. o \in Seq(Message) /\ pc \in [Proc -> {"idle", "snapshot", "replay", "subscribe",
                                              "unsubscribe", "unrecord", "restore"}]
  BY DEF IInv, TypeOK
<1>3. \A q \in 1..Len(o) : o[q].op = "subscribe"
  BY <1>1 DEF IInv, ReplayInv
<1> HIDE DEF o
<1>4. /\ m \in Message /\ s \in Seq(Message) /\ m = o[1] /\ 1 \in 1..Len(o)
      /\ \A q \in 1..Len(s) : s[q] = o[q + 1] /\ q + 1 \in 1..Len(o)
      /\ \A q \in 1..Len(o) : q # 1 => q - 1 \in 1..Len(s) /\ s[q - 1] = o[q]
  BY <1>1, <1>2, SMT
<1> HIDE DEF m, s
<1>5. pc' = [pc EXCEPT ![p] = "replay"]
  BY <1>1, <1>2
<1>6. /\ wire' \in {"none", "open", "silent", "dead"} /\ server' \in SUBSET Topic
      /\ faults' \in 0..MaxFaults
      /\ wire' = "open" => /\ wire = "open"
                           /\ \/ server' = Applied(server, m)
                              \/ server' = server /\ m.target = "user" /\ ~creds
  BY <1>1, <1>4, SendMoves DEF IInv
<1>7. /\ TypeOK' /\ RefsMatch' /\ CallInv' /\ CredsInv'
      /\ pc'[p] = "replay" /\ outbox'[p] = s
      /\ \A q \in Proc : q # p => pc'[q] = pc[q] /\ outbox'[q] = outbox[q]
      /\ \A u \in User : Unsent(u) => Unsent(u)'
  BY <1>1, <1>4, <1>5, <1>6, ReplayKeeps
<1>8. ReplayInv'
  <2>1. ASSUME NEW q \in 1..Len(s)
        PROVE  s[q].op = "subscribe"
    <3>1. s[q] = o[q + 1] /\ q + 1 \in 1..Len(o)
      BY <1>4
    <3>2. QED
      BY <1>3, <3>1
  <2>2. ASSUME NEW q \in Proc, pc'[q] = "replay", NEW k \in 1..Len(outbox'[q])
        PROVE  outbox'[q][k].op = "subscribe"
    <3>1. CASE q = p
      BY <1>7, <2>1, <2>2, <3>1
    <3>2. CASE q # p
      <4>1. pc[q] = "replay" /\ outbox'[q] = outbox[q]
        BY <1>7, <2>2, <3>2
      <4>2. QED
        BY <2>2, <4>1 DEF IInv, ReplayInv
    <3>3. QED
      BY <3>1, <3>2
  <2>3. QED
    BY <2>2 DEF ReplayInv
<1>9. creds => creds'
  BY <1>1 DEF subVars
<1>10. ServedInv'
  <2>1. SUFFICES ASSUME ~undone, wire' = "open"
                 PROVE  ServedInv'
    BY <1>1 DEF ServedInv, subVars
  <2>2. /\ server \subseteq server'
        /\ (m.target = "user" => creds) => m.topics \subseteq server'
    BY <1>3, <1>4, <1>6, <2>1 DEF Applied
  <2>3. ASSUME NEW x, x \in server \/ Waits(x)
        PROVE  x \in server' \/ Waits(x)'
    <3>1. CASE x \in server
      BY <2>2, <3>1
    <3>2. CASE Waits(x)
      <4>1. PICK r \in Proc :
              \/ pc[r] = "snapshot"
              \/ pc[r] = "replay" /\ \E q \in 1..Len(outbox[r]) :
                     x \in outbox[r][q].topics /\ (outbox[r][q].target = "user" => creds)
        BY <3>2 DEF Waits
      <4>2. CASE r # p
        <5>1. pc'[r] = pc[r] /\ outbox'[r] = outbox[r]
          BY <1>7, <4>2
        <5>2. QED
          BY <1>9, <4>1, <5>1 DEF Waits
      <4>3. CASE r = p
        <5>1. PICK q \in 1..Len(o) : x \in o[q].topics /\ (o[q].target = "user" => creds)
          BY <1>1, <4>1, <4>3 DEF o
        <5>2. CASE q = 1
          BY <1>4, <2>2, <5>1, <5>2
        <5>3. CASE q # 1
          <6>1. /\ q - 1 \in 1..Len(s) /\ x \in s[q - 1].topics
                /\ s[q - 1].target = "user" => creds'
            BY <1>4, <1>9, <5>1, <5>3
          <6>2. QED
            BY <1>7, <6>1 DEF Waits
        <5>4. QED
          BY <5>2, <5>3
      <4>4. QED
        BY <4>2, <4>3
    <3>3. QED
      BY <2>3, <3>1, <3>2
  <2>4. wire = "open"
    BY <1>6, <2>1
  <2>5. /\ refs' = refs /\ subs' = subs /\ arg' = arg /\ (customFeature' => customFeature)
    BY <1>1 DEF subVars
  <2>6. QED
    BY <1>7, <2>1, <2>3, <2>4, <2>5 DEF IInv, ServedInv, Custom
<1>11. QED
  BY <1>7, <1>8, <1>10 DEF IInv

\* The replay is over.
LEMMA ReplayDoneStep ==
    ASSUME IInv, NEW p \in Proc, ReplayDone(p)
    PROVE  IInv'
<1>1. /\ pc[p] = "replay" /\ outbox[p] = <<>> /\ pc' = [pc EXCEPT ![p] = "idle"]
      /\ UNCHANGED <<wire, subVars, server, outbox, arg, faults>>
  BY DEF ReplayDone, Goto
<1>2. outbox \in [Proc -> Seq(Message)]
  BY DEF IInv, TypeOK
<1>3. outbox' = [outbox EXCEPT ![p] = outbox[p]] /\ outbox[p] \in Seq(Message)
  BY <1>1, <1>2
<1>4. /\ wire' \in {"none", "open", "silent", "dead"} /\ server' \in SUBSET Topic
      /\ faults' \in 0..MaxFaults
  BY <1>1 DEF IInv, TypeOK
<1>5. /\ TypeOK' /\ RefsMatch' /\ CallInv' /\ CredsInv'
      /\ pc'[p] = "idle"
      /\ \A q \in Proc : q # p => pc'[q] = pc[q] /\ outbox'[q] = outbox[q]
      /\ \A u \in User : Unsent(u) => Unsent(u)'
  BY <1>1, <1>3, <1>4, ReplayKeeps
<1>6. ReplayInv'
  BY <1>5 DEF IInv, ReplayInv
<1>7. ServedInv'
  <2>1. Len(outbox[p]) = 0 /\ 1..0 = {}
    BY <1>1, SMT
  <2>2. ASSUME NEW x, Waits(x)
        PROVE  Waits(x)'
    <3>1. PICK r \in Proc :
            \/ pc[r] = "snapshot"
            \/ pc[r] = "replay" /\ \E q \in 1..Len(outbox[r]) :
                   x \in outbox[r][q].topics /\ (outbox[r][q].target = "user" => creds)
      BY <2>2 DEF Waits
    <3>2. r # p
      BY <1>1, <2>1, <3>1
    <3>3. QED
      BY <1>1, <1>5, <3>1, <3>2 DEF Waits, subVars
  <2>3. /\ refs' = refs /\ subs' = subs /\ arg' = arg /\ (customFeature' => customFeature)
        /\ (undone => undone') /\ wire' = wire /\ server' = server
    BY <1>1 DEF subVars
  <2>4. QED
    BY <1>5, <2>2, <2>3 DEF IInv, ServedInv, Custom
<1>8. QED
  BY <1>5, <1>6, <1>7 DEF IInv


-----------------------------------------------------------------------------
(* The caller                                                              *)

\* The credentials arrive.
LEMMA CredentialsStep ==
    ASSUME IInv, NEW u \in User, WithCredentials(u)
    PROVE  IInv'
<1>1. creds' = TRUE /\ UNCHANGED <<wire, subs, refs, customFeature, undone, server, procVars, faults>>
  BY DEF WithCredentials
<1>2. TypeOK' /\ RefsMatch'
  BY <1>1 DEF IInv, TypeOK, RefsMatch, procVars
<1>3. CallInv' /\ ReplayInv'
  BY <1>1 DEF IInv, CallInv, ReplayInv, Unsent, Custom, procVars
<1>4. CredsInv'
  BY <1>1 DEF CredsInv
<1>5. ServedInv'
  <2>1. ASSUME NEW x, Waits(x)
        PROVE  Waits(x)'
    BY <1>1, <2>1 DEF Waits, procVars
  <2>2. \A v \in User : Unsent(v)' <=> Unsent(v)
    BY <1>1 DEF Unsent, procVars
  <2>3. /\ refs' = refs /\ subs' = subs /\ arg' = arg /\ (customFeature' => customFeature)
        /\ (undone => undone') /\ wire' = wire /\ server' = server
    BY <1>1 DEF procVars
  <2>4. QED
    BY <2>1, <2>2, <2>3 DEF IInv, ServedInv, Custom
<1>6. QED
  BY <1>2, <1>3, <1>4, <1>5 DEF IInv

\* Counting a recorded subscription.
LEMMA RecordCounts ==
    ASSUME TypeOK, RefsMatch, NEW r \in Registration,
           subs' = Append(subs, r), refs' = Incremented(r)
    PROVE  /\ subs' \in Seq(Registration) /\ refs' \in [Id -> Nat]
           /\ \A i \in Id : refs'[i] = IF i \in r.ids THEN refs[i] + 1 ELSE refs[i]
           /\ \A i \in Id : refs'[i] = Cardinality({k \in DOMAIN subs' : i \in subs'[k].ids})
           /\ HasCustom(subs') <=> HasCustom(subs) \/ Custom(r)
<1>1. subs \in Seq(Registration) /\ refs \in [Id -> Nat]
  BY DEF TypeOK
<1>2. \A i \in Id : refs'[i] = IF i \in r.ids THEN refs[i] + 1 ELSE refs[i]
  BY DEF Incremented
<1>3. refs' \in [Id -> Nat]
  <2>1. ASSUME NEW i \in Id
        PROVE  (IF i \in r.ids THEN refs[i] + 1 ELSE refs[i]) \in Nat
    <3>1. refs[i] \in Nat
      BY <1>1
    <3>2. refs[i] + 1 \in Nat
      BY <3>1, SMT
    <3>3. QED
      BY <3>1, <3>2
  <2>2. QED
    BY <2>1 DEF Incremented
<1>4. ASSUME NEW i \in Id
      PROVE  refs'[i] = Cardinality(At(subs', i))
  <2>1. refs[i] = Cardinality(At(subs, i))
    BY DEF RefsMatch, At
  <2>2. QED
    BY <1>1, <1>2, <2>1, CountRecorded
<1>5. /\ subs' \in Seq(Registration) /\ Len(subs) \in Nat /\ DOMAIN subs = 1..Len(subs)
      /\ DOMAIN subs' = 1..(Len(subs) + 1)
      /\ \A k \in 1..Len(subs) : subs'[k] = subs[k]
      /\ subs'[Len(subs) + 1] = r
  BY <1>1, Recorded
<1>6. HasCustom(subs') <=> HasCustom(subs) \/ Custom(r)
  <2>1. Len(subs) + 1 \in 1..(Len(subs) + 1) /\ 1..(Len(subs) + 1) = 1..Len(subs) \cup {Len(subs) + 1}
    BY <1>5, SMT
  <2>2. HasCustom(subs) => HasCustom(subs')
    BY <1>5, <2>1 DEF HasCustom
  <2>3. Custom(r) => HasCustom(subs')
    BY <1>5, <2>1 DEF HasCustom, Custom
  <2>4. HasCustom(subs') => HasCustom(subs) \/ Custom(r)
    BY <1>5, <2>1 DEF HasCustom, Custom
  <2>5. QED
    BY <2>2, <2>3, <2>4
<1>7. QED
  BY <1>2, <1>3, <1>4, <1>5, <1>6 DEF At

\* Counting a removed entry.
LEMMA DeleteCounts ==
    ASSUME TypeOK, RefsMatch, NEW k \in 1..Len(subs), NEW e, e.ids = subs[k].ids,
           subs' = Delete(subs, k), refs' = Decremented(e)
    PROVE  /\ subs' \in Seq(Registration) /\ refs' \in [Id -> Nat]
           /\ \A i \in Id : /\ refs'[i] = (IF i \in e.ids THEN refs[i] - 1 ELSE refs[i])
                            /\ refs'[i] > 0 => refs[i] > 0
                            /\ i \in e.ids => refs[i] > 0
           /\ \A i \in Id : refs'[i] = Cardinality({j \in DOMAIN subs' : i \in subs'[j].ids})
           /\ HasCustom(subs') => HasCustom(subs)
<1>1. subs \in Seq(Registration) /\ refs \in [Id -> Nat]
  BY DEF TypeOK
<1>2. \A i \in Id : refs[i] = Cardinality(At(subs, i)) /\ refs[i] \in Nat
  BY <1>1 DEF RefsMatch, At
<1>3. \A i \in Id : i \in e.ids => refs[i] > 0
  BY <1>1, <1>2, Counts
<1>4. \A i \in Id : refs'[i] = IF i \notin e.ids THEN refs[i]
                               ELSE IF refs[i] <= 1 THEN 0 ELSE refs[i] - 1
  BY DEF Decremented
<1>5. \A i \in Id : /\ refs'[i] = (IF i \in e.ids THEN refs[i] - 1 ELSE refs[i])
                    /\ refs'[i] > 0 => refs[i] > 0
                    /\ refs'[i] \in Nat
  BY <1>2, <1>3, <1>4, SMT
<1>6. refs' \in [Id -> Nat]
  <2>1. refs' = [i \in Id |-> refs'[i]]
    BY DEF Decremented
  <2>2. QED
    BY <1>5, <2>1
<1>7. ASSUME NEW i \in Id
      PROVE  refs'[i] = Cardinality(At(subs', i))
  <2>1. Cardinality(At(Delete(subs, k), i)) =
          IF i \in subs[k].ids THEN Cardinality(At(subs, i)) - 1 ELSE Cardinality(At(subs, i))
    BY <1>1, CountDeleted
  <2>2. refs'[i] = (IF i \in e.ids THEN refs[i] - 1 ELSE refs[i])
    BY <1>5
  <2>3. refs[i] = Cardinality(At(subs, i))
    BY <1>2
  <2>4. QED
    BY <2>1, <2>2, <2>3
<1>8. /\ subs' \in Seq(Registration) /\ Len(subs) \in Nat \ {0} /\ DOMAIN subs = 1..Len(subs)
      /\ DOMAIN subs' = 1..(Len(subs) - 1)
      /\ \A j \in 1..(Len(subs) - 1) : subs'[j] = IF j < k THEN subs[j] ELSE subs[j + 1]
  BY <1>1, Deleted
<1>9. HasCustom(subs') => HasCustom(subs)
  <2>1. \A j \in 1..(Len(subs) - 1) : j \in 1..Len(subs) /\ j + 1 \in 1..Len(subs)
    BY <1>8, SMT
  <2>2. QED
    BY <1>8, <2>1 DEF HasCustom
<1>10. QED
  BY <1>3, <1>5, <1>6, <1>7, <1>8, <1>9 DEF At


\* Where a caller is when it does not replay.
CallPlaces == {"idle", "subscribe", "unsubscribe", "unrecord", "restore"}
CallArgs == Registration \cup {NoArg}

\* A step of the only caller leaves what is being replayed alone.
LEMMA CallerMoves ==
    ASSUME IInv, NEW u \in User, User = {u}, pc[u] \in CallPlaces,
           NEW w \in CallPlaces, NEW s \in Seq(Message), NEW r \in CallArgs,
           pc' = [pc EXCEPT ![u] = w], outbox' = [outbox EXCEPT ![u] = s],
           arg' = [arg EXCEPT ![u] = r], creds' = creds
    PROVE  /\ pc' \in [Proc -> {"idle", "snapshot", "replay", "subscribe", "unsubscribe",
                                "unrecord", "restore"}]
           /\ outbox' \in [Proc -> Seq(Message)] /\ arg' \in [Proc -> Registration \cup {NoArg}]
           /\ pc'[u] = w /\ outbox'[u] = s /\ arg'[u] = r
           /\ pc'[Reconnector] \in {"idle", "snapshot", "replay"}
           /\ ReplayInv'
           /\ \A x : Waits(x) => Waits(x)'
<1>1. /\ pc \in [Proc -> {"idle", "snapshot", "replay", "subscribe", "unsubscribe", "unrecord",
                          "restore"}]
      /\ outbox \in [Proc -> Seq(Message)] /\ arg \in [Proc -> Registration \cup {NoArg}]
  BY DEF IInv, TypeOK
<1>2. u \in Proc /\ Reconnector \in Proc /\ Reconnector # u
  BY UserAssumption DEF Proc
<1>3. /\ pc' \in [Proc -> {"idle", "snapshot", "replay", "subscribe", "unsubscribe", "unrecord",
                           "restore"}]
      /\ outbox' \in [Proc -> Seq(Message)] /\ arg' \in [Proc -> Registration \cup {NoArg}]
  BY <1>1 DEF CallPlaces, CallArgs
<1>4. /\ pc'[u] = w /\ outbox'[u] = s /\ arg'[u] = r
      /\ \A q \in Proc : q # u => pc'[q] = pc[q] /\ outbox'[q] = outbox[q]
  BY <1>1, <1>2
<1>5. pc'[Reconnector] \in {"idle", "snapshot", "replay"}
  BY <1>2, <1>4 DEF IInv, CallInv
<1>6. ReplayInv'
  <2>1. ASSUME NEW q \in Proc, pc'[q] = "replay", NEW k \in 1..Len(outbox'[q])
        PROVE  outbox'[q][k].op = "subscribe"
    <3>1. q # u
      BY <1>4, <2>1 DEF CallPlaces
    <3>2. pc[q] = "replay" /\ outbox'[q] = outbox[q]
      BY <1>4, <2>1, <3>1
    <3>3. QED
      BY <2>1, <3>2 DEF IInv, ReplayInv
  <2>2. QED
    BY <2>1 DEF ReplayInv
<1>7. ASSUME NEW x, Waits(x)
      PROVE  Waits(x)'
  <2>1. PICK q \in Proc :
          \/ pc[q] = "snapshot"
          \/ pc[q] = "replay" /\ \E k \in 1..Len(outbox[q]) :
                 x \in outbox[q][k].topics /\ (outbox[q][k].target = "user" => creds)
    BY <1>7 DEF Waits
  <2>2. pc'[q] = pc[q] /\ outbox'[q] = outbox[q] /\ (creds => creds')
    BY <1>4, <2>1 DEF CallPlaces
  <2>3. QED
    BY <2>1, <2>2 DEF Waits
<1>8. QED
  BY <1>3, <1>4, <1>5, <1>6, <1>7

\* A caller with nothing unsent finds everything streamed or about to be replayed,
\* and no user subscription that lacks credentials.
LEMMA NothingUnsent ==
    ASSUME IInv, NEW u \in User, User = {u}, ~Unsent(u), ~undone
    PROVE  /\ wire = "open" =>
                /\ \A i \in Id : refs[i] > 0 => i \in server \/ Waits(i)
                /\ customFeature => "custom" \in server \/ Waits("custom")
           /\ ~creds => \A k \in 1..Len(subs) : subs[k].target # "user"
BY DEF IInv, ServedInv, CredsInv

\* What recordSubscription asks to send.
LEMMA MessageFor ==
    ASSUME NEW r \in Registration
    PROVE  /\ SubscribeMessage(r) \in Message
           /\ SubscribeMessage(r).op = "subscribe" /\ SubscribeMessage(r).target = r.target
           /\ \A i \in r.ids : refs[i] = 0 => i \in SubscribeMessage(r).topics
           /\ Custom(r) => "custom" \in SubscribeMessage(r).topics
           /\ r.ids = {} => SubscribeMessage(r).topics # {}
<1> DEFINE fresh == {i \in r.ids : refs[i] = 0}
           T == IF r.target = "user" /\ r.ids = {} THEN {"allMarkets"}
                ELSE IF ~r.custom THEN fresh
                ELSE (IF fresh = {} THEN r.ids ELSE fresh) \cup {"custom"}
<1>1. r.ids \in SUBSET Id /\ r.target \in {"market", "user"} /\ (r.target = "market" => r.ids # {})
  BY RegistrationAssumption
<1>2. SubscribeMessage(r) = [op |-> "subscribe", target |-> r.target, topics |-> T]
  BY DEF SubscribeMessage
<1>3. T \in SUBSET Topic
  <2>1. fresh \in SUBSET Topic /\ r.ids \in SUBSET Topic
    BY <1>1 DEF Topic
  <2>2. {"allMarkets"} \in SUBSET Topic /\ {"custom"} \in SUBSET Topic
    BY DEF Topic
  <2> HIDE DEF fresh
  <2>3. QED
    BY <2>1, <2>2
<1>4. fresh \subseteq T
  BY <1>1
<1>5. Custom(r) => "custom" \in T
  BY DEF Custom
<1>6. r.ids = {} => T # {}
  BY <1>1
<1>7. \A i \in r.ids : refs[i] = 0 => i \in T
  BY <1>4
<1> HIDE DEF T
<1>8. /\ SubscribeMessage(r) \in Message
      /\ SubscribeMessage(r).op = "subscribe" /\ SubscribeMessage(r).target = r.target
      /\ SubscribeMessage(r).topics = T
  BY <1>1, <1>2, <1>3, SMT DEF Message
<1>9. QED
  BY <1>5, <1>6, <1>7, <1>8

\* A user subscription recorded without credentials shares its ids with nobody.
LEMMA UserIdsFresh ==
    ASSUME IInv, NEW r \in Registration, r.target = "user",
           \A k \in 1..Len(subs) : subs[k].target # "user"
    PROVE  \A i \in r.ids : refs[i] = 0
<1>1. SUFFICES ASSUME NEW i \in r.ids, refs[i] # 0
               PROVE  FALSE
  OBVIOUS
<1>2. i \in Id /\ subs \in Seq(Registration)
  BY RegistrationAssumption DEF IInv, TypeOK
<1>3. refs[i] = Cardinality(At(subs, i))
  BY <1>2 DEF IInv, RefsMatch, At
<1>4. Cardinality(At(subs, i)) > 0
  <2>1. Cardinality(At(subs, i)) \in Nat
    BY <1>2, Counts
  <2>2. QED
    BY <1>1, <1>3, <2>1, SMT
<1>5. PICK k \in 1..Len(subs) : i \in subs[k].ids
  BY <1>2, <1>4, Counts
<1>6. subs[k] \in Registration
  BY <1>2, SMT
<1>7. QED
  BY <1>5, <1>6, RegistrationAssumption


\* recordSubscription: what nobody counted is now unsent.
LEMMA RecordStep ==
    ASSUME IInv, NEW u \in User, User = {u}, NEW r \in Registration, recordSubscription(u, r)
    PROVE  IInv'
<1> DEFINE m == SubscribeMessage(r)
<1>1. /\ pc[u] = "idle" /\ subs' = Append(subs, r) /\ refs' = Incremented(r)
      /\ customFeature' = (customFeature \/ Custom(r))
      /\ UNCHANGED <<wire, creds, undone, server, faults>>
  BY DEF recordSubscription, Custom
<1>2. \/ m.topics = {} /\ UNCHANGED procVars
      \/ /\ outbox' = [outbox EXCEPT ![u] = <<m>>] /\ arg' = [arg EXCEPT ![u] = r]
         /\ pc' = [pc EXCEPT ![u] = "subscribe"]
  BY DEF recordSubscription, Goto
<1>3. /\ m \in Message /\ m.op = "subscribe" /\ m.target = r.target
      /\ \A i \in r.ids : refs[i] = 0 => i \in m.topics
      /\ Custom(r) => "custom" \in m.topics
      /\ r.ids = {} => m.topics # {}
  BY MessageFor
<1> HIDE DEF m
<1>4. TypeOK /\ RefsMatch
  BY DEF IInv
<1>5. /\ subs' \in Seq(Registration) /\ refs' \in [Id -> Nat]
      /\ \A i \in Id : refs'[i] = IF i \in r.ids THEN refs[i] + 1 ELSE refs[i]
      /\ \A i \in Id : refs'[i] = Cardinality({k \in DOMAIN subs' : i \in subs'[k].ids})
      /\ HasCustom(subs') <=> HasCustom(subs) \/ Custom(r)
  BY <1>1, <1>4, RecordCounts
<1>6. customFeature' \in BOOLEAN /\ customFeature' = HasCustom(subs')
  <2>1. customFeature \in BOOLEAN /\ customFeature = HasCustom(subs)
    BY <1>4 DEF TypeOK, RefsMatch
  <2>2. Custom(r) \in BOOLEAN /\ HasCustom(subs') \in BOOLEAN
    BY RegistrationAssumption DEF Custom, HasCustom
  <2>3. QED
    BY <1>1, <1>5, <2>1, <2>2
<1>7. /\ Len(subs) \in Nat /\ Len(subs') = Len(subs) + 1
      /\ \A k \in 1..Len(subs) : subs'[k] = subs[k]
      /\ subs'[Len(subs')] = r
  <2>1. subs \in Seq(Registration)
    BY <1>4 DEF TypeOK
  <2>2. /\ Len(subs) \in Nat /\ Len(Append(subs, r)) = Len(subs) + 1
        /\ \A k \in 1..Len(subs) : Append(subs, r)[k] = subs[k]
        /\ Append(subs, r)[Len(subs) + 1] = r
    BY <2>1, Recorded
  <2>3. Len(subs') = Len(subs) + 1 /\ subs'[Len(subs) + 1] = r
    BY <1>1, <2>2
  <2>4. QED
    BY <1>1, <2>2, <2>3
<1>8. Len(subs') > 0 /\ Len(subs') - 1 = Len(subs) /\ 1..Len(subs') = 1..Len(subs) \cup {Len(subs')}
  <2> DEFINE a == Len(subs)
             b == Len(subs')
  <2>1. a \in Nat /\ b = a + 1
    BY <1>7
  <2> HIDE DEF a, b
  <2>2. b > 0 /\ b - 1 = a /\ 1..b = 1..a \cup {b}
    BY <2>1, SMT
  <2>3. QED
    BY <2>2 DEF a, b
<1>9. ~Unsent(u) /\ r.ids \subseteq Id
  BY <1>1, RegistrationAssumption DEF Unsent
<1>10. \A i \in Id : refs'[i] > 0 /\ ~(refs[i] > 0) => i \in r.ids /\ refs[i] = 0 /\ refs'[i] = 1
  <2>1. \A i \in Id : refs[i] \in Nat
    BY <1>4 DEF TypeOK
  <2>2. QED
    BY <1>5, <2>1, SMT
<1>11. ASSUME ~undone, ~creds
       PROVE  /\ \A k \in 1..Len(subs) : subs'[k].target # "user"
              /\ r.target = "user" => \A i \in r.ids : refs[i] = 0 /\ refs'[i] = 1
  <2>1. \A k \in 1..Len(subs) : subs[k].target # "user"
    BY <1>9, <1>11, NothingUnsent
  <2>2. ASSUME r.target = "user", NEW i \in r.ids
        PROVE  refs[i] = 0 /\ refs'[i] = 1
    <3>1. refs[i] = 0
      BY <2>1, <2>2, UserIdsFresh
    <3>2. refs'[i] = refs[i] + 1
      BY <1>5, <1>9
    <3>3. QED
      BY <3>1, <3>2, SMT
  <2>3. QED
    BY <1>7, <2>1, <2>2
<1>12. /\ wire' = wire /\ server' = server /\ creds' = creds /\ (undone => undone')
       /\ (creds => creds')
  BY <1>1
<1>13. RefsMatch'
  BY <1>5, <1>6 DEF RefsMatch
<1>14. CASE m.topics = {} /\ UNCHANGED procVars
  <2>1. TypeOK'
    BY <1>1, <1>4, <1>5, <1>6, <1>14 DEF TypeOK, procVars
  <2>2. CallInv' /\ ReplayInv'
    BY <1>1, <1>14 DEF IInv, CallInv, ReplayInv, Unsent, procVars
  <2>3. CredsInv'
    <3>1. ASSUME ~undone, ~creds
          PROVE  r.target # "user"
      BY <1>3, <1>11, <1>14, <3>1
    <3>2. QED
      BY <1>7, <1>8, <1>11, <1>12, <3>1 DEF CredsInv
  <2>4. ServedInv'
    <3>1. ASSUME NEW x, Waits(x)
          PROVE  Waits(x)'
      BY <1>12, <1>14, <3>1 DEF Waits, procVars
    <3>2. \A i \in Id : refs'[i] > 0 => refs[i] > 0
      BY <1>3, <1>10, <1>14
    <3>3. customFeature' => customFeature
      BY <1>1, <1>3, <1>14
    <3>4. QED
      BY <1>9, <1>12, <3>1, <3>2, <3>3, NothingUnsent DEF ServedInv
  <2>5. QED
    BY <1>13, <2>1, <2>2, <2>3, <2>4 DEF IInv
<1>15. CASE /\ outbox' = [outbox EXCEPT ![u] = <<m>>] /\ arg' = [arg EXCEPT ![u] = r]
            /\ pc' = [pc EXCEPT ![u] = "subscribe"]
  <2>1. <<m>> \in Seq(Message) /\ <<m>> # <<>> /\ Head(<<m>>) = m
    BY <1>3, SMT
  <2>2. /\ pc' \in [Proc -> {"idle", "snapshot", "replay", "subscribe", "unsubscribe",
                             "unrecord", "restore"}]
        /\ outbox' \in [Proc -> Seq(Message)] /\ arg' \in [Proc -> Registration \cup {NoArg}]
        /\ pc'[u] = "subscribe" /\ outbox'[u] = <<m>> /\ arg'[u] = r
        /\ pc'[Reconnector] \in {"idle", "snapshot", "replay"}
        /\ ReplayInv'
        /\ \A x : Waits(x) => Waits(x)'
    <3>1. "subscribe" \in CallPlaces /\ pc[u] \in CallPlaces /\ r \in CallArgs /\ creds' = creds
      BY <1>1 DEF CallPlaces, CallArgs
    <3>2. QED
      BY <1>15, <2>1, <3>1, CallerMoves
  <2>3. TypeOK'
    BY <1>1, <1>4, <1>5, <1>6, <2>2 DEF TypeOK
  <2>4. Unsent(u)'
    BY <2>2 DEF Unsent
  <2>5. CallInv'
    <3>1. \A i \in r.ids : refs'[i] = 1 => i \in m.topics
      <4>1. \A i \in r.ids : refs[i] \in Nat /\ refs'[i] = refs[i] + 1
        BY <1>4, <1>5, <1>9 DEF TypeOK
      <4>2. \A i \in r.ids : refs'[i] = 1 => refs[i] = 0
        BY <4>1, SMT
      <4>3. QED
        BY <1>3, <4>2
    <3>2. outbox'[u] # <<>> /\ Head(outbox'[u]) = m
      BY <2>1, <2>2
    <3>3. /\ Head(outbox'[u]).op = "subscribe" /\ Head(outbox'[u]).target = arg'[u].target
          /\ \A i \in arg'[u].ids : refs'[i] = 1 => i \in Head(outbox'[u]).topics
          /\ Custom(arg'[u]) => "custom" \in Head(outbox'[u]).topics
      BY <1>3, <2>2, <3>1, <3>2
    <3>4. Len(subs') > 0 /\ subs'[Len(subs')] = arg'[u] /\ arg'[u] \in Registration
      BY <1>7, <1>8, <2>2
    <3>5. QED
      BY <2>2, <3>2, <3>3, <3>4 DEF CallInv, Custom
  <2>6. CredsInv'
    BY <1>7, <1>8, <1>11, <1>12, <2>4 DEF CredsInv
  <2>7. ServedInv'
    <3>1. SUFFICES ASSUME ~undone, wire = "open"
                   PROVE  ServedInv'
      BY <1>12 DEF ServedInv
    <3>2. ASSUME NEW i \in Id, refs'[i] > 0
          PROVE  i \in server' \/ Waits(i)' \/ \E v \in User : Unsent(v)' /\ i \in arg'[v].ids /\ refs'[i] = 1
      <4>1. CASE refs[i] > 0
        BY <1>9, <1>12, <2>2, <3>1, <4>1, NothingUnsent
      <4>2. CASE ~(refs[i] > 0)
        BY <1>10, <2>2, <2>4, <3>2, <4>2
      <4>3. QED
        BY <4>1, <4>2
    <3>3. ASSUME customFeature'
          PROVE  \/ "custom" \in server' \/ Waits("custom")'
                 \/ \E v \in User : /\ Unsent(v)' /\ Custom(arg'[v])
                                    /\ \A k \in 1..(Len(subs') - 1) : ~Custom(subs'[k])
      <4>1. CASE customFeature
        BY <1>9, <1>12, <2>2, <3>1, <4>1, NothingUnsent
      <4>2. CASE ~customFeature
        <5>1. Custom(r)
          BY <1>1, <3>3, <4>2
        <5>2. \A k \in 1..Len(subs) : ~Custom(subs[k])
          <6>1. DOMAIN subs = 1..Len(subs) /\ ~HasCustom(subs)
            BY <1>4, <4>2, SMT DEF TypeOK, RefsMatch
          <6>2. QED
            BY <6>1 DEF HasCustom, Custom
        <5>3. QED
          BY <1>7, <1>8, <2>2, <2>4, <5>1, <5>2
      <4>3. QED
        BY <4>1, <4>2
    <3>4. QED
      BY <3>2, <3>3 DEF ServedInv, Custom
  <2>8. QED
    BY <1>13, <2>2, <2>3, <2>5, <2>6, <2>7 DEF IInv
<1>16. QED
  BY <1>2, <1>14, <1>15


\* removeRecordedSubscription: what nobody else counts is about to be unsubscribed.
LEMMA RemoveStep ==
    ASSUME IInv, NEW u \in User, User = {u}, NEW r \in Registration,
           removeRecordedSubscription(u, r)
    PROVE  IInv'
<1>1. PICK k \in MatchFor(r) :
        /\ subs' = Delete(subs, k) /\ refs' = Decremented(subs[k])
        /\ customFeature' = HasCustom(subs')
        /\ \/ Released(subs[k]) = {} /\ UNCHANGED procVars
           \/ /\ outbox' = [outbox EXCEPT ![u] =
                    <<[op |-> "unsubscribe", target |-> r.target, topics |-> Released(subs[k])]>>]
              /\ arg' = [arg EXCEPT ![u] = subs[k]]
              /\ pc' = [pc EXCEPT ![u] = "unsubscribe"]
  BY DEF removeRecordedSubscription, Goto
<1>2. pc[u] = "idle" /\ UNCHANGED <<wire, creds, undone, server, faults>>
  BY DEF removeRecordedSubscription
<1>3. TypeOK /\ RefsMatch
  BY DEF IInv
<1>4. subs \in Seq(Registration) /\ DOMAIN subs = 1..Len(subs)
  BY <1>3, SMT DEF TypeOK
<1>5. k \in 1..Len(subs)
  BY <1>4 DEF MatchFor, First
<1> DEFINE e == subs[k]
<1>6. e \in Registration /\ e.ids \subseteq Id /\ r.target \in {"market", "user"}
  <2>1. e \in Registration
    BY <1>4, <1>5, SMT
  <2>2. QED
    BY <2>1, RegistrationAssumption
<1>7. /\ subs' \in Seq(Registration) /\ refs' \in [Id -> Nat]
      /\ \A i \in Id : /\ refs'[i] = (IF i \in e.ids THEN refs[i] - 1 ELSE refs[i])
                       /\ refs'[i] > 0 => refs[i] > 0
                       /\ i \in e.ids => refs[i] > 0
      /\ \A i \in Id : refs'[i] = Cardinality({j \in DOMAIN subs' : i \in subs'[j].ids})
      /\ HasCustom(subs') => HasCustom(subs)
  BY <1>1, <1>3, <1>5, DeleteCounts
<1>8. RefsMatch' /\ customFeature' \in BOOLEAN /\ (customFeature' => customFeature)
  <2>1. HasCustom(subs') \in BOOLEAN
    BY DEF HasCustom
  <2>2. customFeature = HasCustom(subs)
    BY <1>3 DEF RefsMatch
  <2>3. QED
    BY <1>1, <1>7, <2>1, <2>2 DEF RefsMatch
<1>9. ~Unsent(u)
  BY <1>2 DEF Unsent
<1>10. CredsInv'
  <2>1. SUFFICES ASSUME ~undone, ~creds, NEW j \in 1..Len(subs')
                 PROVE  subs'[j].target # "user"
    BY <1>2 DEF CredsInv
  <2>2. \A n \in 1..Len(subs) : subs[n].target # "user"
    BY <1>9, <2>1, NothingUnsent
  <2>3. /\ Len(subs') = Len(subs) - 1 /\ Len(subs) \in Nat \ {0}
        /\ \A n \in 1..(Len(subs) - 1) : subs'[n] = IF n < k THEN subs[n] ELSE subs[n + 1]
    BY <1>1, <1>4, <1>5, Deleted
  <2>4. j \in 1..Len(subs) /\ j + 1 \in 1..Len(subs) /\ j \in 1..(Len(subs) - 1)
    BY <2>1, <2>3, SMT
  <2>5. QED
    BY <2>2, <2>3, <2>4
<1>11. ASSUME \A x : Waits(x) => Waits(x)'
       PROVE  ServedInv'
  BY <1>2, <1>7, <1>8, <1>9, <1>11, NothingUnsent DEF ServedInv
<1>12. CASE Released(e) = {} /\ UNCHANGED procVars
  <2>1. TypeOK'
    BY <1>2, <1>3, <1>7, <1>8, <1>12 DEF TypeOK, procVars
  <2>2. CallInv' /\ ReplayInv'
    BY <1>2, <1>12 DEF IInv, CallInv, ReplayInv, Unsent, procVars
  <2>3. ASSUME NEW x, Waits(x)
        PROVE  Waits(x)'
    <3>1. creds => creds'
      BY <1>2
    <3>2. QED
      BY <1>12, <2>3, <3>1 DEF Waits, procVars
  <2>4. QED
    BY <1>8, <1>10, <1>11, <2>1, <2>2, <2>3 DEF IInv
<1>13. CASE /\ outbox' = [outbox EXCEPT ![u] =
                  <<[op |-> "unsubscribe", target |-> r.target, topics |-> Released(e)]>>]
            /\ arg' = [arg EXCEPT ![u] = e]
            /\ pc' = [pc EXCEPT ![u] = "unsubscribe"]
  <2> DEFINE R == Released(e)
             m == [op |-> "unsubscribe", target |-> r.target, topics |-> R]
  <2>1. R \subseteq Id /\ \A i \in R : refs'[i] = 0
    <3>1. \A i \in R : i \in Id /\ i \in e.ids /\ refs[i] <= 1
      BY <1>6 DEF Released
    <3>2. \A i \in Id : refs[i] \in Nat
      BY <1>3 DEF TypeOK
    <3> HIDE DEF R, e
    <3>3. ASSUME NEW i \in R
          PROVE  refs'[i] = 0
      <4>1. refs[i] \in Nat /\ refs[i] <= 1 /\ refs[i] > 0 /\ refs'[i] = refs[i] - 1
        BY <1>7, <3>1, <3>2
      <4>2. QED
        BY <4>1, SMT
    <3>4. QED
      BY <3>1, <3>3
  <2> HIDE DEF R
  <2>2. m \in Message /\ m.op = "unsubscribe" /\ m.topics = R
    BY <1>6, <2>1, SMT DEF Message, Topic
  <2>3. outbox' = [outbox EXCEPT ![u] = <<m>>]
    BY <1>13 DEF R
  <2> HIDE DEF m
  <2>4. <<m>> \in Seq(Message) /\ <<m>> # <<>> /\ Head(<<m>>) = m
    BY <2>2, SMT
  <2>5. /\ pc' \in [Proc -> {"idle", "snapshot", "replay", "subscribe", "unsubscribe",
                             "unrecord", "restore"}]
        /\ outbox' \in [Proc -> Seq(Message)] /\ arg' \in [Proc -> Registration \cup {NoArg}]
        /\ pc'[u] = "unsubscribe" /\ outbox'[u] = <<m>> /\ arg'[u] = e
        /\ pc'[Reconnector] \in {"idle", "snapshot", "replay"}
        /\ ReplayInv'
        /\ \A x : Waits(x) => Waits(x)'
    <3>1. "unsubscribe" \in CallPlaces /\ pc[u] \in CallPlaces /\ e \in CallArgs /\ creds' = creds
      BY <1>2, <1>6 DEF CallPlaces, CallArgs
    <3>2. QED
      BY <1>13, <2>3, <2>4, <3>1, CallerMoves
  <2>6. TypeOK'
    BY <1>2, <1>3, <1>7, <1>8, <2>5 DEF TypeOK
  <2>7. CallInv'
    BY <1>6, <2>1, <2>2, <2>4, <2>5 DEF CallInv, Unsent
  <2>8. QED
    BY <1>8, <1>10, <1>11, <2>5, <2>6, <2>7 DEF IInv
<1>14. QED
  BY <1>1, <1>12, <1>13


\* The caller's message is sent, and its rollback is due when it was not.
LEMMA SendStep ==
    ASSUME IInv, NEW u \in User, User = {u}, Send(u)
    PROVE  IInv'
<1> DEFINE m == Head(outbox[u])
<1>1. /\ pc[u] \in {"subscribe", "unsubscribe"} /\ outbox' = [outbox EXCEPT ![u] = <<>>]
      /\ UNCHANGED subVars
      /\ \/ /\ SendOK(m) /\ pc' = [pc EXCEPT ![u] = "idle"]
            /\ arg' = [arg EXCEPT ![u] = NoArg]
         \/ /\ SendFails(m)
            /\ pc' = [pc EXCEPT ![u] = IF pc[u] = "subscribe" THEN "unrecord" ELSE "restore"]
            /\ UNCHANGED arg
  BY DEF Send, Goto
<1>2. TypeOK /\ RefsMatch /\ u \in Proc
  BY DEF IInv, Proc
<1>3. /\ outbox[u] \in Seq(Message) /\ outbox[u] # <<>> /\ <<>> \in Seq(Message)
      /\ arg \in [Proc -> Registration \cup {NoArg}] /\ arg[u] \in Registration
  <2>1. /\ outbox[u] \in Seq(Message)
        /\ arg \in [Proc -> Registration \cup {NoArg}]
    BY <1>2 DEF TypeOK
  <2>2. outbox[u] # <<>> /\ arg[u] \in Registration
    BY <1>1 DEF IInv, CallInv
  <2>3. <<>> \in Seq(Message)
    BY SMT
  <2>4. QED
    BY <2>1, <2>2, <2>3
<1>4. m \in Message
  BY <1>3, SMT
<1>5. /\ wire' \in {"none", "open", "silent", "dead"} /\ server' \in SUBSET Topic
      /\ faults' \in 0..MaxFaults
      /\ wire' = "open" => /\ wire = "open"
                           /\ \/ server' = Applied(server, m)
                              \/ server' = server /\ m.target = "user" /\ ~creds
  BY <1>1, <1>2, <1>4, SendMoves
<1>6. /\ subs' = subs /\ refs' = refs /\ creds' = creds /\ customFeature' = customFeature
      /\ undone' = undone
  BY <1>1 DEF subVars
<1>7. (undone => undone') /\ (creds => creds') /\ (customFeature' => customFeature)
  BY <1>6
<1>8. RefsMatch'
  BY <1>2, <1>6 DEF RefsMatch
<1>9. /\ pc[u] = "subscribe" => /\ m.op = "subscribe" /\ m.target = arg[u].target
                                /\ \A i \in arg[u].ids : refs[i] = 1 => i \in m.topics
                                /\ Custom(arg[u]) => "custom" \in m.topics
      /\ pc[u] = "unsubscribe" => /\ m.op = "unsubscribe" /\ m.topics \subseteq Id
                                  /\ \A i \in m.topics : refs[i] = 0
      /\ Unsent(u) => Len(subs) > 0 /\ subs[Len(subs)] = arg[u]
  BY DEF IInv, CallInv
<1> HIDE DEF m
<1>10. CASE /\ SendOK(m) /\ pc' = [pc EXCEPT ![u] = "idle"] /\ arg' = [arg EXCEPT ![u] = NoArg]
  <2>1. /\ pc' \in [Proc -> {"idle", "snapshot", "replay", "subscribe", "unsubscribe",
                             "unrecord", "restore"}]
        /\ outbox' \in [Proc -> Seq(Message)] /\ arg' \in [Proc -> Registration \cup {NoArg}]
        /\ pc'[u] = "idle"
        /\ pc'[Reconnector] \in {"idle", "snapshot", "replay"}
        /\ ReplayInv'
        /\ \A x : Waits(x) => Waits(x)'
    <3>1. "idle" \in CallPlaces /\ pc[u] \in CallPlaces /\ NoArg \in CallArgs
      BY <1>1 DEF CallPlaces, CallArgs
    <3>2. outbox' = [outbox EXCEPT ![u] = <<>>] /\ <<>> \in Seq(Message) /\ creds' = creds
      BY <1>1, <1>3, <1>6
    <3>3. QED
      BY <1>10, <3>1, <3>2, CallerMoves
  <2>2. TypeOK'
    BY <1>2, <1>5, <1>6, <2>1 DEF TypeOK
  <2>3. CallInv'
    BY <2>1 DEF CallInv, Unsent
  <2>4. m.target = "user" => creds
    BY <1>10 DEF SendOK, Writable
  <2>5. CredsInv'
    <3>1. SUFFICES ASSUME ~undone, ~creds, NEW k \in 1..Len(subs), subs[k].target = "user"
                   PROVE  FALSE
      BY <1>6, <1>7 DEF CredsInv
    <3>2. Unsent(u) /\ k = Len(subs)
      BY <3>1 DEF IInv, CredsInv
    <3>3. pc[u] = "subscribe" /\ arg[u].target = "user"
      BY <1>1, <1>9, <3>1, <3>2 DEF Unsent
    <3>4. QED
      BY <1>9, <2>4, <3>1, <3>3
  <2>6. ServedInv'
    <3>1. SUFFICES ASSUME ~undone, wire' = "open"
                   PROVE  ServedInv'
      BY <1>7 DEF ServedInv
    <3>2. wire = "open" /\ server' = Applied(server, m)
      BY <1>5, <2>4, <3>1
    <3>3. CASE pc[u] = "subscribe"
      <4>1. server' = server \cup m.topics
        BY <1>9, <3>2, <3>3 DEF Applied
      <4>2. ASSUME NEW i \in Id, refs[i] > 0
            PROVE  i \in server' \/ Waits(i)'
        <5>1. i \in server \/ Waits(i) \/ (i \in arg[u].ids /\ refs[i] = 1)
          BY <3>1, <3>2, <4>2 DEF IInv, ServedInv
        <5>2. QED
          BY <1>9, <2>1, <3>3, <4>1, <5>1
      <4>3. ASSUME customFeature
            PROVE  "custom" \in server' \/ Waits("custom")'
        <5>1. "custom" \in server \/ Waits("custom") \/ Custom(arg[u])
          BY <3>1, <3>2, <4>3 DEF IInv, ServedInv
        <5>2. QED
          BY <1>9, <2>1, <3>3, <4>1, <5>1
      <4>4. QED
        BY <1>6, <1>7, <4>2, <4>3 DEF ServedInv
    <3>4. CASE pc[u] = "unsubscribe"
      <4>1. server' = server \ m.topics /\ ~Unsent(u)
        BY <1>9, <3>2, <3>4 DEF Applied, Unsent
      <4>2. "custom" \notin m.topics
        BY <1>9, <3>4, TopicAssumption
      <4>3. ASSUME NEW i \in Id, refs[i] > 0
            PROVE  i \in server' \/ Waits(i)'
        <5>1. i \notin m.topics
          <6>1. refs[i] # 0
            BY <4>3, SMT
          <6>2. QED
            BY <1>9, <3>4, <6>1
        <5>2. i \in server \/ Waits(i)
          BY <3>1, <3>2, <4>1, <4>3, NothingUnsent
        <5>3. QED
          BY <2>1, <4>1, <5>1, <5>2
      <4>4. ASSUME customFeature
            PROVE  "custom" \in server' \/ Waits("custom")'
        <5>1. "custom" \in server \/ Waits("custom")
          BY <3>1, <3>2, <4>1, <4>4, NothingUnsent
        <5>2. QED
          BY <2>1, <4>1, <4>2, <5>1
      <4>5. QED
        BY <1>6, <1>7, <4>3, <4>4 DEF ServedInv
    <3>5. QED
      BY <1>1, <3>3, <3>4
  <2>7. QED
    BY <1>8, <2>1, <2>2, <2>3, <2>5, <2>6 DEF IInv
<1>11. CASE /\ SendFails(m)
            /\ pc' = [pc EXCEPT ![u] = IF pc[u] = "subscribe" THEN "unrecord" ELSE "restore"]
            /\ UNCHANGED arg
  <2> DEFINE w == IF pc[u] = "subscribe" THEN "unrecord" ELSE "restore"
  <2>1. arg' = [arg EXCEPT ![u] = arg[u]] /\ server' = server
    BY <1>3, <1>11 DEF SendFails
  <2>2. /\ pc' \in [Proc -> {"idle", "snapshot", "replay", "subscribe", "unsubscribe",
                             "unrecord", "restore"}]
        /\ outbox' \in [Proc -> Seq(Message)] /\ arg' \in [Proc -> Registration \cup {NoArg}]
        /\ pc'[u] = w /\ arg'[u] = arg[u]
        /\ pc'[Reconnector] \in {"idle", "snapshot", "replay"}
        /\ ReplayInv'
        /\ \A x : Waits(x) => Waits(x)'
    <3> DEFINE r == arg[u]
    <3>1. pc[u] \in CallPlaces /\ r \in CallArgs /\ arg' = [arg EXCEPT ![u] = r]
      BY <1>1, <1>3, <2>1 DEF CallPlaces, CallArgs
    <3> HIDE DEF r
    <3>2. outbox' = [outbox EXCEPT ![u] = <<>>] /\ <<>> \in Seq(Message) /\ creds' = creds
      BY <1>1, <1>3, <1>6
    <3>3. CASE pc[u] = "subscribe"
      <4>1. pc' = [pc EXCEPT ![u] = "unrecord"] /\ "unrecord" \in CallPlaces
        BY <1>11, <3>3 DEF CallPlaces
      <4>2. /\ pc' \in [Proc -> {"idle", "snapshot", "replay", "subscribe", "unsubscribe",
                                 "unrecord", "restore"}]
            /\ outbox' \in [Proc -> Seq(Message)] /\ arg' \in [Proc -> Registration \cup {NoArg}]
            /\ pc'[u] = "unrecord" /\ arg'[u] = r
            /\ pc'[Reconnector] \in {"idle", "snapshot", "replay"}
            /\ ReplayInv'
            /\ \A x : Waits(x) => Waits(x)'
        BY <3>1, <3>2, <4>1, CallerMoves
      <4>3. QED
        BY <3>3, <4>2 DEF r
    <3>4. CASE pc[u] # "subscribe"
      <4>1. pc' = [pc EXCEPT ![u] = "restore"] /\ "restore" \in CallPlaces
        BY <1>11, <3>4 DEF CallPlaces
      <4>2. /\ pc' \in [Proc -> {"idle", "snapshot", "replay", "subscribe", "unsubscribe",
                                 "unrecord", "restore"}]
            /\ outbox' \in [Proc -> Seq(Message)] /\ arg' \in [Proc -> Registration \cup {NoArg}]
            /\ pc'[u] = "restore" /\ arg'[u] = r
            /\ pc'[Reconnector] \in {"idle", "snapshot", "replay"}
            /\ ReplayInv'
            /\ \A x : Waits(x) => Waits(x)'
        BY <3>1, <3>2, <4>1, CallerMoves
      <4>3. QED
        BY <3>4, <4>2 DEF r
    <3>5. QED
      BY <3>3, <3>4
  <2>3. TypeOK'
    BY <1>2, <1>5, <1>6, <2>2 DEF TypeOK
  <2>4. Unsent(u)' <=> Unsent(u)
    BY <1>1, <2>2 DEF Unsent
  <2>5. CallInv'
    BY <1>3, <1>6, <1>9, <2>2, <2>4 DEF CallInv
  <2>6. CredsInv'
    BY <1>6, <1>7, <2>4 DEF IInv, CredsInv
  <2>7. ServedInv'
    <3>1. SUFFICES ASSUME ~undone, wire' = "open"
                   PROVE  ServedInv'
      BY <1>7 DEF ServedInv
    <3>2. wire = "open"
      BY <1>5, <3>1
    <3>3. QED
      BY <1>6, <1>7, <2>1, <2>2, <2>4, <3>1, <3>2 DEF IInv, ServedInv, Custom
  <2>8. QED
    BY <1>8, <2>2, <2>3, <2>5, <2>6, <2>7 DEF IInv
<1>12. QED
  BY <1>1, <1>10, <1>11


\* Positions before the last.
LEMMA Before ==
    ASSUME NEW n \in Nat, NEW j \in 1..(n - 1)
    PROVE  j \in 1..n /\ j # n /\ (j + 1 # n => j + 1 \in 1..(n - 1))
BY SMT

\* rollbackRecordedSubscription: an entry like the unsent one is taken back, and
\* with it whatever only the unsent one counted.
LEMMA UnrecordStep ==
    ASSUME IInv, NEW u \in User, User = {u}, rollbackRecordedSubscription(u)
    PROVE  IInv'
<1> DEFINE r == arg[u]
           S == {k \in DOMAIN subs : SameEntry(k, r)}
           n == Len(subs)
<1>1. /\ pc[u] = "unrecord" /\ pc' = [pc EXCEPT ![u] = "idle"] /\ arg' = [arg EXCEPT ![u] = NoArg]
      /\ refs' = Decremented(r) /\ customFeature' = HasCustom(subs')
      /\ subs' \in (IF First(S) = {} THEN {subs} ELSE {Delete(subs, i) : i \in First(S)})
      /\ UNCHANGED <<wire, creds, server, outbox, faults, undone>>
  BY DEF rollbackRecordedSubscription, RollBack, Goto
<1>2. TypeOK /\ RefsMatch /\ Unsent(u) /\ u \in Proc
  BY <1>1 DEF IInv, Proc, Unsent
<1>3. r \in Registration /\ n > 0 /\ subs[n] = r
  BY <1>1, <1>2 DEF IInv, CallInv
<1>4. subs \in Seq(Registration) /\ DOMAIN subs = 1..n /\ n \in Nat /\ n \in 1..n
  BY <1>2, <1>3, SMT DEF TypeOK
<1>5. n \in S /\ S \in SUBSET Nat
  <2>1. 1..n \subseteq Nat
    BY <1>4, SMT
  <2>2. QED
    BY <1>3, <1>4, <2>1 DEF SameEntry, SameKey
<1>6. First(S) # {}
  BY <1>5, FirstExists
<1>7. PICK k \in First(S) : subs' = Delete(subs, k)
  BY <1>1, <1>6
<1>8. /\ k \in 1..n /\ subs[k] \in Registration
      /\ subs[k].target = r.target /\ subs[k].ids = r.ids /\ subs[k].channel = r.channel
  <2>1. k \in 1..n /\ SameEntry(k, r)
    BY <1>4, <1>7 DEF First
  <2>2. subs[k] \in Registration
    BY <1>4, <2>1, SMT
  <2>3. QED
    BY <2>1, <2>2 DEF SameEntry, SameKey
<1>9. Custom(subs[k]) <=> Custom(r)
  <2>1. subs[k].custom = r.custom
    BY <1>3, <1>8, RegistrationAssumption
  <2>2. QED
    BY <1>8, <2>1 DEF Custom
<1>10. /\ Len(subs') = n - 1 /\ DOMAIN subs' = 1..(n - 1)
       /\ \A j \in 1..(n - 1) : subs'[j] = IF j < k THEN subs[j] ELSE subs[j + 1]
  BY <1>4, <1>7, <1>8, Deleted
<1> HIDE DEF S
<1>11. /\ subs' \in Seq(Registration) /\ refs' \in [Id -> Nat]
       /\ \A i \in Id : /\ refs'[i] = (IF i \in r.ids THEN refs[i] - 1 ELSE refs[i])
                        /\ refs'[i] > 0 => refs[i] > 0
                        /\ i \in r.ids => refs[i] > 0
       /\ \A i \in Id : refs'[i] = Cardinality({j \in DOMAIN subs' : i \in subs'[j].ids})
       /\ HasCustom(subs') => HasCustom(subs)
  <2>1. r.ids = subs[k].ids
    BY <1>8
  <2>2. QED
    BY <1>1, <1>2, <1>7, <1>8, <2>1, DeleteCounts
<1>12. RefsMatch' /\ customFeature' \in BOOLEAN /\ (customFeature' => customFeature)
  <2>1. HasCustom(subs') \in BOOLEAN
    BY DEF HasCustom
  <2>2. customFeature = HasCustom(subs)
    BY <1>2 DEF RefsMatch
  <2>3. QED
    BY <1>1, <1>11, <2>1, <2>2 DEF RefsMatch
<1>13. outbox' = [outbox EXCEPT ![u] = outbox[u]] /\ outbox[u] \in Seq(Message)
  BY <1>1, <1>2 DEF TypeOK
<1>14. /\ pc' \in [Proc -> {"idle", "snapshot", "replay", "subscribe", "unsubscribe",
                            "unrecord", "restore"}]
       /\ outbox' \in [Proc -> Seq(Message)] /\ arg' \in [Proc -> Registration \cup {NoArg}]
       /\ pc'[u] = "idle"
       /\ pc'[Reconnector] \in {"idle", "snapshot", "replay"}
       /\ ReplayInv'
       /\ \A x : Waits(x) => Waits(x)'
  <2>1. "idle" \in CallPlaces /\ pc[u] \in CallPlaces /\ NoArg \in CallArgs /\ creds' = creds
    BY <1>1 DEF CallPlaces, CallArgs
  <2>2. QED
    BY <1>1, <1>13, <2>1, CallerMoves
<1>15. TypeOK'
  BY <1>1, <1>2, <1>11, <1>12, <1>14 DEF TypeOK
<1>16. CallInv'
  BY <1>14 DEF CallInv, Unsent
\* Where an entry that is left was before.
<1>17. \A j \in 1..(n - 1) : \/ j < k /\ j \in 1..(n - 1) /\ subs'[j] = subs[j]
                             \/ j + 1 \in 1..(n - 1) /\ subs'[j] = subs[j + 1]
                             \/ k \in 1..(n - 1) /\ subs'[j] = r
  <2>1. SUFFICES ASSUME NEW j \in 1..(n - 1)
                 PROVE  \/ j < k /\ subs'[j] = subs[j]
                        \/ j + 1 \in 1..(n - 1) /\ subs'[j] = subs[j + 1]
                        \/ k \in 1..(n - 1) /\ subs'[j] = r
    OBVIOUS
  <2>2. CASE j < k
    BY <1>10, <2>1, <2>2
  <2>3. CASE ~(j < k) /\ j + 1 # n
    <3>1. j + 1 \in 1..(n - 1)
      BY <1>4, <2>1, <2>3, Before
    <3>2. QED
      BY <1>10, <2>3, <3>1
  <2>4. CASE ~(j < k) /\ j + 1 = n
    <3>1. k \in 1..(n - 1)
      BY <1>4, <1>8, <2>1, <2>4, SMT
    <3>2. QED
      BY <1>3, <1>10, <2>4, <3>1
  <2>5. QED
    BY <2>2, <2>3, <2>4
<1>18. \A j \in 1..(n - 1) : j \in 1..n /\ j # n
  BY <1>4, Before
<1>19. CredsInv'
  <2>1. SUFFICES ASSUME ~undone, ~creds, NEW j \in 1..(n - 1), subs'[j].target = "user"
                 PROVE  FALSE
    BY <1>1, <1>10 DEF CredsInv
  <2>2. \A i \in 1..(n - 1) : subs[i].target # "user"
    BY <1>18, <2>1 DEF IInv, CredsInv
  <2>3. QED
    BY <1>8, <1>17, <2>1, <2>2
<1>20. ServedInv'
  <2>1. SUFFICES ASSUME ~undone, wire = "open"
                 PROVE  ServedInv'
    BY <1>1 DEF ServedInv
  <2>2. ASSUME NEW i \in Id, refs'[i] > 0
        PROVE  i \in server' \/ Waits(i)'
    <3>1. ~(i \in r.ids /\ refs[i] = 1)
      <4>1. i \in r.ids => refs'[i] = refs[i] - 1
        BY <1>11
      <4>2. QED
        BY <2>2, <4>1, SMT
    <3>2. refs[i] > 0
      BY <1>11, <2>2
    <3>3. i \in server \/ Waits(i)
      BY <2>1, <3>1, <3>2 DEF IInv, ServedInv
    <3>4. QED
      BY <1>1, <1>14, <3>3
  <2>3. ASSUME customFeature'
        PROVE  "custom" \in server' \/ Waits("custom")'
    <3>1. ASSUME Custom(r), \A j \in 1..(n - 1) : ~Custom(subs[j])
          PROVE  FALSE
      <4>1. k \notin 1..(n - 1)
        BY <1>9, <3>1
      <4>2. \A j \in 1..(n - 1) : ~Custom(subs'[j])
        BY <1>17, <3>1, <4>1 DEF Custom
      <4>3. HasCustom(subs')
        BY <1>1, <2>3
      <4>4. QED
        BY <1>10, <4>2, <4>3 DEF HasCustom, Custom
    <3>2. "custom" \in server \/ Waits("custom")
      BY <1>12, <2>1, <2>3, <3>1 DEF IInv, ServedInv
    <3>3. QED
      BY <1>1, <1>14, <3>2
  <2>4. QED
    BY <2>2, <2>3 DEF ServedInv
<1>21. QED
  BY <1>12, <1>14, <1>15, <1>16, <1>19, <1>20 DEF IInv

\* rollbackRemovedSubscription records the entry again.
LEMMA RestoreStep ==
    ASSUME IInv, NEW u \in User, User = {u}, rollbackRemovedSubscription(u)
    PROVE  IInv'
<1>1. /\ pc[u] = "restore" /\ pc' = [pc EXCEPT ![u] = "idle"] /\ arg' = [arg EXCEPT ![u] = NoArg]
      /\ subs' = Append(subs, arg[u]) /\ refs' = Incremented(arg[u])
      /\ customFeature' = HasCustom(subs') /\ undone' = TRUE
      /\ UNCHANGED <<wire, creds, server, outbox, faults>>
  BY DEF rollbackRemovedSubscription, RollBack, Goto
<1>2. TypeOK /\ RefsMatch /\ arg[u] \in Registration /\ u \in Proc
  BY <1>1 DEF IInv, CallInv, Proc
<1>3. /\ subs' \in Seq(Registration) /\ refs' \in [Id -> Nat]
      /\ \A i \in Id : refs'[i] = Cardinality({k \in DOMAIN subs' : i \in subs'[k].ids})
  BY <1>1, <1>2, RecordCounts
<1>4. RefsMatch' /\ customFeature' \in BOOLEAN
  <2>1. HasCustom(subs') \in BOOLEAN
    BY DEF HasCustom
  <2>2. QED
    BY <1>1, <1>3, <2>1 DEF RefsMatch
<1>5. outbox' = [outbox EXCEPT ![u] = outbox[u]] /\ outbox[u] \in Seq(Message)
  BY <1>1, <1>2 DEF TypeOK
<1>6. /\ pc' \in [Proc -> {"idle", "snapshot", "replay", "subscribe", "unsubscribe",
                           "unrecord", "restore"}]
      /\ outbox' \in [Proc -> Seq(Message)] /\ arg' \in [Proc -> Registration \cup {NoArg}]
      /\ pc'[u] = "idle"
      /\ pc'[Reconnector] \in {"idle", "snapshot", "replay"}
      /\ ReplayInv'
  <2>1. "idle" \in CallPlaces /\ pc[u] \in CallPlaces /\ NoArg \in CallArgs /\ creds' = creds
    BY <1>1 DEF CallPlaces, CallArgs
  <2>2. QED
    BY <1>1, <1>5, <2>1, CallerMoves
<1>7. TypeOK'
  BY <1>1, <1>2, <1>3, <1>4, <1>6 DEF TypeOK
<1>8. CallInv'
  BY <1>6 DEF CallInv, Unsent
<1>9. CredsInv' /\ ServedInv'
  BY <1>1 DEF CredsInv, ServedInv
<1>10. QED
  BY <1>4, <1>6, <1>7, <1>8, <1>9 DEF IInv


-----------------------------------------------------------------------------
(* Every behaviour                                                         *)

\* A client starts with nothing recorded.
LEMMA InitHolds ==
    ASSUME OneCallerOnly, Init
    PROVE  IInv
<1>1. /\ subs = <<>> /\ refs = [i \in Id |-> 0] /\ customFeature = FALSE /\ undone = FALSE
      /\ creds \in BOOLEAN /\ server = {} /\ pc = [p \in Proc |-> "idle"]
      /\ outbox = [p \in Proc |-> <<>>] /\ arg = [p \in Proc |-> NoArg] /\ faults = 0
      /\ wire = "none"
  BY DEF Init, LinkInit
<1>2. Len(subs) = 0 /\ DOMAIN subs = {} /\ 1..0 = {} /\ subs \in Seq(Registration)
  BY <1>1, SMT
<1>3. TypeOK
  <2>1. refs \in [Id -> Nat] /\ faults \in 0..MaxFaults
    BY <1>1, SubsAssumption, SMT
  <2>2. <<>> \in Seq(Message)
    BY SMT
  <2>3. outbox \in [Proc -> Seq(Message)] /\ arg \in [Proc -> Registration \cup {NoArg}]
    BY <1>1, <2>2
  <2>4. QED
    BY <1>1, <1>2, <2>1, <2>3 DEF TypeOK
<1>4. RefsMatch
  <2>1. Cardinality({}) = 0
    BY FS_EmptySet
  <2>2. ASSUME NEW i \in Id
        PROVE  {k \in DOMAIN subs : i \in subs[k].ids} = {} /\ refs[i] = 0
    BY <1>1, <1>2
  <2>3. HasCustom(subs) = FALSE
    BY <1>2 DEF HasCustom
  <2>4. QED
    BY <1>1, <2>1, <2>2, <2>3 DEF RefsMatch
<1>5. \A p \in Proc : pc[p] = "idle"
  BY <1>1
<1>6. CallInv /\ ReplayInv
  BY <1>5 DEF CallInv, ReplayInv, Unsent, Proc
<1>7. CredsInv /\ ServedInv
  BY <1>1, <1>2 DEF CredsInv, ServedInv
<1>8. QED
  BY <1>3, <1>4, <1>6, <1>7 DEF IInv

\* One step of the client, of the network or of the server.
LEMMA StepHolds ==
    ASSUME OneCallerOnly, IInv, [Next]_vars
    PROVE  IInv'
<1>1. ASSUME NEW u \in User, Call(u)
      PROVE  IInv'
  <2>1. User = {u}
    BY <1>1 DEF OneCallerOnly
  <2>2. QED
    BY <1>1, <2>1, CredentialsStep, RecordStep, RemoveStep, SendStep, UnrecordStep, RestoreStep
       DEF Call
<1>2. ASSUME NEW p \in Proc, ConnectStep(p)
      PROVE  IInv'
  BY <1>2, PublishStep, SnapshotStep, ReplayStep, ReplayDoneStep DEF ConnectStep
<1>3. CASE UNCHANGED vars
  <2>1. /\ UNCHANGED wire /\ UNCHANGED subVars /\ UNCHANGED server /\ UNCHANGED procVars
        /\ UNCHANGED faults
    BY <1>3 DEF vars
  <2>2. TypeOK' /\ RefsMatch'
    BY <2>1 DEF IInv, TypeOK, RefsMatch, subVars, procVars
  <2>3. CallInv' /\ ReplayInv' /\ CredsInv'
    BY <2>1 DEF IInv, CallInv, ReplayInv, CredsInv, Unsent, Custom, subVars, procVars
  <2>4. ServedInv'
    <3>1. ASSUME NEW x, Waits(x)
          PROVE  Waits(x)'
      BY <2>1, <3>1 DEF Waits, subVars, procVars
    <3>2. \A u \in User : Unsent(u)' <=> Unsent(u)
      BY <2>1 DEF Unsent, procVars
    <3>3. /\ refs' = refs /\ subs' = subs /\ arg' = arg /\ (customFeature' => customFeature)
          /\ (undone => undone') /\ wire' = wire /\ server' = server
      BY <2>1 DEF subVars, procVars
    <3>4. QED
      BY <3>1, <3>2, <3>3 DEF IInv, ServedInv, Custom
  <2>5. QED
    BY <2>2, <2>3, <2>4 DEF IInv
<1>4. QED
  BY <1>1, <1>2, <1>3, LinkStep DEF Next

\* The invariant of one caller and the reconnecting goroutine: what is counted is
\* streamed, about to be replayed, or not yet sent.
THEOREM SubscriptionsSound == ASSUME OneCallerOnly PROVE Spec => []IInv
<1>1. Init => IInv
  BY InitHolds
<1>2. IInv /\ [Next]_vars => IInv'
  BY StepHolds
<1>3. QED
  BY <1>1, <1>2, PTL DEF Spec

\* The counts of recordSubscription and removeRecordedSubscription agree with the
\* recorded subscriptions, and the custom feature flag too, whatever fails and is
\* rolled back.
THEOREM CountsStayMatched == ASSUME OneCallerOnly PROVE Spec => []CountsMatch
<1>1. IInv => CountsMatch
  BY DEF IInv, CountsMatch
<1>2. QED
  BY <1>1, SubscriptionsSound, PTL

\* With nothing in progress an open connection streams whatever is counted,
\* through losses, replays, credentials that arrive late and failed sends, as long
\* as no removal was rolled back.
THEOREM CountedIsStreamed == ASSUME OneCallerOnly PROVE Spec => []CoveredUnlessRestored
<1>1. IInv => CoveredUnlessRestored
  <2>1. SUFFICES ASSUME IInv, ~undone, wire = "open", \A p \in Proc : pc[p] = "idle"
                 PROVE  Counted \subseteq server /\ (customFeature => "custom" \in server)
    BY DEF CoveredUnlessRestored, Covered, Healthy
  <2>2. \A x : ~Waits(x)
    BY <2>1 DEF Waits
  <2>3. \A u \in User : ~Unsent(u)
    BY <2>1 DEF Unsent, Proc
  <2>4. QED
    BY <2>1, <2>2, <2>3 DEF IInv, ServedInv, Counted
<1>2. QED
  BY <1>1, SubscriptionsSound, PTL

=============================================================================
