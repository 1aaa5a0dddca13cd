----------------------------- MODULE OrderProofs -----------------------------
(***************************************************************************)
(* Proofs about what an order goes through. OrderCaches, for any callers,   *)
(* tokens and bounds: loads are shared, nothing older than a returned       *)
(* invalidation is cached or answered, and no older tick size is stored.    *)
(* OrderPosting, for any number of upgrades: at most one order is posted,   *)
(* and it follows the server's version. Requests, for any limit of the      *)
(* retries: no write is sent twice, and every attempt is signed afresh.     *)
(***************************************************************************)
EXTENDS OrderCaches, OrderPosting, Requests, SequenceTheorems, TLAPS

(*****************************************************************************)
(* OrderCaches                                                               *)
(*****************************************************************************)

-----------------------------------------------------------------------------
(* The inductive invariant                                                 *)

\* A caller inside a lookup has a key to resolve; tick-size reads and
\* ClearTickSizeCache work on a token.
WellFormed(c) ==
    /\ c.at \in {"lookup", "join", "await", "fetch", "store", "return"} => c.path # <<>>
    /\ c.at \in {"tickFetch", "tickStore", "clear"} => c.path # <<>> /\ Head(c.path) \in Token

PathInv == \A p \in Caller : WellFormed(call[p])

\* The loads table and the callers agree on who loads what.
LoadInv ==
    /\ \A p \in Loaders : load[Subject(p)] = p
    /\ \A k \in Key : load[k] # NoCaller => load[k] \in Loaders /\ Subject(load[k]) = k

\* Whoever waits does so for a registered load.
WaitInv == \A p \in Caller : call[p].at \in {"join", "await"} => load[Subject(p)] # NoCaller

\* A cached market comes with the conditions of all its tokens, so that an
\* invalidation by token finds it.
ConditionInv == cache["market"] # None => \A t \in Token : cache[t] # None

\* The order of the versions: what a call was promised, what returned
\* invalidations promise, what the server has.
Clearing(p) == call[p].at \in {"clear", "clearAll"}

OrderInv ==
    /\ \A k \in Key : floor[k] <= version
    /\ \A t \in Token : floor[t] <= floor["market"]
    /\ \A p \in Caller, k \in Shared : call[p].promised[k] <= floor[k]
    /\ \A p \in Caller : Clearing(p) => call[p].got <= version

\* What a load has been answered is new enough for itself and for whoever joined
\* it, and for the cache while its generation is current.
Answered(p) == call[p].at = "store" /\ call[p].outcome = "ok" /\ Subject(p) \in Shared

LoadedInv ==
    \A p \in Caller : Answered(p) =>
        /\ call[p].current => call[p].got >= floor[Subject(p)]
        /\ call[p].got >= call[p].promised[Subject(p)]
        /\ \A q \in Caller : At(q, "join") /\ Subject(q) = Subject(p) =>
               call[p].got >= call[q].promised[Subject(p)]

\* A tick size read under the current generation is newer than every invalidation
\* that has returned or has cleared the tick sizes.
TickInv ==
    \A p \in Caller : At(p, "tickStore") /\ call[p].current =>
        /\ call[p].got >= floor[Subject(p)]
        /\ \A q \in Caller : Clearing(q) => call[p].got >= call[q].got

IInv ==
    /\ TypeOK /\ PathInv /\ LoadInv /\ WaitInv
    /\ ConditionInv /\ OrderInv /\ LoadedInv /\ TickInv
    /\ MetadataFresh /\ AnswersFresh

-----------------------------------------------------------------------------
(* Lemmas                                                                  *)

\* Most leaves are set and first-order reasoning; those with arithmetic or large
\* records cite SMT.
USE Zenon

\* What is left of a path of keys when its first key is resolved.
LEMMA PathFacts ==
    ASSUME NEW s \in Seq(Key), s # <<>>
    PROVE  /\ Head(s) \in Key
           /\ Tail(s) \in Seq(Key)
<1>1. Len(s) \in Nat /\ Len(s) # 0
  BY EmptySeq
<1>2. Head(s) = s[1] /\ 1 \in 1..Len(s)
  BY <1>1, SMT
<1>3. Head(s) \in Key
  BY <1>2, ElementOfSeq
<1>4. QED
  BY <1>3, HeadTailProperties

\* The key a caller works on is one of the keys.
LEMMA SubjectTyped ==
    ASSUME TypeOK, PathInv, NEW p \in Caller,
           call[p].at \notin {"idle", "clearAll"}
    PROVE  Subject(p) \in Key
<1>1. call[p] \in Locals
  BY DEF TypeOK
<1>2. call[p].path \in Seq(Key) /\ call[p].at \in Where
  BY <1>1 DEF Locals
<1>3. call[p].path # <<>>
  BY <1>2 DEF PathInv, WellFormed, Where
<1>4. QED
  BY <1>2, <1>3, PathFacts DEF Subject

\* A step in which one caller that loads nothing changes its locals, and neither
\* begins a load nor an invalidation: a hit, a join, a return, a tick-size read.
LEMMA LocalStep ==
    ASSUME IInv, NEW p \in Caller, NEW r \in Locals,
           call' = [call EXCEPT ![p] = r],
           UNCHANGED <<version, cache, load, floor>>,
           disturbances' \in 0..MaxDisturbances,
           tick' \in [Token -> 0..MaxVersion \cup {None}],
           p \notin Loaders, r.at \notin {"fetch", "store", "clear", "clearAll"},
           WellFormed(r),
           \A k \in Shared : r.promised[k] <= floor[k],
           r.at \in {"join", "await"} => load[Head(r.path)] # NoCaller,
           r.at = "join" => call[load[Head(r.path)]].current = TRUE,
           r.at = "return" /\ Head(r.path) \in Shared => r.got >= r.promised[Head(r.path)],
           r.at = "tickStore" => r.got = version
    PROVE  IInv'
<1>1. /\ call \in [Caller -> Locals] /\ call'[p] = r
      /\ \A q \in Caller : q # p => call'[q] = call[q]
  BY DEF IInv, TypeOK
<1>2. TypeOK'
  BY DEF IInv, TypeOK
<1>3. PathInv'
  BY <1>1 DEF IInv, PathInv
<1>4. Loaders' = Loaders
  BY <1>1 DEF Loaders
<1>5. LoadInv'
  BY <1>1, <1>4 DEF IInv, LoadInv, Subject, Loaders
<1>6. WaitInv'
  BY <1>1 DEF IInv, WaitInv, Subject
<1>7. ConditionInv' /\ MetadataFresh'
  BY DEF IInv, ConditionInv, MetadataFresh
<1>8. OrderInv'
  BY <1>1 DEF IInv, OrderInv, Clearing
<1>9. AnswersFresh'
  BY <1>1 DEF IInv, AnswersFresh, At, Subject
<1>10. LoadedInv'
  <2> SUFFICES ASSUME NEW l \in Caller, Answered(l)'
               PROVE  /\ call'[l].current => call'[l].got >= floor'[Subject(l)']
                      /\ call'[l].got >= call'[l].promised[Subject(l)']
                      /\ \A q \in Caller : At(q, "join")' /\ Subject(q)' = Subject(l)' =>
                             call'[l].got >= call'[q].promised[Subject(l)']
    BY DEF LoadedInv
  <2>1. l # p /\ call'[l] = call[l] /\ Subject(l)' = Subject(l) /\ Answered(l)
    BY <1>1 DEF Answered, Subject
  <2>2. l \in Loaders /\ load[Subject(l)] = l
    BY <2>1 DEF Answered, Loaders, IInv, LoadInv
  <2>3. /\ call[l].current => call[l].got >= floor[Subject(l)]
        /\ call[l].got >= call[l].promised[Subject(l)]
        /\ \A q \in Caller : At(q, "join") /\ Subject(q) = Subject(l) =>
               call[l].got >= call[q].promised[Subject(l)]
    BY <2>1 DEF IInv, LoadedInv
  <2>4. Subject(l) \in Shared
    BY <2>1 DEF Answered
  <2>5. ASSUME r.at = "join", Head(r.path) = Subject(l)
        PROVE  call[l].got >= r.promised[Subject(l)]
    <3>1. call[l].got >= floor[Subject(l)]
      BY <2>5, <2>2, <2>3
    <3>2. /\ call[l].got \in Nat /\ floor[Subject(l)] \in Nat
          /\ r.promised[Subject(l)] \in Nat
      BY <2>4, SMT DEF IInv, TypeOK, Locals, Key
    <3>3. QED
      BY <3>1, <3>2, <2>4, SMT
  <2>6. ASSUME NEW q \in Caller, At(q, "join")', Subject(q)' = Subject(l)'
        PROVE  call'[l].got >= call'[q].promised[Subject(l)']
    BY <1>1, <2>1, <2>3, <2>5, <2>6 DEF At, Subject
  <2>7. QED
    BY <2>1, <2>3, <2>6
<1>11. TickInv'
  <2> SUFFICES ASSUME NEW l \in Caller, At(l, "tickStore")', call'[l].current
               PROVE  /\ call'[l].got >= floor'[Subject(l)']
                      /\ \A q \in Caller : Clearing(q)' => call'[l].got >= call'[q].got
    BY DEF TickInv
  <2>1. \A q \in Caller : Clearing(q)' => Clearing(q) /\ call'[q] = call[q]
    BY <1>1 DEF Clearing
  <2>2. CASE l # p
    BY <1>1, <2>1, <2>2 DEF IInv, TickInv, At, Subject
  <2>3. CASE l = p
    <3>1. r.at = "tickStore" /\ r.got = version /\ Head(r.path) \in Token
      BY <1>1, <2>3 DEF At, WellFormed
    <3>2. floor[Head(r.path)] <= version
      BY <3>1 DEF IInv, OrderInv, Key
    <3>3. \A q \in Caller : Clearing(q) => call[q].got <= version
      BY DEF IInv, OrderInv
    <3>4. /\ version \in Nat /\ floor[Head(r.path)] \in Nat
          /\ \A q \in Caller : call[q].got \in Nat
      BY <3>1, SMT DEF IInv, TypeOK, Locals, Key
    <3>5. QED
      BY <1>1, <2>1, <2>3, <3>1, <3>2, <3>3, <3>4 DEF Subject
  <2>4. QED
    BY <2>2, <2>3
<1>12. QED
  BY <1>2, <1>3, <1>5, <1>6, <1>7, <1>8, <1>9, <1>10, <1>11 DEF IInv

\* The locals of a caller, field by field.
LEMMA CallTyped ==
    ASSUME TypeOK, NEW p \in Caller
    PROVE  /\ call[p] \in Locals
           /\ call[p].at \in Where /\ call[p].path \in Seq(Key)
           /\ call[p].force \in BOOLEAN /\ call[p].current \in BOOLEAN
           /\ call[p].got \in 0..MaxVersion /\ call[p].got \in Nat
           /\ call[p].outcome \in {"ok", "failed", "cancelled"}
           /\ call[p].promised \in [Shared -> 0..MaxVersion]
<1>1. call[p] \in Locals
  BY DEF TypeOK
<1>2. QED
  BY <1>1, SMT DEF Locals

\* The numbers of the invariant are natural numbers.
LEMMA VersionsTyped ==
    ASSUME TypeOK
    PROVE  /\ version \in Nat
           /\ \A k \in Key : floor[k] \in Nat /\ (cache[k] # None => cache[k] \in 0..MaxVersion)
           /\ \A p \in Caller : call[p].got \in Nat
           /\ \A p \in Caller, k \in Shared : call[p].promised[k] \in Nat
<1>1. \A p \in Caller, k \in Shared : call[p].promised[k] \in Nat
  BY CallTyped, SMT
<1>2. QED
  BY <1>1, CallTyped, SMT DEF TypeOK

\* An idle caller's locals.
LEMMA IdleTyped ==
    /\ Idle \in Locals /\ Idle.at = "idle" /\ WellFormed(Idle)
    /\ \A k \in Shared : Idle.promised[k] = 0
<1>1. Idle \in Locals
  BY BoundAssumption, SMT DEF Idle, Locals, Where
<1>2. QED
  BY <1>1 DEF Idle, WellFormed

\* A call that ends, whatever it was doing outside a load, is a local step.
LEMMA IdleStep ==
    ASSUME IInv, NEW p \in Caller, p \notin Loaders,
           call' = [call EXCEPT ![p] = Idle],
           UNCHANGED <<version, cache, load, floor, disturbances>>,
           tick' \in [Token -> 0..MaxVersion \cup {None}]
    PROVE  IInv'
<1>1. \A k \in Shared : 0 <= floor[k]
  BY VersionsTyped, SMT DEF IInv, Key
<1>2. disturbances' \in 0..MaxDisturbances
  BY DEF IInv, TypeOK
<1> HIDE DEF Idle
<1>3. QED
  BY <1>1, <1>2, IdleTyped, LocalStep

-----------------------------------------------------------------------------
(* Steps of one caller                                                     *)

\* A caller begins to resolve a path of keys.
LEMMA CallStep ==
    ASSUME IInv, NEW p \in Caller, NEW keys \in Seq(Key), keys # <<>>,
           NEW refresh \in BOOLEAN, Call(p, keys, refresh)
    PROVE  IInv'
<1> DEFINE r == [Idle EXCEPT !.at = "lookup", !.path = keys, !.force = refresh,
                             !.promised = [k \in Shared |-> floor[k]]]
<1>1. [k \in Shared |-> floor[k]] \in [Shared -> 0..MaxVersion]
  BY DEF IInv, TypeOK, Key
<1>2. /\ r \in Locals /\ r.at = "lookup" /\ r.path = keys
      /\ r.promised = [k \in Shared |-> floor[k]]
  BY <1>1, IdleTyped DEF Idle, Locals, Where
<1>3. /\ call' = [call EXCEPT ![p] = r] /\ call[p].at = "idle"
      /\ UNCHANGED <<version, cache, load, tick, floor, disturbances>>
  BY DEF Call
<1> HIDE DEF r
<1>4. WellFormed(r)
  BY <1>2 DEF WellFormed
<1>5. \A k \in Shared : r.promised[k] <= floor[k]
  BY <1>2, VersionsTyped, SMT DEF IInv, Key
<1>6. p \notin Loaders /\ tick' \in [Token -> 0..MaxVersion \cup {None}]
      /\ disturbances' \in 0..MaxDisturbances
  BY <1>3 DEF Loaders, IInv, TypeOK
<1>7. QED
  BY <1>2, <1>3, <1>4, <1>5, <1>6, LocalStep

\* A lookup finds its key cached and fresh.
LEMMA LookupHitStep ==
    ASSUME IInv, NEW p \in Caller, Subject(p) \in Key, call[p].path # <<>>, LookupHit(p)
    PROVE  IInv'
<1> DEFINE r == [call[p] EXCEPT !.at = "return", !.got = cache[Subject(p)]]
<1>1. /\ call' = [call EXCEPT ![p] = r] /\ call[p].at = "lookup"
      /\ UNCHANGED <<version, cache, load, tick, floor, disturbances>>
      /\ cache[Subject(p)] # None
  BY DEF LookupHit, At, Hit
<1>2. cache[Subject(p)] \in 0..MaxVersion
  BY <1>1, VersionsTyped DEF IInv
<1>3. /\ r \in Locals /\ r.at = "return" /\ r.path = call[p].path
      /\ r.got = cache[Subject(p)] /\ r.promised = call[p].promised
  BY <1>2, CallTyped DEF IInv, Locals, Where
<1> HIDE DEF r
<1>4. WellFormed(r)
  BY <1>3 DEF WellFormed
<1>5. \A k \in Shared : r.promised[k] <= floor[k]
  BY <1>3 DEF IInv, OrderInv
<1>6. Head(r.path) = Subject(p)
  BY <1>3 DEF Subject
<1>7. ASSUME Subject(p) \in Shared
      PROVE  r.got >= r.promised[Subject(p)]
  <2>1. cache[Subject(p)] >= floor[Subject(p)] /\ r.promised[Subject(p)] <= floor[Subject(p)]
    BY <1>1, <1>5, <1>7 DEF IInv, MetadataFresh
  <2>2. r.promised[Subject(p)] \in Nat /\ floor[Subject(p)] \in Nat
    BY <1>3, <1>7, VersionsTyped DEF IInv
  <2>3. QED
    BY <1>2, <1>3, <2>1, <2>2, SMT
<1>8. p \notin Loaders /\ tick' \in [Token -> 0..MaxVersion \cup {None}]
      /\ disturbances' \in 0..MaxDisturbances
  BY <1>1 DEF Loaders, IInv, TypeOK
<1>9. QED
  BY <1>1, <1>3, <1>4, <1>5, <1>6, <1>7, <1>8, LocalStep

\* A lookup joins the load of another caller.
LEMMA LookupJoinStep ==
    ASSUME IInv, NEW p \in Caller, Subject(p) \in Key, call[p].path # <<>>, LookupJoin(p)
    PROVE  IInv'
<1> DEFINE where == IF call[load[Subject(p)]].current THEN "join" ELSE "await"
           r == [call[p] EXCEPT !.at = where]
<1>1. /\ call' = [call EXCEPT ![p] = r] /\ call[p].at = "lookup"
      /\ UNCHANGED <<version, cache, load, tick, floor, disturbances>>
      /\ load[Subject(p)] # NoCaller
  BY DEF LookupJoin, At
<1>2. where \in {"join", "await"}
  OBVIOUS
<1>3. load[Subject(p)] \in Caller
  BY <1>1 DEF IInv, TypeOK
<1>4. where = "join" => call[load[Subject(p)]].current = TRUE
  BY <1>3, CallTyped DEF IInv
<1> HIDE DEF where
<1>5. /\ r \in Locals /\ r.at = where /\ r.path = call[p].path
      /\ r.promised = call[p].promised
  BY <1>2, CallTyped DEF IInv, Locals, Where
<1> HIDE DEF r
<1>6. WellFormed(r)
  BY <1>2, <1>5 DEF WellFormed
<1>7. \A k \in Shared : r.promised[k] <= floor[k]
  BY <1>5 DEF IInv, OrderInv
<1>8. Head(r.path) = Subject(p)
  BY <1>5 DEF Subject
<1>9. p \notin Loaders /\ tick' \in [Token -> 0..MaxVersion \cup {None}]
      /\ disturbances' \in 0..MaxDisturbances
  BY <1>1 DEF Loaders, IInv, TypeOK
<1>10. QED
  BY <1>1, <1>2, <1>4, <1>5, <1>6, <1>7, <1>8, <1>9, LocalStep

\* A resolution returns what it looked up, or goes on with its next key.
LEMMA ReturnStep ==
    ASSUME IInv, NEW p \in Caller, call[p].path # <<>>, Return(p)
    PROVE  IInv'
<1>1. /\ call[p].at = "return" /\ p \notin Loaders
      /\ UNCHANGED <<version, cache, load, tick, floor, disturbances>>
      /\ tick' \in [Token -> 0..MaxVersion \cup {None}] /\ disturbances' \in 0..MaxDisturbances
  BY DEF Return, At, Loaders, IInv, TypeOK
<1>2. CASE Tail(call[p].path) = <<>>
  <2>1. call' = [call EXCEPT ![p] = Idle]
    BY <1>2 DEF Return
  <2>2. QED
    BY <1>1, <2>1, IdleStep
<1>3. CASE Tail(call[p].path) # <<>>
  <2> DEFINE rest == Tail(call[p].path)
             r == [call[p] EXCEPT !.at = "lookup", !.path = rest, !.got = 0]
  <2>1. call' = [call EXCEPT ![p] = r]
    BY <1>3 DEF Return
  <2>2. rest \in Seq(Key) /\ rest # <<>>
    BY <1>3, CallTyped, PathFacts DEF IInv
  <2> HIDE DEF rest
  <2>3. /\ r \in Locals /\ r.at = "lookup" /\ r.path = rest
        /\ r.promised = call[p].promised
    <3>1. 0 \in 0..MaxVersion
      BY BoundAssumption, SMT
    <3>2. QED
      BY <2>2, <3>1, CallTyped DEF IInv, Locals, Where
  <2> HIDE DEF r
  <2>4. WellFormed(r)
    BY <2>2, <2>3 DEF WellFormed
  <2>5. \A k \in Shared : r.promised[k] <= floor[k]
    BY <2>3 DEF IInv, OrderInv
  <2>6. QED
    BY <1>1, <2>1, <2>3, <2>4, <2>5, LocalStep
<1>4. QED
  BY <1>2, <1>3

\* resolveTickSize looks into the tick-size cache.
LEMMA TickReadStep ==
    ASSUME IInv, NEW p \in Caller, NEW t \in Token, resolveTickSize(p, t)
    PROVE  IInv'
<1> DEFINE r == [Idle EXCEPT !.at = "tickFetch", !.path = <<t>>, !.current = TRUE]
<1>1. <<t>> \in Seq(Key) /\ <<t>> # <<>> /\ Head(<<t>>) = t
  BY SMT DEF Key
<1>2. /\ r \in Locals /\ r.at = "tickFetch" /\ r.path = <<t>>
      /\ r.promised = Idle.promised
  BY <1>1, IdleTyped DEF Idle, Locals, Where
<1>3. /\ call' = [call EXCEPT ![p] = r] /\ call[p].at = "idle"
      /\ UNCHANGED <<version, cache, load, tick, floor, disturbances>>
  BY DEF resolveTickSize, At
<1> HIDE DEF r
<1>4. WellFormed(r)
  BY <1>1, <1>2 DEF WellFormed
<1>5. \A k \in Shared : r.promised[k] <= floor[k]
  BY <1>2, IdleTyped, VersionsTyped, SMT DEF IInv, Key
<1>6. p \notin Loaders /\ tick' \in [Token -> 0..MaxVersion \cup {None}]
      /\ disturbances' \in 0..MaxDisturbances
  BY <1>3 DEF Loaders, IInv, TypeOK
<1>7. QED
  BY <1>2, <1>3, <1>4, <1>5, <1>6, LocalStep

\* resolveTickSize asks the server.
LEMMA TickFetchStep ==
    ASSUME IInv, NEW p \in Caller, TickFetch(p)
    PROVE  IInv'
<1> DEFINE r == [call[p] EXCEPT !.at = "tickStore", !.got = version]
<1>1. /\ call[p].at = "tickFetch" /\ p \notin Loaders
      /\ UNCHANGED <<version, cache, load, tick, floor, disturbances>>
      /\ tick' \in [Token -> 0..MaxVersion \cup {None}] /\ disturbances' \in 0..MaxDisturbances
  BY DEF TickFetch, At, Loaders, IInv, TypeOK
<1>2. CASE call' = [call EXCEPT ![p] = Idle]
  BY <1>1, <1>2, IdleStep
<1>3. CASE call' = [call EXCEPT ![p] = r]
  <2>1. version \in 0..MaxVersion
    BY DEF IInv, TypeOK
  <2>2. /\ r \in Locals /\ r.at = "tickStore" /\ r.path = call[p].path
        /\ r.got = version /\ r.promised = call[p].promised
    BY <2>1, CallTyped DEF IInv, Locals, Where
  <2>3. call[p].path # <<>> /\ Head(call[p].path) \in Token
    BY <1>1 DEF IInv, PathInv, WellFormed
  <2>4. call' = [call EXCEPT ![p] = r]
    BY <1>3
  <2> HIDE DEF r
  <2>5. WellFormed(r)
    BY <2>2, <2>3 DEF WellFormed
  <2>6. \A k \in Shared : r.promised[k] <= floor[k]
    BY <2>2 DEF IInv, OrderInv
  <2>7. QED
    BY <1>1, <2>2, <2>4, <2>5, <2>6, LocalStep
<1>4. QED
  BY <1>2, <1>3 DEF TickFetch

\* resolveTickSize stores the answer unless the tick sizes were cleared meanwhile.
LEMMA TickStoreStep ==
    ASSUME IInv, NEW p \in Caller, TickStore(p)
    PROVE  IInv'
<1>1. /\ call[p].at = "tickStore" /\ p \notin Loaders /\ call' = [call EXCEPT ![p] = Idle]
      /\ UNCHANGED <<version, cache, load, floor, disturbances>>
  BY DEF TickStore, At, Loaders
<1>2. Subject(p) \in Token
  BY <1>1 DEF IInv, PathInv, WellFormed, Subject
<1>3. tick' \in [Token -> 0..MaxVersion \cup {None}]
  BY <1>2, CallTyped DEF TickStore, IInv, TypeOK
<1>4. QED
  BY <1>1, <1>3, IdleStep

\* The context of a caller that waits for a load ends.
LEMMA AbandonStep ==
    ASSUME IInv, NEW p \in Caller, Abandon(p)
    PROVE  IInv'
<1>1. /\ call[p].at \in {"join", "await"} /\ p \notin Loaders
      /\ call' = [call EXCEPT ![p] = Idle]
      /\ UNCHANGED <<version, cache, load, floor, disturbances>>
      /\ tick' \in [Token -> 0..MaxVersion \cup {None}]
  BY DEF Abandon, Loaders, IInv, TypeOK
<1>2. QED
  BY <1>1, IdleStep

-----------------------------------------------------------------------------
(* Loads                                                                   *)

\* A step of a loader that stays one on the same key, or becomes one: nobody else
\* changes and a fetched value is the server's.
LEMMA LoaderStep ==
    ASSUME IInv, NEW p \in Caller, NEW r \in Locals, NEW k \in Key,
           call' = [call EXCEPT ![p] = r],
           load' = [load EXCEPT ![k] = p],
           UNCHANGED <<version, cache, tick, floor>>,
           disturbances' \in 0..MaxDisturbances,
           Subject(p) = k, call[p].path # <<>>, r.path = call[p].path,
           r.promised = call[p].promised,
           r.at \in {"fetch", "store"},
           \/ load[k] = NoCaller /\ p \notin Loaders
           \/ load[k] = p,
           r.at = "store" /\ r.outcome = "ok" /\ k \in Shared => r.got = version
    PROVE  IInv'
<1>1. /\ call \in [Caller -> Locals] /\ call'[p] = r
      /\ \A q \in Caller : q # p => call'[q] = call[q]
  BY DEF IInv, TypeOK
<1>2. /\ load \in [Key -> Caller \cup {NoCaller}] /\ load'[k] = p
      /\ \A j \in Key : j # k => load'[j] = load[j]
  BY DEF IInv, TypeOK
<1>3. /\ \A q \in Caller : Subject(q)' = Subject(q)
      /\ \A j \in Key : Subject(load[j])' = Head(call'[load'[j]].path)
  BY <1>1 DEF Subject
<1>4. Loaders' = Loaders \cup {p}
  BY <1>1 DEF Loaders
<1>5. TypeOK'
  BY DEF IInv, TypeOK
<1>6. PathInv'
  BY <1>1 DEF IInv, PathInv, WellFormed
<1>7. LoadInv'
  <2>1. ASSUME NEW q \in Loaders' PROVE load'[Subject(q)'] = q
    <3>1. CASE q = p
      BY <3>1, <1>2, <1>3
    <3>2. CASE q # p
      <4>1. q \in Loaders /\ q \in Caller /\ load[Subject(q)] = q
        BY <3>2, <1>4, <2>1 DEF IInv, LoadInv, Loaders
      <4>2. q # NoCaller /\ Subject(q) \in Key
        BY <4>1, NullAssumption, SubjectTyped DEF IInv, Loaders
      <4>3. Subject(q) # k
        BY <3>2, <4>1, <4>2
      <4>4. QED
        BY <1>2, <1>3, <4>1, <4>2, <4>3
    <3>3. QED
      BY <3>1, <3>2
  <2>2. ASSUME NEW j \in Key, load'[j] # NoCaller
        PROVE  load'[j] \in Loaders' /\ Subject(load[j])' = j
    <3>1. CASE j = k
      BY <3>1, <1>1, <1>2, <1>3, <1>4 DEF Subject
    <3>2. CASE j # k
      <4>1. load'[j] = load[j] /\ load[j] \in Loaders /\ Subject(load[j]) = j
        BY <3>2, <1>2, <2>2 DEF IInv, LoadInv
      <4>2. QED
        BY <4>1, <1>3, <1>4 DEF Loaders, Subject
    <3>3. QED
      BY <3>1, <3>2
  <2>3. QED
    BY <2>1, <2>2 DEF LoadInv
<1>8. WaitInv'
  <2> SUFFICES ASSUME NEW q \in Caller, call'[q].at \in {"join", "await"}
               PROVE  load'[Subject(q)'] # NoCaller
    BY DEF WaitInv
  <2>1. q # p /\ call'[q] = call[q]
    BY <1>1
  <2>2. Subject(q) \in Key /\ load[Subject(q)] # NoCaller
    BY <2>1, SubjectTyped DEF IInv, WaitInv
  <2>3. QED
    BY <1>2, <1>3, <2>2, NullAssumption
<1>9. ConditionInv' /\ MetadataFresh'
  BY DEF IInv, ConditionInv, MetadataFresh
<1>10. OrderInv'
  BY <1>1 DEF IInv, OrderInv, Clearing
<1>11. AnswersFresh'
  BY <1>1, <1>3 DEF IInv, AnswersFresh, At
<1>12. TickInv'
  BY <1>1, <1>3 DEF IInv, TickInv, At, Clearing
<1>13. LoadedInv'
  <2> SUFFICES ASSUME NEW l \in Caller, Answered(l)'
               PROVE  /\ call'[l].current => call'[l].got >= floor'[Subject(l)']
                      /\ call'[l].got >= call'[l].promised[Subject(l)']
                      /\ \A q \in Caller : At(q, "join")' /\ Subject(q)' = Subject(l)' =>
                             call'[l].got >= call'[q].promised[Subject(l)']
    BY DEF LoadedInv
  <2>1. \A q \in Caller : At(q, "join")' => At(q, "join") /\ call'[q] = call[q]
    BY <1>1 DEF At
  <2>2. CASE l # p
    BY <1>1, <1>3, <2>1, <2>2, SMT DEF IInv, LoadedInv, Answered
  <2>3. CASE l = p
    <3>1. r.at = "store" /\ r.outcome = "ok" /\ k \in Shared /\ r.got = version
      BY <1>1, <1>3, <2>3 DEF Answered
    <3>2. floor[k] <= version /\ \A q \in Caller : call[q].promised[k] <= floor[k]
      BY <3>1 DEF IInv, OrderInv
    <3>3. /\ version \in Nat /\ floor[k] \in Nat
          /\ \A q \in Caller : call[q].promised[k] \in Nat
      BY <3>1, VersionsTyped DEF IInv
    <3>4. \A q \in Caller : call[q].promised[k] <= version
      BY <3>2, <3>3, SMT
    <3>5. QED
      BY <1>1, <1>3, <2>1, <2>3, <3>1, <3>2, <3>4
  <2>4. QED
    BY <2>2, <2>3
<1>14. QED
  BY <1>5, <1>6, <1>7, <1>8, <1>9, <1>10, <1>11, <1>12, <1>13 DEF IInv

\* A lookup finds nothing and becomes the owner of a load.
LEMMA LookupLoadStep ==
    ASSUME IInv, NEW p \in Caller, Subject(p) \in Key, call[p].path # <<>>, LookupLoad(p)
    PROVE  IInv'
<1> DEFINE r == [call[p] EXCEPT !.at = "fetch", !.current = TRUE]
<1>1. /\ call' = [call EXCEPT ![p] = r] /\ call[p].at = "lookup"
      /\ load' = [load EXCEPT ![Subject(p)] = p] /\ load[Subject(p)] = NoCaller
      /\ UNCHANGED <<version, cache, tick, floor, disturbances>>
  BY DEF LookupLoad, At
<1>2. /\ r \in Locals /\ r.at = "fetch" /\ r.path = call[p].path
      /\ r.promised = call[p].promised
  BY CallTyped DEF IInv, Locals, Where
<1> HIDE DEF r
<1>3. p \notin Loaders /\ disturbances' \in 0..MaxDisturbances
  BY <1>1 DEF Loaders, IInv, TypeOK
<1>4. QED
  BY <1>1, <1>2, <1>3, LoaderStep

\* The owner of a load gets the server's answer.
LEMMA FetchStep ==
    ASSUME IInv, NEW p \in Caller, Subject(p) \in Key, call[p].path # <<>>, Fetch(p)
    PROVE  IInv'
<1>1. /\ call[p].at = "fetch" /\ UNCHANGED <<version, cache, load, tick, floor>>
  BY DEF Fetch, At
<1>2. load[Subject(p)] = p
  BY <1>1 DEF IInv, LoadInv, Loaders
<1>3. load' = [load EXCEPT ![Subject(p)] = p]
  BY <1>1, <1>2 DEF IInv, TypeOK
<1>4. disturbances' \in 0..MaxDisturbances
  BY BoundAssumption, SMT DEF Fetch, Disturb, IInv, TypeOK
<1>5. CASE call' = [call EXCEPT ![p] = [@ EXCEPT !.at = "store", !.got = Response(Subject(p))]]
  <2> DEFINE value == Response(Subject(p))
             r == [call[p] EXCEPT !.at = "store", !.got = value]
  <2>1. value \in 0..MaxVersion /\ (Subject(p) \in Shared => value = version)
    BY KeyAssumption, BoundAssumption, SMT DEF Response, IInv, TypeOK
  <2>2. call' = [call EXCEPT ![p] = r]
    BY <1>5
  <2> HIDE DEF value
  <2>3. /\ r \in Locals /\ r.at = "store" /\ r.path = call[p].path
        /\ r.got = value /\ r.promised = call[p].promised
    BY <2>1, CallTyped DEF IInv, Locals, Where
  <2> HIDE DEF r
  <2>4. QED
    BY <1>1, <1>2, <1>3, <1>4, <2>1, <2>2, <2>3, LoaderStep
<1>6. ASSUME NEW how \in {"failed", "cancelled"},
             call' = [call EXCEPT ![p] = [@ EXCEPT !.at = "store", !.outcome = how]]
      PROVE  IInv'
  <2> DEFINE r == [call[p] EXCEPT !.at = "store", !.outcome = how]
  <2>1. call' = [call EXCEPT ![p] = r]
    BY <1>6
  <2>2. /\ r \in Locals /\ r.at = "store" /\ r.path = call[p].path
        /\ r.outcome # "ok" /\ r.promised = call[p].promised
    BY CallTyped DEF IInv, Locals, Where
  <2> HIDE DEF r
  <2>3. QED
    BY <1>1, <1>2, <1>3, <1>4, <2>1, <2>2, LoaderStep
<1>7. QED
  BY <1>5, <1>6 DEF Fetch

\* Who is woken when p's load of k ends.
Roused(p, k) ==
    {q \in Caller : q = p \/ (call[q].at \in {"join", "await"} /\ Subject(q) = k)}

\* A caller whose locals stay as they are, except that its generation may pass.
Stays(q) ==
    /\ call'[q] \in Locals
    /\ call'[q].at = call[q].at /\ call'[q].path = call[q].path
    /\ call'[q].got = call[q].got /\ call'[q].outcome = call[q].outcome
    /\ call'[q].promised = call[q].promised
    /\ call'[q].current => call[q].current

\* A caller that loses its generation, or nothing, stays.
LEMMA StaysFacts ==
    ASSUME TypeOK, NEW q \in Caller,
           call'[q] = [call[q] EXCEPT !.current = FALSE] \/ call'[q] = call[q]
    PROVE  Stays(q)
<1>1. call[q] \in Locals
  BY CallTyped
<1>2. CASE call'[q] = call[q]
  BY <1>1, <1>2 DEF Stays
<1>3. CASE call'[q] = [call[q] EXCEPT !.current = FALSE]
  <2>1. /\ call'[q] \in Locals /\ call'[q].current = FALSE
        /\ call'[q].at = call[q].at /\ call'[q].path = call[q].path
        /\ call'[q].got = call[q].got /\ call'[q].outcome = call[q].outcome
        /\ call'[q].promised = call[q].promised
    BY <1>1, <1>3 DEF Locals
  <2>2. QED
    BY <2>1 DEF Stays
<1>4. QED
  BY <1>2, <1>3

\* What the end of a load does to each caller.
LEMMA WokenFacts ==
    ASSUME IInv, NEW p \in Caller, NEW k \in Key, NEW outdated,
           Subject(p) = k, call[p].path # <<>>, At(p, "store"),
           call' = Woken(p, k, outdated)
    PROVE  /\ call' \in [Caller -> Locals]
           /\ \A q \in Caller \ Roused(p, k) : Stays(q)
           /\ \A q \in Roused(p, k) :
                /\ call'[q].at \in {"return", "lookup", "idle"}
                /\ WellFormed(call'[q])
                /\ \A j \in Shared : call'[q].promised[j] <= floor[j]
                /\ call'[q].at = "return" =>
                     /\ q = p \/ At(q, "join")
                     /\ call[p].outcome = "ok" /\ call'[q].got = call[p].got
                     /\ call'[q].promised = call[q].promised
                     /\ Head(call'[q].path) = k
<1> DEFINE ended(q) ==
             CASE call[p].outcome = "ok" ->
                    [call[q] EXCEPT !.at = "return", !.got = call[p].got, !.current = FALSE]
               [] call[p].outcome = "failed" \/ q = p -> Idle
               [] OTHER -> [call[q] EXCEPT !.at = "lookup"]
           after(q) ==
             IF q = p \/ (At(q, "join") /\ Subject(q) = k) THEN ended(q)
             ELSE IF At(q, "await") /\ Subject(q) = k THEN [call[q] EXCEPT !.at = "lookup"]
             ELSE IF q \in outdated THEN [call[q] EXCEPT !.current = FALSE]
             ELSE call[q]
<1>1. call' = [q \in Caller |-> after(q)]
  BY DEF Woken
<1>2. \A q \in Caller : call'[q] = after(q)
  BY <1>1
<1>3. ASSUME NEW q \in Caller, q \in Roused(p, k)
      PROVE  /\ call'[q] \in Locals
             /\ call'[q].at \in {"return", "lookup", "idle"}
             /\ WellFormed(call'[q])
             /\ \A j \in Shared : call'[q].promised[j] <= floor[j]
             /\ call'[q].at = "return" =>
                  /\ q = p \/ At(q, "join")
                  /\ call[p].outcome = "ok" /\ call'[q].got = call[p].got
                  /\ call'[q].promised = call[q].promised
                  /\ Head(call'[q].path) = k
  <2>1. Subject(q) = k /\ call[q].path # <<>>
    BY <1>3 DEF Roused, IInv, PathInv, WellFormed
  <2>2. \A j \in Shared : call[q].promised[j] <= floor[j]
    BY DEF IInv, OrderInv
  <2>3. \/ /\ call'[q] = [call[q] EXCEPT !.at = "return", !.got = call[p].got, !.current = FALSE]
           /\ call[p].outcome = "ok" /\ (q = p \/ At(q, "join"))
        \/ call'[q] = Idle
        \/ call'[q] = [call[q] EXCEPT !.at = "lookup"]
    <3>1. ended(q) \in {[call[q] EXCEPT !.at = "return", !.got = call[p].got, !.current = FALSE],
                        Idle, [call[q] EXCEPT !.at = "lookup"]}
      BY CallTyped DEF IInv
    <3>2. call[p].outcome # "ok" => ended(q) \in {Idle, [call[q] EXCEPT !.at = "lookup"]}
      BY CallTyped DEF IInv
    <3> HIDE DEF ended
    <3>3. call'[q] = after(q)
      BY <1>2
    <3>4. CASE q = p \/ At(q, "join")
      <4>1. call'[q] = ended(q)
        BY <2>1, <3>3, <3>4
      <4>2. QED
        BY <3>1, <3>2, <3>4, <4>1
    <3>5. CASE ~(q = p \/ At(q, "join"))
      BY <1>3, <2>1, <3>3, <3>5 DEF Roused, At
    <3>6. QED
      BY <3>4, <3>5
  <2>4. CASE call'[q] = Idle
    <3>1. \A j \in Shared : 0 <= floor[j]
      BY VersionsTyped, SMT DEF IInv, Key
    <3> HIDE DEF Idle
    <3>2. QED
      BY <2>4, <3>1, IdleTyped
  <2>5. CASE call'[q] = [call[q] EXCEPT !.at = "lookup"]
    <3>1. /\ call'[q] \in Locals /\ call'[q].at = "lookup"
          /\ call'[q].path = call[q].path /\ call'[q].promised = call[q].promised
      BY <2>5, CallTyped DEF IInv, Locals, Where
    <3>2. QED
      BY <2>1, <2>2, <3>1 DEF WellFormed
  <2>6. CASE /\ call'[q] = [call[q] EXCEPT !.at = "return", !.got = call[p].got, !.current = FALSE]
             /\ call[p].outcome = "ok" /\ (q = p \/ At(q, "join"))
    <3>1. call[p].got \in 0..MaxVersion
      BY CallTyped DEF IInv
    <3>2. /\ call'[q] \in Locals /\ call'[q].at = "return" /\ call'[q].got = call[p].got
          /\ call'[q].path = call[q].path /\ call'[q].promised = call[q].promised
      BY <2>6, <3>1, CallTyped DEF IInv, Locals, Where
    <3>3. QED
      BY <2>1, <2>2, <2>6, <3>2 DEF WellFormed, Subject
  <2>7. QED
    BY <2>3, <2>4, <2>5, <2>6
<1>4. ASSUME NEW q \in Caller, q \notin Roused(p, k)
      PROVE  Stays(q)
  <2>1. call'[q] \in {[call[q] EXCEPT !.current = FALSE], call[q]}
    BY <1>2, <1>4 DEF Roused, At
  <2>2. QED
    BY <2>1, StaysFacts DEF IInv
<1>5. call' \in [Caller -> Locals]
  BY <1>1, <1>3, <1>4 DEF Stays
<1>6. QED
  BY <1>3, <1>4, <1>5 DEF Roused

\* The end of a load, kept or not.
LEMMA StoreStep ==
    ASSUME IInv, NEW p \in Caller, Subject(p) \in Key, call[p].path # <<>>, Store(p)
    PROVE  IInv'
<1> DEFINE k == Subject(p)
           kept == call[p].outcome = "ok" /\ call[p].current
<1>1. /\ At(p, "store") /\ p \in Loaders
      /\ load' = [load EXCEPT ![k] = NoCaller] /\ UNCHANGED <<version, floor, disturbances>>
  BY DEF Store, At, Loaders
<1>2. PICK outdated : call' = Woken(p, k, outdated)
  BY DEF Store, Kept
<1>3. /\ kept =>
           /\ cache' = [j \in Key |-> IF j = k THEN call[p].got
                                      ELSE IF k = "market" /\ j \in Token THEN 0 ELSE cache[j]]
           /\ tick' = [t \in Token |-> IF k = "market" THEN call[p].got ELSE tick[t]]
      /\ ~kept => UNCHANGED <<cache, tick>>
  BY DEF Store, Kept
<1>4. load[k] = p /\ \A q \in Loaders : load[Subject(q)] = q
  BY <1>1 DEF IInv, LoadInv
<1>5. /\ k \in Key /\ load'[k] = NoCaller
      /\ \A j \in Key : j # k => load'[j] = load[j]
      /\ load' \in [Key -> Caller \cup {NoCaller}]
  BY <1>1 DEF IInv, TypeOK
<1>6. call[p].got \in 0..MaxVersion /\ 0 \in 0..MaxVersion /\ call[p].got \in Nat
  BY CallTyped, BoundAssumption, SMT DEF IInv
<1>7. /\ call' \in [Caller -> Locals]
      /\ \A q \in Caller \ Roused(p, k) : Stays(q)
      /\ \A q \in Roused(p, k) :
           /\ call'[q].at \in {"return", "lookup", "idle"}
           /\ WellFormed(call'[q])
           /\ \A j \in Shared : call'[q].promised[j] <= floor[j]
           /\ call'[q].at = "return" =>
                /\ q = p \/ At(q, "join")
                /\ call[p].outcome = "ok" /\ call'[q].got = call[p].got
                /\ call'[q].promised = call[q].promised
                /\ Head(call'[q].path) = k
  BY <1>1, <1>2, WokenFacts
<1> HIDE DEF k, kept
<1>8. \A q \in Caller : call'[q].at \notin {"return", "lookup", "idle"} =>
          q \notin Roused(p, k) /\ Stays(q) /\ Subject(q)' = Subject(q)
  BY <1>7 DEF Stays, Subject
<1>9. cache' \in [Key -> 0..MaxVersion \cup {None}] /\ tick' \in [Token -> 0..MaxVersion \cup {None}]
  <2>1. CASE kept
    BY <1>3, <1>6, <2>1 DEF IInv, TypeOK
  <2>2. CASE ~kept
    BY <1>3, <2>2 DEF IInv, TypeOK
  <2>3. QED
    BY <2>1, <2>2
<1>10. TypeOK'
  BY <1>1, <1>5, <1>7, <1>9 DEF IInv, TypeOK
<1>11. PathInv'
  <2> SUFFICES ASSUME NEW q \in Caller PROVE WellFormed(call'[q])
    BY DEF PathInv
  <2>1. CASE q \in Roused(p, k)
    BY <1>7, <2>1
  <2>2. CASE q \notin Roused(p, k)
    <3>1. WellFormed(call[q]) /\ Stays(q)
      BY <1>7, <2>2 DEF IInv, PathInv
    <3>2. QED
      BY <3>1 DEF WellFormed, Stays
  <2>3. QED
    BY <2>1, <2>2
<1>12. Loaders' = Loaders \ {p}
  BY <1>7 DEF Loaders, Roused, Stays
<1>13. LoadInv'
  <2>1. ASSUME NEW q \in Loaders' PROVE load'[Subject(q)'] = q
    <3>1. q \in Caller /\ q \in Loaders /\ q # p /\ Subject(q)' = Subject(q)
      BY <1>8, <1>12 DEF Loaders
    <3>2. Subject(q) \in Key /\ Subject(q) # k
      BY <1>4, <3>1, SubjectTyped DEF IInv, Loaders, k
    <3>3. QED
      BY <1>4, <1>5, <3>1, <3>2
  <2>2. ASSUME NEW j \in Key, load'[j] # NoCaller
        PROVE  load'[j] \in Loaders' /\ Head(call'[load'[j]].path) = j
    <3>1. j # k /\ load'[j] = load[j]
      BY <1>5, <2>2
    <3>2. load[j] \in Loaders /\ Subject(load[j]) = j
      BY <2>2, <3>1 DEF IInv, LoadInv
    <3>3. load[j] # p
      BY <3>1, <3>2 DEF k
    <3>4. load[j] \in Loaders' /\ Subject(load[j]) = Head(call'[load[j]].path)
      BY <1>8, <1>12, <3>2, <3>3 DEF Loaders, Subject
    <3>5. QED
      BY <3>1, <3>2, <3>4
  <2>3. QED
    BY <2>1, <2>2 DEF LoadInv, Subject
<1>14. WaitInv'
  <2> SUFFICES ASSUME NEW q \in Caller, call'[q].at \in {"join", "await"}
               PROVE  load'[Subject(q)'] # NoCaller
    BY DEF WaitInv
  <2>1. q \notin Roused(p, k) /\ call[q].at \in {"join", "await"} /\ Subject(q)' = Subject(q)
    BY <1>8 DEF Stays
  <2>2. Subject(q) \in Key /\ load[Subject(q)] # NoCaller /\ Subject(q) # k
    BY <2>1, SubjectTyped DEF IInv, WaitInv, Roused
  <2>3. QED
    BY <1>5, <2>1, <2>2
<1>15. ConditionInv'
  <2>1. CASE kept /\ k = "market"
    BY <1>3, <1>6, <2>1, NullAssumption, KeyAssumption, SMT DEF ConditionInv, Key, Shared
  <2>2. CASE kept /\ k # "market"
    BY <1>3, <1>6, <2>2, NullAssumption, KeyAssumption DEF IInv, ConditionInv, Key, Shared
  <2>3. CASE ~kept
    BY <1>3, <2>3 DEF IInv, ConditionInv
  <2>4. QED
    BY <2>1, <2>2, <2>3
<1>16. OrderInv'
  <2>1. \A q \in Caller, j \in Shared : call'[q].promised[j] <= floor'[j]
    BY <1>1, <1>7 DEF IInv, OrderInv, Stays
  <2>2. \A q \in Caller : Clearing(q)' => call'[q].got <= version'
    BY <1>1, <1>8 DEF IInv, OrderInv, Stays, Clearing
  <2>3. QED
    BY <1>1, <2>1, <2>2 DEF IInv, OrderInv
<1>17. LoadedInv'
  <2> SUFFICES ASSUME NEW l \in Caller, Answered(l)'
               PROVE  /\ call'[l].current => call'[l].got >= floor'[Subject(l)']
                      /\ call'[l].got >= call'[l].promised[Subject(l)']
                      /\ \A q \in Caller : At(q, "join")' /\ Subject(q)' = Subject(l)' =>
                             call'[l].got >= call'[q].promised[Subject(l)']
    BY DEF LoadedInv
  <2>1. Stays(l) /\ Subject(l)' = Subject(l) /\ Answered(l)
    BY <1>8 DEF Answered, Stays
  <2>2. \A q \in Caller : At(q, "join")' =>
            At(q, "join") /\ Subject(q)' = Subject(q) /\ call'[q].promised = call[q].promised
    BY <1>8 DEF At, Stays
  <2>3. QED
    BY <1>1, <2>1, <2>2 DEF IInv, LoadedInv, Stays
<1>18. TickInv'
  <2>1. \A q \in Caller : At(q, "tickStore")' /\ call'[q].current =>
            /\ At(q, "tickStore") /\ call[q].current
            /\ Subject(q)' = Subject(q) /\ call'[q].got = call[q].got
    BY <1>8 DEF At, Stays
  <2>2. \A q \in Caller : Clearing(q)' => Clearing(q) /\ call'[q].got = call[q].got
    BY <1>8 DEF Clearing, Stays
  <2>3. QED
    BY <1>1, <2>1, <2>2 DEF IInv, TickInv
<1>19. call[p].outcome = "ok" /\ k \in Shared => Answered(p)
  BY <1>1 DEF Answered, At, k
<1>20. MetadataFresh'
  <2>1. CASE kept
    <3>1. k \in Shared => call[p].got >= floor[k]
      BY <1>19, <2>1 DEF IInv, LoadedInv, k, kept
    <3>2. \A j \in Shared : j # k => cache'[j] = cache[j]
      BY <1>3, <2>1, KeyAssumption DEF Key
    <3>3. k \in Shared => cache'[k] = call[p].got
      BY <1>3, <2>1 DEF Key
    <3>4. QED
      BY <1>1, <3>1, <3>2, <3>3 DEF IInv, MetadataFresh
  <2>2. CASE ~kept
    BY <1>1, <1>3, <2>2 DEF IInv, MetadataFresh
  <2>3. QED
    BY <2>1, <2>2
<1>21. AnswersFresh'
  <2> SUFFICES ASSUME NEW q \in Caller, At(q, "return")', Subject(q)' \in Shared
               PROVE  call'[q].got >= call'[q].promised[Subject(q)']
    BY DEF AnswersFresh
  <2>1. CASE q \in Roused(p, k)
    <3>1. /\ q = p \/ At(q, "join")
          /\ call[p].outcome = "ok" /\ call'[q].got = call[p].got
          /\ call'[q].promised = call[q].promised /\ Subject(q)' = k
      BY <1>7, <2>1 DEF At, Subject
    <3>2. Answered(p) /\ Subject(q) = k
      BY <1>19, <2>1, <3>1 DEF Roused, k
    <3>3. QED
      BY <3>1, <3>2 DEF IInv, LoadedInv, k
  <2>2. CASE q \notin Roused(p, k)
    BY <1>7, <2>2 DEF IInv, AnswersFresh, Stays, At, Subject
  <2>3. QED
    BY <2>1, <2>2
<1>22. QED
  BY <1>10, <1>11, <1>13, <1>14, <1>15, <1>16, <1>17, <1>18, <1>20, <1>21 DEF IInv

-----------------------------------------------------------------------------
(* Invalidations                                                           *)

\* Everyone but p stays; those in S lose their generation.
LEMMA OutdatedFacts ==
    ASSUME IInv, NEW p \in Caller, NEW S, NEW r \in Locals,
           call' = [Outdated(S) EXCEPT ![p] = r]
    PROVE  /\ call' \in [Caller -> Locals] /\ call'[p] = r
           /\ \A q \in Caller : q # p => Stays(q) /\ Subject(q)' = Subject(q)
           /\ \A q \in Caller : q # p /\ q \in S => ~call'[q].current
<1>1. \A q \in Caller : [call[q] EXCEPT !.current = FALSE] \in Locals /\ call[q] \in Locals
  BY CallTyped DEF IInv, Locals
<1>2. Outdated(S) \in [Caller -> Locals]
  BY <1>1 DEF Outdated
<1>3. call' \in [Caller -> Locals] /\ call'[p] = r /\ \A q \in Caller : q # p => call'[q] = Outdated(S)[q]
  BY <1>2
<1>4. ASSUME NEW q \in Caller, q # p
      PROVE  /\ call'[q] \in {[call[q] EXCEPT !.current = FALSE], call[q]}
             /\ q \in S => call'[q] = [call[q] EXCEPT !.current = FALSE]
  BY <1>3, <1>4 DEF Outdated
<1>5. ASSUME NEW q \in Caller, q # p
      PROVE  Stays(q) /\ (q \in S => ~call'[q].current)
  <2>1. call'[q] \in {[call[q] EXCEPT !.current = FALSE], call[q]}
    BY <1>4, <1>5
  <2>2. Stays(q)
    BY <2>1, StaysFacts DEF IInv
  <2>3. [call[q] EXCEPT !.current = FALSE].current = FALSE
    BY CallTyped DEF IInv, Locals
  <2>4. q \in S => call'[q].current = FALSE
    BY <1>4, <1>5, <2>3
  <2>5. QED
    BY <2>2, <2>4
<1>6. QED
  BY <1>3, <1>5 DEF Stays, Subject

\* A caller outside any load begins or ends an invalidation.  What is left to show
\* of the other invariants depends on the section.
LEMMA SectionStep ==
    ASSUME IInv, NEW p \in Caller, NEW S, NEW r \in Locals,
           call' = [Outdated(S) EXCEPT ![p] = r],
           p \notin Loaders, r.at \in {"idle", "clear", "clearAll"}, WellFormed(r),
           \A k \in Shared : r.promised[k] = 0,
           UNCHANGED <<version, load>>,
           disturbances' \in 0..MaxDisturbances,
           tick' \in [Token -> 0..MaxVersion \cup {None}],
           cache' \in [Key -> 0..MaxVersion \cup {None}],
           floor' \in [Key -> 0..MaxVersion]
    PROVE  /\ TypeOK' /\ PathInv' /\ LoadInv' /\ WaitInv' /\ AnswersFresh'
           /\ \A l \in Caller : Answered(l)' =>
                /\ Answered(l) /\ Stays(l) /\ Subject(l)' = Subject(l)
                /\ call'[l].got >= call'[l].promised[Subject(l)']
                /\ \A q \in Caller : At(q, "join")' /\ Subject(q)' = Subject(l)' =>
                       call'[l].got >= call'[q].promised[Subject(l)']
<1>1. /\ call' \in [Caller -> Locals] /\ call'[p] = r
      /\ \A q \in Caller : q # p => Stays(q) /\ Subject(q)' = Subject(q)
  BY OutdatedFacts
<1>2. TypeOK'
  BY <1>1 DEF IInv, TypeOK
<1>3. PathInv'
  <2> SUFFICES ASSUME NEW q \in Caller PROVE WellFormed(call'[q])
    BY DEF PathInv
  <2>1. CASE q = p
    BY <1>1, <2>1
  <2>2. CASE q # p
    <3>1. WellFormed(call[q]) /\ Stays(q)
      BY <1>1, <2>2 DEF IInv, PathInv
    <3>2. QED
      BY <3>1 DEF WellFormed, Stays
  <2>3. QED
    BY <2>1, <2>2
<1>4. Loaders' = Loaders
  BY <1>1 DEF Loaders, Stays
<1>5. \A q \in Loaders : q \in Caller /\ q # p /\ Head(call'[q].path) = Subject(q)
  BY <1>1 DEF Loaders, Stays, Subject
<1>6. LoadInv'
  <2>1. ASSUME NEW q \in Loaders' PROVE load'[Subject(q)'] = q
    BY <1>4, <1>5, <2>1 DEF IInv, LoadInv, Subject
  <2>2. ASSUME NEW j \in Key, load'[j] # NoCaller
        PROVE  load'[j] \in Loaders' /\ Head(call'[load'[j]].path) = j
    BY <1>4, <1>5, <2>2 DEF IInv, LoadInv
  <2>3. QED
    BY <2>1, <2>2 DEF LoadInv, Subject
<1>7. WaitInv'
  <2> SUFFICES ASSUME NEW q \in Caller, call'[q].at \in {"join", "await"}
               PROVE  load'[Subject(q)'] # NoCaller
    BY DEF WaitInv
  <2>1. q # p
    BY <1>1
  <2>2. call[q].at \in {"join", "await"} /\ Subject(q)' = Subject(q)
    BY <1>1, <2>1 DEF Stays
  <2>3. load[Subject(q)] # NoCaller
    BY <2>2 DEF IInv, WaitInv
  <2>4. QED
    BY <2>2, <2>3
<1>8. AnswersFresh'
  <2> SUFFICES ASSUME NEW q \in Caller, At(q, "return")', Subject(q)' \in Shared
               PROVE  call'[q].got >= call'[q].promised[Subject(q)']
    BY DEF AnswersFresh
  <2>1. q # p
    BY <1>1 DEF At
  <2>2. /\ At(q, "return") /\ Subject(q)' = Subject(q)
        /\ call'[q].got = call[q].got /\ call'[q].promised = call[q].promised
    BY <1>1, <2>1 DEF Stays, At
  <2>3. call[q].got >= call[q].promised[Subject(q)]
    BY <2>2 DEF IInv, AnswersFresh
  <2>4. QED
    BY <2>2, <2>3
<1>9. ASSUME NEW l \in Caller, Answered(l)'
      PROVE  /\ Answered(l) /\ Stays(l) /\ Subject(l)' = Subject(l)
             /\ call'[l].got >= call'[l].promised[Subject(l)']
             /\ \A q \in Caller : At(q, "join")' /\ Subject(q)' = Subject(l)' =>
                    call'[l].got >= call'[q].promised[Subject(l)']
  <2>1. Answered(l) /\ Stays(l) /\ Subject(l)' = Subject(l)
    BY <1>1, <1>9 DEF Answered, Stays
  <2>2. \A q \in Caller : At(q, "join")' =>
            At(q, "join") /\ Subject(q)' = Subject(q) /\ call'[q].promised = call[q].promised
    BY <1>1 DEF At, Stays
  <2>3. /\ call[l].got >= call[l].promised[Subject(l)]
        /\ \A q \in Caller : At(q, "join") /\ Subject(q) = Subject(l) =>
               call[l].got >= call[q].promised[Subject(l)]
    BY <2>1 DEF IInv, LoadedInv
  <2>4. call'[l].got = call[l].got /\ call'[l].promised = call[l].promised
    BY <2>1 DEF Stays
  <2>5. call'[l].got >= call'[l].promised[Subject(l)']
    BY <2>1, <2>3, <2>4
  <2>6. ASSUME NEW q \in Caller, At(q, "join")', Subject(q)' = Subject(l)'
        PROVE  call'[l].got >= call'[q].promised[Subject(l)']
    <3>1. At(q, "join") /\ Subject(q) = Subject(l) /\ call'[q].promised = call[q].promised
      BY <2>1, <2>2, <2>6
    <3>2. call[l].got >= call[q].promised[Subject(l)]
      BY <2>3, <3>1
    <3>3. QED
      BY <2>1, <2>4, <3>1, <3>2
  <2>7. QED
    BY <2>1, <2>5, <2>6
<1>10. QED
  BY <1>2, <1>3, <1>6, <1>7, <1>8, <1>9

\* The section of an invalidation under tickSizeMu.
LEMMA ClearTicksStep ==
    ASSUME IInv, NEW p \in Caller, NEW tokens, NEW path \in Seq(Key),
           NEW next \in {"clear", "clearAll"},
           next = "clear" => path # <<>> /\ Head(path) \in Token,
           ClearTicks(p, tokens, path, next)
    PROVE  IInv'
<1> DEFINE r == [Idle EXCEPT !.at = next, !.path = path, !.got = version]
<1>1. version \in 0..MaxVersion
  BY DEF IInv, TypeOK
<1>2. /\ r \in Locals /\ r.at = next /\ r.path = path /\ r.got = version
      /\ r.promised = Idle.promised
  BY <1>1, IdleTyped DEF Idle, Locals, Where
<1>3. /\ call' = [Outdated(TickReaders) EXCEPT ![p] = r] /\ call[p].at = "idle"
      /\ tick' = [t \in Token |-> IF t \in tokens THEN None ELSE tick[t]]
      /\ disturbances' = disturbances + 1 /\ disturbances < MaxDisturbances
      /\ UNCHANGED <<version, cache, load, floor>>
  BY DEF ClearTicks, At, Disturb
<1> HIDE DEF r
<1>4. WellFormed(r)
  BY <1>2 DEF WellFormed
<1>5. \A k \in Shared : r.promised[k] = 0
  BY <1>2, IdleTyped
<1>6. /\ p \notin Loaders /\ tick' \in [Token -> 0..MaxVersion \cup {None}]
      /\ cache' \in [Key -> 0..MaxVersion \cup {None}] /\ floor' \in [Key -> 0..MaxVersion]
  BY <1>3 DEF Loaders, IInv, TypeOK
<1>7. disturbances' \in 0..MaxDisturbances
  BY <1>3, BoundAssumption, SMT DEF IInv, TypeOK
<1>8. /\ TypeOK' /\ PathInv' /\ LoadInv' /\ WaitInv' /\ AnswersFresh'
      /\ \A l \in Caller : Answered(l)' =>
           /\ Answered(l) /\ Stays(l) /\ Subject(l)' = Subject(l)
           /\ call'[l].got >= call'[l].promised[Subject(l)']
           /\ \A q \in Caller : At(q, "join")' /\ Subject(q)' = Subject(l)' =>
                  call'[l].got >= call'[q].promised[Subject(l)']
  BY <1>2, <1>3, <1>4, <1>5, <1>6, <1>7, SectionStep
<1>9. /\ call'[p] = r /\ \A q \in Caller : q # p => Stays(q)
      /\ \A q \in Caller : q # p /\ q \in TickReaders => ~call'[q].current
  BY <1>2, <1>3, OutdatedFacts
<1>10. ConditionInv' /\ MetadataFresh'
  BY <1>3 DEF IInv, ConditionInv, MetadataFresh
<1>11. OrderInv'
  <2>1. \A k \in Shared : 0 <= floor[k]
    BY VersionsTyped, SMT DEF IInv, Key
  <2>2. \A q \in Caller, k \in Shared : call'[q].promised[k] <= floor[k]
    <3> SUFFICES ASSUME NEW q \in Caller, NEW k \in Shared
                 PROVE  call'[q].promised[k] <= floor[k]
      OBVIOUS
    <3>1. CASE q = p
      BY <1>5, <1>9, <2>1, <3>1
    <3>2. CASE q # p
      <4>1. call'[q].promised = call[q].promised
        BY <1>9, <3>2 DEF Stays
      <4>2. call[q].promised[k] <= floor[k]
        BY DEF IInv, OrderInv
      <4>3. QED
        BY <4>1, <4>2
    <3>3. QED
      BY <3>1, <3>2
  <2>3. version <= version
    BY <1>1, SMT
  <2>4. \A q \in Caller : Clearing(q)' => call'[q].got <= version
    BY <1>2, <1>9, <2>3 DEF IInv, OrderInv, Stays, Clearing
  <2>5. QED
    BY <1>3, <2>2, <2>4 DEF IInv, OrderInv
<1>12. LoadedInv'
  BY <1>3, <1>8 DEF IInv, LoadedInv, Stays
<1>13. TickInv'
  BY <1>2, <1>9 DEF TickInv, At, TickReaders, Stays
<1>14. QED
  BY <1>8, <1>10, <1>11, <1>12, <1>13 DEF IInv

\* The second section of an invalidation: what it promises of a shared key it has
\* cleared or finds not cached.
LEMMA ClearKeysStep ==
    ASSUME IInv, NEW p \in Caller, NEW keys, NEW promise, Clearing(p),
           ClearKeys(p, keys, promise),
           \A k \in Shared : k \in promise /\ k \notin keys => cache[k] = None,
           "market" \in promise,
           \A t \in Token : t \in keys => "market" \in keys \/ cache["market"] = None
    PROVE  IInv'
<1>1. /\ call' = [Outdated(Loaders) EXCEPT ![p] = Idle]
      /\ cache' = [k \in Key |-> IF k \in keys THEN None ELSE cache[k]]
      /\ floor' = [k \in Key |-> IF k \in promise THEN Larger(floor[k], call[p].got) ELSE floor[k]]
      /\ UNCHANGED <<version, load, tick, disturbances>>
  BY DEF ClearKeys
<1>2. p \notin Loaders
  BY DEF Loaders, Clearing
<1>3. call[p].got \in 0..MaxVersion /\ call[p].got \in Nat /\ call[p].got <= version
  BY CallTyped DEF IInv, OrderInv
<1>4. \A k \in Key : Larger(floor[k], call[p].got) \in 0..MaxVersion
  BY <1>3 DEF Larger, IInv, TypeOK
<1>5. /\ floor' \in [Key -> 0..MaxVersion] /\ cache' \in [Key -> 0..MaxVersion \cup {None}]
      /\ tick' \in [Token -> 0..MaxVersion \cup {None}] /\ disturbances' \in 0..MaxDisturbances
  BY <1>1, <1>4 DEF IInv, TypeOK
<1>6. /\ TypeOK' /\ PathInv' /\ LoadInv' /\ WaitInv' /\ AnswersFresh'
      /\ \A l \in Caller : Answered(l)' =>
           /\ Answered(l) /\ Stays(l) /\ Subject(l)' = Subject(l)
           /\ call'[l].got >= call'[l].promised[Subject(l)']
           /\ \A q \in Caller : At(q, "join")' /\ Subject(q)' = Subject(l)' =>
                  call'[l].got >= call'[q].promised[Subject(l)']
  <2> HIDE DEF Idle
  <2>1. QED
    BY <1>1, <1>2, <1>5, IdleTyped, SectionStep
<1>7. /\ call'[p] = Idle /\ \A q \in Caller : q # p => Stays(q) /\ Subject(q)' = Subject(q)
      /\ \A q \in Caller : q # p /\ q \in Loaders => ~call'[q].current
  BY <1>1, IdleTyped, OutdatedFacts
<1>8. \A k \in Key : /\ floor[k] \in Nat /\ floor'[k] \in Nat
                     /\ floor[k] <= floor'[k]
                     /\ floor'[k] = floor[k] \/ floor'[k] = call[p].got
                     /\ k \in promise => call[p].got <= floor'[k]
  <2> SUFFICES ASSUME NEW k \in Key
               PROVE  /\ floor[k] \in Nat /\ floor'[k] \in Nat
                      /\ floor[k] <= floor'[k]
                      /\ floor'[k] = floor[k] \/ floor'[k] = call[p].got
                      /\ k \in promise => call[p].got <= floor'[k]
    OBVIOUS
  <2>1. floor[k] \in Nat
    BY VersionsTyped DEF IInv
  <2>2. floor'[k] = IF k \in promise THEN Larger(floor[k], call[p].got) ELSE floor[k]
    BY <1>1
  <2>3. QED
    BY <1>3, <2>1, <2>2, SMT DEF Larger
<1>9. ConditionInv'
  BY <1>1 DEF IInv, ConditionInv, Key, Shared
<1>10. MetadataFresh'
  <2> SUFFICES ASSUME NEW k \in Shared, cache'[k] # None
               PROVE  cache'[k] >= floor'[k]
    BY DEF MetadataFresh
  <2>1. k \in Key /\ k \notin keys /\ cache'[k] = cache[k]
    BY <1>1 DEF Key
  <2>2. floor'[k] = floor[k]
    BY <1>1, <2>1 DEF Key
  <2>3. QED
    BY <2>1, <2>2 DEF IInv, MetadataFresh
<1>11. OrderInv'
  <2>1. \A k \in Key : floor'[k] <= version'
    BY <1>1, <1>3, <1>8 DEF IInv, OrderInv
  <2>2. \A t \in Token : floor'[t] <= floor'["market"]
    <3> SUFFICES ASSUME NEW t \in Token PROVE floor'[t] <= floor'["market"]
      OBVIOUS
    <3>1. t \in Key /\ "market" \in Key /\ floor[t] <= floor["market"]
      BY DEF Key, Shared, IInv, OrderInv
    <3>2. /\ floor[t] \in Nat /\ floor["market"] \in Nat /\ floor'["market"] \in Nat
          /\ floor["market"] <= floor'["market"] /\ call[p].got <= floor'["market"]
          /\ floor'[t] = floor[t] \/ floor'[t] = call[p].got
      BY <1>8, <3>1
    <3>3. QED
      BY <1>3, <3>1, <3>2, SMT
  <2>3. \A q \in Caller, k \in Shared : call'[q].promised[k] <= floor'[k]
    <3> SUFFICES ASSUME NEW q \in Caller, NEW k \in Shared
                 PROVE  call'[q].promised[k] <= floor'[k]
      OBVIOUS
    <3>1. k \in Key /\ call[q].promised[k] <= floor[k] /\ call[q].promised[k] \in Nat
      BY VersionsTyped DEF IInv, OrderInv, Key
    <3>2. call[q].promised[k] <= floor'[k] /\ 0 <= floor'[k]
      BY <1>8, <3>1, SMT
    <3>3. call'[q].promised[k] \in {call[q].promised[k], 0}
      BY <1>7, IdleTyped DEF Stays
    <3>4. QED
      BY <3>2, <3>3
  <2>4. \A q \in Caller : Clearing(q)' => call'[q].got <= version'
    BY <1>1, <1>7, IdleTyped DEF IInv, OrderInv, Stays, Clearing
  <2>5. QED
    BY <2>1, <2>2, <2>3, <2>4 DEF OrderInv
<1>12. LoadedInv'
  <2>1. \A l \in Caller : Answered(l)' => ~call'[l].current
    BY <1>7, IdleTyped DEF Answered, Loaders, Stays
  <2>2. QED
    BY <1>6, <2>1 DEF LoadedInv
<1>13. TickInv'
  <2> SUFFICES ASSUME NEW l \in Caller, At(l, "tickStore")', call'[l].current
               PROVE  /\ call'[l].got >= floor'[Subject(l)']
                      /\ \A q \in Caller : Clearing(q)' => call'[l].got >= call'[q].got
    BY DEF TickInv
  <2>1. l # p /\ Stays(l) /\ Subject(l)' = Subject(l) /\ At(l, "tickStore") /\ call[l].current
    BY <1>7, IdleTyped DEF At, Stays
  <2>2. /\ call[l].got >= floor[Subject(l)]
        /\ \A q \in Caller : Clearing(q) => call[l].got >= call[q].got
    BY <2>1 DEF IInv, TickInv
  <2>3. Subject(l) \in Key
    BY <2>1, SubjectTyped DEF IInv, At
  <2>4. call[l].got >= floor'[Subject(l)]
    BY <1>8, <2>2, <2>3
  <2>5. \A q \in Caller : Clearing(q)' => Clearing(q) /\ call'[q].got = call[q].got
    BY <1>7, IdleTyped DEF Clearing, Stays
  <2>6. QED
    BY <2>1, <2>2, <2>4, <2>5 DEF Stays
<1>14. QED
  BY <1>6, <1>9, <1>10, <1>11, <1>12, <1>13 DEF IInv

-----------------------------------------------------------------------------
(* The theorems                                                            *)

\* A cached value passes its time to live.
LEMMA ExpireStep ==
    ASSUME IInv, NEW k \in Shared, Expire(k)
    PROVE  IInv'
<1>1. /\ UNCHANGED <<version, load, tick, call, floor, disturbances>>
      /\ cache' = [cache EXCEPT ![k] = None] /\ k \in Key
      /\ cache \in [Key -> 0..MaxVersion \cup {None}]
  BY DEF Expire, Key, IInv, TypeOK
<1>2. Loaders' = Loaders /\ \A q \in Caller : Subject(q)' = Subject(q)
  BY <1>1 DEF Loaders, Subject
<1>3. TypeOK'
  BY <1>1 DEF IInv, TypeOK
<1>4. PathInv' /\ OrderInv' /\ WaitInv'
  BY <1>1, <1>2 DEF IInv, PathInv, WellFormed, OrderInv, WaitInv, Clearing
<1>5. LoadInv'
  BY <1>1 DEF IInv, LoadInv, Subject, Loaders
<1>6. LoadedInv' /\ TickInv' /\ AnswersFresh'
  BY <1>1 DEF IInv, LoadedInv, TickInv, AnswersFresh, Answered, At, Clearing, Subject
<1>7. ConditionInv'
  BY <1>1, KeyAssumption DEF IInv, ConditionInv, Key, Shared
<1>8. MetadataFresh'
  BY <1>1 DEF IInv, MetadataFresh, Key
<1>9. QED
  BY <1>3, <1>4, <1>5, <1>6, <1>7, <1>8 DEF IInv

\* The market or the builder fee changes on the server.
LEMMA ServerChangesStep ==
    ASSUME IInv, ServerChanges
    PROVE  IInv'
<1>1. /\ UNCHANGED <<cache, load, tick, call, floor, disturbances>>
      /\ version' = version + 1 /\ version < MaxVersion
  BY DEF ServerChanges
<1>2. TypeOK'
  BY <1>1, BoundAssumption, SMT DEF IInv, TypeOK
<1>3. PathInv' /\ LoadInv' /\ WaitInv' /\ ConditionInv' /\ MetadataFresh'
  BY <1>1 DEF IInv, PathInv, WellFormed, LoadInv, WaitInv, ConditionInv, MetadataFresh,
              Subject, Loaders
<1>4. LoadedInv' /\ TickInv' /\ AnswersFresh'
  BY <1>1 DEF IInv, LoadedInv, TickInv, AnswersFresh, Answered, At, Clearing, Subject
<1>5. OrderInv'
  BY <1>1, VersionsTyped, SMT DEF IInv, OrderInv, Clearing
<1>6. QED
  BY <1>2, <1>3, <1>4, <1>5 DEF IInv

\* A step of a lookup (condition, market or builder fee).
LEMMA ResolveStep ==
    ASSUME IInv, NEW p \in Caller, NEW keys \in SUBSET Key, Resolve(p, keys)
    PROVE  IInv'
<1>1. Subject(p) \in Key /\ call[p].path # <<>>
  BY DEF Resolve
<1>2. QED
  BY <1>1, LookupHitStep, LookupJoinStep, LookupLoadStep, FetchStep, StoreStep, ReturnStep
     DEF Resolve

\* An invalidation by token or of everything, section by section.
LEMMA InvalidateStep ==
    ASSUME IInv, NEW p \in Caller,
           \/ \E t \in Token : ClearTickSizeCache(p, t)
           \/ InvalidateCaches(p) \/ clearOrderMetadata(p) \/ clearAllOrderMetadata(p)
    PROVE  IInv'
<1>1. ASSUME NEW t \in Token, ClearTickSizeCache(p, t) PROVE IInv'
  <2>1. <<t>> \in Seq(Key) /\ <<t>> # <<>> /\ Head(<<t>>) = t
    BY SMT DEF Key
  <2>2. QED
    BY <1>1, <2>1, ClearTicksStep DEF ClearTickSizeCache
<1>2. CASE InvalidateCaches(p)
  <2>1. <<>> \in Seq(Key)
    BY SMT
  <2>2. QED
    BY <1>2, <2>1, ClearTicksStep DEF InvalidateCaches
<1>3. CASE clearOrderMetadata(p)
  <2> DEFINE t == Subject(p)
             keys == {t} \cup (IF cache[t] # None THEN {"market"} ELSE {})
             promise == {t, "market"}
  <2>1. Clearing(p) /\ ClearKeys(p, keys, promise) /\ t \in Token
    BY <1>3 DEF clearOrderMetadata, Clearing, At, IInv, PathInv, WellFormed, Subject
  <2>2. cache[t] = None => cache["market"] = None
    BY <2>1 DEF IInv, ConditionInv
  <2>3. \A k \in Shared : k \in promise /\ k \notin keys => cache[k] = None
    BY <2>1, <2>2, KeyAssumption
  <2>4. \A u \in Token : u \in keys => "market" \in keys \/ cache["market"] = None
    BY <2>2
  <2>5. "market" \in promise
    OBVIOUS
  <2> HIDE DEF keys, promise
  <2>6. QED
    BY <2>1, <2>3, <2>4, <2>5, ClearKeysStep
<1>4. CASE clearAllOrderMetadata(p)
  <2>1. Clearing(p) /\ ClearKeys(p, Key, Key)
    BY <1>4 DEF clearAllOrderMetadata, Clearing, At
  <2>2. "market" \in Key /\ \A k \in Shared : k \in Key
    BY DEF Key, Shared
  <2>3. QED
    BY <2>1, <2>2, ClearKeysStep
<1>5. QED
  BY <1>1, <1>2, <1>3, <1>4

\* Every step of the caches preserves the inductive invariant.
LEMMA NextStep == IInv /\ [Next]_vars => IInv'
<1> SUFFICES ASSUME IInv, [Next]_vars
             PROVE  IInv'
  OBVIOUS
<1>1. ASSUME NEW p \in Caller, Start(p) PROVE IInv'
  <2>1. ASSUME NEW t \in Token, NEW refresh \in BOOLEAN,
               resolveOrderMarketMetadata(p, t, refresh)
        PROVE  IInv'
    <3>1. <<t, "market">> \in Seq(Key) /\ <<t, "market">> # <<>>
      BY SMT DEF Key, Shared
    <3>2. QED
      BY <2>1, <3>1, CallStep DEF resolveOrderMarketMetadata
  <2>2. ASSUME NEW t \in Token, adjustOrderBuyAmount(p, t) PROVE IInv'
    <3>1. <<t, "market", "builder">> \in Seq(Key) /\ <<t, "market", "builder">> # <<>>
      BY SMT DEF Key, Shared
    <3>2. QED
      BY <2>2, <3>1, CallStep DEF adjustOrderBuyAmount
  <2>3. QED
    BY <1>1, <2>1, <2>2, TickReadStep, InvalidateStep DEF Start
<1>2. ASSUME NEW p \in Caller, Step(p) PROVE IInv'
  <2>1. Token \in SUBSET Key /\ {"market"} \in SUBSET Key /\ {"builder"} \in SUBSET Key
    BY DEF Key, Shared
  <2>2. QED
    BY <1>2, <2>1, ResolveStep, TickFetchStep, TickStoreStep, InvalidateStep
       DEF Step, resolveOrderCondition, resolveMarket, resolveBuilderFeeRateCached
<1>3. CASE UNCHANGED vars
  <2>1. UNCHANGED <<version, cache, load, tick, call, floor, disturbances>>
    BY <1>3 DEF vars
  <2>2. TypeOK' /\ PathInv' /\ WaitInv' /\ ConditionInv' /\ OrderInv' /\ MetadataFresh'
    BY <2>1 DEF IInv, TypeOK, PathInv, WellFormed, WaitInv, ConditionInv, OrderInv,
                MetadataFresh, Subject, Clearing
  <2>3. LoadInv' /\ LoadedInv' /\ TickInv' /\ AnswersFresh'
    BY <2>1 DEF IInv, LoadInv, LoadedInv, TickInv, AnswersFresh, Answered, At, Clearing,
                Subject, Loaders
  <2>4. QED
    BY <2>2, <2>3 DEF IInv
<1>4. QED
  BY <1>1, <1>2, <1>3, AbandonStep, ExpireStep, ServerChangesStep DEF Next

\* The initial state satisfies the inductive invariant.
LEMMA InitInv == Init => IInv
<1> SUFFICES ASSUME Init PROVE IInv
  OBVIOUS
<1> USE DEF Init
<1>1. \A p \in Caller : call[p] = Idle /\ call[p].at = "idle" /\ WellFormed(call[p])
  BY IdleTyped
<1>2. TypeOK
  BY IdleTyped, BoundAssumption, SMT DEF TypeOK
<1>3. Loaders = {}
  BY <1>1 DEF Loaders
<1>4. PathInv /\ LoadInv /\ WaitInv /\ ConditionInv
  BY <1>1, <1>3, NullAssumption DEF PathInv, LoadInv, WaitInv, ConditionInv, Key, Shared
<1>5. OrderInv
  BY <1>1, IdleTyped, SMT DEF OrderInv, Clearing, Key, Shared
<1>6. LoadedInv /\ TickInv /\ MetadataFresh /\ AnswersFresh
  BY <1>1 DEF LoadedInv, TickInv, MetadataFresh, AnswersFresh, Answered, At, Key
<1>7. QED
  BY <1>2, <1>4, <1>5, <1>6 DEF IInv

\* The caches, the loads table and every caller's locals stay in the inductive
\* invariant, whatever order lookups, server changes, expiry and invalidations come in.
THEOREM CacheInvariance == Spec => []IInv
BY InitInv, NextStep, PTL DEF Spec

\* Callers that look up the same key at the same time share one load
\* (orderConditionLoads, orderMetadataLoads, builderFeeLoads): never two at once, and
\* nobody waits for a load that is not going on, for any number of callers and tokens.
THEOREM LoadsAreShared == Spec => []LoadsShared
<1>1. IInv => LoadsShared
  <2> SUFFICES ASSUME IInv PROVE LoadsShared
    OBVIOUS
  <2>1. SingleFlight
    BY DEF IInv, LoadInv, SingleFlight
  <2>2. WaitersServed
    <3> SUFFICES ASSUME NEW p \in Caller, call[p].at \in {"join", "await"}
                 PROVE  \E q \in Loaders : q # p /\ Subject(q) = Subject(p) /\ load[Subject(p)] = q
      BY DEF WaitersServed
    <3>1. Subject(p) \in Key /\ load[Subject(p)] # NoCaller
      BY SubjectTyped DEF IInv, WaitInv
    <3>2. load[Subject(p)] \in Loaders /\ Subject(load[Subject(p)]) = Subject(p)
      BY <3>1 DEF IInv, LoadInv
    <3>3. load[Subject(p)] # p
      BY <3>2 DEF Loaders
    <3>4. QED
      BY <3>2, <3>3
  <2>3. QED
    BY <2>1, <2>2 DEF IInv, LoadsShared
<1>2. QED
  BY <1>1, CacheInvariance, PTL

\* Once ClearTickSizeCache or InvalidateCaches has returned, neither the metadata and
\* builder-fee caches nor the answer of a call begun afterwards hold what the server
\* said before, although loads begun earlier still end and wake their waiters.
THEOREM CachesStayFresh == Spec => []CachesFresh
<1>1. IInv => CachesFresh
  BY DEF IInv, CachesFresh
<1>2. QED
  BY <1>1, CacheInvariance, PTL

\* No read of a tick size and no metadata load puts back a tick size older than the
\* last invalidation that has returned.
THEOREM TicksStoredFresh == Spec => TickStoredFresh
<1> DEFINE Fresh == \A t \in Token : tick'[t] \notin {None, tick[t]} => tick'[t] >= floor[t]
<1>1. ASSUME IInv, [Next]_vars PROVE [Fresh]_vars
  <2>1. ASSUME NEW p \in Caller, TickStore(p) PROVE Fresh
    <3>1. call[p].at = "tickStore" /\ Subject(p) \in Token
      BY <1>1, <2>1 DEF TickStore, At, IInv, PathInv, WellFormed, Subject
    <3>2. call[p].current => call[p].got >= floor[Subject(p)]
      BY <1>1, <3>1 DEF IInv, TickInv, At
    <3>3. tick' = tick \/ (call[p].current /\ tick' = [tick EXCEPT ![Subject(p)] = call[p].got])
      BY <2>1 DEF TickStore
    <3>4. tick \in [Token -> 0..MaxVersion \cup {None}]
      BY <1>1 DEF IInv, TypeOK
    <3>5. QED
      BY <3>1, <3>2, <3>3, <3>4
  <2>2. ASSUME NEW p \in Caller, Store(p), call[p].path # <<>>, Subject(p) \in Key PROVE Fresh
    <3>1. CASE call[p].outcome = "ok" /\ call[p].current /\ Subject(p) = "market"
      <4>1. Answered(p)
        BY <2>2, <3>1 DEF Store, At, Answered, Shared
      <4>2. call[p].got >= floor["market"] /\ call[p].got \in Nat
        BY <1>1, <3>1, <4>1, CallTyped DEF IInv, LoadedInv
      <4>3. \A t \in Token : floor[t] <= floor["market"] /\ floor[t] \in Nat /\ floor["market"] \in Nat
        BY <1>1, VersionsTyped DEF IInv, OrderInv, Key, Shared
      <4>4. \A t \in Token : tick'[t] = call[p].got
        BY <2>2, <3>1 DEF Store, Kept
      <4>5. QED
        BY <4>2, <4>3, <4>4, SMT
    <3>2. CASE ~(call[p].outcome = "ok" /\ call[p].current /\ Subject(p) = "market")
      BY <1>1, <2>2, <3>2 DEF Store, Kept, IInv, TypeOK
    <3>3. QED
      BY <3>1, <3>2
  <2>3. ASSUME NEW p \in Caller, NEW tokens, NEW path, NEW next, ClearTicks(p, tokens, path, next)
        PROVE  Fresh
    BY <2>3 DEF ClearTicks
  <2>4. ASSUME UNCHANGED tick PROVE Fresh
    BY <2>4
  <2> HIDE DEF Fresh
  <2>5. ASSUME NEW p \in Caller, NEW keys \in SUBSET Key, Resolve(p, keys) PROVE Fresh
    <3>1. call[p].path # <<>> /\ Subject(p) \in Key
      BY <2>5 DEF Resolve
    <3>2. Store(p) \/ UNCHANGED tick
      BY <2>5 DEF Resolve, LookupHit, LookupJoin, LookupLoad, Fetch, Return
    <3>3. QED
      BY <2>2, <2>4, <3>1, <3>2
  <2>6. ASSUME NEW p \in Caller, Step(p) PROVE Fresh
    <3>1. Token \in SUBSET Key /\ {"market"} \in SUBSET Key /\ {"builder"} \in SUBSET Key
      BY DEF Key, Shared
    <3>2. TickFetch(p) \/ clearOrderMetadata(p) \/ clearAllOrderMetadata(p) => UNCHANGED tick
      BY DEF TickFetch, clearOrderMetadata, clearAllOrderMetadata, ClearKeys
    <3>3. QED
      BY <2>1, <2>4, <2>5, <2>6, <3>1, <3>2
         DEF Step, resolveOrderCondition, resolveMarket, resolveBuilderFeeRateCached
  <2>7. ASSUME NEW p \in Caller, Start(p) PROVE Fresh
    <3>1. ASSUME NEW t \in Token, ClearTickSizeCache(p, t) PROVE Fresh
      BY <2>3, <3>1 DEF ClearTickSizeCache
    <3>2. ASSUME InvalidateCaches(p) PROVE Fresh
      BY <2>3, <3>2 DEF InvalidateCaches
    <3>3. ASSUME NEW t \in Token,
                 \/ \E refresh \in BOOLEAN : resolveOrderMarketMetadata(p, t, refresh)
                 \/ adjustOrderBuyAmount(p, t) \/ resolveTickSize(p, t)
          PROVE  UNCHANGED tick
      BY <3>3 DEF resolveOrderMarketMetadata, adjustOrderBuyAmount, resolveTickSize, Call
    <3>4. QED
      BY <2>4, <2>7, <3>1, <3>2, <3>3 DEF Start
  <2>8. ServerChanges \/ (\E k \in Shared : Expire(k)) \/ (\E p \in Caller : Abandon(p))
          => UNCHANGED tick
    BY DEF ServerChanges, Expire, Abandon
  <2>9. QED
    BY <1>1, <2>4, <2>6, <2>7, <2>8 DEF Next
<1>2. QED
  BY <1>1, CacheInvariance, PTL DEF TickStoredFresh, Spec

-----------------------------------------------------------------------------
(*****************************************************************************)
(* OrderPosting: posting                                                     *)
(*****************************************************************************)

PostResults == {"none", "invalid", "accepted", "failed", "rejected", "mismatch"}

\* The shape of a call that posts, the server's version and its cache.
PostState ==
    [part : {"post"}, order : OrderKinds, via : {"create", "build"},
     pc : {"begin", "version", "store version", "after version", "create", "request", "send",
           "flight", "mismatch", "done"},
     server : Nat, cached : Nat, other : Nat, upgrades : Nat, version : Nat,
     then : {"", "before", "sign", "after"}, before : Nat, signed : Nat, posts : Nat, live : Nat,
     unknown : BOOLEAN, disturbed : BOOLEAN, result : PostResults]

\* The versions the server has had since the client cached one.
Seen(s) == (s.server - s.upgrades)..s.server
Resolving == {"version", "store version", "after version"}
Resolved == {"store version", "after version"}

\* Orders posted and taken, from the place of the call.
PostsInv(s) ==
    /\ s.pc # "done" => s.live = 0
    /\ s.live <= 1 /\ s.posts <= 2
    /\ s.pc = "begin" => s.posts = 0
    /\ s.pc \notin {"flight", "mismatch", "done"} => s.posts <= 1
    /\ s.pc \in {"flight", "mismatch"} => s.posts >= 1
    /\ s.pc \in Resolving /\ s.then = "before" => s.posts = 0
    /\ s.pc \in Resolving /\ s.then = "after" => s.posts = 1

\* Nobody knows another version than those.
VersionsInv(s) ==
    /\ s.upgrades < s.server
    /\ s.cached # 0 => s.cached \in Seen(s)
    /\ s.other # 0 => s.other \in Seen(s)
    /\ s.pc = "store version" => s.version \in Seen(s)

\* The call posts again what was refused; from then on, and once the version
\* before posting is the server's, whatever it reads is the server's version.
Second(s) == s.posts = 2 \/ (s.posts = 1 /\ s.pc \notin {"flight", "mismatch", "done"})
Fresh(s) == s.before = s.server \/ Second(s)

\* The call without an excuse for a mismatch.
Unexcused(s) ==
    s.via = "build" /\ ~s.order.position /\ ~s.unknown /\ ~s.disturbed /\ s.upgrades <= 1

ResolvedInv(s) ==
    /\ s.pc \in Resolved => s.version \in Seen(s) /\ (s.version = s.server => s.cached \in {0, s.server})
    /\ s.pc \in {"request", "send", "flight"} => s.signed \in Seen(s)
FreshInv(s) ==
    Fresh(s) => /\ s.cached \in {0, s.server}
                /\ s.pc \in Resolved => s.version = s.server
                /\ s.pc \in {"request", "send", "flight"} => s.signed = s.server
RefusedInv(s) ==
    /\ s.before <= s.server
    /\ Second(s) => s.upgrades = 1 /\ s.before # s.server
    /\ s.pc = "mismatch" => s.posts = 1 /\ s.upgrades = 1 /\ s.before # s.server
    /\ s.result # "mismatch"

PostInv(s) ==
    /\ s \in PostState /\ PostsInv(s) /\ VersionsInv(s)
    /\ Unexcused(s) => ResolvedInv(s) /\ FreshInv(s) /\ RefusedInv(s)

\* Small numbers, and the versions an interval holds.
LEMMA PostNumbers ==
    /\ 0 \in Nat /\ 1 \in Nat /\ 2 \in Nat /\ 1 # 0 /\ 2 # 1 /\ 0 <= 1 /\ 1 <= 1 /\ 1 <= 2 /\ 0 <= 2
    /\ 1 >= 1 /\ 2 >= 1 /\ ~(2 <= 1) /\ 0 + 1 = 1 /\ 1 + 1 = 2 /\ ~(0 >= 1)
    /\ \A n \in {0, 1} : n + 1 \in Nat /\ n + 1 <= 2 /\ n + 1 >= 1 /\ (n + 1 = 2 => n = 1)
    /\ \A n \in Nat : n <= 1 => n = 0 \/ n = 1
    /\ \A n \in Nat : n <= 2 /\ n >= 1 => n = 1 \/ n = 2
BY SMT
LEMMA VersionNumbers ==
    ASSUME NEW s \in PostState
    PROVE  /\ \A v \in Seen(s) : v <= s.server
           /\ s.server \in Seen(s)
           /\ s.upgrades < s.server => \A v \in Seen(s) : v # 0 /\ v \in Nat
           /\ s.upgrades <= 1 => \A v \in Seen(s) : v # s.server => s.upgrades = 1
<1>1. s.server \in Nat /\ s.upgrades \in Nat
  BY DEF PostState
<1>2. QED
  BY <1>1, SMT DEF Seen

\* A call that returns leaves the versions as they are.
LEMMA PostReturned ==
    ASSUME PostInv(st), NEW result \in PostResults, NEW live \in {0, 1},
           Unexcused(st) => result # "mismatch",
           st' = [st EXCEPT !.pc = "done", !.live = live, !.result = result]
    PROVE  PostInv(st')
<1>1. /\ st \in PostState /\ PostsInv(st) /\ VersionsInv(st)
      /\ Unexcused(st) => ResolvedInv(st) /\ FreshInv(st) /\ RefusedInv(st)
  BY DEF PostInv
<1>2. live \in Nat /\ live <= 1
  BY PostNumbers
<1>3. st' \in PostState
  BY <1>1, <1>2 DEF PostState
<1>4. /\ st'.order = st.order /\ st'.via = st.via /\ st'.pc = "done" /\ st'.server = st.server
      /\ st'.cached = st.cached /\ st'.other = st.other /\ st'.upgrades = st.upgrades
      /\ st'.before = st.before /\ st'.posts = st.posts /\ st'.live = live
      /\ st'.unknown = st.unknown /\ st'.disturbed = st.disturbed /\ st'.result = result
  BY <1>1 DEF PostState
<1>5. PostsInv(st') /\ VersionsInv(st')
  BY <1>1, <1>2, <1>4 DEF PostsInv, VersionsInv, Resolving, Seen
<1>6. Unexcused(st') => Unexcused(st)
  BY <1>4 DEF Unexcused
<1>7. Second(st') => Second(st)
  BY <1>4 DEF Second
<1>8. Unexcused(st') => ResolvedInv(st') /\ FreshInv(st') /\ RefusedInv(st')
  BY <1>1, <1>4, <1>6, <1>7 DEF ResolvedInv, FreshInv, RefusedInv, Fresh, Resolved
<1>9. QED
  BY <1>3, <1>5, <1>8 DEF PostInv

\* A call that goes on to a place where nothing is known yet.
LEMMA PostGoesOn ==
    ASSUME PostInv(st), NEW pc \in {"version", "create", "send", "after version"},
           NEW next \in {"", "before", "sign", "after"}, NEW known \in Nat,
           NEW before \in Nat, NEW cached \in {0, st.cached},
           st' = [st EXCEPT !.pc = pc, !.then = next, !.version = known, !.before = before,
                            !.cached = cached],
           st.pc \notin {"flight", "done"}, st.pc = "mismatch" => st.posts = 1 /\ cached = 0,
           pc \in Resolving /\ next = "before" => st.posts = 0,
           pc \in Resolving /\ next = "after" => st.posts = 1,
           pc = "send" => st.pc = "request",
           Unexcused(st) =>
              /\ pc # "after version"
              /\ before = st.before
                   \/ (st.pc = "after version" /\ before = st.version /\ st.posts = 0)
    PROVE  PostInv(st')
<1>1. /\ st \in PostState /\ PostsInv(st) /\ VersionsInv(st)
      /\ Unexcused(st) => ResolvedInv(st) /\ FreshInv(st) /\ RefusedInv(st)
      /\ st.posts \in Nat /\ st.server \in Nat /\ st.upgrades \in Nat /\ st.before \in Nat
      /\ st.version \in Nat /\ st.cached \in Nat
  BY DEF PostInv, PostState
<1>2. cached \in Nat
  BY <1>1, PostNumbers
<1>3. st' \in PostState
  BY <1>1, <1>2 DEF PostState
<1>4. /\ st'.order = st.order /\ st'.via = st.via /\ st'.pc = pc /\ st'.server = st.server
      /\ st'.cached = cached /\ st'.other = st.other /\ st'.upgrades = st.upgrades
      /\ st'.version = known /\ st'.then = next /\ st'.before = before
      /\ st'.signed = st.signed /\ st'.posts = st.posts /\ st'.live = st.live
      /\ st'.unknown = st.unknown /\ st'.disturbed = st.disturbed /\ st'.result = st.result
  BY <1>1 DEF PostState
<1>5. PostsInv(st') /\ VersionsInv(st')
  <2>1. st.posts <= 1 /\ st.posts <= 2 /\ st.live = 0
    BY <1>1, PostNumbers DEF PostsInv
  <2>2. PostsInv(st')
    BY <1>4, <2>1, PostNumbers DEF PostsInv, Resolving
  <2>3. VersionsInv(st')
    BY <1>1, <1>4 DEF VersionsInv, Seen
  <2>4. QED
    BY <2>2, <2>3
<1>6. ASSUME Unexcused(st')
      PROVE  ResolvedInv(st') /\ FreshInv(st') /\ RefusedInv(st')
  <2>1. /\ Unexcused(st) /\ ResolvedInv(st) /\ FreshInv(st) /\ RefusedInv(st)
        /\ pc # "after version"
    BY <1>1, <1>4, <1>6 DEF Unexcused
  <2>2. Seen(st') = Seen(st)
    BY <1>4 DEF Seen
  <2>3. ResolvedInv(st')
    BY <1>4, <2>1, <2>2 DEF ResolvedInv, Resolved
  <2>4. st.pc = "after version" => st.version <= st.server
    <3>1. st.pc = "after version" => st.version \in Seen(st)
      BY <2>1 DEF ResolvedInv, Resolved
    <3>2. QED
      BY <1>1, <3>1, VersionNumbers
  <2>5. before <= st.server
    BY <2>1, <2>4 DEF RefusedInv
  <2>6. Second(st') => st.posts = 1
    <3>1. st.posts = 2 => FALSE
      <4>1. st.posts <= 1 \/ st.posts = 1
        BY <1>1 DEF PostsInv
      <4>2. QED
        BY <4>1, PostNumbers
    <3>2. QED
      BY <1>4, <3>1 DEF Second
  <2>7. Second(st') => Second(st) \/ st.pc = "mismatch"
    BY <1>4, <2>6 DEF Second
  <2>8. Second(st') => before = st.before
    BY <2>1, <2>6, PostNumbers
  <2>9. RefusedInv(st')
    BY <1>4, <2>1, <2>5, <2>7, <2>8 DEF RefusedInv
  <2>10. FreshInv(st')
    <3>1. SUFFICES ASSUME Fresh(st')
                   PROVE  cached \in {0, st.server} /\ (pc = "send" => st.signed = st.server)
      BY <1>4, <2>1 DEF FreshInv, Resolved
    <3>2. CASE Fresh(st)
      BY <2>1, <3>2 DEF FreshInv
    <3>3. CASE ~Fresh(st)
      <4>1. pc # "send" \/ st.pc = "request"
        OBVIOUS
      <4>2. CASE Second(st')
        <5>1. st.pc = "mismatch"
          BY <2>7, <3>3, <4>2 DEF Fresh
        <5>2. QED
          BY <5>1
      <4>3. CASE before = st.server
        <5>1. st.pc = "after version" /\ st.version = st.server
          BY <2>1, <3>3, <4>3 DEF Fresh
        <5>2. QED
          BY <2>1, <5>1 DEF ResolvedInv, Resolved
      <4>4. QED
        BY <1>4, <3>1, <4>2, <4>3 DEF Fresh
    <3>4. QED
      BY <3>2, <3>3
  <2>11. QED
    BY <2>3, <2>9, <2>10
<1>7. QED
  BY <1>3, <1>5, <1>6 DEF PostInv

\* The beginning, the versions before and after, the checks of the order.
LEMMA PostPlainStep ==
    ASSUME PostInv(st),
           BeginPost \/ beforeVersion \/ createOrder \/ BuildPostOrderRequest \/ retryMismatch
              \/ afterVersion
    PROVE  PostInv(st')
<1>1. /\ st \in PostState /\ PostsInv(st) /\ st.then \in {"", "before", "sign", "after"}
      /\ Unexcused(st) => ResolvedInv(st) /\ FreshInv(st) /\ RefusedInv(st)
      /\ st.version \in Nat /\ st.before \in Nat /\ st.live \in Nat /\ st.cached \in Nat
  BY DEF PostInv, PostState
<1>2. ASSUME NEW result \in {"invalid", "mismatch"}, PostReturns(result),
             st.pc # "done", Unexcused(st) => result # "mismatch"
      PROVE  PostInv(st')
  <2>1. st.live = 0 /\ result \in PostResults
    BY <1>1, <1>2 DEF PostsInv, PostResults
  <2>2. st' = [st EXCEPT !.pc = "done", !.live = 0, !.result = result]
    BY <1>1, <1>2, <2>1 DEF PostReturns, PostState
  <2>3. QED
    BY <1>2, <2>1, <2>2, PostReturned
<1>3. ASSUME NEW pc \in {"create", "send"}, PostGoes(pc), pc = "send" => st.pc = "request",
             st.pc \notin {"flight", "done", "mismatch"}
      PROVE  PostInv(st')
  <2>1. st' = [st EXCEPT !.pc = pc, !.then = st.then, !.version = st.version,
                         !.before = st.before, !.cached = st.cached]
    BY <1>1, <1>3 DEF PostGoes, PostState
  <2>2. /\ pc \notin Resolving /\ pc # "after version" /\ st.cached \in {0, st.cached}
        /\ pc \in {"version", "create", "send", "after version"}
        /\ st.pc \notin {"flight", "done"} /\ st.pc # "mismatch"
    BY <1>3 DEF Resolving
  <2>3. QED
    BY <1>1, <1>3, <2>1, <2>2, PostGoesOn
<1>4. CASE BeginPost
  <2>1. st.pc = "begin" /\ st.posts = 0
    BY <1>1, <1>4 DEF BeginPost, PostAt, PostsInv
  <2>2. CASE st' = [st EXCEPT !.pc = IF st.order.position THEN "after version" ELSE "version",
                              !.then = "before", !.version = 0]
    <3> DEFINE pc == IF st.order.position THEN "after version" ELSE "version"
    <3>1. pc \in {"version", "after version"} /\ (Unexcused(st) => pc # "after version")
      BY DEF Unexcused
    <3>2. st' = [st EXCEPT !.pc = pc, !.then = "before", !.version = 0,
                           !.before = st.before, !.cached = st.cached]
      BY <1>1, <2>2 DEF PostState
    <3> HIDE DEF pc
    <3>3. QED
      BY <1>1, <2>1, <3>1, <3>2, PostGoesOn, PostNumbers
  <2>3. QED
    BY <1>2, <1>3, <1>4, <2>1, <2>2 DEF BeginPost
<1>5. CASE beforeVersion
  <2>1. st.pc = "after version" /\ st.posts = 0
    BY <1>1, <1>5 DEF beforeVersion, PostAt, PostsInv, Resolving
  <2>2. st' = [st EXCEPT !.pc = "create", !.then = st.then, !.version = st.version,
                         !.before = st.version, !.cached = st.cached]
    BY <1>1, <1>5 DEF beforeVersion, PostState
  <2>3. /\ "create" \notin Resolving /\ st.cached \in {0, st.cached}
        /\ "create" \in {"version", "create", "send", "after version"}
    BY DEF Resolving
  <2>4. QED
    BY <1>1, <2>1, <2>2, <2>3, PostGoesOn
<1>6. CASE createOrder
  <2>1. st.pc = "create"
    BY <1>6 DEF createOrder, PostAt
  <2>2. CASE st.order.position
             /\ st' = [st EXCEPT !.pc = "after version", !.then = "sign", !.version = 3]
    <3>1. st' = [st EXCEPT !.pc = "after version", !.then = "sign", !.version = 3,
                           !.before = st.before, !.cached = st.cached]
      BY <1>1, <2>2 DEF PostState
    <3>2. 3 \in Nat
      BY SMT
    <3>3. ~Unexcused(st)
      BY <2>2 DEF Unexcused
    <3>4. QED
      BY <1>1, <2>1, <3>1, <3>2, <3>3, PostGoesOn
  <2>3. CASE st' = [st EXCEPT !.pc = "version", !.then = "sign"]
    <3>1. st' = [st EXCEPT !.pc = "version", !.then = "sign", !.version = st.version,
                           !.before = st.before, !.cached = st.cached]
      BY <1>1, <2>3 DEF PostState
    <3>2. QED
      BY <1>1, <2>1, <3>1, PostGoesOn
  <2>4. QED
    BY <1>2, <1>6, <2>1, <2>2, <2>3 DEF createOrder
<1>7. CASE BuildPostOrderRequest
  <2>1. st.pc = "request"
    BY <1>7 DEF BuildPostOrderRequest, PostAt
  <2>2. QED
    BY <1>2, <1>3, <1>7, <2>1 DEF BuildPostOrderRequest
<1>8. CASE retryMismatch
  <2>1. st.pc = "mismatch"
    BY <1>8 DEF retryMismatch, PostAt
  <2>2. CASE st.via = "build" /\ st.posts = 1
    <3> DEFINE pc == IF st.order.position THEN "after version" ELSE "version"
    <3>1. pc \in {"version", "after version"} /\ (Unexcused(st) => pc # "after version")
      BY DEF Unexcused
    <3>2. st' = [st EXCEPT !.pc = pc, !.then = "after", !.version = 0,
                           !.before = st.before, !.cached = 0]
      <4>1. st' = [st EXCEPT !.pc = pc, !.then = "after", !.version = 0, !.cached = 0]
        BY <1>8, <2>2 DEF retryMismatch
      <4> HIDE DEF pc
      <4>2. QED
        BY <1>1, <4>1 DEF PostState
    <3> HIDE DEF pc
    <3>3. QED
      BY <1>1, <2>1, <2>2, <3>1, <3>2, PostGoesOn, PostNumbers
  <2>3. CASE ~(st.via = "build" /\ st.posts = 1)
    <3>1. ~Unexcused(st)
      BY <1>1, <2>1, <2>3 DEF Unexcused, RefusedInv
    <3>2. QED
      BY <1>2, <1>8, <2>1, <2>3, <3>1 DEF retryMismatch
  <2>4. QED
    BY <2>2, <2>3
<1>9. CASE afterVersion
  <2>1. st.pc = "after version" /\ st.posts = 1
    BY <1>1, <1>9 DEF afterVersion, PostAt, PostsInv, Resolving
  <2>2. CASE st.version # st.before
    BY <1>3, <1>9, <2>1, <2>2 DEF afterVersion
  <2>3. CASE st.version = st.before
    <3>1. Unexcused(st) => FALSE
      <4>1. Second(st)
        BY <2>1 DEF Second
      <4>2. QED
        BY <1>1, <2>1, <2>3, <4>1 DEF FreshInv, Fresh, RefusedInv, Resolved
    <3>2. QED
      BY <1>2, <1>9, <2>1, <2>3, <3>1 DEF afterVersion
  <2>4. QED
    BY <2>2, <2>3
<1>10. QED
  BY <1>4, <1>5, <1>6, <1>7, <1>8, <1>9

\* The version is resolved, from the cache or from the server, and stored.
LEMMA VersionStep ==
    ASSUME PostInv(st), versionCached \/ versionFetched \/ versionStored
    PROVE  PostInv(st')
<1>1. /\ st \in PostState /\ PostsInv(st) /\ VersionsInv(st)
      /\ Unexcused(st) => ResolvedInv(st) /\ FreshInv(st) /\ RefusedInv(st)
      /\ st.version \in Nat /\ st.server \in Nat /\ st.cached \in Nat
      /\ st.pc \in {"version", "store version"}
  BY DEF PostInv, PostState, versionCached, versionFetched, versionStored, PostAt
<1>2. /\ st.server \in Seen(st) /\ \A v \in Seen(st) : v # 0
  BY <1>1, VersionNumbers DEF VersionsInv
<1>3. PICK pc \in Resolved, known \in Nat, cached \in Nat, unknown \in BOOLEAN :
        /\ st' = [st EXCEPT !.pc = pc, !.version = known, !.cached = cached, !.unknown = unknown]
        /\ (st.pc = "version" /\ cached = st.cached)
              \/ (st.pc = "store version" /\ cached = st.version /\ known = st.version)
        /\ ~unknown => ~st.unknown /\ (st.pc = "version" =>
              IF st.cached # 0 THEN known = st.cached ELSE known = st.server)
        /\ pc = "store version" => known = st.server
  <2>1. st.unknown \in BOOLEAN /\ 0 \in Nat /\ "store version" \in Resolved /\ "after version" \in Resolved
    BY <1>1, PostNumbers DEF PostState, Resolved
  <2>2. CASE versionCached
    <3>1. st' = [st EXCEPT !.pc = "after version", !.version = st.cached, !.cached = st.cached,
                           !.unknown = st.unknown]
      BY <1>1, <2>2 DEF versionCached, PostState
    <3>2. st.pc = "version" /\ st.cached # 0
      BY <2>2 DEF versionCached, PostAt
    <3>3. QED
      BY <1>1, <2>1, <3>1, <3>2
  <2>3. CASE versionFetched
    <3>1. st.pc = "version" /\ st.cached = 0
      BY <2>3 DEF versionFetched, PostAt
    <3>2. CASE st' = [st EXCEPT !.pc = "store version", !.version = st.server]
      <4>1. st' = [st EXCEPT !.pc = "store version", !.version = st.server, !.cached = st.cached,
                             !.unknown = st.unknown]
        BY <1>1, <3>2 DEF PostState
      <4>2. QED
        BY <1>1, <2>1, <3>1, <4>1
    <3>3. CASE st' = [st EXCEPT !.pc = "after version", !.version = 0, !.unknown = TRUE]
      <4>1. st' = [st EXCEPT !.pc = "after version", !.version = 0, !.cached = st.cached,
                             !.unknown = TRUE]
        BY <1>1, <3>3 DEF PostState
      <4>2. QED
        BY <1>1, <2>1, <3>1, <4>1
    <3>4. QED
      BY <2>3, <3>2, <3>3 DEF versionFetched
  <2>4. CASE versionStored
    <3>1. st' = [st EXCEPT !.pc = "after version", !.version = st.version, !.cached = st.version,
                           !.unknown = st.unknown]
      BY <1>1, <2>4 DEF versionStored, PostState
    <3>2. st.pc = "store version"
      BY <2>4 DEF versionStored, PostAt
    <3>3. QED
      BY <1>1, <2>1, <3>1, <3>2
  <2>5. QED
    BY <2>2, <2>3, <2>4
<1>4. pc \in {"store version", "after version"}
  BY DEF Resolved
<1>5. st' \in PostState
  BY <1>1, <1>3, <1>4 DEF PostState
<1>6. /\ st'.order = st.order /\ st'.via = st.via /\ st'.pc = pc /\ st'.server = st.server
      /\ st'.cached = cached /\ st'.other = st.other /\ st'.upgrades = st.upgrades
      /\ st'.version = known /\ st'.then = st.then /\ st'.before = st.before
      /\ st'.posts = st.posts /\ st'.live = st.live
      /\ st'.unknown = unknown /\ st'.disturbed = st.disturbed /\ st'.result = st.result
  BY <1>1, <1>3 DEF PostState
<1>7. PostsInv(st')
  BY <1>1, <1>4, <1>6 DEF PostsInv, Resolving
<1>8. Seen(st') = Seen(st) /\ (Second(st') <=> Second(st)) /\ (Fresh(st') <=> Fresh(st))
  BY <1>1, <1>4, <1>6 DEF Seen, Second, Fresh
<1>9. VersionsInv(st')
  <2>1. cached # 0 => cached \in Seen(st)
    BY <1>1, <1>3 DEF VersionsInv
  <2>2. pc = "store version" => known \in Seen(st)
    BY <1>2, <1>3
  <2>3. QED
    BY <1>1, <1>6, <1>8, <2>1, <2>2 DEF VersionsInv
<1>10. ASSUME Unexcused(st')
       PROVE  ResolvedInv(st') /\ FreshInv(st') /\ RefusedInv(st')
  <2>1. /\ Unexcused(st) /\ ResolvedInv(st) /\ FreshInv(st) /\ RefusedInv(st) /\ ~unknown
    BY <1>1, <1>3, <1>6, <1>10 DEF Unexcused
  <2>2. known \in Seen(st)
    BY <1>1, <1>2, <1>3, <2>1 DEF VersionsInv
  <2>3. known = st.server => cached \in {0, st.server}
    BY <1>1, <1>3, <2>1
  <2>4. Fresh(st) => known = st.server
    <3>1. CASE st.pc = "version"
      BY <1>3, <2>1, <3>1 DEF FreshInv
    <3>2. CASE st.pc = "store version"
      BY <1>3, <2>1, <3>2 DEF FreshInv, Resolved
    <3>3. QED
      BY <1>1, <3>1, <3>2
  <2>5. ResolvedInv(st')
    BY <1>4, <1>6, <1>8, <2>2, <2>3 DEF ResolvedInv
  <2>6. FreshInv(st')
    BY <1>4, <1>6, <1>8, <2>3, <2>4 DEF FreshInv
  <2>7. RefusedInv(st')
    BY <1>4, <1>6, <1>8, <2>1 DEF RefusedInv
  <2>8. QED
    BY <2>5, <2>6, <2>7
<1>11. QED
  BY <1>5, <1>7, <1>9, <1>10 DEF PostInv

\* The order is signed for the version that was resolved.
LEMMA SignedStep == ASSUME PostInv(st), signOrder PROVE PostInv(st')
<1>1. /\ st \in PostState /\ PostsInv(st) /\ VersionsInv(st) /\ st.pc = "after version"
      /\ Unexcused(st) => ResolvedInv(st) /\ FreshInv(st) /\ RefusedInv(st)
      /\ st.version \in Nat /\ st.live = 0
  BY DEF PostInv, PostState, PostsInv, signOrder, PostAt
<1>2. CASE PostReturns("invalid")
  <2>1. st' = [st EXCEPT !.pc = "done", !.live = 0, !.result = "invalid"]
    BY <1>1, <1>2 DEF PostReturns, PostState
  <2>2. "invalid" \in PostResults
    BY DEF PostResults
  <2>3. QED
    BY <2>1, <2>2, PostReturned
<1>3. CASE st' = [st EXCEPT !.pc = "request", !.signed = st.version]
  <2>1. st' \in PostState
    BY <1>1, <1>3 DEF PostState
  <2>2. /\ st'.order = st.order /\ st'.via = st.via /\ st'.pc = "request" /\ st'.server = st.server
        /\ st'.cached = st.cached /\ st'.other = st.other /\ st'.upgrades = st.upgrades
        /\ st'.version = st.version /\ st'.then = st.then /\ st'.before = st.before
        /\ st'.signed = st.version /\ st'.posts = st.posts /\ st'.live = st.live
        /\ st'.unknown = st.unknown /\ st'.disturbed = st.disturbed /\ st'.result = st.result
    BY <1>1, <1>3 DEF PostState
  <2>3. PostsInv(st') /\ VersionsInv(st')
    BY <1>1, <2>2 DEF PostsInv, VersionsInv, Resolving, Seen
  <2>4. Seen(st') = Seen(st) /\ (Second(st') <=> Second(st)) /\ (Fresh(st') <=> Fresh(st))
    BY <1>1, <2>2 DEF Seen, Second, Fresh
  <2>5. ASSUME Unexcused(st')
        PROVE  ResolvedInv(st') /\ FreshInv(st') /\ RefusedInv(st')
    <3>1. ResolvedInv(st) /\ FreshInv(st) /\ RefusedInv(st)
      BY <1>1, <2>2, <2>5 DEF Unexcused
    <3>2. QED
      BY <1>1, <2>2, <2>4, <3>1 DEF ResolvedInv, FreshInv, RefusedInv, Resolved
  <2>6. QED
    BY <2>1, <2>3, <2>5 DEF PostInv
<1>4. QED
  BY <1>2, <1>3 DEF signOrder

\* The order is posted.
LEMMA PostOrderStep == ASSUME PostInv(st), postOrder PROVE PostInv(st')
<1>1. /\ st \in PostState /\ PostsInv(st) /\ VersionsInv(st) /\ st.pc = "send"
      /\ Unexcused(st) => ResolvedInv(st) /\ FreshInv(st) /\ RefusedInv(st)
      /\ st.posts \in {0, 1} /\ st' = [st EXCEPT !.pc = "flight", !.posts = st.posts + 1]
  <2>1. st \in PostState /\ PostsInv(st) /\ st.pc = "send"
    BY DEF PostInv, postOrder, PostAt
  <2>2. st.posts \in Nat /\ st.posts <= 1
    BY <2>1 DEF PostsInv, PostState
  <2>3. st' = [st EXCEPT !.pc = "flight", !.posts = st.posts + 1]
    BY <2>1 DEF postOrder, PostState
  <2>4. st.posts \in {0, 1}
    BY <2>2, PostNumbers
  <2>5. QED
    BY <2>1, <2>3, <2>4 DEF PostInv
<1>2. /\ st.posts + 1 \in Nat /\ st.posts + 1 <= 2 /\ st.posts + 1 >= 1
      /\ st.posts + 1 = 2 => st.posts = 1
  BY <1>1, PostNumbers
<1>3. st' \in PostState
  BY <1>1, <1>2 DEF PostState
<1>4. /\ st'.order = st.order /\ st'.via = st.via /\ st'.pc = "flight" /\ st'.server = st.server
      /\ st'.cached = st.cached /\ st'.other = st.other /\ st'.upgrades = st.upgrades
      /\ st'.version = st.version /\ st'.then = st.then /\ st'.before = st.before
      /\ st'.signed = st.signed /\ st'.posts = st.posts + 1 /\ st'.live = st.live
      /\ st'.unknown = st.unknown /\ st'.disturbed = st.disturbed /\ st'.result = st.result
  BY <1>1 DEF PostState
<1>5. PostsInv(st') /\ VersionsInv(st')
  BY <1>1, <1>2, <1>4 DEF PostsInv, VersionsInv, Resolving, Seen
<1>6. Seen(st') = Seen(st) /\ (Second(st') => Second(st)) /\ (Fresh(st') => Fresh(st))
  BY <1>1, <1>2, <1>4 DEF Seen, Second, Fresh
<1>7. ASSUME Unexcused(st')
      PROVE  ResolvedInv(st') /\ FreshInv(st') /\ RefusedInv(st')
  <2>1. ResolvedInv(st) /\ FreshInv(st) /\ RefusedInv(st)
    BY <1>1, <1>4, <1>7 DEF Unexcused
  <2>2. QED
    BY <1>1, <1>4, <1>6, <2>1 DEF ResolvedInv, FreshInv, RefusedInv, Resolved
<1>8. QED
  BY <1>3, <1>5, <1>7 DEF PostInv

\* The order is taken, refused, or refused for its version.
LEMMA AnsweredStep == ASSUME PostInv(st), answered PROVE PostInv(st')
<1>1. /\ st \in PostState /\ PostsInv(st) /\ VersionsInv(st) /\ st.pc = "flight"
      /\ Unexcused(st) => ResolvedInv(st) /\ FreshInv(st) /\ RefusedInv(st)
      /\ st.posts \in Nat /\ st.live = 0
  BY DEF PostInv, PostState, PostsInv, answered, PostAt
<1>2. ASSUME NEW result \in {"accepted", "failed", "rejected"}, NEW live \in {0, 1},
             st' = [st EXCEPT !.pc = "done", !.live = live, !.result = result]
      PROVE  PostInv(st')
  <2>1. result \in PostResults /\ result # "mismatch"
    BY DEF PostResults
  <2>2. QED
    BY <1>2, <2>1, PostReturned
<1>3. CASE st.signed = st.server \/ st.order.position
  <2>1. CASE \E result \in {"accepted", "failed"} :
               st' = [st EXCEPT !.pc = "done", !.live = @ + 1, !.result = result]
    <3>1. PICK result \in {"accepted", "failed"} :
             st' = [st EXCEPT !.pc = "done", !.live = @ + 1, !.result = result]
      BY <2>1
    <3>2. st' = [st EXCEPT !.pc = "done", !.live = 1, !.result = result]
      BY <1>1, <3>1, PostNumbers DEF PostState
    <3>3. QED
      BY <1>2, <3>2
  <2>2. CASE PostReturns("rejected")
    <3>1. st' = [st EXCEPT !.pc = "done", !.live = 0, !.result = "rejected"]
      BY <1>1, <2>2 DEF PostReturns, PostState
    <3>2. QED
      BY <1>2, <3>1
  <2>3. QED
    BY <1>3, <2>1, <2>2 DEF answered
<1>4. CASE ~(st.signed = st.server \/ st.order.position)
  <2>1. st' = [st EXCEPT !.pc = "mismatch", !.cached = 0]
    BY <1>4 DEF answered
  <2>2. st' \in PostState
    BY <1>1, <2>1, PostNumbers DEF PostState
  <2>3. /\ st'.order = st.order /\ st'.via = st.via /\ st'.pc = "mismatch" /\ st'.server = st.server
        /\ st'.cached = 0 /\ st'.other = st.other /\ st'.upgrades = st.upgrades
        /\ st'.version = st.version /\ st'.then = st.then /\ st'.before = st.before
        /\ st'.signed = st.signed /\ st'.posts = st.posts /\ st'.live = st.live
        /\ st'.unknown = st.unknown /\ st'.disturbed = st.disturbed /\ st'.result = st.result
    BY <1>1, <2>1 DEF PostState
  <2>4. PostsInv(st') /\ VersionsInv(st')
    BY <1>1, <2>3 DEF PostsInv, VersionsInv, Resolving, Seen
  <2>5. (Second(st') => Second(st))
    BY <1>1, <2>3 DEF Second
  <2>6. ASSUME Unexcused(st')
        PROVE  ResolvedInv(st') /\ FreshInv(st') /\ RefusedInv(st')
    <3>1. /\ ResolvedInv(st) /\ FreshInv(st) /\ RefusedInv(st) /\ st.upgrades <= 1
      BY <1>1, <2>3, <2>6 DEF Unexcused
    <3>2. ~Fresh(st)
      BY <1>1, <1>4, <3>1 DEF FreshInv
    <3>3. st.posts = 1 /\ st.before # st.server
      BY <1>1, <3>2, PostNumbers DEF Fresh, Second, PostsInv
    <3>4. st.upgrades = 1
      <4>1. st.signed \in Seen(st) /\ st.signed # st.server
        BY <1>1, <1>4, <3>1 DEF ResolvedInv
      <4>2. QED
        BY <1>1, <3>1, <4>1, VersionNumbers
    <3>5. ~Second(st') /\ ~Fresh(st')
      BY <2>3, <2>5, <3>2, <3>3 DEF Fresh
    <3>6. ResolvedInv(st') /\ FreshInv(st')
      BY <2>3, <3>5 DEF ResolvedInv, FreshInv, Resolved
    <3>7. RefusedInv(st')
      BY <2>3, <3>1, <3>3, <3>4, <3>5 DEF RefusedInv
    <3>8. QED
      BY <3>6, <3>7
  <2>7. QED
    BY <2>2, <2>4, <2>6 DEF PostInv
<1>5. QED
  BY <1>3, <1>4

\* What a change of the server's version does to the versions seen.
LEMMA UpgradedVersions ==
    ASSUME NEW s \in PostState, NEW t \in PostState,
           t.server = s.server + 1, t.upgrades = s.upgrades + 1, s.upgrades < s.server
    PROVE  /\ Seen(s) \subseteq Seen(t) /\ t.upgrades < t.server
           /\ \A v \in Seen(s) : v # t.server
           /\ \A v \in Nat : v <= s.server => v <= t.server /\ v # t.server
           /\ t.upgrades <= 1 => s.upgrades <= 1 /\ s.upgrades # 1
<1>1. s.server \in Nat /\ s.upgrades \in Nat /\ t.server \in Nat /\ t.upgrades \in Nat
  BY DEF PostState
<1>2. QED
  BY <1>1, SMT DEF Seen

\* The server moves to another version.
LEMMA UpgradeStep == ASSUME PostInv(st), Upgrade PROVE PostInv(st')
<1>1. /\ st \in PostState /\ PostsInv(st) /\ VersionsInv(st)
      /\ Unexcused(st) => ResolvedInv(st) /\ FreshInv(st) /\ RefusedInv(st)
      /\ st.server \in Nat /\ st.upgrades \in Nat /\ st.before \in Nat
      /\ st' = [st EXCEPT !.server = st.server + 1, !.upgrades = st.upgrades + 1]
  <2>1. st \in PostState
    BY DEF PostInv
  <2>2. st' = [st EXCEPT !.server = st.server + 1, !.upgrades = st.upgrades + 1]
    BY <2>1 DEF Upgrade, PostState
  <2>3. QED
    BY <2>1, <2>2 DEF PostInv, PostState
<1>2. st.server + 1 \in Nat /\ st.upgrades + 1 \in Nat
  <2>1. \A n \in Nat : n + 1 \in Nat
    BY SMT
  <2>2. QED
    BY <1>1, <2>1
<1>3. st' \in PostState
  BY <1>1, <1>2 DEF PostState
<1>4. /\ st'.order = st.order /\ st'.via = st.via /\ st'.pc = st.pc /\ st'.server = st.server + 1
      /\ st'.cached = st.cached /\ st'.other = st.other /\ st'.upgrades = st.upgrades + 1
      /\ st'.version = st.version /\ st'.then = st.then /\ st'.before = st.before
      /\ st'.signed = st.signed /\ st'.posts = st.posts /\ st'.live = st.live
      /\ st'.unknown = st.unknown /\ st'.disturbed = st.disturbed /\ st'.result = st.result
  BY <1>1 DEF PostState
<1>5. /\ Seen(st) \subseteq Seen(st') /\ st'.upgrades < st'.server
      /\ \A v \in Seen(st) : v # st'.server
      /\ \A v \in Nat : v <= st.server => v <= st'.server /\ v # st'.server
      /\ st'.upgrades <= 1 => st.upgrades <= 1 /\ st.upgrades # 1
  <2>1. st.upgrades < st.server
    BY <1>1 DEF VersionsInv
  <2>2. st \in PostState
    BY <1>1
  <2>3. st'.server = st.server + 1 /\ st'.upgrades = st.upgrades + 1
    BY <1>4
  <2>4. QED
    BY <1>3, <2>1, <2>2, <2>3, UpgradedVersions
<1>6. PostsInv(st') /\ VersionsInv(st')
  BY <1>1, <1>4, <1>5 DEF PostsInv, VersionsInv
<1>7. ASSUME Unexcused(st')
      PROVE  ResolvedInv(st') /\ FreshInv(st') /\ RefusedInv(st')
  <2>1. /\ ResolvedInv(st) /\ FreshInv(st) /\ RefusedInv(st) /\ st.upgrades # 1
    BY <1>1, <1>4, <1>5, <1>7 DEF Unexcused
  <2>2. ~Second(st')
    BY <1>4, <2>1 DEF Second, RefusedInv
  <2>3. st.before <= st'.server /\ st.before # st'.server
    BY <1>1, <1>5, <2>1 DEF RefusedInv
  <2>4. ~Fresh(st')
    BY <1>4, <2>2, <2>3 DEF Fresh
  <2>5. ResolvedInv(st')
    BY <1>4, <1>5, <2>1 DEF ResolvedInv
  <2>6. FreshInv(st') /\ RefusedInv(st')
    BY <1>4, <2>1, <2>2, <2>3, <2>4 DEF FreshInv, RefusedInv
  <2>7. QED
    BY <2>5, <2>6
<1>8. QED
  BY <1>3, <1>6, <1>7 DEF PostInv

\* Another goroutine of the client reads the version, stores it or clears it.
LEMMA OtherStep ==
    ASSUME PostInv(st), otherFetches \/ otherStores \/ otherInvalidates
    PROVE  PostInv(st')
<1>1. /\ st \in PostState /\ PostsInv(st) /\ VersionsInv(st)
      /\ Unexcused(st) => ResolvedInv(st) /\ FreshInv(st) /\ RefusedInv(st)
      /\ st.server \in Seen(st) /\ st.server \in Nat
  BY VersionNumbers DEF PostInv, PostState
<1>2. PICK cached \in {0, st.cached, st.other}, other \in {0, st.other, st.server},
           disturbed \in BOOLEAN :
        /\ st' = [st EXCEPT !.cached = cached, !.other = other, !.disturbed = disturbed]
        /\ ~disturbed => ~st.disturbed /\ cached \in {0, st.cached, st.server}
  <2>1. CASE otherFetches
    <3>1. /\ st' = [st EXCEPT !.cached = st.cached, !.other = st.server, !.disturbed = st.disturbed]
          /\ st.disturbed \in BOOLEAN
      BY <1>1, <2>1 DEF otherFetches, PostState
    <3>2. QED
      BY <3>1
  <2>2. CASE otherStores
    <3>1. st' = [st EXCEPT !.cached = st.other, !.other = 0,
                           !.disturbed = (st.disturbed \/ st.other # st.server)]
      BY <1>1, <2>2 DEF otherStores, PostState
    <3>2. (st.disturbed \/ st.other # st.server) \in BOOLEAN
      OBVIOUS
    <3>3. QED
      BY <3>1, <3>2
  <2>3. CASE otherInvalidates
    <3>1. /\ st' = [st EXCEPT !.cached = 0, !.other = st.other, !.disturbed = st.disturbed]
          /\ st.disturbed \in BOOLEAN
      BY <1>1, <2>3 DEF otherInvalidates, PostState
    <3>2. QED
      BY <3>1
  <2>4. QED
    BY <2>1, <2>2, <2>3
<1>3. cached \in Nat /\ other \in Nat
  BY <1>1, <1>2, PostNumbers DEF PostState
<1>4. st' \in PostState
  BY <1>1, <1>2, <1>3 DEF PostState
<1>5. /\ st'.order = st.order /\ st'.via = st.via /\ st'.pc = st.pc /\ st'.server = st.server
      /\ st'.cached = cached /\ st'.other = other /\ st'.upgrades = st.upgrades
      /\ st'.version = st.version /\ st'.then = st.then /\ st'.before = st.before
      /\ st'.signed = st.signed /\ st'.posts = st.posts /\ st'.live = st.live
      /\ st'.unknown = st.unknown /\ st'.disturbed = disturbed /\ st'.result = st.result
  BY <1>1, <1>2 DEF PostState
<1>6. Seen(st') = Seen(st) /\ (Second(st') <=> Second(st)) /\ (Fresh(st') <=> Fresh(st))
  BY <1>5 DEF Seen, Second, Fresh
<1>7. PostsInv(st')
  BY <1>1, <1>5 DEF PostsInv
<1>8. VersionsInv(st')
  BY <1>1, <1>2, <1>5, <1>6 DEF VersionsInv
<1>9. ASSUME Unexcused(st')
      PROVE  ResolvedInv(st') /\ FreshInv(st') /\ RefusedInv(st')
  <2>1. /\ ResolvedInv(st) /\ FreshInv(st) /\ RefusedInv(st)
        /\ cached \in {0, st.cached, st.server}
    BY <1>1, <1>2, <1>5, <1>9 DEF Unexcused
  <2>2. ResolvedInv(st')
    BY <1>5, <1>6, <2>1 DEF ResolvedInv
  <2>3. FreshInv(st')
    BY <1>5, <1>6, <2>1 DEF FreshInv
  <2>4. RefusedInv(st')
    BY <1>5, <1>6, <2>1 DEF RefusedInv
  <2>5. QED
    BY <2>2, <2>3, <2>4
<1>10. QED
  BY <1>4, <1>7, <1>8, <1>9 DEF PostInv

\* The versions a call may begin with.
LEMMA FirstVersions ==
    ASSUME NEW server \in 1..2, NEW cached \in 0..2, cached <= server
    PROVE  0 < server /\ (cached \notin {0, server} => cached = 1 /\ server = 2)
BY SMT

\* A call begins with nothing posted and at most one missed version.
LEMMA PostBegins == ASSUME PostInit PROVE PostInv(st)
<1>1. PICK order \in OrderKinds, via \in {"create", "build"}, server \in 1..2, cached \in 0..2 :
        /\ cached <= server
        /\ st = [part |-> "post", order |-> order, via |-> via, pc |-> "begin",
                 server |-> server, cached |-> cached, other |-> 0,
                 upgrades |-> IF cached \in {0, server} THEN 0 ELSE 1,
                 version |-> 0, then |-> "", before |-> 0, signed |-> 0, posts |-> 0,
                 live |-> 0, unknown |-> FALSE, disturbed |-> FALSE, result |-> "none"]
  BY DEF PostInit
<1>2. PICK upgrades \in {0, 1} :
        /\ upgrades = IF cached \in {0, server} THEN 0 ELSE 1
        /\ server \in Nat /\ cached \in Nat /\ upgrades < server /\ 0 <= server /\ server # 0
        /\ cached # 0 => cached \in (server - upgrades)..server
  <2>1. cached <= server
    BY <1>1
  <2>2. cached \notin {0, server} => cached = 1 /\ server = 2
    BY <2>1, FirstVersions
  <2>3. 0 < server /\ server \in Nat /\ cached \in Nat
    BY SMT
  <2>4. CASE cached \in {0, server}
    <3>1. cached # 0 => cached \in (server - 0)..server
      BY <2>3, <2>4, SMT
    <3>2. 0 <= server /\ server # 0
      BY <2>3, SMT
    <3>3. QED
      BY <2>3, <2>4, <3>1, <3>2
  <2>5. CASE cached \notin {0, server}
    <3>1. 1 \in (2 - 1)..2 /\ 1 < 2 /\ 0 <= 2 /\ 2 # 0
      BY SMT
    <3>2. QED
      BY <2>2, <2>3, <2>5, <3>1
  <2>6. QED
    BY <2>4, <2>5
<1>3. st = [part |-> "post", order |-> order, via |-> via, pc |-> "begin",
            server |-> server, cached |-> cached, other |-> 0, upgrades |-> upgrades,
            version |-> 0, then |-> "", before |-> 0, signed |-> 0, posts |-> 0,
            live |-> 0, unknown |-> FALSE, disturbed |-> FALSE, result |-> "none"]
  BY <1>1, <1>2
<1>4. "none" \in PostResults /\ upgrades \in Nat
  BY PostNumbers DEF PostResults
<1>5. st \in PostState
  BY <1>2, <1>3, <1>4, PostNumbers DEF PostState
<1>6. /\ st.pc = "begin" /\ st.server = server /\ st.cached = cached /\ st.other = 0
      /\ st.upgrades = upgrades /\ st.before = 0 /\ st.posts = 0 /\ st.live = 0
      /\ st.result = "none"
  BY <1>3
<1>7. PostsInv(st)
  BY <1>6, PostNumbers DEF PostsInv, Resolving
<1>8. VersionsInv(st)
  BY <1>2, <1>6 DEF VersionsInv, Seen
<1>9. ResolvedInv(st)
  BY <1>6 DEF ResolvedInv, Resolved
<1>10. ~Second(st)
  <2>1. 0 # 2 /\ 0 # 1
    BY SMT
  <2>2. QED
    BY <1>6, <2>1 DEF Second
<1>11. FreshInv(st) /\ RefusedInv(st)
  BY <1>2, <1>6, <1>10 DEF FreshInv, RefusedInv, Fresh, Resolved
<1>12. QED
  BY <1>5, <1>7, <1>8, <1>9, <1>11 DEF PostInv

(***************************************************************************)
(* BuildAndPostOrder and CreateAndPostOrder put at most one order on the   *)
(* book, and BuildAndPostOrder reports a mismatch only with an excuse,     *)
(* however often the server changes its version and whatever the other     *)
(* goroutines of the client read, store and clear.                         *)
(***************************************************************************)
THEOREM OrdersPostedOnce == PostSpec => []PostedOnce
<1>1. PostInit => PostInv(st)
  BY PostBegins
<1>2. PostInv(st) /\ [PostNext]_st => PostInv(st)'
  <2>1. SUFFICES ASSUME PostInv(st), [PostNext]_st PROVE PostInv(st')
    OBVIOUS
  <2>2. CASE UNCHANGED st
    BY <2>1, <2>2
  <2>3. CASE PostNext
    BY <2>1, <2>3, PostPlainStep, VersionStep, SignedStep, PostOrderStep, AnsweredStep, UpgradeStep,
       OtherStep DEF PostNext
  <2>4. QED
    BY <2>1, <2>2, <2>3
<1>3. PostInv(st) => PostedOnce
  <2>1. SUFFICES ASSUME PostInv(st) PROVE PostedOnce
    OBVIOUS
  <2>2. OneLiveOrder
    BY <2>1 DEF OneLiveOrder, PostInv, PostsInv
  <2>3. ASSUME st.result = "mismatch", st.via = "build", ~st.order.position,
               ~st.unknown, ~st.disturbed, ~(st.upgrades > 1)
        PROVE  FALSE
    <3>1. st.upgrades \in Nat
      BY <2>1 DEF PostInv, PostState
    <3>2. \A n \in Nat : ~(n > 1) => n <= 1
      BY SMT
    <3>3. Unexcused(st)
      BY <2>3, <3>1, <3>2 DEF Unexcused
    <3>4. QED
      BY <2>1, <2>3, <3>3 DEF PostInv, RefusedInv
  <2>4. UpgradeIsFollowed
    BY <2>3 DEF UpgradeIsFollowed
  <2>5. QED
    BY <2>2, <2>4 DEF PostedOnce
<1>4. QED
  BY <1>1, <1>2, <1>3, PTL DEF PostSpec

-----------------------------------------------------------------------------
(*****************************************************************************)
(* Requests                                                                  *)
(*****************************************************************************)

Outcomes == {"none", "ok", "unfit", "invalid", "rejected", "conflict", "limited", "limitedLong",
             "server", "local", "context"}

\* The shape of a call, its configuration and its headers.
RequestState ==
    [part : {"call"}, plan : Calls, op : Operations,
     pc : {"begin", "presign", "limit", "context", "headers", "stamp", "sign", "send", "flight",
           "backoff", "done"},
     limiter : BOOLEAN, serverTime : BOOLEAN, generation : {1, 2}, builder : BOOLEAN,
     hadBuilder : BOOLEAN, cancelled : BOOLEAN, attempt : Nat,
     headers : [key : Nat, secret : Nat, builder : BOOLEAN, stamp : Nat],
     sends : Nat, reply : Outcomes, result : Outcomes]

\* A request that is not repeated has been sent only from its flight on.
SendsInv(r) ==
    /\ r.pc \in {"begin", "presign"} => r.sends = 0 /\ r.reply = "none"
    /\ ~Repeatable(r.op) => /\ r.pc # "backoff" /\ r.sends <= 1
                            /\ r.pc \notin {"flight", "done"} => r.sends = 0

\* What an attempt has of its headers at each point.
HeadersInv(r) ==
    /\ r.hadBuilder => r.builder
    /\ r.op.auth = "builder" /\ r.hadBuilder /\ r.pc \notin {"begin", "presign", "done"} =>
          r.headers.builder
    /\ r.op.auth \in {"L2", "L2Builder"} /\ r.pc \in {"stamp", "sign", "send", "flight"} =>
          /\ r.headers.key # 0 /\ r.headers.key = r.headers.secret
          /\ r.hadBuilder => r.headers.builder
    /\ r.op.auth \in {"L1", "L2", "L2Builder"} /\ r.pc \in {"sign", "send", "flight"} =>
          r.headers.stamp = r.attempt

\* The attempts of the transport helpers.
AttemptsInv(r) ==
    /\ r.op.via = "clob" => r.attempt <= RetryMax + 1 /\ (r.pc = "backoff" => r.attempt <= RetryMax)
    /\ r.op.via = "read" => r.attempt <= 3 /\ (r.pc = "backoff" => r.attempt < 3)

\* What a failed call says.
GaveUpInv(r) ==
    r.pc = "done" /\ r.result # "ok" =>
        /\ r.result = "invalid" => r.sends = 0
        /\ r.result = "context" => r.cancelled
        /\ r.op.via = "clob" /\ Repeatable(r.op) /\ r.reply \in {"limited", "server"}
              /\ r.result # "context" => r.attempt = RetryMax + 1
        /\ r.op.via = "read" /\ r.result = "limited" => r.attempt = 3

RequestInv(r) ==
    r \in RequestState /\ SendsInv(r) /\ HeadersInv(r) /\ AttemptsInv(r) /\ GaveUpInv(r)

AttemptStarts == {"limit", "context", "headers"}

\* An attempt starts with the rate limit, the context or the headers.
LEMMA StartsAttempt == \A op : AttemptOf(op) \in AttemptStarts
BY SMT DEF AttemptOf, AttemptStarts

\* The second request of a call starts from nothing.
LEMMA SecondStep ==
    ASSUME RequestInv(st), st.plan.second # <<>>,
           st' = [st EXCEPT !.op = st.plan.second[1], !.pc = "begin", !.attempt = 1,
                            !.sends = 0, !.headers = NoHeaders, !.reply = "none"]
    PROVE  RequestInv(st')
<1>1. st \in RequestState /\ HeadersInv(st)
  BY DEF RequestInv
<1>2. st.plan.second[1] \in Operations
  BY <1>1 DEF RequestState, Operations
<1>3. /\ 0 \in Nat /\ 1 \in Nat /\ 0 <= 1 /\ 1 <= RetryMax + 1 /\ 1 <= 3
      /\ NoHeaders \in [key : Nat, secret : Nat, builder : BOOLEAN, stamp : Nat]
  BY RequestAssumption, SMT DEF NoHeaders
<1>4. st' \in RequestState
  BY <1>1, <1>2, <1>3 DEF RequestState, Outcomes
<1>5. /\ st'.pc = "begin" /\ st'.attempt = 1 /\ st'.sends = 0 /\ st'.reply = "none"
      /\ st'.hadBuilder = st.hadBuilder /\ st'.builder = st.builder
  BY <1>1, SMT DEF RequestState
<1>6. SendsInv(st') /\ AttemptsInv(st') /\ GaveUpInv(st')
  BY <1>3, <1>5 DEF SendsInv, AttemptsInv, GaveUpInv
<1>7. HeadersInv(st')
  BY <1>1, <1>5 DEF HeadersInv
<1>8. QED
  BY <1>4, <1>6, <1>7 DEF RequestInv

\* A failed attempt is repeated, followed by the second request, or the result.
LEMMA FailStep ==
    ASSUME RequestInv(st), st.pc \in {"headers", "stamp", "sign", "send", "flight"},
           NEW kind \in Outcomes \ {"none", "ok", "unfit", "invalid"},
           kind = "context" => st.cancelled, Fail(kind)
    PROVE  RequestInv(st')
<1>1. /\ st \in RequestState /\ SendsInv(st) /\ HeadersInv(st) /\ AttemptsInv(st)
      /\ st.attempt \in Nat /\ RetryMax \in Nat /\ st.op \in Operations
  BY RequestAssumption DEF RequestInv, RequestState
<1>2. CASE Repeats(kind) /\ st' = [st EXCEPT !.pc = "backoff", !.reply = kind]
  <2>1. Repeatable(st.op)
    <3>1. CASE st.op.via = "clob"
      BY <1>2, <3>1 DEF Repeats, withRetryRepeats
    <3>2. CASE st.op.via # "clob"
      <4>1. st.op.via = "read"
        BY <1>2, <3>2 DEF Repeats
      <4>2. QED
        BY <1>1, <4>1, RequestAssumption
    <3>3. QED
      BY <3>1, <3>2
  <2>2. st.op.via = "clob" => st.attempt <= RetryMax
    BY <1>2 DEF Repeats, withRetryRepeats
  <2>3. st.op.via = "read" => st.attempt < 3
    BY <1>2 DEF Repeats, getReadRepeats
  <2>4. st' \in RequestState
    BY <1>1, <1>2 DEF RequestState
  <2>5. /\ st'.pc = "backoff" /\ st'.op = st.op /\ st'.attempt = st.attempt
        /\ st'.hadBuilder = st.hadBuilder /\ st'.builder = st.builder /\ st'.headers = st.headers
    BY <1>1, <1>2, SMT DEF RequestState
  <2>6. SendsInv(st') /\ GaveUpInv(st')
    BY <2>1, <2>5 DEF SendsInv, GaveUpInv
  <2>7. HeadersInv(st')
    BY <1>1, <2>5 DEF HeadersInv
  <2>8. AttemptsInv(st')
    BY <1>1, <2>2, <2>3, <2>5 DEF AttemptsInv
  <2>9. QED
    BY <2>4, <2>6, <2>7, <2>8 DEF RequestInv
<1>3. CASE /\ st.plan.on = "conflict"
           /\ st' = [st EXCEPT !.op = st.plan.second[1], !.pc = "begin", !.attempt = 1,
                               !.sends = 0, !.headers = NoHeaders, !.reply = "none"]
  <2>1. st.plan.second # <<>>
    BY <1>1, <1>3, RequestAssumption DEF RequestState
  <2>2. QED
    BY <1>3, <2>1, SecondStep
<1>4. CASE ~Repeats(kind) /\ st' = [st EXCEPT !.pc = "done", !.result = kind, !.reply = kind]
  <2>1. st' \in RequestState
    BY <1>1, <1>4 DEF RequestState
  <2>2. /\ st'.pc = "done" /\ st'.op = st.op /\ st'.attempt = st.attempt /\ st'.sends = st.sends
        /\ st'.hadBuilder = st.hadBuilder /\ st'.builder = st.builder /\ st'.headers = st.headers
        /\ st'.result = kind /\ st'.reply = kind /\ st'.cancelled = st.cancelled
    BY <1>1, <1>4, SMT DEF RequestState
  <2>3. SendsInv(st') /\ HeadersInv(st') /\ AttemptsInv(st')
    BY <1>1, <2>2 DEF SendsInv, HeadersInv, AttemptsInv
  <2>4. st.op.via = "clob" /\ Repeatable(st.op) /\ kind \in {"limited", "server"} =>
            st.attempt = RetryMax + 1
    <3>1. SUFFICES ASSUME st.op.via = "clob", Repeatable(st.op), kind \in {"limited", "server"}
                   PROVE  st.attempt = RetryMax + 1
      OBVIOUS
    <3>2. ~(st.attempt <= RetryMax)
      BY <1>4, <3>1 DEF Repeats, withRetryRepeats
    <3>3. st.attempt <= RetryMax + 1
      BY <1>1, <3>1 DEF AttemptsInv
    <3>4. QED
      BY <1>1, <3>2, <3>3, SMT
  <2>5. st.op.via = "read" /\ kind = "limited" => st.attempt = 3
    <3>1. SUFFICES ASSUME st.op.via = "read", kind = "limited" PROVE st.attempt = 3
      OBVIOUS
    <3>2. ~(st.attempt < 3)
      BY <1>4, <3>1 DEF Repeats, getReadRepeats
    <3>3. st.attempt <= 3
      BY <1>1, <3>1 DEF AttemptsInv
    <3>4. QED
      BY <1>1, <3>2, <3>3, SMT
  <2>6. GaveUpInv(st')
    BY <2>2, <2>4, <2>5 DEF GaveUpInv
  <2>7. QED
    BY <2>1, <2>3, <2>6 DEF RequestInv
<1>5. QED
  BY <1>2, <1>3, <1>4 DEF Fail

\* A call that ends before an attempt: its arguments, its signer or its context.
LEMMA EndedStep ==
    ASSUME RequestInv(st), NEW result \in {"invalid", "local", "context"}, RequestEnds(result),
           result = "context" => st.cancelled,
           result # "context" => st.pc \in {"begin", "presign"}, st.pc \notin {"flight", "done"}
    PROVE  RequestInv(st')
<1>1. /\ st \in RequestState /\ SendsInv(st) /\ HeadersInv(st) /\ AttemptsInv(st)
      /\ st' = [st EXCEPT !.pc = "done", !.result = result]
  BY DEF RequestInv, RequestEnds
<1>2. st' \in RequestState
  BY <1>1 DEF RequestState, Outcomes
<1>3. /\ st'.pc = "done" /\ st'.op = st.op /\ st'.attempt = st.attempt /\ st'.sends = st.sends
      /\ st'.hadBuilder = st.hadBuilder /\ st'.builder = st.builder /\ st'.headers = st.headers
      /\ st'.result = result /\ st'.reply = st.reply /\ st'.cancelled = st.cancelled
  BY <1>1, SMT DEF RequestState
<1>4. SendsInv(st') /\ HeadersInv(st') /\ AttemptsInv(st')
  BY <1>1, <1>3 DEF SendsInv, HeadersInv, AttemptsInv
<1>5. GaveUpInv(st')
  BY <1>1, <1>3 DEF GaveUpInv, SendsInv
<1>6. QED
  BY <1>2, <1>4, <1>5 DEF RequestInv

\* The call reaches another place before its flight, with these headers.
LEMMA AdvanceStep ==
    ASSUME RequestInv(st),
           NEW pc \in {"presign", "limit", "context", "headers", "stamp", "sign", "send"},
           NEW headers \in [key : Nat, secret : Nat, builder : BOOLEAN, stamp : Nat],
           st' = [st EXCEPT !.pc = pc, !.headers = headers],
           st.pc \notin {"flight", "done", "backoff"}, pc = "presign" => st.pc = "begin",
           st.op.auth = "builder" /\ st.hadBuilder => pc = "presign" \/ headers.builder,
           st.op.auth \in {"L2", "L2Builder"} /\ pc \in {"stamp", "sign", "send"} =>
              /\ headers.key # 0 /\ headers.key = headers.secret
              /\ st.hadBuilder => headers.builder,
           st.op.auth \in {"L1", "L2", "L2Builder"} /\ pc \in {"sign", "send"} =>
              headers.stamp = st.attempt
    PROVE  RequestInv(st')
<1>1. st \in RequestState /\ SendsInv(st) /\ HeadersInv(st) /\ AttemptsInv(st)
  BY DEF RequestInv
<1>2. st' \in RequestState
  BY <1>1 DEF RequestState
<1>3. /\ st'.pc = pc /\ st'.op = st.op /\ st'.attempt = st.attempt /\ st'.sends = st.sends
      /\ st'.hadBuilder = st.hadBuilder /\ st'.builder = st.builder /\ st'.headers = headers
      /\ st'.reply = st.reply
  BY <1>1, SMT DEF RequestState
<1>4. SendsInv(st')
  BY <1>1, <1>3 DEF SendsInv
<1>5. HeadersInv(st')
  BY <1>1, <1>3 DEF HeadersInv
<1>6. AttemptsInv(st') /\ GaveUpInv(st')
  BY <1>1, <1>3 DEF AttemptsInv, GaveUpInv
<1>7. QED
  BY <1>2, <1>4, <1>5, <1>6 DEF RequestInv

\* A call whose headers stay.
LEMMA SameHeaders ==
    ASSUME st \in RequestState, NEW pc, st' = [st EXCEPT !.pc = pc]
    PROVE  /\ st' = [st EXCEPT !.pc = pc, !.headers = st.headers]
           /\ st.headers \in [key : Nat, secret : Nat, builder : BOOLEAN, stamp : Nat]
<1>1. st.headers \in [key : Nat, secret : Nat, builder : BOOLEAN, stamp : Nat]
  BY DEF RequestState
<1>2. st' = [st EXCEPT !.pc = pc, !.headers = st.headers]
  BY DEF RequestState
<1>3. QED
  BY <1>1, <1>2

\* The arguments.
LEMMA RequestBeginStep == ASSUME RequestInv(st), Begin PROVE RequestInv(st')
<1>1. st \in RequestState /\ st.pc = "begin"
  BY DEF RequestInv, Begin, RequestAt
<1>2. CASE RequestEnds("invalid")
  BY <1>1, <1>2, EndedStep
<1>3. CASE st' = [st EXCEPT !.pc = BeginOf(st.op)]
  <2> DEFINE pc == BeginOf(st.op)
  <2>1. pc \in {"presign", "limit", "context", "headers"} /\ (st.op.auth = "builder" => pc = "presign")
    BY StartsAttempt DEF BeginOf, SignedFirst, AttemptStarts
  <2> HIDE DEF pc
  <2>2. /\ st' = [st EXCEPT !.pc = pc, !.headers = st.headers]
        /\ st.headers \in [key : Nat, secret : Nat, builder : BOOLEAN, stamp : Nat]
    BY <1>1, <1>3, SameHeaders DEF pc
  <2>3. QED
    BY <1>1, <2>1, <2>2, AdvanceStep
<1>4. QED
  BY <1>2, <1>3 DEF Begin

\* Signing before the request.
LEMMA PreSignStep == ASSUME RequestInv(st), PreSign PROVE RequestInv(st')
<1>1. st \in RequestState /\ st.pc = "presign" /\ HeadersInv(st)
  BY DEF RequestInv, PreSign, RequestAt
<1>2. CASE RequestEnds("local")
  BY <1>1, <1>2, EndedStep
<1>3. CASE st' = [st EXCEPT !.pc = AttemptOf(st.op),
                            !.headers = [NoHeaders EXCEPT !.builder = st.builder]]
  <2> DEFINE pc == AttemptOf(st.op)
             headers == [NoHeaders EXCEPT !.builder = st.builder]
  <2>1. pc \in {"limit", "context", "headers"}
    BY StartsAttempt DEF AttemptStarts
  <2>2. headers = [key |-> 0, secret |-> 0, builder |-> st.builder, stamp |-> 0]
    BY SMT DEF NoHeaders
  <2>3. headers \in [key : Nat, secret : Nat, builder : BOOLEAN, stamp : Nat]
    <3>1. 0 \in Nat /\ st.builder \in BOOLEAN
      BY <1>1, SMT DEF RequestState
    <3>2. QED
      BY <2>2, <3>1
  <2>4. headers.builder = st.builder
    BY <2>2
  <2>5. st.hadBuilder => headers.builder
    BY <1>1, <2>4 DEF HeadersInv
  <2> HIDE DEF pc, headers
  <2>6. st' = [st EXCEPT !.pc = pc, !.headers = headers]
    BY <1>3 DEF pc, headers
  <2>7. QED
    BY <1>1, <2>1, <2>3, <2>5, <2>6, AdvanceStep
<1>4. QED
  BY <1>2, <1>3 DEF PreSign

\* The rate limiter and the context of a read.
LEMMA LimitStep == ASSUME RequestInv(st), waitRateLimit \/ readContext PROVE RequestInv(st')
<1>1. st \in RequestState /\ st.pc \in {"limit", "context"} /\ HeadersInv(st)
  BY DEF RequestInv, waitRateLimit, readContext, RequestAt
<1>2. CASE st.cancelled /\ RequestEnds("context")
  BY <1>1, <1>2, EndedStep
<1>3. CASE st' = [st EXCEPT !.pc = "headers"]
  <2>1. /\ st' = [st EXCEPT !.pc = "headers", !.headers = st.headers]
        /\ st.headers \in [key : Nat, secret : Nat, builder : BOOLEAN, stamp : Nat]
    BY <1>1, <1>3, SameHeaders
  <2>2. st.op.auth = "builder" /\ st.hadBuilder => st.headers.builder
    BY <1>1 DEF HeadersInv
  <2>3. QED
    BY <1>1, <2>1, <2>2, AdvanceStep
<1>4. QED
  BY <1>2, <1>3 DEF waitRateLimit, readContext

\* A level 2 attempt takes one snapshot of the credentials and the builder.
LEMMA HeadersStep == ASSUME RequestInv(st), addAuthHeaders PROVE RequestInv(st')
<1> DEFINE unsigned == st.op.auth \in {"none", "builder", "command", "owner", "secret"}
                           \/ st.op.on = "public"
           headers == [key |-> st.generation, secret |-> st.generation,
                       builder |-> st.builder, stamp |-> 0]
<1>1. /\ st \in RequestState /\ st.pc = "headers" /\ HeadersInv(st) /\ st.op \in Operations
      /\ st.generation \in {1, 2} /\ st.builder \in BOOLEAN
  BY DEF RequestInv, addAuthHeaders, RequestAt, RequestState
<1>2. CASE unsigned
  <2>1. st.op.auth \notin {"L1", "L2", "L2Builder"}
    BY <1>1, <1>2, RequestAssumption
  <2>2. st' = [st EXCEPT !.pc = "send"]
    BY <1>2, <2>1 DEF addAuthHeaders
  <2>3. /\ st' = [st EXCEPT !.pc = "send", !.headers = st.headers]
        /\ st.headers \in [key : Nat, secret : Nat, builder : BOOLEAN, stamp : Nat]
    BY <1>1, <2>2, SameHeaders
  <2>4. st.op.auth = "builder" /\ st.hadBuilder => st.headers.builder
    BY <1>1 DEF HeadersInv
  <2>5. QED
    BY <1>1, <2>1, <2>3, <2>4, AdvanceStep
<1>3. CASE ~unsigned /\ st.op.auth = "L1"
  <2>1. st' = [st EXCEPT !.pc = "stamp", !.headers = NoHeaders]
    BY <1>3 DEF addAuthHeaders
  <2>2. NoHeaders \in [key : Nat, secret : Nat, builder : BOOLEAN, stamp : Nat]
    BY SMT DEF NoHeaders
  <2>3. QED
    BY <1>1, <1>3, <2>1, <2>2, AdvanceStep
<1>4. CASE ~unsigned /\ st.op.auth # "L1" /\ st.op.on = "authenticated"
  <2>1. st' = [st EXCEPT !.pc = "stamp", !.headers = headers]
    BY <1>4 DEF addAuthHeaders
  <2>2. headers \in [key : Nat, secret : Nat, builder : BOOLEAN, stamp : Nat]
    <3>1. st.generation \in Nat /\ 0 \in Nat
      BY <1>1, SMT
    <3>2. QED
      BY <1>1, <3>1
  <2>3. headers.key # 0 /\ headers.key = headers.secret /\ (st.hadBuilder => headers.builder)
    <3>1. st.generation # 0
      BY <1>1, SMT
    <3>2. QED
      BY <1>1, <3>1 DEF HeadersInv
  <2>4. st.op.auth # "builder"
    BY <1>4
  <2> HIDE DEF headers
  <2>5. QED
    BY <1>1, <2>1, <2>2, <2>3, <2>4, AdvanceStep
<1>5. CASE ~unsigned /\ st.op.auth # "L1" /\ st.op.on # "authenticated"
  <2>1. Fail("local")
    BY <1>5 DEF addAuthHeaders
  <2>2. "local" \in Outcomes \ {"none", "ok", "unfit", "invalid"}
    BY DEF Outcomes
  <2>3. QED
    BY <1>1, <2>1, <2>2, FailStep
<1>6. QED
  BY <1>2, <1>3, <1>4, <1>5

\* The time belongs to the attempt.
LEMMA StampStep == ASSUME RequestInv(st), timestamp PROVE RequestInv(st')
<1>1. st \in RequestState /\ st.pc = "stamp" /\ HeadersInv(st) /\ st.attempt \in Nat
  BY DEF RequestInv, timestamp, RequestAt, RequestState
<1>2. CASE st' = [st EXCEPT !.pc = "sign", !.headers.stamp = st.attempt]
  <2> DEFINE headers == [st.headers EXCEPT !.stamp = st.attempt]
  <2>1. st.headers \in [key : Nat, secret : Nat, builder : BOOLEAN, stamp : Nat]
    BY <1>1 DEF RequestState
  <2>2. /\ headers \in [key : Nat, secret : Nat, builder : BOOLEAN, stamp : Nat]
        /\ headers.key = st.headers.key /\ headers.secret = st.headers.secret
        /\ headers.builder = st.headers.builder /\ headers.stamp = st.attempt
    BY <1>1, <2>1
  <2>3. st' = [st EXCEPT !.pc = "sign", !.headers = headers]
    BY <1>1, <1>2 DEF RequestState
  <2> HIDE DEF headers
  <2>4. /\ st.op.auth = "builder" /\ st.hadBuilder => headers.builder
        /\ st.op.auth \in {"L2", "L2Builder"} => /\ headers.key # 0 /\ headers.key = headers.secret
                                                 /\ st.hadBuilder => headers.builder
    BY <1>1, <2>2 DEF HeadersInv
  <2>5. QED
    BY <1>1, <2>2, <2>3, <2>4, AdvanceStep
<1>3. CASE \E kind \in {"rejected", "limited", "server", "local"} : Fail(kind)
  <2>1. PICK kind \in {"rejected", "limited", "server", "local"} : Fail(kind)
    BY <1>3
  <2>2. kind \in Outcomes \ {"none", "ok", "unfit", "invalid"} /\ kind # "context"
    BY DEF Outcomes
  <2>3. QED
    BY <1>1, <2>1, <2>2, FailStep
<1>4. CASE st.cancelled /\ Fail("context")
  <2>1. "context" \in Outcomes \ {"none", "ok", "unfit", "invalid"}
    BY DEF Outcomes
  <2>2. QED
    BY <1>1, <1>4, <2>1, FailStep
<1>5. QED
  BY <1>2, <1>3, <1>4 DEF timestamp

\* The signature, made or not.
LEMMA SignStep == ASSUME RequestInv(st), Sign PROVE RequestInv(st')
<1>1. st \in RequestState /\ st.pc = "sign" /\ HeadersInv(st)
  BY DEF RequestInv, Sign, RequestAt
<1>2. CASE st' = [st EXCEPT !.pc = "send"]
  <2>1. /\ st' = [st EXCEPT !.pc = "send", !.headers = st.headers]
        /\ st.headers \in [key : Nat, secret : Nat, builder : BOOLEAN, stamp : Nat]
    BY <1>1, <1>2, SameHeaders
  <2>2. /\ st.op.auth = "builder" /\ st.hadBuilder => st.headers.builder
        /\ st.op.auth \in {"L2", "L2Builder"} =>
              /\ st.headers.key # 0 /\ st.headers.key = st.headers.secret
              /\ st.hadBuilder => st.headers.builder
        /\ st.op.auth \in {"L1", "L2", "L2Builder"} => st.headers.stamp = st.attempt
    BY <1>1 DEF HeadersInv
  <2>3. QED
    BY <1>1, <2>1, <2>2, AdvanceStep
<1>3. CASE Fail("local")
  <2>1. "local" \in Outcomes \ {"none", "ok", "unfit", "invalid"}
    BY DEF Outcomes
  <2>2. QED
    BY <1>1, <1>3, <2>1, FailStep
<1>4. QED
  BY <1>2, <1>3 DEF Sign

\* The request is sent.
LEMMA SendStep == ASSUME RequestInv(st), Send PROVE RequestInv(st')
<1>1. /\ st \in RequestState /\ st.pc = "send" /\ SendsInv(st) /\ HeadersInv(st) /\ AttemptsInv(st)
      /\ st.sends \in Nat
  BY DEF RequestInv, Send, RequestAt, RequestState
<1>2. CASE st.cancelled /\ Fail("context")
  <2>1. "context" \in Outcomes \ {"none", "ok", "unfit", "invalid"}
    BY DEF Outcomes
  <2>2. QED
    BY <1>1, <1>2, <2>1, FailStep
<1>3. CASE st' = [st EXCEPT !.pc = "flight", !.sends = @ + 1]
  <2>1. st.sends + 1 \in Nat /\ (st.sends = 0 => st.sends + 1 <= 1)
    BY <1>1, SMT
  <2>2. st' \in RequestState
    BY <1>1, <1>3, <2>1 DEF RequestState
  <2>3. /\ st'.pc = "flight" /\ st'.op = st.op /\ st'.attempt = st.attempt
        /\ st'.sends = st.sends + 1 /\ st'.hadBuilder = st.hadBuilder /\ st'.builder = st.builder
        /\ st'.headers = st.headers
    BY <1>1, <1>3, SMT DEF RequestState
  <2>4. SendsInv(st')
    BY <1>1, <2>1, <2>3 DEF SendsInv
  <2>5. HeadersInv(st') /\ AttemptsInv(st') /\ GaveUpInv(st')
    BY <1>1, <2>3 DEF HeadersInv, AttemptsInv, GaveUpInv
  <2>6. QED
    BY <2>2, <2>4, <2>5 DEF RequestInv
<1>4. QED
  BY <1>2, <1>3 DEF Send

\* The answer.
LEMMA ReceiveStep == ASSUME RequestInv(st), Receive PROVE RequestInv(st')
<1>1. st \in RequestState /\ st.pc = "flight" /\ SendsInv(st) /\ HeadersInv(st) /\ AttemptsInv(st)
  BY DEF RequestInv, Receive, RequestAt
<1>2. CASE \E kind \in {"rejected", "conflict", "limited", "limitedLong", "server", "local"} : Fail(kind)
  <2>1. PICK kind \in {"rejected", "conflict", "limited", "limitedLong", "server", "local"} : Fail(kind)
    BY <1>2
  <2>2. kind \in Outcomes \ {"none", "ok", "unfit", "invalid"} /\ kind # "context"
    BY DEF Outcomes
  <2>3. QED
    BY <1>1, <2>1, <2>2, FailStep
<1>3. CASE st.cancelled /\ Fail("context")
  <2>1. "context" \in Outcomes \ {"none", "ok", "unfit", "invalid"}
    BY DEF Outcomes
  <2>2. QED
    BY <1>1, <1>3, <2>1, FailStep
<1>4. ASSUME NEW result \in {"ok", "unfit"},
             st' = [st EXCEPT !.pc = "done", !.reply = "ok", !.result = result]
      PROVE  RequestInv(st')
  <2>1. st' \in RequestState
    BY <1>1, <1>4 DEF RequestState, Outcomes
  <2>2. /\ st'.pc = "done" /\ st'.op = st.op /\ st'.attempt = st.attempt
        /\ st'.sends = st.sends /\ st'.hadBuilder = st.hadBuilder /\ st'.builder = st.builder
        /\ st'.headers = st.headers /\ st'.reply = "ok" /\ st'.result = result
    BY <1>1, <1>4, SMT DEF RequestState
  <2>3. SendsInv(st') /\ HeadersInv(st') /\ AttemptsInv(st')
    BY <1>1, <2>2 DEF SendsInv, HeadersInv, AttemptsInv
  <2>4. GaveUpInv(st')
    BY <2>2 DEF GaveUpInv
  <2>5. QED
    BY <2>1, <2>3, <2>4 DEF RequestInv
<1>5. CASE /\ st.plan.second # <<>>
           /\ st' = [st EXCEPT !.op = st.plan.second[1], !.pc = "begin", !.attempt = 1,
                               !.sends = 0, !.headers = NoHeaders, !.reply = "none"]
  BY <1>5, SecondStep
<1>6. QED
  BY <1>2, <1>3, <1>4, <1>5 DEF Receive

\* The wait between two attempts.
LEMMA BackoffStep == ASSUME RequestInv(st), Backoff PROVE RequestInv(st')
<1>1. /\ st \in RequestState /\ st.pc = "backoff" /\ SendsInv(st) /\ HeadersInv(st)
      /\ AttemptsInv(st) /\ st.attempt \in Nat /\ RetryMax \in Nat
  BY RequestAssumption DEF RequestInv, Backoff, RequestAt, RequestState
<1>2. CASE st.cancelled /\ RequestEnds("context")
  BY <1>1, <1>2, EndedStep
<1>3. CASE st' = [st EXCEPT !.pc = AttemptOf(st.op), !.attempt = @ + 1]
  <2> DEFINE pc == AttemptOf(st.op)
  <2>1. pc \in {"limit", "context", "headers"}
    BY StartsAttempt DEF AttemptStarts
  <2>2. /\ st.attempt + 1 \in Nat /\ (st.attempt <= RetryMax => st.attempt + 1 <= RetryMax + 1)
        /\ st.attempt < 3 => st.attempt + 1 <= 3
    BY <1>1, SMT
  <2>3. st' = [st EXCEPT !.pc = pc, !.attempt = st.attempt + 1]
    BY <1>1, <1>3 DEF RequestState
  <2> HIDE DEF pc
  <2>4. st' \in RequestState
    BY <1>1, <2>1, <2>2, <2>3 DEF RequestState
  <2>5. /\ st'.pc = pc /\ st'.op = st.op /\ st'.attempt = st.attempt + 1 /\ st'.sends = st.sends
        /\ st'.hadBuilder = st.hadBuilder /\ st'.builder = st.builder /\ st'.headers = st.headers
    BY <1>1, <2>3, SMT DEF RequestState
  <2>6. SendsInv(st') /\ HeadersInv(st')
    BY <1>1, <2>1, <2>5 DEF SendsInv, HeadersInv
  <2>7. AttemptsInv(st') /\ GaveUpInv(st')
    BY <1>1, <2>1, <2>2, <2>5 DEF AttemptsInv, GaveUpInv
  <2>8. QED
    BY <2>4, <2>6, <2>7 DEF RequestInv
<1>4. QED
  BY <1>2, <1>3 DEF Backoff

\* Other goroutines replace the credentials, promote the client and cancel.
LEMMA MeanwhileStep ==
    ASSUME RequestInv(st), SetCredentials \/ PromoteToBuilder \/ Cancel
    PROVE  RequestInv(st')
<1>1. /\ st \in RequestState /\ SendsInv(st) /\ HeadersInv(st) /\ AttemptsInv(st)
      /\ st.pc # "done"
  BY DEF RequestInv, SetCredentials, PromoteToBuilder, Cancel, RequestLive
<1>2. PICK generation \in {1, 2}, builder \in BOOLEAN, cancelled \in BOOLEAN :
         /\ st' = [st EXCEPT !.generation = generation, !.builder = builder, !.cancelled = cancelled]
         /\ st.builder => builder
  <2>1. st.generation \in {1, 2} /\ st.builder \in BOOLEAN /\ st.cancelled \in BOOLEAN
    BY <1>1 DEF RequestState
  <2>2. CASE SetCredentials
    <3>1. st' = [st EXCEPT !.generation = 2, !.builder = st.builder, !.cancelled = st.cancelled]
      BY <1>1, <2>2 DEF SetCredentials, RequestState
    <3>2. QED
      BY <2>1, <3>1
  <2>3. CASE PromoteToBuilder
    <3>1. st' = [st EXCEPT !.generation = st.generation, !.builder = TRUE, !.cancelled = st.cancelled]
      BY <1>1, <2>3 DEF PromoteToBuilder, RequestState
    <3>2. QED
      BY <2>1, <3>1
  <2>4. CASE Cancel
    <3>1. st' = [st EXCEPT !.generation = st.generation, !.builder = st.builder, !.cancelled = TRUE]
      BY <1>1, <2>4 DEF Cancel, RequestState
    <3>2. QED
      BY <2>1, <3>1
  <2>5. QED
    BY <2>2, <2>3, <2>4
<1>3. st' \in RequestState
  BY <1>1, <1>2 DEF RequestState
<1>4. /\ st'.pc = st.pc /\ st'.op = st.op /\ st'.attempt = st.attempt /\ st'.sends = st.sends
      /\ st'.hadBuilder = st.hadBuilder /\ st'.builder = builder /\ st'.headers = st.headers
      /\ st'.reply = st.reply
  BY <1>1, <1>2 DEF RequestState
<1>5. SendsInv(st') /\ AttemptsInv(st') /\ GaveUpInv(st')
  BY <1>1, <1>4 DEF SendsInv, AttemptsInv, GaveUpInv
<1>6. HeadersInv(st')
  BY <1>1, <1>2, <1>4 DEF HeadersInv
<1>7. QED
  BY <1>3, <1>5, <1>6 DEF RequestInv

\* A call begins with nothing sent.
LEMMA RequestInitSound == RequestInit => RequestInv(st)
<1> SUFFICES ASSUME RequestInit PROVE RequestInv(st)
  OBVIOUS
<1>1. PICK plan \in Calls, limiter \in BOOLEAN, serverTime \in BOOLEAN, builder \in BOOLEAN :
        st = [part |-> "call", plan |-> plan, op |-> plan.first, pc |-> "begin",
              limiter |-> limiter, serverTime |-> serverTime,
              generation |-> 1, builder |-> builder, hadBuilder |-> builder,
              cancelled |-> FALSE, attempt |-> 1, headers |-> NoHeaders,
              sends |-> 0, reply |-> "none", result |-> "none"]
  BY DEF RequestInit
<1>2. plan.first \in Operations
  BY DEF Operations
<1>3. /\ 0 \in Nat /\ 1 \in Nat /\ 0 <= 1 /\ 1 <= RetryMax + 1 /\ 1 <= 3
      /\ NoHeaders \in [key : Nat, secret : Nat, builder : BOOLEAN, stamp : Nat]
  BY RequestAssumption, SMT DEF NoHeaders
<1>4. st \in RequestState
  BY <1>1, <1>2, <1>3 DEF RequestState, Outcomes
<1>5. /\ st.pc = "begin" /\ st.attempt = 1 /\ st.sends = 0 /\ st.reply = "none"
      /\ st.hadBuilder = builder /\ st.builder = builder
  BY <1>1
<1>6. SendsInv(st) /\ AttemptsInv(st) /\ GaveUpInv(st)
  BY <1>3, <1>5 DEF SendsInv, AttemptsInv, GaveUpInv
<1>7. HeadersInv(st)
  BY <1>5 DEF HeadersInv
<1>8. QED
  BY <1>4, <1>6, <1>7 DEF RequestInv

(***************************************************************************)
(* For any RetryMax and every operation of the tables: withRetry and       *)
(* getReadJSON never send a write twice, addAuthHeaders signs every        *)
(* attempt with one snapshot of credentials and its own time, and a call   *)
(* that fails has used the attempts it has.                                *)
(***************************************************************************)
THEOREM RetriesStaySafe == RequestSpec => []RetriesAreSafe
<1> DEFINE CallInv == RequestInv(st)
<1>1. RequestInit => CallInv
  BY RequestInitSound
<1>2. CallInv /\ [RequestNext]_st => CallInv'
  <2> SUFFICES ASSUME CallInv, [RequestNext]_st PROVE RequestInv(st')
    OBVIOUS
  <2>1. CASE RequestNext
    BY <2>1, RequestBeginStep, PreSignStep, LimitStep, HeadersStep, StampStep, SignStep, SendStep,
       ReceiveStep, BackoffStep, MeanwhileStep DEF RequestNext
  <2>2. CASE UNCHANGED st
    BY <2>2
  <2>3. QED
    BY <2>1, <2>2
<1>3. CallInv => RetriesAreSafe
  <2> SUFFICES ASSUME CallInv PROVE RetriesAreSafe
    OBVIOUS
  <2>1. WritesSentOnce
    BY DEF RequestInv, SendsInv, WritesSentOnce
  <2>2. SignedAfresh
    <3> SUFFICES ASSUME st.pc = "flight"
                 PROVE  /\ st.op.auth \in {"L1", "L2", "L2Builder"} => st.headers.stamp = st.attempt
                        /\ st.op.auth \in {"L2", "L2Builder"} =>
                              st.headers.key # 0 /\ st.headers.key = st.headers.secret
                        /\ st.op.auth \in {"builder", "L2Builder"} /\ st.hadBuilder =>
                              st.headers.builder
      BY DEF SignedAfresh, RequestAt
    <3>1. QED
      BY DEF RequestInv, HeadersInv
  <2>3. GivesUpOnlyWhenDone
    BY DEF RequestInv, GaveUpInv, GivesUpOnlyWhenDone, RequestAt
  <2>4. QED
    BY <2>1, <2>2, <2>3 DEF RetriesAreSafe
<1>4. QED
  BY <1>1, <1>2, <1>3, PTL DEF RequestSpec

=============================================================================
