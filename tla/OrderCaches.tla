---------------------------- MODULE OrderCaches ----------------------------
(***************************************************************************)
(* The caches order construction reads (clob/order_metadata_cache.go,       *)
(* clob/builder_fee_cache.go, clob/order_context.go, clob/client.go): the   *)
(* token's condition, the market's metadata and the builder fee, each       *)
(* loaded once for all callers that ask at the same time, and the tick      *)
(* sizes, which metadata loads also fill.  Callers race with server-side    *)
(* changes, expiry and invalidation.                                       *)
(*                                                                         *)
(* Data.  There is one market; a value is the number of server-side changes *)
(* it reflects.  The condition of a token never changes.  The generations   *)
(* are only compared with the current one, so the model keeps, for each     *)
(* value being loaded, whether its generation still is the current one.     *)
(* The negative-risk cache is the tick-size cache over another map.         *)
(*                                                                         *)
(* Atomicity.  A section under orderMetadataMu is one step, with the        *)
(* tick-size updates made inside it; a section under tickSizeMu is one.     *)
(* Waiters act on a load's result, which no longer changes, when it is      *)
(* published.                                                              *)
(***************************************************************************)
EXTENDS Naturals, Sequences

CONSTANTS
    Caller, NoCaller, \* goroutines using the client; no load in progress
    Token,            \* the tokens of the market
    None,             \* nothing cached
    MaxVersion,       \* bound on server-side changes
    MaxDisturbances   \* bound on invalidations and cancelled loads

\* What is loaded: the condition of each token, the market, the builder fee.
Shared == {"market", "builder"}
Key == Token \cup Shared

ASSUME NullAssumption == NoCaller \notin Caller /\ None \notin Nat
ASSUME KeyAssumption == Token \cap Shared = {}
ASSUME BoundAssumption == MaxVersion \in Nat /\ MaxDisturbances \in Nat

VARIABLES
    version,  \* external: the server's version of the market and the fee
    cache,    \* orderConditionCache, orderMetadataCache and builderFeeCache
    load,     \* the caller loading each key: orderConditionLoads and its siblings
    tick,     \* tickSizeCache
    call,     \* what each caller is doing
    floor,    \* history: the version the last returned invalidation of a key promises
    disturbances

vars == <<version, cache, load, tick, call, floor, disturbances>>

Where == {"idle", "lookup", "join", "await", "fetch", "store", "return", "tickFetch",
          "tickStore", "clear", "clearAll"}

\* A caller's locals: where it is, the keys it has still to resolve, whether it
\* asked to refresh the market, whether the generation it loads under is still
\* current, the value it got, how its load ended, and (history) the oldest
\* versions it may be given.
Locals == [at : Where, path : Seq(Key), force : BOOLEAN, current : BOOLEAN,
           got : 0..MaxVersion, outcome : {"ok", "failed", "cancelled"},
           promised : [Shared -> 0..MaxVersion]]
Idle == [at |-> "idle", path |-> <<>>, force |-> FALSE, current |-> FALSE, got |-> 0,
         outcome |-> "ok", promised |-> [k \in Shared |-> 0]]

Init ==
    /\ version = 0
    /\ cache = [k \in Key |-> None] /\ load = [k \in Key |-> NoCaller]
    /\ tick = [t \in Token |-> None]
    /\ call = [p \in Caller |-> Idle]
    /\ floor = [k \in Key |-> 0]
    /\ disturbances = 0

Disturb == disturbances < MaxDisturbances /\ disturbances' = disturbances + 1

Larger(i, j) == IF i > j THEN i ELSE j

-----------------------------------------------------------------------------
(* The server and the clock (external)                                     *)

ServerChanges ==
    /\ version < MaxVersion
    /\ version' = version + 1
    /\ UNCHANGED <<cache, load, tick, call, floor, disturbances>>

Expire(k) ==
    /\ cache[k] # None
    /\ cache' = [cache EXCEPT ![k] = None]
    /\ UNCHANGED <<version, load, tick, call, floor, disturbances>>

\* What the server answers for a key.
Response(k) == IF k \in Token THEN 0 ELSE version

-----------------------------------------------------------------------------
(* Calls                                                                   *)

Call(p, keys, refresh) ==
    /\ call[p].at = "idle"
    /\ call' = [call EXCEPT ![p] = [Idle EXCEPT !.at = "lookup", !.path = keys, !.force = refresh,
                                                !.promised = [k \in Shared |-> floor[k]]]]
    /\ UNCHANGED <<version, cache, load, tick, floor, disturbances>>

resolveOrderMarketMetadata(p, t, refresh) == Call(p, <<t, "market">>, refresh)

adjustOrderBuyAmount(p, t) == Call(p, <<t, "market", "builder">>, FALSE)

-----------------------------------------------------------------------------
(* One lookup: resolveOrderCondition, resolveOrderMarketMetadata and        *)
(* resolveBuilderFeeRateCached share this shape.                           *)

At(p, where) == call[p].at = where
Subject(p) == Head(call[p].path)

Hit(p) == cache[Subject(p)] # None /\ ~(Subject(p) = "market" /\ call[p].force)

LookupHit(p) ==
    /\ At(p, "lookup") /\ Hit(p)
    /\ call' = [call EXCEPT ![p] = [@ EXCEPT !.at = "return", !.got = cache[Subject(p)]]]
    /\ UNCHANGED <<version, cache, load, tick, floor, disturbances>>

\* Faulty variant: a load of an older generation is joined too.
LookupJoinAny(p) ==
    /\ At(p, "lookup") /\ ~Hit(p) /\ load[Subject(p)] # NoCaller
    /\ call' = [call EXCEPT ![p] = [@ EXCEPT !.at = "join"]]
    /\ UNCHANGED <<version, cache, load, tick, floor, disturbances>>

\* A load of this generation is joined; an older one is only waited for.
LookupJoin(p) ==
    /\ At(p, "lookup") /\ ~Hit(p) /\ load[Subject(p)] # NoCaller
    /\ call' = [call EXCEPT ![p] = [@ EXCEPT !.at = IF call[load[Subject(p)]].current
                                                    THEN "join" ELSE "await"]]
    /\ UNCHANGED <<version, cache, load, tick, floor, disturbances>>

\* Faulty variant: a load in progress is not looked at.
LookupLoadAlways(p) ==
    /\ At(p, "lookup") /\ ~Hit(p)
    /\ load' = [load EXCEPT ![Subject(p)] = p]
    /\ call' = [call EXCEPT ![p] = [@ EXCEPT !.at = "fetch", !.current = TRUE]]
    /\ UNCHANGED <<version, cache, tick, floor, disturbances>>

LookupLoad(p) ==
    /\ At(p, "lookup") /\ ~Hit(p) /\ load[Subject(p)] = NoCaller
    /\ load' = [load EXCEPT ![Subject(p)] = p]
    /\ call' = [call EXCEPT ![p] = [@ EXCEPT !.at = "fetch", !.current = TRUE]]
    /\ UNCHANGED <<version, cache, tick, floor, disturbances>>

\* The caller's context ends while it waits for another caller's load.
Abandon(p) ==
    /\ call[p].at \in {"join", "await"}
    /\ call' = [call EXCEPT ![p] = Idle]
    /\ UNCHANGED <<version, cache, load, tick, floor, disturbances>>

\* The request is answered, fails, or is cancelled with the caller's context.
Fetch(p) ==
    /\ At(p, "fetch")
    /\ \/ /\ call' = [call EXCEPT ![p] = [@ EXCEPT !.at = "store", !.got = Response(Subject(p))]]
          /\ UNCHANGED disturbances
       \/ /\ call' = [call EXCEPT ![p] = [@ EXCEPT !.at = "store", !.outcome = "failed"]]
          /\ UNCHANGED disturbances
       \/ /\ call' = [call EXCEPT ![p] = [@ EXCEPT !.at = "store", !.outcome = "cancelled"]]
          /\ Disturb
    /\ UNCHANGED <<version, cache, load, tick, floor>>

\* Tick-size reads in progress: SetTickSize moves on from their generation.
TickReaders == {q \in Caller : call[q].at \in {"tickFetch", "tickStore"}}

\* The callers after p's load of k has ended: p and those who joined it return
\* its result or its error; after a cancelled load the latter look again, and
\* after an older one everybody does.
Woken(p, k, outdated) ==
    LET ended(q) ==
          CASE call[p].outcome = "ok" ->
                 [call[q] EXCEPT !.at = "return", !.got = call[p].got, !.current = FALSE]
            [] call[p].outcome = "failed" \/ q = p -> Idle
            [] OTHER -> [call[q] EXCEPT !.at = "lookup"]
    IN  [q \in Caller |->
           IF q = p \/ (At(q, "join") /\ Subject(q) = k) THEN ended(q)
           ELSE IF At(q, "await") /\ Subject(q) = k THEN [call[q] EXCEPT !.at = "lookup"]
           ELSE IF q \in outdated THEN [call[q] EXCEPT !.current = FALSE]
           ELSE call[q]]

\* A load of k that ended well and is kept: a market also fills the conditions
\* and the tick sizes of its tokens.
Kept(p, k) ==
    /\ cache' = [j \in Key |-> IF j = k THEN call[p].got
                               ELSE IF k = "market" /\ j \in Token THEN 0 ELSE cache[j]]
    /\ tick' = [t \in Token |-> IF k = "market" THEN call[p].got ELSE tick[t]]
    /\ call' = Woken(p, k, IF k = "market" THEN TickReaders ELSE {})

\* The load ends.  Its result is cached unless the caches were cleared since it
\* began, and the waiters wake up.
Store(p) ==
    /\ At(p, "store")
    /\ IF call[p].outcome = "ok" /\ call[p].current THEN Kept(p, Subject(p))
       ELSE call' = Woken(p, Subject(p), {}) /\ UNCHANGED <<cache, tick>>
    /\ load' = [load EXCEPT ![Subject(p)] = NoCaller]
    /\ UNCHANGED <<version, floor, disturbances>>

\* One key is resolved; the call goes on to the next or returns its value.
Return(p) ==
    /\ At(p, "return")
    /\ LET rest == Tail(call[p].path)
       IN  call' = [call EXCEPT ![p] = IF rest = <<>> THEN Idle
                                       ELSE [@ EXCEPT !.at = "lookup", !.path = rest, !.got = 0]]
    /\ UNCHANGED <<version, cache, load, tick, floor, disturbances>>

Resolve(p, keys) ==
    /\ call[p].path # <<>> /\ Subject(p) \in keys
    /\ \/ LookupHit(p) \/ LookupJoin(p) \/ LookupLoad(p) \/ Fetch(p) \/ Store(p) \/ Return(p)

resolveOrderCondition(p) == Resolve(p, Token)

resolveMarket(p) == Resolve(p, {"market"})

resolveBuilderFeeRateCached(p) == Resolve(p, {"builder"})

-----------------------------------------------------------------------------
(* resolveTickSize                                                         *)

\* A cached tick size is returned at once, which changes nothing.
resolveTickSize(p, t) ==
    /\ At(p, "idle") /\ tick[t] = None
    /\ call' = [call EXCEPT ![p] = [Idle EXCEPT !.at = "tickFetch", !.path = <<t>>,
                                                !.current = TRUE]]
    /\ UNCHANGED <<version, cache, load, tick, floor, disturbances>>

TickFetch(p) ==
    /\ At(p, "tickFetch")
    /\ \/ call' = [call EXCEPT ![p] = [@ EXCEPT !.at = "tickStore", !.got = version]]
       \/ call' = [call EXCEPT ![p] = Idle]
    /\ UNCHANGED <<version, cache, load, tick, floor, disturbances>>

TickStore(p) ==
    /\ At(p, "tickStore")
    /\ tick' = IF call[p].current THEN [tick EXCEPT ![Subject(p)] = call[p].got] ELSE tick
    /\ call' = [call EXCEPT ![p] = Idle]
    /\ UNCHANGED <<version, cache, load, floor, disturbances>>

-----------------------------------------------------------------------------
(* ClearTickSizeCache and InvalidateCaches: first the tick sizes, then the  *)
(* metadata, under their own locks.                                        *)

\* The calls once the generation of some loads is no longer the current one.
Outdated(loaders) == [q \in Caller |-> IF q \in loaders THEN [call[q] EXCEPT !.current = FALSE]
                                       ELSE call[q]]

\* The loads of conditions, markets and builder fees in progress.
Loaders == {q \in Caller : call[q].at \in {"fetch", "store"}}

\* Faulty variant: reads in progress keep their generation.
ClearTicksOnly(p, tokens, path, next) ==
    /\ At(p, "idle") /\ Disturb
    /\ tick' = [t \in Token |-> IF t \in tokens THEN None ELSE tick[t]]
    /\ call' = [call EXCEPT ![p] = [Idle EXCEPT !.at = next, !.path = path, !.got = version]]
    /\ UNCHANGED <<version, cache, load, floor>>

ClearTicks(p, tokens, path, next) ==
    /\ At(p, "idle") /\ Disturb
    /\ tick' = [t \in Token |-> IF t \in tokens THEN None ELSE tick[t]]
    /\ call' = [Outdated(TickReaders) EXCEPT
                  ![p] = [Idle EXCEPT !.at = next, !.path = path, !.got = version]]
    /\ UNCHANGED <<version, cache, load, floor>>

ClearTickSizeCache(p, t) == ClearTicks(p, {t}, <<t>>, "clear")

InvalidateCaches(p) == ClearTicks(p, Token, <<>>, "clearAll")

\* keys are cleared; the invalidation was meant to clear the keys of promise.
ClearKeys(p, keys, promise) ==
    /\ cache' = [k \in Key |-> IF k \in keys THEN None ELSE cache[k]]
    /\ call' = [Outdated(Loaders) EXCEPT ![p] = Idle]
    /\ floor' = [k \in Key |-> IF k \in promise THEN Larger(floor[k], call[p].got) ELSE floor[k]]
    /\ UNCHANGED <<version, load, tick, disturbances>>

\* The token's market is found through its cached condition.
clearOrderMetadata(p) ==
    /\ At(p, "clear")
    /\ ClearKeys(p, {Subject(p)} \cup (IF cache[Subject(p)] # None THEN {"market"} ELSE {}),
                 {Subject(p), "market"})

clearAllOrderMetadata(p) ==
    /\ At(p, "clearAll")
    /\ ClearKeys(p, Key, Key)

-----------------------------------------------------------------------------
Start(p) ==
    \/ \E t \in Token : \/ \E refresh \in BOOLEAN : resolveOrderMarketMetadata(p, t, refresh)
                        \/ adjustOrderBuyAmount(p, t) \/ resolveTickSize(p, t)
                        \/ ClearTickSizeCache(p, t)
    \/ InvalidateCaches(p)

Step(p) ==
    \/ resolveOrderCondition(p) \/ resolveMarket(p) \/ resolveBuilderFeeRateCached(p)
    \/ TickFetch(p) \/ TickStore(p)
    \/ clearOrderMetadata(p) \/ clearAllOrderMetadata(p)

Next ==
    \/ \E p \in Caller : Start(p) \/ Step(p) \/ Abandon(p)
    \/ \E k \in Shared : Expire(k)
    \/ ServerChanges

Spec == Init /\ [][Next]_vars

-----------------------------------------------------------------------------
(* Properties                                                              *)

\* The type invariant: every field holds what its Go type and its use allow.
TypeOK ==
    /\ version \in 0..MaxVersion /\ disturbances \in 0..MaxDisturbances
    /\ cache \in [Key -> 0..MaxVersion \cup {None}] /\ load \in [Key -> Caller \cup {NoCaller}]
    /\ tick \in [Token -> 0..MaxVersion \cup {None}]
    /\ call \in [Caller -> Locals]
    /\ floor \in [Key -> 0..MaxVersion]

\* One load per key: callers that ask at the same time share it, however loads
\* fail, are cancelled or outlive an invalidation.
SingleFlight == \A p, q \in Loaders : Subject(p) = Subject(q) => p = q

\* Once ClearTickSizeCache or InvalidateCaches has returned, the market and
\* builder fee caches hold nothing the server said before it was called: a load
\* in progress does not bring the old value back.
MetadataFresh ==
    \A k \in Shared : cache[k] # None => cache[k] >= floor[k]

\* A call that begins after an invalidation has returned is never answered with
\* a value from before the invalidation, not even by joining a load that began
\* earlier.
AnswersFresh ==
    \A p \in Caller : (At(p, "return") /\ Subject(p) \in Shared)
                          => call[p].got >= call[p].promised[Subject(p)]

\* Once ClearTickSizeCache or InvalidateCaches has returned, no read and no
\* metadata load that was already under way puts an older tick size back.  (A load
\* that ends between the two sections of the invalidation still may: the tick
\* sizes are cleared first, so what it stores then survives the call.)
TickStoredFresh ==
    [][\A t \in Token : tick'[t] \notin {None, tick[t]} => tick'[t] >= floor[t]]_vars

\* Nobody waits for a load that is not going on: whoever joined or awaits one is
\* woken when it ends, however it ends.
WaitersServed ==
    \A p \in Caller : call[p].at \in {"join", "await"} =>
        \E q \in Loaders : q # p /\ Subject(q) = Subject(p) /\ load[Subject(p)] = q

\* Concurrent lookups of a key share one load: there is never a second, and nobody
\* waits for one that has ended.
LoadsShared == TypeOK /\ SingleFlight /\ WaitersServed

\* Neither the caches nor an answer go back behind an invalidation that has
\* returned, whatever loads were in progress.
CachesFresh == MetadataFresh /\ AnswersFresh
=============================================================================
