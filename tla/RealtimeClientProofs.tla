------------------------ MODULE RealtimeClientProofs ------------------------
(***************************************************************************)
(* Proofs about RealtimeClient, for any subscriptions, keys and sessions:  *)
(* no open subscription is stranded on a worker that leaves, and what the  *)
(* client reports agrees with what the server does on the socket in use.   *)
(***************************************************************************)
EXTENDS RealtimeClient, TLAPS

-----------------------------------------------------------------------------
(* The inductive invariant                                                 *)

SubState ==
    [pc : {"idle", "waiting", "checking", "live"}, keys : SUBSET Keys,
     cancelled : BOOLEAN, ended : BOOLEAN, ready : BOOLEAN, queue : 0..BufferSize]

Phases == {"free", "dial", "auth", "top", "select", "pacing", "sent", "refused", "lost", "backoff"}
OnSocket == {"top", "select", "pacing", "sent"}
Before == {"dial", "auth", "backoff"}

SessionState ==
    [phase : Phases, cancelled : BOOLEAN, wake : BOOLEAN,
     filters : [Keys -> Tag], server : [Keys -> Tag],
     op : {"none", "subscribe", "unsubscribe"},
     keys : SUBSET Keys, stale : SUBSET Keys, todo : SUBSET Keys, rejected : SUBSET Keys]

\* The shape of everything under client.mu.
ClientState ==
    [closed : {"open", "closing", "done"}, place : [Keys -> Sessions \cup {None}],
     listeners : [Keys -> SUBSET Subs],
     confirmed : SUBSET Keys, accepted : SUBSET Keys, snapshot : SUBSET Keys,
     sub : [Subs -> SubState], ses : [Sessions -> SessionState]]

Open(r) == r.pc # "idle" /\ ~r.ended

\* The listeners of a key are the open subscriptions that ask for it, and a key
\* is placed as long as it has one.
Linked(place, listeners, sub) ==
    /\ \A k \in Keys, u \in Subs : u \in listeners[k] <=> Open(sub[u]) /\ k \in sub[u].keys
    /\ \A k \in Keys : place[k] # None <=> listeners[k] # {}

\* A session that keys of ks are placed on goes on.
Hosted(place, ses, ks) ==
    \A k \in ks : place[k] # None => ~ses[place[k]].cancelled /\ ses[place[k]].phase # "free"

\* A subscription that is ready was accepted with all of its keys, and only a
\* ready one gets past the select of Subscribe.
Accepted(sub, accepted) ==
    \A u \in Subs : Open(sub[u]) =>
        /\ sub[u].ready => sub[u].keys \subseteq accepted
        /\ sub[u].pc \in {"checking", "live"} => sub[u].ready

\* The operation in flight of session r with the keys on: what its filters are
\* before and after the frame is written, and what has been answered.
Operation(r, on) ==
    /\ r.phase \in {"pacing", "sent"} => r.op # "none" /\ r.todo \subseteq r.keys
    /\ r.phase = "pacing" /\ r.op = "subscribe" =>
         /\ r.rejected = {}
         /\ \A k \in r.keys : r.filters[k] = "none" /\ (k \in on \/ k \in r.stale)
    /\ r.phase = "sent" /\ r.op = "subscribe" =>
         /\ \A k \in r.keys : r.filters[k] = IF k \in r.stale THEN "stale" ELSE "current"
         /\ \A k \in r.rejected : k \notin r.todo /\ r.server[k] = "none"
    /\ r.phase \in {"pacing", "sent"} /\ r.op = "unsubscribe" =>
         /\ \A k \in r.keys : r.filters[k] = "stale"
         /\ r.phase = "pacing" => r.todo = r.keys
         /\ \A k \in r.keys \ r.todo : r.server[k] = "none"

\* The server serves what a filter asks for or nothing, and a current filter is
\* of a key placed here.
Filtered(r, on) ==
    \A k \in Keys : /\ r.server[k] \in {"none", r.filters[k]}
                    /\ r.filters[k] = "current" => k \in on

OnOf(place, s) == {k \in Keys : place[k] = s}

SessionsInv(place, ses) ==
    \A s \in Sessions : Filtered(ses[s], OnOf(place, s)) /\ Operation(ses[s], OnOf(place, s))

\* What is confirmed is served on the socket in use, or that socket is lost and
\* not yet reset.
ConfirmedInv(place, confirmed, ses) ==
    \A k \in confirmed :
        /\ place[k] # None
        /\ ses[place[k]].phase \notin Before
        /\ ses[place[k]].phase \in OnSocket => ses[place[k]].server[k] = "current"

\* All but what Hosted says.
Consistent(x) ==
    /\ x \in ClientState
    /\ Linked(x.place, x.listeners, x.sub)
    /\ Accepted(x.sub, x.accepted) /\ x.confirmed \subseteq x.accepted
    /\ SessionsInv(x.place, x.ses)
    /\ ConfirmedInv(x.place, x.confirmed, x.ses)

Sound(x) == Consistent(x) /\ Hosted(x.place, x.ses, Keys)

IInv == Sound(c)

\* Most leaves are set and first-order reasoning; those with arithmetic or large
\* records cite SMT.
USE Zenon

-----------------------------------------------------------------------------
(* A subscription ends: Release and end                                    *)

\* The fields of a session, one by one.
LEMMA SessionFields ==
    ASSUME NEW r \in SessionState
    PROVE  /\ r.phase \in Phases /\ r.cancelled \in BOOLEAN /\ r.wake \in BOOLEAN
           /\ r.filters \in [Keys -> Tag] /\ r.server \in [Keys -> Tag]
           /\ r.keys \in SUBSET Keys /\ r.stale \in SUBSET Keys
           /\ r.todo \in SUBSET Keys /\ r.rejected \in SUBSET Keys
BY DEF SessionState

\* The fields of the client, one by one.
LEMMA ClientFields ==
    ASSUME NEW x \in ClientState
    PROVE  /\ x.place \in [Keys -> Sessions \cup {None}] /\ x.listeners \in [Keys -> SUBSET Subs]
           /\ x.confirmed \in SUBSET Keys /\ x.accepted \in SUBSET Keys /\ x.snapshot \in SUBSET Keys
           /\ x.sub \in [Subs -> SubState] /\ x.ses \in [Sessions -> SessionState]
BY DEF ClientState

\* What becomes outdated, key by key.
LEMMA OutdatedFacts ==
    ASSUME NEW tags \in [Keys -> Tag], NEW ks
    PROVE  /\ Outdated(tags, ks) \in [Keys -> Tag]
           /\ \A k \in Keys :
                Outdated(tags, ks)[k] = IF k \in ks /\ tags[k] = "current" THEN "stale" ELSE tags[k]
           /\ ks = {} => Outdated(tags, ks) = tags
BY DEF Outdated, Tag

\* Release, field by field.
Released(t, r, ks, on) ==
    /\ t \in SessionState
    /\ t.phase = r.phase /\ t.op = r.op /\ t.keys = r.keys /\ t.todo = r.todo
    /\ t.rejected = r.rejected /\ t.stale = r.stale \cup (ks \cap r.keys)
    /\ t.filters = Outdated(r.filters, ks) /\ t.server = Outdated(r.server, ks)
    /\ t.cancelled => r.cancelled \/ on \ ks = {}

\* Release does what Released says.
LEMMA ReleaseFacts ==
    ASSUME NEW r \in SessionState, NEW ks \in SUBSET Keys, NEW on
    PROVE  Released(Release(r, ks, on), r, ks, on)
<1> DEFINE t == Release(r, ks, on)
           dead == r.cancelled \/ on \subseteq ks
<1>1. CASE ks = {}
  <2>1. t = r
    BY <1>1 DEF Release
  <2>2. Outdated(r.filters, ks) = r.filters /\ Outdated(r.server, ks) = r.server
    BY <1>1, OutdatedFacts, SessionFields
  <2>3. Released(r, r, ks, on)
    BY <1>1, <2>2 DEF Released
  <2>4. QED
    BY <2>1, <2>3
<1>2. CASE ks # {}
  <2> DEFINE filters == Outdated(r.filters, ks)
             server == Outdated(r.server, ks)
             stale == r.stale \cup (ks \cap r.keys)
  <2>1. t = [r EXCEPT !.filters = filters, !.server = server, !.stale = stale,
                      !.cancelled = dead, !.wake = TRUE]
    BY <1>2 DEF Release
  <2>2. filters \in [Keys -> Tag] /\ server \in [Keys -> Tag]
    BY OutdatedFacts, SessionFields
  <2>3. stale \in SUBSET Keys /\ dead \in BOOLEAN /\ TRUE \in BOOLEAN
    BY SessionFields
  <2> HIDE DEF filters, server, stale, dead, t
  <2>4. t \in SessionState
    BY <2>1, <2>2, <2>3 DEF SessionState
  <2>5. /\ t.phase = r.phase /\ t.op = r.op /\ t.keys = r.keys /\ t.todo = r.todo
        /\ t.rejected = r.rejected /\ t.stale = stale /\ t.filters = filters /\ t.server = server
        /\ t.cancelled = dead
    BY <2>1 DEF SessionState
  <2>6. QED
    <3>1. dead => r.cancelled \/ on \ ks = {}
      BY DEF dead
    <3>2. QED
      BY <2>4, <2>5, <3>1 DEF filters, server, stale, t, Released
<1>3. QED
  BY <1>1, <1>2

\* A session that loses the incarnations ks of its keys on, and keeps the others.
LEMMA ReleaseSession ==
    ASSUME NEW r \in SessionState, NEW on \in SUBSET Keys, NEW ks \in SUBSET on,
           Filtered(r, on), Operation(r, on), NEW t, t = Release(r, ks, on)
    PROVE  Filtered(t, on \ ks) /\ Operation(t, on \ ks)
<1>1. ks \in SUBSET Keys
  OBVIOUS
<1>2. /\ t.phase = r.phase /\ t.op = r.op /\ t.keys = r.keys /\ t.todo = r.todo
      /\ t.rejected = r.rejected /\ t.stale = r.stale \cup (ks \cap r.keys)
      /\ t.filters = Outdated(r.filters, ks) /\ t.server = Outdated(r.server, ks)
  <2>1. Released(t, r, ks, on)
    BY <1>1, ReleaseFacts
  <2>2. QED
    BY <2>1 DEF Released
<1>3. /\ \A k \in Keys : t.filters[k] = IF k \in ks /\ r.filters[k] = "current" THEN "stale"
                                        ELSE r.filters[k]
      /\ \A k \in Keys : t.server[k] = IF k \in ks /\ r.server[k] = "current" THEN "stale"
                                       ELSE r.server[k]
  BY <1>2, OutdatedFacts, SessionFields, SMT
<1>4. r.keys \in SUBSET Keys /\ r.rejected \in SUBSET Keys /\ r.todo \in SUBSET Keys
  BY SessionFields
<1>5. Filtered(t, on \ ks)
  BY <1>3 DEF Filtered
<1>6. Operation(t, on \ ks)
  <2>1. t.phase \in {"pacing", "sent"} => t.op # "none" /\ t.todo \subseteq t.keys
    BY <1>2 DEF Operation
  <2>2. ASSUME t.phase = "pacing", t.op = "subscribe"
        PROVE  /\ t.rejected = {}
               /\ \A k \in t.keys : t.filters[k] = "none" /\ (k \in on \ ks \/ k \in t.stale)
    <3>1. /\ r.rejected = {}
          /\ \A k \in r.keys : r.filters[k] = "none" /\ (k \in on \/ k \in r.stale)
      BY <1>2, <2>2 DEF Operation
    <3>2. QED
      BY <1>2, <1>3, <1>4, <3>1, SMT
  <2>3. ASSUME t.phase = "sent", t.op = "subscribe"
        PROVE  /\ \A k \in t.keys : t.filters[k] = IF k \in t.stale THEN "stale" ELSE "current"
               /\ \A k \in t.rejected : k \notin t.todo /\ t.server[k] = "none"
    <3>1. /\ \A k \in r.keys : r.filters[k] = IF k \in r.stale THEN "stale" ELSE "current"
          /\ \A k \in r.rejected : k \notin r.todo /\ r.server[k] = "none"
      BY <1>2, <2>3 DEF Operation
    <3>2. ASSUME NEW k \in t.keys
          PROVE  t.filters[k] = IF k \in t.stale THEN "stale" ELSE "current"
      <4>1. /\ k \in Keys /\ k \in r.keys
            /\ r.filters[k] = IF k \in r.stale THEN "stale" ELSE "current"
        BY <1>2, <1>4, <3>1
      <4>2. t.filters[k] = IF k \in ks /\ r.filters[k] = "current" THEN "stale" ELSE r.filters[k]
        BY <1>3, <4>1
      <4>3. k \in t.stale <=> k \in r.stale \/ k \in ks
        BY <1>2, <4>1
      <4>4. QED
        BY <4>1, <4>2, <4>3
    <3>3. ASSUME NEW k \in t.rejected PROVE k \notin t.todo /\ t.server[k] = "none"
      <4>1. k \in Keys /\ k \notin r.todo /\ r.server[k] = "none"
        BY <1>2, <1>4, <3>1
      <4>2. t.server[k] = IF k \in ks /\ r.server[k] = "current" THEN "stale" ELSE r.server[k]
        BY <1>3, <4>1
      <4>3. QED
        BY <1>2, <4>1, <4>2
    <3>4. QED
      BY <3>2, <3>3
  <2>4. ASSUME t.phase \in {"pacing", "sent"}, t.op = "unsubscribe"
        PROVE  /\ \A k \in t.keys : t.filters[k] = "stale"
               /\ t.phase = "pacing" => t.todo = t.keys
               /\ \A k \in t.keys \ t.todo : t.server[k] = "none"
    <3>1. /\ \A k \in r.keys : r.filters[k] = "stale"
          /\ r.phase = "pacing" => r.todo = r.keys
          /\ \A k \in r.keys \ r.todo : r.server[k] = "none"
      BY <1>2, <2>4 DEF Operation
    <3>2. ASSUME NEW k \in t.keys PROVE t.filters[k] = "stale"
      <4>1. k \in Keys /\ r.filters[k] = "stale"
        BY <1>2, <1>4, <3>1
      <4>2. QED
        BY <1>3, <4>1
    <3>3. ASSUME NEW k \in t.keys \ t.todo PROVE t.server[k] = "none"
      <4>1. k \in Keys /\ r.server[k] = "none"
        BY <1>2, <1>4, <3>1
      <4>2. QED
        BY <1>3, <4>1
    <3>4. QED
      BY <1>2, <3>1, <3>2, <3>3
  <2>5. QED
    BY <2>1, <2>2, <2>3, <2>4 DEF Operation
<1>7. QED
  BY <1>5, <1>6

\* The keys whose last listeners end.
Gone(place, listeners, us) == {k \in Keys : place[k] # None /\ listeners[k] \subseteq us}

EndedSub(sub, us) ==
    [u \in Subs |-> IF u \in us THEN [sub[u] EXCEPT !.ended = TRUE, !.ready = TRUE] ELSE sub[u]]

PlaceAfter(place, listeners, us) ==
    [k \in Keys |-> IF k \in Gone(place, listeners, us) THEN None ELSE place[k]]
ListenersAfter(listeners, us) == [k \in Keys |-> listeners[k] \ us]
SessionsAfter(place, listeners, ses, us) ==
    [s \in Sessions |->
        Release(ses[s], Gone(place, listeners, us) \cap OnOf(place, s), OnOf(place, s))]

\* The subscriptions after c.end, one by one.
LEMMA EndedSubFacts ==
    ASSUME NEW sub \in [Subs -> SubState], NEW us \in SUBSET Subs
    PROVE  /\ EndedSub(sub, us) \in [Subs -> SubState]
           /\ \A u \in Subs \ us : EndedSub(sub, us)[u] = sub[u]
           /\ \A u \in us : EndedSub(sub, us)[u].ended
           /\ \A u \in Subs : EndedSub(sub, us)[u].pc = sub[u].pc /\ EndedSub(sub, us)[u].keys = sub[u].keys
<1> DEFINE ended(u) == [sub[u] EXCEPT !.ended = TRUE, !.ready = TRUE]
<1>1. ASSUME NEW u \in Subs
      PROVE  /\ ended(u) \in SubState /\ ended(u).ended = TRUE
             /\ ended(u).pc = sub[u].pc /\ ended(u).keys = sub[u].keys
  <2>1. sub[u] \in SubState
    OBVIOUS
  <2>2. QED
    BY <2>1 DEF SubState
<1>2. EndedSub(sub, us) = [u \in Subs |-> IF u \in us THEN ended(u) ELSE sub[u]]
  BY DEF EndedSub
<1> HIDE DEF ended
<1>3. EndedSub(sub, us) \in [Subs -> SubState]
  BY <1>1, <1>2
<1>4. QED
  BY <1>1, <1>2, <1>3

\* What c.end for us makes of listeners, places, sessions and confirmations.
EndsWell(place, listeners, sub, ses, confirmed, accepted, us) ==
    LET place2 == PlaceAfter(place, listeners, us)
        ses2 == SessionsAfter(place, listeners, ses, us) IN
    /\ place2 \in [Keys -> Sessions \cup {None}]
    /\ ListenersAfter(listeners, us) \in [Keys -> SUBSET Subs]
    /\ ses2 \in [Sessions -> SessionState]
    /\ \A s \in Sessions : /\ ses2[s].phase = ses[s].phase /\ ses2[s].op = ses[s].op
                           /\ ses2[s].todo = ses[s].todo /\ ses2[s].keys = ses[s].keys
                           /\ \A k \in Keys : ses[s].server[k] = "none" => ses2[s].server[k] = "none"
    /\ Linked(place2, ListenersAfter(listeners, us), EndedSub(sub, us))
    /\ Accepted(EndedSub(sub, us), accepted \ Gone(place, listeners, us))
    /\ SessionsInv(place2, ses2)
    /\ ConfirmedInv(place2, confirmed \ Gone(place, listeners, us), ses2)
    /\ Hosted(place2, ses2, Keys)

\* c.end, on what listeners, places and sessions have to do with each other.
LEMMA EndParts ==
    ASSUME NEW place \in [Keys -> Sessions \cup {None}], NEW listeners \in [Keys -> SUBSET Subs],
           NEW sub \in [Subs -> SubState], NEW ses \in [Sessions -> SessionState],
           NEW confirmed \in SUBSET Keys, NEW accepted \in SUBSET Keys, NEW us \in SUBSET Subs,
           Linked(place, listeners, sub), Accepted(sub, accepted),
           SessionsInv(place, ses), ConfirmedInv(place, confirmed, ses),
           Hosted(place, ses, Keys \ Gone(place, listeners, us))
    PROVE  EndsWell(place, listeners, sub, ses, confirmed, accepted, us)
<1> DEFINE gone == Gone(place, listeners, us)
           sub2 == EndedSub(sub, us)
           place2 == PlaceAfter(place, listeners, us)
           listeners2 == ListenersAfter(listeners, us)
           ses2 == SessionsAfter(place, listeners, ses, us)
<1>1. gone \in SUBSET Keys /\ \A k \in Keys : k \in gone <=> place[k] # None /\ listeners[k] \subseteq us
  BY DEF Gone
<1>2. /\ \A u \in Subs \ us : sub2[u] = sub[u]
      /\ \A u \in us : sub2[u].ended
      /\ \A u \in Subs : sub2[u].pc = sub[u].pc /\ sub2[u].keys = sub[u].keys
  BY EndedSubFacts
<1>3. /\ \A k \in Keys : place2[k] = IF k \in gone THEN None ELSE place[k]
      /\ \A k \in Keys : listeners2[k] = listeners[k] \ us
      /\ place2 \in [Keys -> Sessions \cup {None}] /\ listeners2 \in [Keys -> SUBSET Subs]
  BY DEF PlaceAfter, ListenersAfter
<1>ses. \A s \in Sessions : ses2[s] = Release(ses[s], gone \cap OnOf(place, s), OnOf(place, s))
  BY DEF SessionsAfter
<1>dom. ses2 = [s \in Sessions |-> ses2[s]]
  BY DEF SessionsAfter
<1> HIDE DEF gone, sub2, place2, listeners2, ses2
<1>4. Linked(place2, listeners2, sub2)
  <2>1. \A u \in Subs : Open(sub2[u]) <=> u \notin us /\ Open(sub[u])
    BY <1>2 DEF Open
  <2>2. \A k \in Keys, u \in Subs : u \in listeners2[k] <=> Open(sub2[u]) /\ k \in sub2[u].keys
    BY <1>2, <1>3, <2>1, SMT DEF Linked
  <2>3. ASSUME NEW k \in Keys PROVE place2[k] # None <=> listeners2[k] # {}
    <3>1. place[k] # None <=> listeners[k] # {}
      BY DEF Linked
    <3>2. listeners2[k] # {} <=> ~(listeners[k] \subseteq us)
      BY <1>3
    <3>3. QED
      BY <1>1, <1>3, <3>1, <3>2
  <2>4. QED
    BY <2>2, <2>3 DEF Linked
<1>5. Accepted(sub2, accepted \ gone)
  <2>1. SUFFICES ASSUME NEW u \in Subs, Open(sub2[u])
                 PROVE  /\ sub2[u].ready => sub2[u].keys \subseteq accepted \ gone
                        /\ sub2[u].pc \in {"checking", "live"} => sub2[u].ready
    BY DEF Accepted
  <2>2. u \notin us
    BY <1>2, <2>1 DEF Open
  <2>3. sub2[u] = sub[u] /\ Open(sub[u])
    BY <1>2, <2>1, <2>2
  <2>4. \A k \in Keys : k \in sub[u].keys => k \notin gone
    BY <1>1, <2>2, <2>3 DEF Linked
  <2>5. sub[u].keys \subseteq Keys
    BY DEF SubState
  <2>6. QED
    BY <2>3, <2>4, <2>5 DEF Accepted
<1>6. ASSUME NEW s \in Sessions
      PROVE  /\ OnOf(place2, s) = OnOf(place, s) \ (gone \cap OnOf(place, s))
             /\ gone \cap OnOf(place, s) \in SUBSET OnOf(place, s)
             /\ OnOf(place, s) \in SUBSET Keys
             /\ ses2[s] = Release(ses[s], gone \cap OnOf(place, s), OnOf(place, s))
             /\ ses[s] \in SessionState
  <2>1. OnOf(place2, s) = OnOf(place, s) \ (gone \cap OnOf(place, s))
    BY <1>3, SetAssumption DEF OnOf
  <2>2. ses2[s] = Release(ses[s], gone \cap OnOf(place, s), OnOf(place, s))
    BY <1>ses
  <2>3. QED
    BY <2>1, <2>2 DEF OnOf
<1>7. SessionsInv(place2, ses2)
  <2>1. SUFFICES ASSUME NEW s \in Sessions
                 PROVE  /\ Filtered(ses2[s], OnOf(place2, s))
                        /\ Operation(ses2[s], OnOf(place2, s))
    BY DEF SessionsInv
  <2>2. Filtered(ses[s], OnOf(place, s)) /\ Operation(ses[s], OnOf(place, s))
    BY DEF SessionsInv
  <2> DEFINE lost == gone \cap OnOf(place, s)
             on == OnOf(place, s)
  <2>3. /\ lost \in SUBSET on /\ on \in SUBSET Keys /\ ses2[s] = Release(ses[s], lost, on)
        /\ OnOf(place2, s) = on \ lost /\ ses[s] \in SessionState
    BY <1>6
  <2> HIDE DEF lost
  <2>4. Filtered(ses2[s], on \ lost) /\ Operation(ses2[s], on \ lost)
    BY <2>2, <2>3, ReleaseSession
  <2>5. QED
    BY <2>3, <2>4
<1>8. ASSUME NEW s \in Sessions
      PROVE  /\ ses2[s] \in SessionState
             /\ ses2[s].phase = ses[s].phase /\ ses2[s].op = ses[s].op
             /\ ses2[s].todo = ses[s].todo /\ ses2[s].keys = ses[s].keys
             /\ ses2[s].cancelled => ses[s].cancelled
                                     \/ OnOf(place, s) \subseteq gone
             /\ ses2[s].server = Outdated(ses[s].server, gone \cap OnOf(place, s))
  <2> DEFINE lost == gone \cap OnOf(place, s)
             on == OnOf(place, s)
  <2>1. lost \in SUBSET Keys /\ on \in SUBSET Keys /\ lost \subseteq gone /\ ses2[s] = Release(ses[s], lost, on)
        /\ ses[s] \in SessionState
    BY <1>1, <1>6
  <2> HIDE DEF lost, on
  <2>2. /\ ses2[s] \in SessionState
        /\ ses2[s].phase = ses[s].phase /\ ses2[s].op = ses[s].op
        /\ ses2[s].todo = ses[s].todo /\ ses2[s].keys = ses[s].keys
        /\ ses2[s].cancelled => ses[s].cancelled \/ on \ lost = {}
        /\ ses2[s].server = Outdated(ses[s].server, lost)
    <3>1. Released(ses2[s], ses[s], lost, on)
      BY <2>1, ReleaseFacts
    <3>2. QED
      BY <3>1 DEF Released
  <2>3. QED
    BY <2>1, <2>2 DEF lost, on
<1>9. ConfirmedInv(place2, confirmed \ gone, ses2)
  <2>1. SUFFICES ASSUME NEW k \in confirmed \ gone
                 PROVE  /\ place2[k] # None
                        /\ ses2[place2[k]].phase \notin Before
                        /\ ses2[place2[k]].phase \in OnSocket => ses2[place2[k]].server[k] = "current"
    BY DEF ConfirmedInv
  <2>2. k \in Keys /\ place2[k] = place[k] /\ place[k] # None /\ place[k] \in Sessions
    BY <1>3, <2>1 DEF ConfirmedInv
  <2>3. /\ ses[place[k]].phase \notin Before
        /\ ses[place[k]].phase \in OnSocket => ses[place[k]].server[k] = "current"
    BY <2>1 DEF ConfirmedInv
  <2>4. ses2[place[k]].server[k] = ses[place[k]].server[k]
    <3>1. ses[place[k]].server \in [Keys -> Tag]
      BY <2>2, SessionFields
    <3>2. k \notin gone \cap OnOf(place, place[k])
      BY <2>1
    <3> DEFINE lost == gone \cap OnOf(place, place[k])
               server == ses[place[k]].server
    <3>3. ses2[place[k]].server = Outdated(server, lost)
      BY <1>8, <2>2
    <3> HIDE DEF lost, server
    <3>4. Outdated(server, lost)[k] = server[k]
      BY <2>2, <3>1, <3>2, OutdatedFacts DEF lost, server
    <3>5. QED
      BY <3>3, <3>4 DEF server
  <2>5. QED
    BY <1>8, <2>2, <2>3, <2>4
<1>10. Hosted(place2, ses2, Keys)
  <2>1. SUFFICES ASSUME NEW k \in Keys, place2[k] # None
                 PROVE  ~ses2[place2[k]].cancelled /\ ses2[place2[k]].phase # "free"
    BY DEF Hosted
  <2>2. place2[k] = place[k] /\ k \notin gone /\ place[k] \in Sessions
    BY <1>3, <2>1
  <2>3. ~ses[place[k]].cancelled /\ ses[place[k]].phase # "free"
    BY <2>1, <2>2 DEF Hosted, gone
  <2>4. ~(OnOf(place, place[k]) \subseteq gone)
    BY <2>2 DEF OnOf
  <2>5. QED
    BY <1>8, <2>2, <2>3, <2>4
<1>11. ses2 \in [Sessions -> SessionState]
  BY <1>dom, <1>8
<1>12. ASSUME NEW s \in Sessions, NEW k \in Keys, ses[s].server[k] = "none"
       PROVE  ses2[s].server[k] = "none"
  <2> DEFINE lost == gone \cap OnOf(place, s)
  <2>1. ses[s].server \in [Keys -> Tag] /\ ses2[s].server = Outdated(ses[s].server, lost)
    BY <1>8, SessionFields
  <2> HIDE DEF lost
  <2>2. Outdated(ses[s].server, lost)[k] = "none"
    BY <1>12, <2>1, OutdatedFacts, SMT
  <2>3. QED
    BY <2>1, <2>2
<1>13. QED
  BY <1>3, <1>4, <1>5, <1>7, <1>8, <1>9, <1>10, <1>11, <1>12
     DEF gone, sub2, place2, listeners2, ses2, EndsWell

\* What c.end for us leaves as it was, and what it does.
Ended(t, x, us) ==
    /\ t.closed = x.closed
    /\ \A u \in Subs : u \notin us => t.sub[u] = x.sub[u]
    /\ \A u \in us : t.sub[u].ended
    /\ \A u \in Subs : t.sub[u].pc = x.sub[u].pc
    /\ \A k \in Keys : x.listeners[k] \subseteq us => t.place[k] = None
    /\ \A s \in Sessions : /\ t.ses[s].phase = x.ses[s].phase /\ t.ses[s].op = x.ses[s].op
                           /\ t.ses[s].todo = x.ses[s].todo /\ t.ses[s].keys = x.ses[s].keys
                           /\ \A k \in Keys : x.ses[s].server[k] = "none" => t.ses[s].server[k] = "none"

\* c.end makes or keeps the client sound.
LEMMA EndSound ==
    ASSUME NEW x, Consistent(x), NEW us \in SUBSET Subs,
           Hosted(x.place, x.ses, Keys \ Gone(x.place, x.listeners, us))
    PROVE  Sound(end(x, us)) /\ Ended(end(x, us), x, us)
<1> DEFINE gone == Gone(x.place, x.listeners, us)
           sub2 == EndedSub(x.sub, us)
           listeners2 == ListenersAfter(x.listeners, us)
           place2 == PlaceAfter(x.place, x.listeners, us)
           ses2 == SessionsAfter(x.place, x.listeners, x.ses, us)
           t == end(x, us)
<1>1. x \in ClientState
  BY DEF Consistent
<1>2. t = [x EXCEPT !.sub = sub2, !.listeners = listeners2, !.place = place2,
                    !.confirmed = x.confirmed \ gone, !.accepted = x.accepted \ gone,
                    !.snapshot = x.snapshot \ gone, !.ses = ses2]
  BY DEF end, Gone, On, OnOf, EndedSub, PlaceAfter, ListenersAfter, SessionsAfter
<1>3. /\ x.place \in [Keys -> Sessions \cup {None}] /\ x.listeners \in [Keys -> SUBSET Subs]
      /\ x.sub \in [Subs -> SubState] /\ x.ses \in [Sessions -> SessionState]
      /\ x.confirmed \in SUBSET Keys /\ x.accepted \in SUBSET Keys /\ x.snapshot \in SUBSET Keys
  BY <1>1, ClientFields
<1>4. sub2 \in [Subs -> SubState]
  BY <1>3, EndedSubFacts
<1>5. /\ place2 \in [Keys -> Sessions \cup {None}] /\ listeners2 \in [Keys -> SUBSET Subs]
      /\ ses2 \in [Sessions -> SessionState]
      /\ \A s \in Sessions : /\ ses2[s].phase = x.ses[s].phase /\ ses2[s].op = x.ses[s].op
                             /\ ses2[s].todo = x.ses[s].todo /\ ses2[s].keys = x.ses[s].keys
                             /\ \A k \in Keys :
                                    x.ses[s].server[k] = "none" => ses2[s].server[k] = "none"
      /\ Linked(place2, listeners2, sub2) /\ Accepted(sub2, x.accepted \ gone)
      /\ SessionsInv(place2, ses2) /\ ConfirmedInv(place2, x.confirmed \ gone, ses2)
      /\ Hosted(place2, ses2, Keys)
  <2>1. /\ Linked(x.place, x.listeners, x.sub) /\ Accepted(x.sub, x.accepted)
        /\ SessionsInv(x.place, x.ses) /\ ConfirmedInv(x.place, x.confirmed, x.ses)
        /\ Hosted(x.place, x.ses, Keys \ gone)
    BY DEF Consistent
  <2>2. EndsWell(x.place, x.listeners, x.sub, x.ses, x.confirmed, x.accepted, us)
    BY <1>3, <2>1, EndParts
  <2>3. QED
    BY <2>2 DEF EndsWell
<1>6. /\ \A u \in Subs \ us : sub2[u] = x.sub[u]
      /\ \A u \in us : sub2[u].ended
      /\ \A u \in Subs : sub2[u].pc = x.sub[u].pc
  BY <1>3, EndedSubFacts
<1>7. \A k \in Keys : x.listeners[k] \subseteq us => place2[k] = None
  BY <1>3 DEF Gone, PlaceAfter
<1> HIDE DEF place2, listeners2, ses2, sub2, gone, t
<1>8. t \in ClientState
  <2>1. /\ x.confirmed \ gone \in SUBSET Keys /\ x.accepted \ gone \in SUBSET Keys
        /\ x.snapshot \ gone \in SUBSET Keys
    BY <1>3
  <2>2. QED
    BY <1>1, <1>2, <1>4, <1>5, <2>1 DEF ClientState
<1>9. /\ t.closed = x.closed /\ t.sub = sub2 /\ t.listeners = listeners2 /\ t.place = place2
       /\ t.confirmed = x.confirmed \ gone /\ t.accepted = x.accepted \ gone /\ t.ses = ses2
  BY <1>1, <1>2 DEF ClientState
<1>10. Sound(t)
  <2>1. t.confirmed \subseteq t.accepted
    BY <1>9 DEF Consistent
  <2>2. QED
    BY <1>5, <1>8, <1>9, <2>1 DEF Sound, Consistent
<1>11. Ended(t, x, us)
  BY <1>5, <1>6, <1>7, <1>9 DEF Ended
<1>12. QED
  BY <1>10, <1>11 DEF t

\* c.end of a sound client.
LEMMA EndKeeps ==
    ASSUME NEW x, Sound(x), NEW us \in SUBSET Subs
    PROVE  Sound(end(x, us)) /\ Ended(end(x, us), x, us)
<1>1. Consistent(x) /\ Hosted(x.place, x.ses, Keys \ Gone(x.place, x.listeners, us))
  BY DEF Sound, Hosted
<1>2. QED
  BY <1>1, EndSound

-----------------------------------------------------------------------------
(* Steps that change one session or one subscription                       *)

\* Session r may serve the confirmed keys ks: its socket is in use and serves
\* them, or is lost.
Serves(r, ks) ==
    \A k \in ks : r.phase \notin Before /\ (r.phase \in OnSocket => r.server[k] = "current")

\* What a session's record must satisfy, given the client x it belongs to.
Fits(x, s, r) ==
    /\ r \in SessionState
    /\ Filtered(r, OnOf(x.place, s)) /\ Operation(r, OnOf(x.place, s))
    /\ Serves(r, x.confirmed \cap OnOf(x.place, s))

\* What every session of a consistent client satisfies.
LEMMA SessionFits ==
    ASSUME NEW x, Consistent(x), NEW s \in Sessions
    PROVE  Fits(x, s, x.ses[s])
<1>1. x.ses[s] \in SessionState /\ x.confirmed \in SUBSET Keys
  BY ClientFields DEF Consistent
<1>2. Filtered(x.ses[s], OnOf(x.place, s)) /\ Operation(x.ses[s], OnOf(x.place, s))
  BY DEF Consistent, SessionsInv
<1>3. Serves(x.ses[s], x.confirmed \cap OnOf(x.place, s))
  BY DEF Consistent, ConfirmedInv, Serves, OnOf
<1>4. QED
  BY <1>1, <1>2, <1>3 DEF Fits

\* The fields of SetSession(x, s, r).
LEMMA SetSessionFields ==
    ASSUME NEW x \in ClientState, NEW s \in Sessions, NEW r \in SessionState
    PROVE  /\ SetSession(x, s, r) \in ClientState
           /\ SetSession(x, s, r).closed = x.closed /\ SetSession(x, s, r).place = x.place
           /\ SetSession(x, s, r).listeners = x.listeners /\ SetSession(x, s, r).sub = x.sub
           /\ SetSession(x, s, r).confirmed = x.confirmed
           /\ SetSession(x, s, r).accepted = x.accepted
           /\ SetSession(x, s, r).snapshot = x.snapshot
           /\ SetSession(x, s, r).ses \in [Sessions -> SessionState]
           /\ SetSession(x, s, r).ses[s] = r
           /\ \A q \in Sessions : q # s => SetSession(x, s, r).ses[q] = x.ses[q]
<1> DEFINE ses2 == [x.ses EXCEPT ![s] = r]
           t == [x EXCEPT !.ses = ses2]
<1>1. SetSession(x, s, r) = t
  BY DEF SetSession
<1>2. x.ses \in [Sessions -> SessionState]
  BY ClientFields
<1>3. /\ ses2 \in [Sessions -> SessionState] /\ ses2[s] = r
      /\ \A q \in Sessions : q # s => ses2[q] = x.ses[q]
  BY <1>2
<1> HIDE DEF ses2
<1>4. /\ t \in ClientState /\ t.closed = x.closed /\ t.place = x.place /\ t.listeners = x.listeners
      /\ t.sub = x.sub /\ t.confirmed = x.confirmed /\ t.accepted = x.accepted
      /\ t.snapshot = x.snapshot /\ t.ses = ses2
  BY <1>3 DEF ClientState
<1> HIDE DEF t
<1>5. QED
  BY <1>1, <1>3, <1>4

\* A step that changes session s, and may forget confirmations, keeps the client
\* consistent when the session's new record fits.
LEMMA SessionChange ==
    ASSUME NEW x, Consistent(x), NEW t \in ClientState, NEW s \in Sessions,
           t.place = x.place, t.listeners = x.listeners, t.sub = x.sub,
           t.accepted = x.accepted, t.confirmed \subseteq x.confirmed,
           \A q \in Sessions : q # s => t.ses[q] = x.ses[q],
           Fits(t, s, t.ses[s])
    PROVE  Consistent(t)
<1>1. t.ses \in [Sessions -> SessionState] /\ t.place \in [Keys -> Sessions \cup {None}]
  BY ClientFields
<1>2. SessionsInv(t.place, t.ses)
  BY DEF Consistent, SessionsInv, Fits
<1>3. ConfirmedInv(t.place, t.confirmed, t.ses)
  <2>1. SUFFICES ASSUME NEW k \in t.confirmed
                 PROVE  /\ t.place[k] # None
                        /\ t.ses[t.place[k]].phase \notin Before
                        /\ t.ses[t.place[k]].phase \in OnSocket => t.ses[t.place[k]].server[k] = "current"
    BY DEF ConfirmedInv
  <2>2. t.place[k] # None /\ k \in Keys
    BY ClientFields DEF Consistent, ConfirmedInv
  <2>3. CASE t.place[k] = s
    <3>1. k \in t.confirmed \cap OnOf(t.place, s)
      BY <2>2, <2>3 DEF OnOf
    <3>2. Serves(t.ses[s], t.confirmed \cap OnOf(t.place, s))
      BY DEF Fits
    <3>3. QED
      BY <2>2, <2>3, <3>1, <3>2 DEF Serves
  <2>4. CASE t.place[k] # s
    <3>1. t.place[k] \in Sessions /\ t.ses[t.place[k]] = x.ses[x.place[k]] /\ k \in x.confirmed
      BY <1>1, <2>2, <2>4
    <3>2. QED
      BY <2>2, <3>1 DEF Consistent, ConfirmedInv
  <2>5. QED
    BY <2>3, <2>4
<1>4. QED
  BY <1>2, <1>3 DEF Consistent

\* The same for a sound client, when a session that has keys goes on.
LEMMA SessionChangeSound ==
    ASSUME NEW x, Sound(x), NEW t \in ClientState, NEW s \in Sessions,
           t.place = x.place, t.listeners = x.listeners, t.sub = x.sub,
           t.accepted = x.accepted, t.confirmed \subseteq x.confirmed,
           \A q \in Sessions : q # s => t.ses[q] = x.ses[q],
           Fits(t, s, t.ses[s]),
           OnOf(x.place, s) # {} => ~t.ses[s].cancelled /\ t.ses[s].phase # "free"
    PROVE  Sound(t)
<1>1. Consistent(t)
  BY SessionChange DEF Sound
<1>2. Hosted(t.place, t.ses, Keys)
  <2>1. SUFFICES ASSUME NEW k \in Keys, t.place[k] # None
                 PROVE  ~t.ses[t.place[k]].cancelled /\ t.ses[t.place[k]].phase # "free"
    BY DEF Hosted
  <2>2. t.place[k] \in Sessions
    BY <2>1, ClientFields
  <2>3. CASE t.place[k] = s
    BY <2>3 DEF OnOf
  <2>4. CASE t.place[k] # s
    BY <2>1, <2>2, <2>4 DEF Sound, Hosted
  <2>5. QED
    BY <2>3, <2>4
<1>3. QED
  BY <1>1, <1>2 DEF Sound

\* SetSession of a sound client.
LEMMA SetSessionSound ==
    ASSUME NEW x, Sound(x), NEW s \in Sessions, NEW r, Fits(x, s, r),
           OnOf(x.place, s) # {} => ~r.cancelled /\ r.phase # "free"
    PROVE  Sound(SetSession(x, s, r))
<1> DEFINE t == SetSession(x, s, r)
<1>1. x \in ClientState /\ r \in SessionState
  BY DEF Sound, Consistent, Fits
<1>2. /\ t \in ClientState /\ t.place = x.place /\ t.listeners = x.listeners /\ t.sub = x.sub
      /\ t.confirmed = x.confirmed /\ t.accepted = x.accepted
      /\ t.ses[s] = r /\ \A q \in Sessions : q # s => t.ses[q] = x.ses[q]
  BY <1>1, SetSessionFields, SMT
<1> HIDE DEF t
<1>3. Fits(t, s, t.ses[s])
  BY <1>2 DEF Fits
<1>4. Sound(t)
  BY <1>2, <1>3, SessionChangeSound
<1>5. QED
  BY <1>4 DEF t

\* The fields of a subscription, one by one.
LEMMA SubFields ==
    ASSUME NEW r \in SubState
    PROVE  /\ r.pc \in {"idle", "waiting", "checking", "live"} /\ r.keys \in SUBSET Keys
           /\ r.cancelled \in BOOLEAN /\ r.ended \in BOOLEAN /\ r.ready \in BOOLEAN
           /\ r.queue \in 0..BufferSize
BY DEF SubState

\* A step that changes subscriptions but not which are open, for which keys, and
\* makes ready only those with accepted keys.
LEMMA SubsChange ==
    ASSUME NEW x, Sound(x), NEW sub2 \in [Subs -> SubState],
           \A u \in Subs :
                /\ Open(sub2[u]) <=> Open(x.sub[u])
                /\ Open(sub2[u]) =>
                     /\ sub2[u].keys = x.sub[u].keys
                     /\ sub2[u].ready => x.sub[u].ready \/ sub2[u].keys \subseteq x.accepted
                     /\ sub2[u].pc \in {"checking", "live"} => sub2[u].ready
    PROVE  Sound([x EXCEPT !.sub = sub2])
<1> DEFINE t == [x EXCEPT !.sub = sub2]
<1>1. x \in ClientState
  BY DEF Sound, Consistent
<1>2. /\ t \in ClientState /\ t.closed = x.closed /\ t.place = x.place /\ t.listeners = x.listeners
      /\ t.sub = sub2 /\ t.confirmed = x.confirmed /\ t.accepted = x.accepted /\ t.ses = x.ses
  BY <1>1 DEF ClientState
<1> HIDE DEF t
<1>3. Linked(t.place, t.listeners, t.sub)
  <2>1. \A k \in Keys, u \in Subs :
            u \in x.listeners[k] <=> Open(x.sub[u]) /\ k \in x.sub[u].keys
    BY DEF Sound, Consistent, Linked
  <2>2. \A k \in Keys, u \in Subs : u \in x.listeners[k] <=> Open(sub2[u]) /\ k \in sub2[u].keys
    BY <2>1
  <2>3. \A k \in Keys : x.place[k] # None <=> x.listeners[k] # {}
    BY DEF Sound, Consistent, Linked
  <2>4. Linked(x.place, x.listeners, sub2)
    BY <2>2, <2>3 DEF Linked
  <2>5. QED
    BY <1>2, <2>4
<1>4. Accepted(t.sub, t.accepted)
  BY <1>2 DEF Sound, Consistent, Accepted
<1>5. Sound(t)
  BY <1>2, <1>3, <1>4 DEF Sound, Consistent
<1>6. QED
  BY <1>5 DEF t

\* SetSub of a sound client.
LEMMA SetSubSound ==
    ASSUME NEW x, Sound(x), NEW u \in Subs, NEW r \in SubState,
           Open(r) <=> Open(x.sub[u]),
           Open(r) => /\ r.keys = x.sub[u].keys /\ (r.ready => x.sub[u].ready)
                      /\ r.pc \in {"checking", "live"} => r.ready
    PROVE  Sound(SetSub(x, u, r))
<1> DEFINE sub2 == [x.sub EXCEPT ![u] = r]
<1>1. x.sub \in [Subs -> SubState]
  BY ClientFields DEF Sound, Consistent
<1>2. sub2 \in [Subs -> SubState] /\ sub2[u] = r /\ \A w \in Subs : w # u => sub2[w] = x.sub[w]
  BY <1>1
<1>3. SetSub(x, u, r) = [x EXCEPT !.sub = sub2]
  BY DEF SetSub
<1> HIDE DEF sub2
<1>4. \A w \in Subs :
        /\ Open(sub2[w]) <=> Open(x.sub[w])
        /\ Open(sub2[w]) =>
             /\ sub2[w].keys = x.sub[w].keys
             /\ sub2[w].ready => x.sub[w].ready \/ sub2[w].keys \subseteq x.accepted
             /\ sub2[w].pc \in {"checking", "live"} => sub2[w].ready
  <2>1. \A w \in Subs : Open(x.sub[w]) => (x.sub[w].pc \in {"checking", "live"} => x.sub[w].ready)
    BY DEF Sound, Consistent, Accepted
  <2>2. QED
    BY <1>2, <2>1
<1>5. Sound([x EXCEPT !.sub = sub2])
  BY <1>2, <1>4, SubsChange
<1>6. QED
  BY <1>3, <1>5

\* What delivering and reporting readiness leave as it was.
Delivered(t, x) ==
    /\ t.closed = x.closed
    /\ \A s \in Sessions : /\ t.ses[s].phase = x.ses[s].phase /\ t.ses[s].op = x.ses[s].op
                           /\ t.ses[s].todo = x.ses[s].todo /\ t.ses[s].keys = x.ses[s].keys

\* c.deliver keeps the client sound: queues stay within their capacity, and a
\* subscription whose queue is full ends.
LEMMA DeliverSound ==
    ASSUME NEW x, Sound(x), NEW us \in SUBSET Subs, NEW n \in Nat
    PROVE  Sound(deliver(x, us, n)) /\ Delivered(deliver(x, us, n), x)
<1> DEFINE full == {u \in us : x.sub[u].queue + n > BufferSize}
           fed(u) == [x.sub[u] EXCEPT !.queue = x.sub[u].queue + n]
           sub2 == [u \in Subs |-> IF u \in us \ full THEN fed(u) ELSE x.sub[u]]
           y == [x EXCEPT !.sub = sub2]
<1>1. deliver(x, us, n) = end(y, full)
  BY DEF deliver
<1>2. x \in ClientState /\ x.sub \in [Subs -> SubState]
  BY ClientFields DEF Sound, Consistent
<1>3. ASSUME NEW u \in us \ full
      PROVE  /\ fed(u) \in SubState /\ fed(u).pc = x.sub[u].pc /\ fed(u).keys = x.sub[u].keys
             /\ fed(u).ended = x.sub[u].ended /\ fed(u).ready = x.sub[u].ready
  <2> DEFINE q == x.sub[u].queue + n
  <2>1. x.sub[u] \in SubState /\ x.sub[u].queue \in 0..BufferSize
    BY <1>2, SubFields
  <2>2. q \in 0..BufferSize
    BY <2>1, SizeAssumption, SMT
  <2> HIDE DEF q
  <2>3. fed(u) = [x.sub[u] EXCEPT !.queue = q]
    BY DEF q
  <2> HIDE DEF fed
  <2>4. QED
    BY <2>1, <2>2, <2>3 DEF SubState
<1> HIDE DEF fed
<1>4. full \in SUBSET Subs
  OBVIOUS
<1> HIDE DEF full
<1>5. /\ sub2 \in [Subs -> SubState]
      /\ \A u \in Subs : /\ sub2[u].pc = x.sub[u].pc /\ sub2[u].keys = x.sub[u].keys
                         /\ sub2[u].ended = x.sub[u].ended /\ sub2[u].ready = x.sub[u].ready
  BY <1>2, <1>3
<1> HIDE DEF sub2
<1>6. \A u \in Subs :
        /\ Open(sub2[u]) <=> Open(x.sub[u])
        /\ Open(sub2[u]) =>
             /\ sub2[u].keys = x.sub[u].keys
             /\ sub2[u].ready => x.sub[u].ready \/ sub2[u].keys \subseteq x.accepted
             /\ sub2[u].pc \in {"checking", "live"} => sub2[u].ready
  BY <1>5 DEF Open, Sound, Consistent, Accepted
<1>7. Sound(y)
  BY <1>5, <1>6, SubsChange
<1>8. y.closed = x.closed /\ y.ses = x.ses
  BY <1>2 DEF ClientState
<1> HIDE DEF y
<1>9. Sound(end(y, full)) /\ Ended(end(y, full), y, full)
  BY <1>4, <1>7, EndKeeps
<1>10. QED
  BY <1>1, <1>8, <1>9 DEF Ended, Delivered

\* markReady keeps the client sound: what is confirmed was accepted.
LEMMA ReadySound ==
    ASSUME NEW x, Sound(x), NEW us
    PROVE  Sound(markReady(x, us)) /\ Delivered(markReady(x, us), x)
<1> DEFINE ready(u) == [x.sub[u] EXCEPT !.ready = TRUE]
           sub2 == [u \in Subs |-> IF u \in us /\ x.sub[u].keys \subseteq x.confirmed
                                   THEN ready(u) ELSE x.sub[u]]
           y == [x EXCEPT !.sub = sub2]
<1>1. markReady(x, us) = y
  BY DEF markReady
<1>2. x \in ClientState /\ x.sub \in [Subs -> SubState] /\ x.confirmed \subseteq x.accepted
  BY ClientFields DEF Sound, Consistent
<1>3. ASSUME NEW u \in Subs
      PROVE  /\ ready(u) \in SubState /\ ready(u).pc = x.sub[u].pc /\ ready(u).keys = x.sub[u].keys
             /\ ready(u).ended = x.sub[u].ended /\ ready(u).ready = TRUE
  <2>1. x.sub[u] \in SubState
    BY <1>2
  <2>2. QED
    BY <2>1 DEF SubState
<1> HIDE DEF ready
<1>4. sub2 \in [Subs -> SubState]
  BY <1>2, <1>3
<1>5. \A u \in Subs : \/ sub2[u] = x.sub[u]
                      \/ sub2[u] = ready(u) /\ x.sub[u].keys \subseteq x.confirmed
  OBVIOUS
<1> HIDE DEF sub2
<1>6. \A u \in Subs :
        /\ Open(sub2[u]) <=> Open(x.sub[u])
        /\ Open(sub2[u]) =>
             /\ sub2[u].keys = x.sub[u].keys
             /\ sub2[u].ready => x.sub[u].ready \/ sub2[u].keys \subseteq x.accepted
             /\ sub2[u].pc \in {"checking", "live"} => sub2[u].ready
  <2>1. \A u \in Subs : Open(x.sub[u]) => (x.sub[u].pc \in {"checking", "live"} => x.sub[u].ready)
    BY DEF Sound, Consistent, Accepted
  <2>2. QED
    BY <1>2, <1>3, <1>5, <2>1 DEF Open
<1>7. Sound(y)
  BY <1>4, <1>6, SubsChange
<1>8. y.closed = x.closed /\ y.ses = x.ses
  BY <1>2 DEF ClientState
<1>9. QED
  BY <1>1, <1>7, <1>8 DEF Delivered

-----------------------------------------------------------------------------
(* Callers                                                                 *)

\* A subscription that does not exist is in no list.
LEMMA NoSubFacts == NoSub \in SubState /\ ~Open(NoSub)
BY SizeAssumption, SMT DEF NoSub, SubState, Open

\* The caller's context ends.
LEMMA CancelContextStep == ASSUME IInv, NEW u \in Subs, CancelContext(u) PROVE IInv'
<1> DEFINE r == [c.sub[u] EXCEPT !.cancelled = TRUE]
<1>1. Sound(c) /\ c.sub[u] \in SubState
  BY ClientFields DEF IInv, Sound, Consistent
<1>2. /\ r \in SubState /\ r.pc = c.sub[u].pc /\ r.keys = c.sub[u].keys
      /\ r.ended = c.sub[u].ended /\ r.ready = c.sub[u].ready
  BY <1>1 DEF SubState
<1>3. c' = SetSub(c, u, r)
  BY DEF CancelContext
<1> HIDE DEF r
<1>4. Open(c.sub[u]) => (c.sub[u].pc \in {"checking", "live"} => c.sub[u].ready)
  BY <1>1 DEF Sound, Consistent, Accepted
<1>5. Sound(SetSub(c, u, r))
  BY <1>1, <1>2, <1>4, SetSubSound DEF Open
<1>6. QED
  BY <1>3, <1>5 DEF IInv

\* The AfterFunc of the context ends the subscription.
LEMMA AfterFuncStep == ASSUME IInv, NEW u \in Subs, AfterFunc(u) PROVE IInv'
BY EndKeeps DEF IInv, AfterFunc

\* c.end for one subscription.
LEMMA EndOne ==
    ASSUME NEW x, Sound(x), NEW u \in Subs
    PROVE  /\ Sound(end(x, {u})) /\ end(x, {u}).sub[u] \in SubState
           /\ end(x, {u}).sub[u].ended /\ end(x, {u}).sub[u].pc = x.sub[u].pc
<1> DEFINE t == end(x, {u})
<1>1. Sound(t) /\ Ended(t, x, {u})
  BY EndKeeps
<1> HIDE DEF t
<1>2. t.sub[u] \in SubState
  BY <1>1, ClientFields DEF Sound, Consistent
<1>3. QED
  BY <1>1, <1>2 DEF Ended, t

\* Subscribe leaves its select.
LEMMA SelectedStep == ASSUME IInv, NEW u \in Subs, Selected(u) PROVE IInv'
<1> DEFINE r(x) == [x.sub[u] EXCEPT !.pc = "checking"]
<1>1. Sound(c) /\ c.sub[u] \in SubState
  BY ClientFields DEF IInv, Sound, Consistent
<1>2. ASSUME NEW x, x.sub[u] \in SubState
      PROVE  /\ r(x) \in SubState /\ r(x).pc = "checking" /\ r(x).keys = x.sub[u].keys
             /\ r(x).ended = x.sub[u].ended /\ r(x).ready = x.sub[u].ready
  BY <1>2 DEF SubState
<1>3. \/ c.sub[u].ready /\ c' = SetSub(c, u, r(c))
      \/ c' = SetSub(end(c, {u}), u, r(end(c, {u})))
  BY DEF Selected
<1>4. c.sub[u].pc = "waiting"
  BY DEF Selected
<1> HIDE DEF r
<1>5. CASE c.sub[u].ready /\ c' = SetSub(c, u, r(c))
  <2>1. Sound(SetSub(c, u, r(c)))
    BY <1>1, <1>2, <1>4, <1>5, SetSubSound DEF Open
  <2>2. QED
    BY <1>5, <2>1 DEF IInv
<1>6. CASE c' = SetSub(end(c, {u}), u, r(end(c, {u})))
  <2> DEFINE x == end(c, {u})
  <2>1. Sound(x) /\ x.sub[u] \in SubState /\ x.sub[u].ended
    BY <1>1, EndOne
  <2> HIDE DEF x
  <2>2. Sound(SetSub(x, u, r(x)))
    BY <1>2, <2>1, SetSubSound DEF Open
  <2>3. QED
    BY <1>6, <2>2 DEF IInv, x
<1>7. QED
  BY <1>3, <1>5, <1>6

\* Subscribe returns the subscription, or an error when it has ended.
LEMMA SubscribeReturnsStep == ASSUME IInv, NEW u \in Subs, SubscribeReturns(u) PROVE IInv'
<1> DEFINE x == IF c.sub[u].cancelled /\ ~c.sub[u].ended THEN end(c, {u}) ELSE c
           r == [x.sub[u] EXCEPT !.pc = "live"]
<1>1. Sound(c) /\ c.sub[u] \in SubState
  BY ClientFields DEF IInv, Sound, Consistent
<1>2. c.sub[u].pc = "checking" /\ c' = SetSub(x, u, IF x.sub[u].ended THEN NoSub ELSE r)
  BY DEF SubscribeReturns
<1>3. Sound(x) /\ x.sub[u] \in SubState /\ x.sub[u].pc = "checking"
  BY <1>1, <1>2, EndOne
<1> HIDE DEF x
<1>4. /\ r \in SubState /\ r.pc = "live" /\ r.keys = x.sub[u].keys
      /\ r.ended = x.sub[u].ended /\ r.ready = x.sub[u].ready
  BY <1>3 DEF SubState
<1> HIDE DEF r
<1>5. CASE x.sub[u].ended
  <2>1. Sound(SetSub(x, u, NoSub))
    BY <1>3, <1>5, NoSubFacts, SetSubSound DEF Open
  <2>2. QED
    BY <1>2, <1>5, <2>1 DEF IInv
<1>6. CASE ~x.sub[u].ended
  <2>1. x.sub[u].ready
    BY <1>3, <1>6 DEF Sound, Consistent, Accepted, Open
  <2>2. Sound(SetSub(x, u, r))
    BY <1>3, <1>4, <2>1, SetSubSound DEF Open
  <2>3. QED
    BY <1>2, <1>6, <2>2 DEF IInv
<1>7. QED
  BY <1>5, <1>6

\* The caller closes the subscription.
LEMMA CloseSubscriptionStep == ASSUME IInv, NEW u \in Subs, CloseSubscription(u) PROVE IInv'
<1> DEFINE x == IF c.sub[u].ended THEN c ELSE end(c, {u})
<1>1. Sound(c) /\ c.sub[u] \in SubState
  BY ClientFields DEF IInv, Sound, Consistent
<1>2. c' = SetSub(x, u, NoSub)
  BY DEF CloseSubscription
<1>3. Sound(x) /\ x.sub[u].ended
  BY <1>1, EndOne
<1> HIDE DEF x
<1>4. Sound(SetSub(x, u, NoSub))
  BY <1>3, NoSubFacts, SetSubSound DEF Open
<1>5. QED
  BY <1>2, <1>4 DEF IInv

\* The caller takes an event.
LEMMA ConsumeStep == ASSUME IInv, NEW u \in Subs, Consume(u) PROVE IInv'
<1> DEFINE q == c.sub[u].queue - 1
           r == [c.sub[u] EXCEPT !.queue = q]
<1>1. Sound(c) /\ c.sub[u] \in SubState /\ c.sub[u].queue \in 0..BufferSize
  BY ClientFields, SubFields DEF IInv, Sound, Consistent
<1>2. c.sub[u].queue > 0 /\ c' = SetSub(c, u, r)
  BY DEF Consume
<1>3. q \in 0..BufferSize
  BY <1>1, <1>2, SizeAssumption, SMT
<1> HIDE DEF q
<1>4. /\ r \in SubState /\ r.pc = c.sub[u].pc /\ r.keys = c.sub[u].keys
      /\ r.ended = c.sub[u].ended /\ r.ready = c.sub[u].ready
  BY <1>1, <1>3 DEF SubState
<1> HIDE DEF r
<1>5. Open(c.sub[u]) => (c.sub[u].pc \in {"checking", "live"} => c.sub[u].ready)
  BY <1>1 DEF Sound, Consistent, Accepted
<1>6. Sound(SetSub(c, u, r))
  BY <1>1, <1>4, <1>5, SetSubSound DEF Open
<1>7. QED
  BY <1>2, <1>6 DEF IInv

\* Client.Close ends every subscription, so that no session has a key left when
\* all are cancelled.
LEMMA CloseStep == ASSUME IInv, Close PROVE IInv'
<1> DEFINE us == {u \in Subs : c.sub[u].pc # "idle" /\ ~c.sub[u].ended}
           x == end(c, us)
           stopped(s) == [x.ses[s] EXCEPT !.cancelled = TRUE]
           ses2 == [s \in Sessions |-> IF x.ses[s].phase = "free" THEN x.ses[s] ELSE stopped(s)]
           t == [x EXCEPT !.closed = "closing", !.ses = ses2]
<1>1. Sound(c)
  BY DEF IInv
<1>2. c' = t
  BY DEF Close
<1>3. Sound(x) /\ Ended(x, c, us)
  BY <1>1, EndKeeps
<1>4. \A k \in Keys : x.place[k] = None
  <2>1. SUFFICES ASSUME NEW k \in Keys PROVE x.place[k] = None
    OBVIOUS
  <2>2. c.listeners[k] \in SUBSET Subs
    BY <1>1, ClientFields DEF Sound, Consistent
  <2>3. \A u \in Subs : u \in c.listeners[k] => u \in us
    BY <1>1 DEF Sound, Consistent, Linked, Open
  <2>4. c.listeners[k] \subseteq us
    BY <2>2, <2>3
  <2>5. QED
    BY <1>3, <2>4 DEF Ended
<1> HIDE DEF x
<1>5. x \in ClientState /\ x.ses \in [Sessions -> SessionState] /\ x.confirmed \in SUBSET Keys
  BY <1>3, ClientFields DEF Sound, Consistent
<1>6. ASSUME NEW s \in Sessions
      PROVE  /\ stopped(s) \in SessionState /\ stopped(s).phase = x.ses[s].phase
             /\ stopped(s).op = x.ses[s].op /\ stopped(s).keys = x.ses[s].keys
             /\ stopped(s).stale = x.ses[s].stale /\ stopped(s).todo = x.ses[s].todo
             /\ stopped(s).rejected = x.ses[s].rejected
             /\ stopped(s).filters = x.ses[s].filters /\ stopped(s).server = x.ses[s].server
  <2>1. x.ses[s] \in SessionState
    BY <1>5
  <2>2. QED
    BY <2>1 DEF SessionState
<1> HIDE DEF stopped
<1>7. ses2 \in [Sessions -> SessionState]
  BY <1>5, <1>6
<1>8. \A s \in Sessions : ses2[s] = x.ses[s] \/ ses2[s] = stopped(s)
  OBVIOUS
<1> HIDE DEF ses2
<1>9. SessionsInv(x.place, ses2)
  <2>1. SUFFICES ASSUME NEW s \in Sessions
                 PROVE  Filtered(ses2[s], OnOf(x.place, s)) /\ Operation(ses2[s], OnOf(x.place, s))
    BY DEF SessionsInv
  <2>2. Filtered(x.ses[s], OnOf(x.place, s)) /\ Operation(x.ses[s], OnOf(x.place, s))
    BY <1>3 DEF Sound, Consistent, SessionsInv
  <2>3. CASE ses2[s] = x.ses[s]
    BY <2>2, <2>3
  <2>4. CASE ses2[s] = stopped(s)
    <3>1. Filtered(stopped(s), OnOf(x.place, s))
      BY <1>6, <2>2 DEF Filtered
    <3>2. Operation(stopped(s), OnOf(x.place, s))
      BY <1>6, <2>2, SMT DEF Operation
    <3>3. QED
      BY <2>4, <3>1, <3>2
  <2>5. QED
    BY <1>8, <2>3, <2>4
<1>10. /\ t \in ClientState /\ t.place = x.place /\ t.listeners = x.listeners /\ t.sub = x.sub
       /\ t.confirmed = x.confirmed /\ t.accepted = x.accepted /\ t.ses = ses2
  BY <1>5, <1>7 DEF ClientState
<1> HIDE DEF t
<1>11. Hosted(t.place, t.ses, Keys) /\ ConfirmedInv(t.place, t.confirmed, t.ses)
  BY <1>3, <1>4, <1>5, <1>10 DEF Hosted, ConfirmedInv, Sound, Consistent
<1>12. Sound(t)
  BY <1>3, <1>9, <1>10, <1>11 DEF Sound, Consistent
<1>13. QED
  BY <1>2, <1>12 DEF IInv

\* Client.Close returns.
LEMMA CloseReturnsStep == ASSUME IInv, CloseReturns PROVE IInv'
<1> DEFINE t == [c EXCEPT !.closed = "done"]
<1>1. Sound(c) /\ c \in ClientState /\ c' = t
  BY DEF IInv, Sound, Consistent, CloseReturns
<1>2. /\ t \in ClientState /\ t.place = c.place /\ t.listeners = c.listeners /\ t.sub = c.sub
      /\ t.confirmed = c.confirmed /\ t.accepted = c.accepted /\ t.ses = c.ses
  BY <1>1 DEF ClientState
<1> HIDE DEF t
<1>3. Sound(t)
  BY <1>1, <1>2 DEF Sound, Consistent
<1>4. QED
  BY <1>1, <1>3 DEF IInv

\* A session may be given more keys.
LEMMA OnGrows ==
    ASSUME NEW r \in SessionState, NEW on, NEW more, on \subseteq more,
           Filtered(r, on), Operation(r, on)
    PROVE  Filtered(r, more) /\ Operation(r, more)
<1>1. Filtered(r, more)
  BY DEF Filtered
<1>2. Operation(r, more)
  BY DEF Operation
<1>3. QED
  BY <1>1, <1>2

\* A session without a socket, in a phase that has none.
Fresh(phase, wake) == [NoSession EXCEPT !.phase = phase, !.wake = wake]

FreshOK(r, phase, on) ==
    r \in SessionState /\ r.phase = phase /\ ~r.cancelled /\ Filtered(r, on) /\ Operation(r, on)

\* Such a session has no filter and no operation.
LEMMA FreshSession ==
    ASSUME NEW phase \in Phases \ {"pacing", "sent"}, NEW wake \in BOOLEAN, NEW on
    PROVE  FreshOK(Fresh(phase, wake), phase, on)
<1> DEFINE r == Fresh(phase, wake)
<1> DEFINE none == [k \in Keys |-> "none"]
<1>1. none \in [Keys -> Tag] /\ \A k \in Keys : none[k] = "none"
  BY DEF Tag
<1>2. NoSession = [phase |-> "free", cancelled |-> FALSE, wake |-> FALSE,
                   filters |-> none, server |-> none,
                   op |-> "none", keys |-> {}, stale |-> {}, todo |-> {}, rejected |-> {}]
  BY DEF NoSession
<1> HIDE DEF none
<1>3. /\ r \in SessionState /\ r.phase = phase /\ r.cancelled = FALSE
      /\ r.filters = none /\ r.server = none
  BY <1>1, <1>2 DEF SessionState, Phases, Fresh
<1> HIDE DEF r
<1>4. Filtered(r, on)
  BY <1>1, <1>3 DEF Filtered
<1>5. Operation(r, on)
  BY <1>3 DEF Operation, Phases
<1>6. QED
  BY <1>3, <1>4, <1>5 DEF FreshOK, r

\* The sessions of a client in which keys ks are placed: one that was free is new,
\* one that has a key of ks is woken.
WokenSessions(ses, place, ks) ==
    [s \in Sessions |->
        IF ~\E k \in ks : place[k] = s THEN ses[s]
        ELSE IF ses[s].phase = "free" THEN [NoSession EXCEPT !.phase = "dial"]
        ELSE [ses[s] EXCEPT !.wake = TRUE]]

\* What waking sessions and starting new ones does, session by session.
WokeWell(w, ses, place, ks) ==
    /\ w \in [Sessions -> SessionState]
    /\ \A s \in Sessions : ses[s].phase # "free" =>
            /\ w[s].phase = ses[s].phase /\ w[s].cancelled = ses[s].cancelled
            /\ w[s].server = ses[s].server
    /\ \A s \in Sessions : ses[s].phase = "free" /\ (\E k \in ks : place[k] = s) =>
            w[s].phase = "dial" /\ ~w[s].cancelled
    /\ \A s \in Sessions, on \in SUBSET Keys, more \in SUBSET Keys :
            on \subseteq more /\ Filtered(ses[s], on) /\ Operation(ses[s], on) =>
                Filtered(w[s], more) /\ Operation(w[s], more)

\* Subscribe wakes and starts sessions as WokeWell says.
LEMMA WokenFacts ==
    ASSUME NEW ses \in [Sessions -> SessionState], NEW place, NEW ks
    PROVE  WokeWell(WokenSessions(ses, place, ks), ses, place, ks)
<1> DEFINE new == [NoSession EXCEPT !.phase = "dial"]
           woken(s) == [ses[s] EXCEPT !.wake = TRUE]
           w == WokenSessions(ses, place, ks)
<1>1. /\ new \in SessionState /\ new.phase = "dial" /\ new.cancelled = FALSE
      /\ \A k \in Keys : new.filters[k] = "none" /\ new.server[k] = "none"
  <2> DEFINE none == [k \in Keys |-> "none"]
  <2>1. none \in [Keys -> Tag] /\ \A k \in Keys : none[k] = "none"
    BY DEF Tag
  <2>2. NoSession = [phase |-> "free", cancelled |-> FALSE, wake |-> FALSE,
                     filters |-> none, server |-> none,
                     op |-> "none", keys |-> {}, stale |-> {}, todo |-> {}, rejected |-> {}]
    BY DEF NoSession
  <2> HIDE DEF none
  <2>3. /\ new \in SessionState /\ new.phase = "dial" /\ new.cancelled = FALSE
        /\ new.filters = none /\ new.server = none
    BY <2>1, <2>2 DEF SessionState, Phases
  <2>4. QED
    BY <2>1, <2>3
<1>2. \A on : Filtered(new, on) /\ Operation(new, on)
  BY <1>1 DEF Filtered, Operation
<1>3. ASSUME NEW s \in Sessions
      PROVE  /\ woken(s) \in SessionState /\ woken(s).phase = ses[s].phase
             /\ woken(s).cancelled = ses[s].cancelled
             /\ woken(s).op = ses[s].op /\ woken(s).keys = ses[s].keys
             /\ woken(s).stale = ses[s].stale /\ woken(s).todo = ses[s].todo
             /\ woken(s).rejected = ses[s].rejected
             /\ woken(s).filters = ses[s].filters /\ woken(s).server = ses[s].server
  <2>1. ses[s] \in SessionState
    OBVIOUS
  <2>2. QED
    BY <2>1 DEF SessionState
<1>4. w = [s \in Sessions |-> IF ~\E k \in ks : place[k] = s THEN ses[s]
                              ELSE IF ses[s].phase = "free" THEN new ELSE woken(s)]
  BY DEF WokenSessions
<1> HIDE DEF new, woken, w
<1>5. w \in [Sessions -> SessionState]
  BY <1>1, <1>3, <1>4
<1>6. \A s \in Sessions : /\ ses[s].phase # "free" => w[s] \in {ses[s], woken(s)}
                          /\ ses[s].phase = "free" /\ (\E k \in ks : place[k] = s) => w[s] = new
                          /\ w[s] \in {ses[s], woken(s), new}
  BY <1>4
<1>7. ASSUME NEW s \in Sessions, NEW on \in SUBSET Keys, NEW more \in SUBSET Keys,
             on \subseteq more, Filtered(ses[s], on), Operation(ses[s], on)
      PROVE  Filtered(w[s], more) /\ Operation(w[s], more)
  <2>1. ses[s] \in SessionState
    OBVIOUS
  <2>2. Filtered(ses[s], more) /\ Operation(ses[s], more)
    BY <1>7, <2>1, OnGrows
  <2>3. Filtered(woken(s), more)
    BY <1>3, <2>2 DEF Filtered
  <2>4. Operation(woken(s), more)
    BY <1>3, <2>2, SMT DEF Operation
  <2>5. QED
    BY <1>2, <1>6, <2>2, <2>3, <2>4
<1>8. /\ \A s \in Sessions : ses[s].phase # "free" =>
            /\ w[s].phase = ses[s].phase /\ w[s].cancelled = ses[s].cancelled
            /\ w[s].server = ses[s].server
      /\ \A s \in Sessions : ses[s].phase = "free" /\ (\E k \in ks : place[k] = s) =>
            w[s].phase = "dial" /\ ~w[s].cancelled
  BY <1>1, <1>3, <1>6
<1>9. QED
  BY <1>5, <1>7, <1>8 DEF w, WokeWell

\* The client after the new subscription r of u, with the keys ks, has its keys
\* placed: those not in use yet as at says.
Unplaced(x, ks) == {k \in ks : x.place[k] = None}
Usable(x) == {s \in Sessions : x.ses[s].phase = "free" \/ ~x.ses[s].cancelled}
PlaceWith(x, ks, at) == [k \in Keys |-> IF k \in Unplaced(x, ks) THEN at[k] ELSE x.place[k]]
ListenersWith(x, u, ks) ==
    [k \in Keys |-> IF k \in ks THEN x.listeners[k] \cup {u} ELSE x.listeners[k]]
PlacedWith(x, u, ks, at, r) ==
    [x EXCEPT !.place = PlaceWith(x, ks, at), !.listeners = ListenersWith(x, u, ks),
              !.sub = [x.sub EXCEPT ![u] = r],
              !.ses = WokenSessions(x.ses, PlaceWith(x, ks, at), ks)]

\* Placing the keys of a new subscription keeps the client sound: each key in use
\* stays where it is, each new one goes to a session that is new or goes on.
LEMMA PlacedSound ==
    ASSUME NEW x, Sound(x), NEW u \in Subs, x.sub[u].pc = "idle", NEW ks \in SUBSET Keys,
           NEW at \in [Unplaced(x, ks) -> Usable(x)],
           NEW r \in SubState, r.pc = "waiting", ~r.ended, ~r.ready, r.keys = ks
    PROVE  Sound(PlacedWith(x, u, ks, at, r))
<1> DEFINE place2 == PlaceWith(x, ks, at)
           listeners2 == ListenersWith(x, u, ks)
           sub2 == [x.sub EXCEPT ![u] = r]
           t == PlacedWith(x, u, ks, at, r)
<1>place. /\ place2 = [k \in Keys |-> IF k \in Unplaced(x, ks) THEN at[k] ELSE x.place[k]]
          /\ Unplaced(x, ks) = {k \in ks : x.place[k] = None}
          /\ Usable(x) = {s \in Sessions : x.ses[s].phase = "free" \/ ~x.ses[s].cancelled}
  BY DEF PlaceWith, Unplaced, Usable
<1>listeners. listeners2 = [k \in Keys |-> IF k \in ks THEN x.listeners[k] \cup {u}
                                           ELSE x.listeners[k]]
  BY DEF ListenersWith
<1>t. t = [x EXCEPT !.place = place2, !.listeners = listeners2, !.sub = sub2,
                    !.ses = WokenSessions(x.ses, place2, ks)]
  BY DEF PlacedWith
<1> HIDE DEF place2, listeners2, t
<1> DEFINE ses2 == WokenSessions(x.ses, place2, ks)
<1>1. /\ x \in ClientState /\ x.place \in [Keys -> Sessions \cup {None}]
      /\ x.listeners \in [Keys -> SUBSET Subs] /\ x.sub \in [Subs -> SubState]
      /\ x.ses \in [Sessions -> SessionState] /\ x.confirmed \in SUBSET Keys
  BY ClientFields DEF Sound, Consistent
<1>2. /\ place2 \in [Keys -> Sessions \cup {None}] /\ listeners2 \in [Keys -> SUBSET Subs]
      /\ sub2 \in [Subs -> SubState]
  BY <1>1, <1>place, <1>listeners
<1>3. /\ \A k \in Keys : x.place[k] # None => place2[k] = x.place[k]
      /\ \A k \in Keys : k \notin ks => place2[k] = x.place[k]
      /\ \A k \in ks : /\ place2[k] # None
                       /\ x.place[k] = None =>
                            /\ place2[k] \in Sessions
                            /\ x.ses[place2[k]].phase = "free" \/ ~x.ses[place2[k]].cancelled
  BY <1>place, SetAssumption
<1>4. /\ \A k \in Keys : listeners2[k] = IF k \in ks THEN x.listeners[k] \cup {u} ELSE x.listeners[k]
      /\ sub2[u] = r /\ \A w \in Subs : w # u => sub2[w] = x.sub[w]
  BY <1>1, <1>listeners
<1>5. /\ ses2 \in [Sessions -> SessionState]
      /\ \A s \in Sessions : x.ses[s].phase # "free" =>
            /\ ses2[s].phase = x.ses[s].phase /\ ses2[s].cancelled = x.ses[s].cancelled
            /\ ses2[s].server = x.ses[s].server
      /\ \A s \in Sessions : x.ses[s].phase = "free" /\ (\E k \in ks : place2[k] = s) =>
            ses2[s].phase = "dial" /\ ~ses2[s].cancelled
      /\ \A s \in Sessions, on \in SUBSET Keys, more \in SUBSET Keys :
            on \subseteq more /\ Filtered(x.ses[s], on) /\ Operation(x.ses[s], on) =>
                Filtered(ses2[s], more) /\ Operation(ses2[s], more)
  <2>1. WokeWell(ses2, x.ses, place2, ks)
    BY <1>1, WokenFacts
  <2>2. QED
    BY <2>1 DEF WokeWell
<1> HIDE DEF ses2, sub2
<1>6. /\ t \in ClientState /\ t.place = place2 /\ t.listeners = listeners2 /\ t.sub = sub2
      /\ t.confirmed = x.confirmed /\ t.accepted = x.accepted /\ t.ses = ses2
  <2>1. t = [x EXCEPT !.place = place2, !.listeners = listeners2, !.sub = sub2, !.ses = ses2]
    BY <1>t DEF ses2
  <2>2. QED
    BY <1>1, <1>2, <1>5, <2>1 DEF ClientState
<1>7. Linked(place2, listeners2, sub2)
  <2>1. /\ \A k \in Keys, w \in Subs :
                w \in x.listeners[k] <=> Open(x.sub[w]) /\ k \in x.sub[w].keys
        /\ \A k \in Keys : x.place[k] # None <=> x.listeners[k] # {}
    BY DEF Sound, Consistent, Linked
  <2>2. Open(r) /\ ~Open(x.sub[u])
    BY DEF Open
  <2>3. \A k \in Keys, w \in Subs : w \in listeners2[k] <=> Open(sub2[w]) /\ k \in sub2[w].keys
    <3>1. SUFFICES ASSUME NEW k \in Keys, NEW w \in Subs
                   PROVE  w \in listeners2[k] <=> Open(sub2[w]) /\ k \in sub2[w].keys
      OBVIOUS
    <3>2. w \in x.listeners[k] <=> Open(x.sub[w]) /\ k \in x.sub[w].keys
      BY <2>1
    <3>3. CASE w = u
      <4>1. w \notin x.listeners[k]
        BY <2>2, <3>2, <3>3
      <4>2. w \in listeners2[k] <=> k \in ks
        BY <1>4, <3>3, <4>1
      <4>3. QED
        BY <1>4, <2>2, <3>3, <4>2
    <3>4. CASE w # u
      <4>1. listeners2[k] = IF k \in ks THEN x.listeners[k] \cup {u} ELSE x.listeners[k]
        BY <1>4
      <4>2. w \in listeners2[k] <=> w \in x.listeners[k]
        BY <3>4, <4>1
      <4>3. QED
        BY <1>4, <3>2, <3>4, <4>2
    <3>5. QED
      BY <3>3, <3>4
  <2>4. ASSUME NEW k \in Keys PROVE place2[k] # None <=> listeners2[k] # {}
    <3>1. CASE k \in ks
      BY <1>3, <1>4, <3>1
    <3>2. CASE k \notin ks
      BY <1>3, <1>4, <2>1, <3>2
    <3>3. QED
      BY <3>1, <3>2
  <2>5. QED
    BY <2>3, <2>4 DEF Linked
<1>8. Accepted(sub2, x.accepted)
  <2>1. SUFFICES ASSUME NEW w \in Subs, Open(sub2[w])
                 PROVE  /\ sub2[w].ready => sub2[w].keys \subseteq x.accepted
                        /\ sub2[w].pc \in {"checking", "live"} => sub2[w].ready
    BY DEF Accepted
  <2>2. CASE w = u
    BY <1>4, <2>2
  <2>3. CASE w # u
    BY <1>4, <2>1, <2>3 DEF Sound, Consistent, Accepted
  <2>4. QED
    BY <2>2, <2>3
<1>9. SessionsInv(place2, ses2)
  <2>1. SUFFICES ASSUME NEW s \in Sessions
                 PROVE  Filtered(ses2[s], OnOf(place2, s)) /\ Operation(ses2[s], OnOf(place2, s))
    BY DEF SessionsInv
  <2>2. Filtered(x.ses[s], OnOf(x.place, s)) /\ Operation(x.ses[s], OnOf(x.place, s))
    BY DEF Sound, Consistent, SessionsInv
  <2>3. /\ OnOf(x.place, s) \in SUBSET Keys /\ OnOf(place2, s) \in SUBSET Keys
        /\ OnOf(x.place, s) \subseteq OnOf(place2, s)
    BY <1>3, SetAssumption DEF OnOf
  <2>4. QED
    BY <1>5, <2>2, <2>3
<1>10. ASSUME NEW k \in Keys, x.place[k] # None
       PROVE  /\ x.place[k] \in Sessions /\ place2[k] = x.place[k]
              /\ ~x.ses[x.place[k]].cancelled /\ x.ses[x.place[k]].phase # "free"
  BY <1>1, <1>3, <1>10 DEF Sound, Hosted
<1>11. ConfirmedInv(place2, x.confirmed, ses2)
  <2>1. SUFFICES ASSUME NEW k \in x.confirmed
                 PROVE  /\ place2[k] # None
                        /\ ses2[place2[k]].phase \notin Before
                        /\ ses2[place2[k]].phase \in OnSocket => ses2[place2[k]].server[k] = "current"
    BY DEF ConfirmedInv
  <2>2. /\ k \in Keys /\ x.place[k] # None /\ x.ses[x.place[k]].phase \notin Before
        /\ x.ses[x.place[k]].phase \in OnSocket => x.ses[x.place[k]].server[k] = "current"
    BY <1>1 DEF Sound, Consistent, ConfirmedInv
  <2>3. /\ x.place[k] \in Sessions /\ place2[k] = x.place[k]
        /\ x.ses[x.place[k]].phase # "free"
    BY <1>10, <2>2
  <2>4. /\ ses2[place2[k]].phase = x.ses[x.place[k]].phase
        /\ ses2[place2[k]].server = x.ses[x.place[k]].server
    BY <1>5, <2>3
  <2>5. place2[k] # None
    BY <2>2, <2>3
  <2>6. QED
    BY <2>2, <2>4, <2>5
<1>12. Hosted(place2, ses2, Keys)
  <2>1. SUFFICES ASSUME NEW k \in Keys, place2[k] # None
                 PROVE  ~ses2[place2[k]].cancelled /\ ses2[place2[k]].phase # "free"
    BY DEF Hosted
  <2>2. CASE x.place[k] # None
    <3>1. /\ x.place[k] \in Sessions /\ place2[k] = x.place[k]
          /\ ~x.ses[x.place[k]].cancelled /\ x.ses[x.place[k]].phase # "free"
      BY <1>10, <2>2
    <3>2. /\ ses2[place2[k]].phase = x.ses[place2[k]].phase
          /\ ses2[place2[k]].cancelled = x.ses[place2[k]].cancelled
      BY <1>5, <3>1
    <3>3. QED
      BY <3>1, <3>2
  <2>3. CASE x.place[k] = None
    <3>1. k \in ks
      BY <1>3, <2>1, <2>3
    <3>2. place2[k] \in Sessions /\ (x.ses[place2[k]].phase = "free" \/ ~x.ses[place2[k]].cancelled)
      BY <1>3, <2>3, <3>1
    <3>3. QED
      BY <1>5, <3>1, <3>2
  <2>4. QED
    BY <2>2, <2>3
<1>13. QED
  BY <1>6, <1>7, <1>8, <1>9, <1>11, <1>12 DEF Sound, Consistent, t

\* The first critical section of Subscribe.
LEMMA SubscribeStep ==
    ASSUME IInv, NEW u \in Subs, NEW ks \in Requests[u], Subscribe(u, ks) PROVE IInv'
<1> DEFINE new == {k \in ks : c.place[k] = None}
           usable == {s \in Sessions : c.ses[s].phase = "free" \/ ~c.ses[s].cancelled}
           cached == Cardinality(ks \cap c.confirmed) + Cardinality(ks \cap c.snapshot)
           listeners2 == [k \in Keys |-> IF k \in ks THEN c.listeners[k] \cup {u} ELSE c.listeners[k]]
           r == [NoSub EXCEPT !.pc = "waiting", !.keys = ks]
           sub2 == [c.sub EXCEPT ![u] = r]
<1>1. ks \in SUBSET Keys
  BY SetAssumption
<1>2. cached \in Nat
  <2>1. ks \cap c.confirmed \in SUBSET Keys /\ ks \cap c.snapshot \in SUBSET Keys
    BY <1>1
  <2>2. Cardinality(ks \cap c.confirmed) \in Nat /\ Cardinality(ks \cap c.snapshot) \in Nat
    BY <2>1, SetAssumption
  <2>3. QED
    BY <2>2, SMT
<1> DEFINE place2(at) == [k \in Keys |-> IF k \in new THEN at[k] ELSE c.place[k]]
           placed(at) == [c EXCEPT !.place = place2(at), !.listeners = listeners2, !.sub = sub2]
           woken(at) == [placed(at) EXCEPT !.ses = [s \in Sessions |->
                            IF ~\E k \in ks : placed(at).place[k] = s THEN c.ses[s]
                            ELSE IF c.ses[s].phase = "free" THEN [NoSession EXCEPT !.phase = "dial"]
                            ELSE [c.ses[s] EXCEPT !.wake = TRUE]]]
<1>3. PICK at \in [new -> usable] : c' = markReady(deliver(woken(at), {u}, cached), {u})
  BY DEF Subscribe, Placeable, Alive
<1>4. Sound(c) /\ c \in ClientState /\ c.sub[u].pc = "idle"
  BY DEF IInv, Sound, Consistent, Subscribe
<1>5. r \in SubState /\ r.pc = "waiting" /\ ~r.ended /\ ~r.ready /\ r.keys = ks
  BY <1>1, NoSubFacts DEF NoSub, SubState
<1> DEFINE t == [c EXCEPT !.place = place2(at), !.listeners = listeners2, !.sub = sub2,
                          !.ses = WokenSessions(c.ses, place2(at), ks)]
<1>6. woken(at) = t
  <2>1. placed(at).place = place2(at)
    BY <1>4 DEF ClientState
  <2> HIDE DEF place2, listeners2, sub2
  <2> DEFINE ses2 == WokenSessions(c.ses, place2(at), ks)
  <2>2. woken(at) = [placed(at) EXCEPT !.ses = ses2]
    BY <2>1 DEF WokenSessions
  <2> HIDE DEF ses2, woken
  <2>3. [placed(at) EXCEPT !.ses = ses2]
        = [c EXCEPT !.place = place2(at), !.listeners = listeners2, !.sub = sub2, !.ses = ses2]
    BY <1>4 DEF ClientState
  <2>4. QED
    BY <2>2, <2>3 DEF ses2
<1>7. Sound(t)
  <2>1. at \in [Unplaced(c, ks) -> Usable(c)]
    BY DEF Unplaced, Usable
  <2>2. t = PlacedWith(c, u, ks, at, r)
    BY DEF PlacedWith, PlaceWith, ListenersWith, Unplaced
  <2> HIDE DEF r, t
  <2>3. Sound(PlacedWith(c, u, ks, at, r))
    BY <1>1, <1>4, <1>5, <2>1, PlacedSound
  <2>4. QED
    BY <2>2, <2>3
<1> HIDE DEF t, cached, woken
<1>8. Sound(deliver(t, {u}, cached))
  BY <1>2, <1>7, DeliverSound
<1>9. Sound(markReady(deliver(t, {u}, cached), {u}))
  BY <1>8, ReadySound
<1>10. QED
  BY <1>3, <1>6, <1>9 DEF IInv

-----------------------------------------------------------------------------
(* The worker of a session, between operations                             *)

\* No key of a session that has no socket yet is confirmed.
LEMMA Unconfirmed ==
    ASSUME NEW x, Consistent(x), NEW s \in Sessions, x.ses[s].phase \in Before
    PROVE  x.confirmed \cap OnOf(x.place, s) = {}
BY DEF Consistent, ConfirmedInv, OnOf

\* A session that keeps its filters and has no operation in flight.
LEMMA MovedFits ==
    ASSUME NEW x, Consistent(x), NEW s \in Sessions, NEW r \in SessionState,
           r.filters = x.ses[s].filters, r.server = x.ses[s].server,
           r.phase \notin {"pacing", "sent"},
           \/ x.confirmed \cap OnOf(x.place, s) = {}
           \/ r.phase \in OnSocket /\ x.ses[s].phase \in OnSocket
    PROVE  Fits(x, s, r)
<1>1. Fits(x, s, x.ses[s])
  BY SessionFits
<1>2. Filtered(r, OnOf(x.place, s))
  BY <1>1 DEF Fits, Filtered
<1>3. Operation(r, OnOf(x.place, s))
  BY DEF Operation
<1>4. Serves(r, x.confirmed \cap OnOf(x.place, s))
  BY <1>1 DEF Fits, Serves, OnSocket, Before
<1>5. QED
  BY <1>2, <1>3, <1>4 DEF Fits

\* A worker that goes on with its socket or towards one.
LEMMA MoveSound ==
    ASSUME IInv, NEW s \in Sessions, Alive(s), c.ses[s].phase # "free",
           NEW phase \in Phases \ {"free", "pacing", "sent"},
           \/ c.confirmed \cap OnOf(c.place, s) = {}
           \/ phase \in OnSocket /\ c.ses[s].phase \in OnSocket,
           NEW wake \in BOOLEAN
    PROVE  /\ Sound(Move(s, phase))
           /\ Sound(SetSession(c, s, [c.ses[s] EXCEPT !.wake = wake, !.phase = phase]))
<1> DEFINE r == [c.ses[s] EXCEPT !.phase = phase]
           q == [c.ses[s] EXCEPT !.wake = wake, !.phase = phase]
<1>1. Sound(c) /\ Consistent(c) /\ c.ses[s] \in SessionState /\ ~c.ses[s].cancelled
  BY ClientFields DEF IInv, Sound, Consistent, Alive
<1>2. /\ r \in SessionState /\ r.phase = phase /\ ~r.cancelled
      /\ r.filters = c.ses[s].filters /\ r.server = c.ses[s].server
  BY <1>1 DEF SessionState
<1>3. /\ q \in SessionState /\ q.phase = phase /\ ~q.cancelled
      /\ q.filters = c.ses[s].filters /\ q.server = c.ses[s].server
  BY <1>1 DEF SessionState
<1>4. Move(s, phase) = SetSession(c, s, r)
  BY DEF Move
<1> HIDE DEF r, q
<1>5. Fits(c, s, r)
  BY <1>1, <1>2, MovedFits
<1>6. Fits(c, s, q)
  BY <1>1, <1>3, MovedFits
<1>7. Sound(SetSession(c, s, r))
  BY <1>1, <1>2, <1>5, SetSessionSound
<1>8. Sound(SetSession(c, s, q))
  BY <1>1, <1>3, <1>6, SetSessionSound
<1>9. QED
  BY <1>4, <1>7, <1>8 DEF q

\* connected returns and drops the socket.
LEMMA DisconnectSound ==
    ASSUME IInv, NEW s \in Sessions, Alive(s), NEW phase \in {"lost", "refused"}
    PROVE  /\ Sound(Disconnect(s, phase))
           /\ Disconnect(s, phase).listeners = c.listeners
<1> DEFINE r == Fresh(phase, c.ses[s].wake)
<1>1. Sound(c) /\ c \in ClientState /\ c.ses[s] \in SessionState /\ c.ses[s].wake \in BOOLEAN
  BY ClientFields, SessionFields DEF IInv, Sound, Consistent
<1>2. phase \in Phases \ {"pacing", "sent"}
  BY DEF Phases
<1>3. /\ r \in SessionState /\ r.phase = phase /\ r.cancelled = FALSE
      /\ Filtered(r, OnOf(c.place, s)) /\ Operation(r, OnOf(c.place, s))
  <2>1. FreshOK(r, phase, OnOf(c.place, s))
    BY <1>1, <1>2, FreshSession
  <2>2. QED
    BY <2>1, SMT DEF FreshOK
<1>4. Disconnect(s, phase) = SetSession(c, s, r)
  BY DEF Disconnect, Fresh
<1> HIDE DEF r
<1>5. Fits(c, s, r)
  BY <1>3 DEF Fits, Serves, Before, OnSocket
<1>6. Sound(SetSession(c, s, r))
  BY <1>1, <1>3, <1>5, SetSessionSound
<1>7. SetSession(c, s, r).listeners = c.listeners
  BY <1>1, <1>3, SetSessionFields, SMT
<1>8. QED
  BY <1>4, <1>6, <1>7

\* c.reject of keys of a sound client.
LEMMA RejectKeeps ==
    ASSUME NEW x, Sound(x), NEW ks \in SUBSET Keys
    PROVE  /\ Sound(reject(x, ks))
           /\ Ended(reject(x, ks), x, UNION {x.listeners[k] : k \in ks})
<1>1. x.listeners \in [Keys -> SUBSET Subs]
  BY ClientFields DEF Sound, Consistent
<1>2. UNION {x.listeners[k] : k \in ks} \in SUBSET Subs
  BY <1>1
<1>3. QED
  BY <1>2, EndKeeps DEF reject

\* The dial succeeds, the server accepts the credentials, the pause is over, or the
\* worker is woken.
LEMMA ProgressStep ==
    ASSUME IInv, NEW s \in Sessions,
           DialSucceeds(s) \/ AuthSucceeds(s) \/ Retry(s) \/ Woken(s)
    PROVE  IInv'
<1>1. Consistent(c)
  BY DEF IInv, Sound
<1>2. CASE DialSucceeds(s)
  <2>1. c.confirmed \cap OnOf(c.place, s) = {}
    BY <1>1, <1>2, Unconfirmed DEF DialSucceeds, Before
  <2>2. Sound(Move(s, "auth"))
    BY <1>2, <2>1, MoveSound DEF DialSucceeds, Phases
  <2>3. QED
    BY <1>2, <2>2 DEF DialSucceeds, IInv
<1>3. CASE AuthSucceeds(s)
  <2>1. c.confirmed \cap OnOf(c.place, s) = {}
    BY <1>1, <1>3, Unconfirmed DEF AuthSucceeds, Before
  <2>2. Sound(Move(s, "top"))
    BY <1>3, <2>1, MoveSound DEF AuthSucceeds, Phases
  <2>3. QED
    BY <1>3, <2>2 DEF AuthSucceeds, IInv
<1>4. CASE Retry(s)
  <2>1. c.confirmed \cap OnOf(c.place, s) = {}
    BY <1>1, <1>4, Unconfirmed DEF Retry, Before
  <2>2. Sound(Move(s, "dial"))
    BY <1>4, <2>1, MoveSound DEF Retry, Phases
  <2>3. QED
    BY <1>4, <2>2 DEF Retry, IInv
<1>5. CASE Woken(s)
  <2>1. Sound(SetSession(c, s, [c.ses[s] EXCEPT !.wake = FALSE, !.phase = "top"]))
    BY <1>5, MoveSound DEF Woken, Phases, OnSocket
  <2>2. QED
    BY <1>5, <2>1 DEF Woken, IInv
<1>6. QED
  BY <1>2, <1>3, <1>4, <1>5

\* The socket is lost, refused or overdue.
LEMMA DisconnectStep ==
    ASSUME IInv, NEW s \in Sessions, Refused(s) \/ Lost(s) \/ AckTimeout(s)
    PROVE  IInv'
BY DisconnectSound DEF IInv, Refused, Lost, AckTimeout

\* The dial fails, or the server rejects a whole operation: the keys' listeners end.
LEMMA RejectedStep ==
    ASSUME IInv, NEW s \in Sessions, DialFails(s) \/ OperationRejected(s)
    PROVE  IInv'
<1> DEFINE x == Disconnect(s, "lost")
           failed == IF c.ses[s].op = "subscribe" THEN c.ses[s].keys \ c.ses[s].stale ELSE {}
<1>1. Alive(s) /\ \/ c' = reject(x, On(c, s) \ c.accepted)
                  \/ c' = reject(x, failed)
  BY DEF DialFails, OperationRejected
<1>2. c.ses[s] \in SessionState
  BY ClientFields DEF IInv, Sound, Consistent
<1>3. On(c, s) \ c.accepted \in SUBSET Keys /\ failed \in SUBSET Keys
  BY <1>2, SessionFields DEF On
<1>4. Sound(x)
  BY <1>1, DisconnectSound
<1> HIDE DEF x, failed
<1>5. Sound(reject(x, On(c, s) \ c.accepted)) /\ Sound(reject(x, failed))
  BY <1>3, <1>4, RejectKeeps
<1>6. QED
  BY <1>1, <1>5 DEF IInv

\* The worker leaves: it has no key.
LEMMA ExitStep == ASSUME IInv, NEW s \in Sessions, Exit(s) PROVE IInv'
<1>1. Sound(c) /\ c.ses[s].cancelled /\ c' = SetSession(c, s, NoSession)
  BY DEF IInv, Exit
<1>2. OnOf(c.place, s) = {}
  BY <1>1, SetAssumption DEF Sound, Hosted, OnOf
<1> DEFINE none == [k \in Keys |-> "none"]
<1>3. none \in [Keys -> Tag] /\ \A k \in Keys : none[k] = "none"
  BY DEF Tag
<1>4. NoSession = [phase |-> "free", cancelled |-> FALSE, wake |-> FALSE,
                   filters |-> none, server |-> none,
                   op |-> "none", keys |-> {}, stale |-> {}, todo |-> {}, rejected |-> {}]
  BY DEF NoSession
<1> HIDE DEF none
<1>5. /\ NoSession \in SessionState /\ NoSession.phase = "free"
      /\ NoSession.filters = none /\ NoSession.server = none
  BY <1>3, <1>4 DEF SessionState, Phases
<1>6. Filtered(NoSession, {}) /\ Operation(NoSession, {})
  BY <1>3, <1>5 DEF Filtered, Operation
<1>7. Fits(c, s, NoSession)
  BY <1>2, <1>5, <1>6 DEF Fits, Serves
<1>8. Sound(SetSession(c, s, NoSession))
  BY <1>1, <1>2, <1>7, SetSessionSound
<1>9. QED
  BY <1>1, <1>8 DEF IInv

\* reset: no key of the session is confirmed afterwards, so a new socket may come.
LEMMA ResetStep == ASSUME IInv, NEW s \in Sessions, Reset(s) PROVE IInv'
<1> DEFINE r == [c.ses[s] EXCEPT !.phase = "backoff"]
           on == OnOf(c.place, s)
           x == SetSession(c, s, r)
           t == [x EXCEPT !.confirmed = x.confirmed \ on, !.snapshot = x.snapshot \ on]
<1>1. Sound(c) /\ Consistent(c) /\ c \in ClientState /\ c.ses[s] \in SessionState /\ ~c.ses[s].cancelled
  BY ClientFields DEF IInv, Sound, Consistent, Alive, Reset
<1>2. c' = t
  BY DEF Reset, Move, On, OnOf
<1>3. /\ r \in SessionState /\ r.phase = "backoff" /\ ~r.cancelled
      /\ r.filters = c.ses[s].filters /\ r.server = c.ses[s].server
  BY <1>1 DEF SessionState, Phases
<1> HIDE DEF r
<1>4. /\ x \in ClientState /\ x.place = c.place /\ x.listeners = c.listeners /\ x.sub = c.sub
      /\ x.accepted = c.accepted /\ x.confirmed = c.confirmed
      /\ x.ses[s] = r /\ \A q \in Sessions : q # s => x.ses[q] = c.ses[q]
  BY <1>1, <1>3, SetSessionFields, SMT
<1> HIDE DEF x, on
<1>5. /\ t \in ClientState /\ t.place = x.place /\ t.listeners = x.listeners /\ t.sub = x.sub
      /\ t.accepted = x.accepted /\ t.ses = x.ses /\ t.confirmed = x.confirmed \ on
  <2>1. x.confirmed \ on \in SUBSET Keys /\ x.snapshot \ on \in SUBSET Keys
    BY <1>4, ClientFields
  <2>2. QED
    BY <1>4, <2>1 DEF ClientState
<1> HIDE DEF t
<1>6. Fits(t, s, r)
  <2>1. Fits(c, s, c.ses[s])
    BY <1>1, SessionFits
  <2>2. Filtered(r, OnOf(t.place, s))
    BY <1>3, <1>4, <1>5, <2>1 DEF Fits, Filtered
  <2>3. Operation(r, OnOf(t.place, s))
    BY <1>3 DEF Operation
  <2>4. t.confirmed \cap OnOf(t.place, s) = {}
    BY <1>4, <1>5 DEF on
  <2>5. QED
    BY <1>3, <2>2, <2>3, <2>4 DEF Fits, Serves
<1>7. Sound(t)
  <2>1. /\ t.place = c.place /\ t.listeners = c.listeners /\ t.sub = c.sub
        /\ t.accepted = c.accepted /\ t.confirmed \subseteq c.confirmed
        /\ t.ses[s] = r /\ \A q \in Sessions : q # s => t.ses[q] = c.ses[q]
    BY <1>4, <1>5
  <2>2. QED
    BY <1>1, <1>3, <1>5, <1>6, <2>1, SessionChangeSound
<1>8. QED
  BY <1>2, <1>7 DEF IInv

\* terminate: the session is cancelled and every one of its keys goes with its
\* listeners.
LEMMA TerminateStep == ASSUME IInv, NEW s \in Sessions, terminate(s) PROVE IInv'
<1> DEFINE r == [c.ses[s] EXCEPT !.cancelled = TRUE]
           x == SetSession(c, s, r)
           us == UNION {x.listeners[k] : k \in On(c, s)}
<1>1. /\ Sound(c) /\ Consistent(c) /\ c \in ClientState /\ c.ses[s] \in SessionState
      /\ c.ses[s].phase = "refused"
  BY ClientFields DEF IInv, Sound, Consistent, terminate
<1>2. c' = end(x, us)
  BY DEF terminate, reject
<1>3. /\ r \in SessionState /\ r.phase = "refused"
      /\ r.filters = c.ses[s].filters /\ r.server = c.ses[s].server
  BY <1>1 DEF SessionState
<1> HIDE DEF r
<1>4. /\ x \in ClientState /\ x.place = c.place /\ x.listeners = c.listeners /\ x.sub = c.sub
      /\ x.accepted = c.accepted /\ x.confirmed = c.confirmed
      /\ x.ses[s] = r /\ \A q \in Sessions : q # s => x.ses[q] = c.ses[q]
  BY <1>1, <1>3, SetSessionFields, SMT
<1> HIDE DEF x
<1>5. Fits(x, s, r)
  <2>1. Fits(c, s, c.ses[s])
    BY <1>1, SessionFits
  <2>2. Filtered(r, OnOf(x.place, s))
    BY <1>3, <1>4, <2>1 DEF Fits, Filtered
  <2>3. Operation(r, OnOf(x.place, s))
    BY <1>3 DEF Operation
  <2>4. Serves(r, x.confirmed \cap OnOf(x.place, s))
    BY <1>3 DEF Serves, Before, OnSocket
  <2>5. QED
    BY <1>3, <2>2, <2>3, <2>4 DEF Fits
<1>6. Consistent(x)
  BY <1>1, <1>4, <1>5, SessionChange
<1>7. us \in SUBSET Subs
  <2>1. x.listeners \in [Keys -> SUBSET Subs]
    BY <1>4, ClientFields
  <2>2. QED
    BY <2>1 DEF On
<1>8. Hosted(x.place, x.ses, Keys \ Gone(x.place, x.listeners, us))
  <2>1. SUFFICES ASSUME NEW k \in Keys \ Gone(x.place, x.listeners, us), x.place[k] # None
                 PROVE  ~x.ses[x.place[k]].cancelled /\ x.ses[x.place[k]].phase # "free"
    BY DEF Hosted
  <2>2. k \notin On(c, s)
    BY <2>1 DEF Gone
  <2>3. x.place[k] # s /\ x.place[k] \in Sessions
    BY <1>4, <2>1, <2>2, ClientFields DEF On
  <2>4. QED
    BY <1>1, <1>4, <2>1, <2>3 DEF Sound, Hosted
<1> HIDE DEF us
<1>9. Sound(end(x, us))
  BY <1>6, <1>7, <1>8, EndSound
<1>10. QED
  BY <1>2, <1>9 DEF IInv

-----------------------------------------------------------------------------
(* The operations of a session                                             *)

\* The top of connected's loop: an operation is chosen, or none is needed.
LEMMA ReconcileStep == ASSUME IInv, NEW s \in Sessions, Reconcile(s) PROVE IInv'
<1> DEFINE old == c.ses[s]
           on == OnOf(c.place, s)
           removes == {k \in Keys : old.filters[k] = "stale"}
           adds == {k \in On(c, s) : old.filters[k] # "current"}
           r(op, ks) == [old EXCEPT !.phase = "pacing", !.op = op, !.keys = ks, !.todo = ks,
                                    !.stale = {}, !.rejected = {}]
<1>1. Sound(c) /\ Consistent(c) /\ old \in SessionState
  BY ClientFields DEF IInv, Sound, Consistent
<1>2. /\ old.phase = "top" /\ Alive(s) /\ ~old.cancelled
      /\ c' = IF removes # {} THEN SetSession(c, s, r("unsubscribe", removes))
              ELSE IF adds # {} THEN SetSession(c, s, r("subscribe", adds))
              ELSE Move(s, "select")
  BY DEF Reconcile, Alive
<1>3. Fits(c, s, old)
  BY <1>1, SessionFits
<1>4. ASSUME NEW op \in {"subscribe", "unsubscribe"}, NEW ks \in SUBSET Keys
      PROVE  /\ r(op, ks) \in SessionState /\ r(op, ks).phase = "pacing" /\ r(op, ks).op = op
             /\ r(op, ks).keys = ks /\ r(op, ks).todo = ks /\ r(op, ks).stale = {}
             /\ r(op, ks).rejected = {} /\ r(op, ks).cancelled = old.cancelled
             /\ r(op, ks).filters = old.filters /\ r(op, ks).server = old.server
  BY <1>1 DEF SessionState, Phases
<1> HIDE DEF r
<1>5. ASSUME NEW op \in {"subscribe", "unsubscribe"}, NEW ks \in SUBSET Keys,
             Operation(r(op, ks), on)
      PROVE  Sound(SetSession(c, s, r(op, ks)))
  <2> DEFINE q == r(op, ks)
  <2>1. /\ q \in SessionState /\ q.phase = "pacing" /\ ~q.cancelled
        /\ q.filters = old.filters /\ q.server = old.server
    BY <1>2, <1>4, SMT
  <2> HIDE DEF q
  <2>2. Filtered(q, on)
    BY <1>3, <2>1 DEF Fits, Filtered
  <2>3. Serves(q, c.confirmed \cap on)
    BY <1>2, <1>3, <2>1 DEF Fits, Serves, Before, OnSocket
  <2>4. Fits(c, s, q)
    BY <1>5, <2>1, <2>2, <2>3 DEF Fits, q
  <2>5. Sound(SetSession(c, s, q))
    BY <1>1, <2>1, <2>4, SetSessionSound
  <2>6. QED
    BY <2>5 DEF q
<1>6. removes \in SUBSET Keys /\ adds \in SUBSET Keys /\ adds \subseteq on
  BY DEF On, OnOf
<1>7. CASE removes # {}
  <2>1. Operation(r("unsubscribe", removes), on)
    <3> DEFINE q == r("unsubscribe", removes)
    <3>1. /\ q.phase = "pacing" /\ q.op = "unsubscribe" /\ q.keys = removes /\ q.todo = removes
          /\ q.filters = old.filters
      BY <1>4, <1>6
    <3> HIDE DEF q
    <3>2. Operation(q, on)
      BY <3>1 DEF Operation
    <3>3. QED
      BY <3>2 DEF q
  <2>2. Sound(SetSession(c, s, r("unsubscribe", removes)))
    BY <1>5, <1>6, <2>1
  <2>3. QED
    BY <1>2, <1>7, <2>2 DEF IInv
<1>8. CASE removes = {} /\ adds # {}
  <2>1. \A k \in adds : old.filters[k] = "none"
    BY <1>1, <1>6, <1>8, SessionFields DEF Tag
  <2>2. Operation(r("subscribe", adds), on)
    <3> DEFINE q == r("subscribe", adds)
    <3>1. /\ q.phase = "pacing" /\ q.op = "subscribe" /\ q.keys = adds /\ q.todo = adds
          /\ q.rejected = {} /\ q.filters = old.filters
      BY <1>4, <1>6
    <3> HIDE DEF q, adds
    <3>2. Operation(q, on)
      BY <1>6, <2>1, <3>1 DEF Operation
    <3>3. QED
      BY <3>2 DEF q
  <2>3. Sound(SetSession(c, s, r("subscribe", adds)))
    BY <1>5, <1>6, <2>2
  <2>4. QED
    BY <1>2, <1>8, <2>3 DEF IInv
<1>9. CASE removes = {} /\ adds = {}
  <2>1. Sound(Move(s, "select"))
    BY <1>2, MoveSound DEF Phases, OnSocket
  <2>2. QED
    BY <1>2, <1>9, <2>1 DEF IInv
<1>10. QED
  BY <1>7, <1>8, <1>9

\* A session that keys are placed on goes on.
LEMMA HostedFacts ==
    ASSUME NEW x, Sound(x), NEW s \in Sessions
    PROVE  OnOf(x.place, s) # {} => ~x.ses[s].cancelled /\ x.ses[s].phase # "free"
BY SetAssumption DEF Sound, Hosted, OnOf

\* request writes the frame: from now on the filters are those asked for.
LEMMA SendStep == ASSUME IInv, NEW s \in Sessions, Send(s) PROVE IInv'
<1> DEFINE old == c.ses[s]
           on == OnOf(c.place, s)
           asked == [k \in Keys |-> IF k \notin old.keys THEN old.filters[k]
                                    ELSE IF k \in old.stale THEN "stale" ELSE "current"]
           filters == IF old.op = "unsubscribe" THEN old.filters ELSE asked
           r == [old EXCEPT !.phase = "sent", !.filters = filters]
<1>1. Sound(c) /\ Consistent(c) /\ old \in SessionState
  BY ClientFields DEF IInv, Sound, Consistent
<1>2. old.phase = "pacing" /\ ~old.cancelled /\ c' = SetSession(c, s, r)
  BY DEF Send, Alive
<1>3. Filtered(old, on) /\ Operation(old, on) /\ Serves(old, c.confirmed \cap on)
  BY <1>1, SessionFits DEF Fits
<1>4. /\ old.filters \in [Keys -> Tag] /\ old.keys \in SUBSET Keys
  BY <1>1, SessionFields
<1>5. /\ asked \in [Keys -> Tag]
      /\ \A k \in Keys : asked[k] = IF k \notin old.keys THEN old.filters[k]
                                    ELSE IF k \in old.stale THEN "stale" ELSE "current"
  BY <1>4 DEF Tag
<1> HIDE DEF asked
<1>6. /\ filters \in [Keys -> Tag]
      /\ old.op = "unsubscribe" => filters = old.filters
      /\ old.op # "unsubscribe" => filters = asked
  BY <1>4, <1>5
<1> HIDE DEF filters
<1>7. /\ r \in SessionState /\ r.phase = "sent" /\ r.op = old.op /\ r.keys = old.keys
      /\ r.todo = old.todo /\ r.stale = old.stale /\ r.rejected = old.rejected
      /\ r.cancelled = old.cancelled /\ r.filters = filters /\ r.server = old.server
  BY <1>1, <1>6 DEF SessionState, Phases
<1> HIDE DEF r, old
<1>8. old.op \in {"none", "subscribe", "unsubscribe"}
  BY <1>1 DEF SessionState
<1>9. Fits(c, s, r)
  <2>1. Serves(r, c.confirmed \cap on)
    BY <1>2, <1>3, <1>7 DEF Serves, Before, OnSocket
  <2>2. CASE old.op = "unsubscribe"
    <3>1. Filtered(r, on)
      BY <1>3, <1>6, <1>7, <2>2 DEF Filtered
    <3>2. /\ \A k \in old.keys : old.filters[k] = "stale"
          /\ \A k \in old.keys \ old.todo : old.server[k] = "none"
          /\ old.todo \subseteq old.keys
      BY <1>2, <1>3, <2>2 DEF Operation
    <3>3. Operation(r, on)
      BY <1>6, <1>7, <2>2, <3>2 DEF Operation
    <3>4. QED
      BY <1>7, <2>1, <3>1, <3>3 DEF Fits
  <2>3. CASE old.op = "subscribe"
    <3>1. /\ old.rejected = {} /\ old.todo \subseteq old.keys
          /\ \A k \in old.keys : old.filters[k] = "none" /\ (k \in on \/ k \in old.stale)
      BY <1>2, <1>3, <2>3 DEF Operation
    <3>2. Filtered(r, on)
      BY <1>3, <1>4, <1>5, <1>6, <1>7, <2>3, <3>1 DEF Filtered
    <3>3. Operation(r, on)
      BY <1>4, <1>5, <1>6, <1>7, <2>3, <3>1 DEF Operation
    <3>4. QED
      BY <1>7, <2>1, <3>2, <3>3 DEF Fits
  <2>4. CASE old.op = "none"
    BY <1>2, <1>3, <2>4 DEF Operation
  <2>5. QED
    BY <1>8, <2>2, <2>3, <2>4
<1>10. Sound(SetSession(c, s, r))
  BY <1>1, <1>2, <1>7, <1>9, SetSessionSound
<1>11. QED
  BY <1>2, <1>10 DEF IInv

\* The server begins to serve a key that was asked for.
LEMMA ServerSubscribesStep ==
    ASSUME IInv, NEW s \in Sessions, NEW k \in Keys, ServerSubscribes(s, k) PROVE IInv'
<1> DEFINE old == c.ses[s]
           on == OnOf(c.place, s)
           server == [old.server EXCEPT ![k] = old.filters[k]]
           r == [old EXCEPT !.server = server]
<1>1. Sound(c) /\ Consistent(c) /\ old \in SessionState
  BY ClientFields DEF IInv, Sound, Consistent
<1>2. /\ old.phase = "sent" /\ old.op = "subscribe" /\ k \in old.todo /\ old.server[k] = "none"
      /\ c' = SetSession(c, s, r)
  BY DEF ServerSubscribes
<1>3. Filtered(old, on) /\ Operation(old, on) /\ Serves(old, c.confirmed \cap on)
  BY <1>1, SessionFits DEF Fits
<1>4. /\ old.server \in [Keys -> Tag] /\ old.filters \in [Keys -> Tag]
      /\ old.keys \in SUBSET Keys /\ old.rejected \in SUBSET Keys
  BY <1>1, SessionFields
<1>5. /\ server \in [Keys -> Tag] /\ server[k] = old.filters[k]
      /\ \A j \in Keys : j # k => server[j] = old.server[j]
  BY <1>4
<1> HIDE DEF server
<1>6. /\ r \in SessionState /\ r.phase = "sent" /\ r.op = old.op /\ r.keys = old.keys
      /\ r.todo = old.todo /\ r.stale = old.stale /\ r.rejected = old.rejected
      /\ r.cancelled = old.cancelled /\ r.filters = old.filters /\ r.server = server
  BY <1>1, <1>2, <1>5 DEF SessionState
<1> HIDE DEF r, old
<1>7. Filtered(r, on)
  BY <1>3, <1>5, <1>6 DEF Filtered
<1>8. Operation(r, on)
  <2>1. /\ old.todo \subseteq old.keys
        /\ \A j \in old.keys : old.filters[j] = IF j \in old.stale THEN "stale" ELSE "current"
        /\ \A j \in old.rejected : j \notin old.todo /\ old.server[j] = "none"
    BY <1>2, <1>3 DEF Operation
  <2>2. \A j \in old.rejected : j \notin old.todo /\ server[j] = "none"
    BY <1>2, <1>4, <1>5, <2>1
  <2>3. QED
    BY <1>2, <1>6, <2>1, <2>2, SMT DEF Operation
<1>9. Serves(r, c.confirmed \cap on)
  <2>1. on \in SUBSET Keys
    BY DEF OnOf
  <2>2. QED
    BY <1>2, <1>3, <1>5, <1>6, <2>1 DEF Serves, Before, OnSocket
<1>10. Fits(c, s, r)
  BY <1>6, <1>7, <1>8, <1>9 DEF Fits
<1>11. on # {} => ~r.cancelled /\ r.phase # "free"
  BY <1>1, <1>6, HostedFacts DEF old
<1>12. Sound(SetSession(c, s, r))
  BY <1>1, <1>10, <1>11, SetSessionSound
<1>13. QED
  BY <1>2, <1>12 DEF IInv

\* What holds of session r when the answer for key k has been recorded but k is
\* still listed as unanswered.
Answering(r, k) ==
    /\ r.phase = "sent" /\ r.op # "none" /\ r.todo \subseteq r.keys
    /\ r.op = "subscribe" =>
         /\ \A j \in r.keys : r.filters[j] = IF j \in r.stale THEN "stale" ELSE "current"
         /\ \A j \in r.rejected : j \notin r.todo \ {k} /\ r.server[j] = "none"
    /\ r.op = "unsubscribe" =>
         /\ \A j \in r.keys : r.filters[j] = "stale"
         /\ \A j \in r.keys \ (r.todo \ {k}) : r.server[j] = "none"

\* The answer is taken off the list; after the last one rejected and removed
\* filters, which the server does not serve, are forgotten.
LEMMA AnsweredFits ==
    ASSUME NEW x, NEW s \in Sessions, NEW r \in SessionState, NEW k \in Keys,
           Filtered(r, OnOf(x.place, s)), Serves(r, x.confirmed \cap OnOf(x.place, s)),
           Answering(r, k)
    PROVE  /\ Fits(x, s, Answered(r, k))
           /\ Answered(r, k).cancelled = r.cancelled /\ Answered(r, k).phase # "free"
<1> DEFINE rest == r.todo \ {k}
           drop == IF r.op = "unsubscribe" THEN r.keys ELSE r.rejected
           kept == [j \in Keys |-> IF j \in drop THEN "none" ELSE r.filters[j]]
           on == OnOf(x.place, s)
           t == Answered(r, k)
<1>1. /\ r.filters \in [Keys -> Tag] /\ r.keys \in SUBSET Keys /\ r.rejected \in SUBSET Keys
      /\ rest \in SUBSET Keys /\ r.op \in {"none", "subscribe", "unsubscribe"}
  BY SessionFields DEF SessionState
<1>2. kept \in [Keys -> Tag] /\ \A j \in Keys : kept[j] = IF j \in drop THEN "none" ELSE r.filters[j]
  BY <1>1 DEF Tag
<1>3. t = IF rest # {} THEN [r EXCEPT !.todo = rest]
          ELSE [r EXCEPT !.phase = "top", !.todo = {}, !.keys = {}, !.stale = {}, !.rejected = {},
                         !.op = "none", !.filters = kept]
  BY DEF Answered
<1> HIDE DEF kept, t
<1>4. CASE rest # {}
  <2>0. rest \in SUBSET Keys /\ rest \subseteq r.todo
    BY <1>1
  <2>1. /\ t \in SessionState /\ t.phase = r.phase /\ t.op = r.op /\ t.keys = r.keys
        /\ t.todo = rest /\ t.stale = r.stale /\ t.rejected = r.rejected
        /\ t.cancelled = r.cancelled /\ t.filters = r.filters /\ t.server = r.server
    <3> HIDE DEF rest
    <3>1. t = [r EXCEPT !.todo = rest]
      BY <1>3, <1>4
    <3>2. QED
      BY <2>0, <3>1 DEF SessionState
  <2>2. Filtered(t, on)
    BY <2>1 DEF Filtered
  <2>3. Operation(t, on)
    BY <2>0, <2>1, SMT DEF Answering, Operation
  <2>4. Serves(t, x.confirmed \cap on)
    BY <2>1 DEF Serves
  <2>5. QED
    BY <2>1, <2>2, <2>3, <2>4 DEF Fits, t, Answering
<1>5. CASE rest = {}
  <2>1. /\ t \in SessionState /\ t.phase = "top"
        /\ t.cancelled = r.cancelled /\ t.filters = kept /\ t.server = r.server
    <3>1. t = [r EXCEPT !.phase = "top", !.todo = {}, !.keys = {}, !.stale = {}, !.rejected = {},
                        !.op = "none", !.filters = kept]
      BY <1>3, <1>5
    <3>2. QED
      BY <1>2, <3>1 DEF SessionState, Phases
  <2>2. \A j \in drop : r.server[j] = "none"
    BY <1>1, <1>5 DEF Answering
  <2>3. Filtered(t, on)
    <3> HIDE DEF drop
    <3>1. QED
      BY <1>2, <2>1, <2>2 DEF Filtered
  <2>4. Operation(t, on)
    BY <2>1 DEF Operation
  <2>5. Serves(t, x.confirmed \cap on)
    BY <2>1 DEF Serves, Answering, Before, OnSocket
  <2>6. QED
    BY <2>1, <2>3, <2>4, <2>5 DEF Fits, t
<1>6. QED
  BY <1>4, <1>5

\* What the client notes of a key leaves everything else as it is.
LEMMA NotesSound ==
    ASSUME NEW x, Sound(x), NEW t \in ClientState,
           t.place = x.place, t.listeners = x.listeners, t.sub = x.sub, t.ses = x.ses,
           x.accepted \subseteq t.accepted, t.confirmed \subseteq t.accepted,
           ConfirmedInv(t.place, t.confirmed, t.ses)
    PROVE  Sound(t)
<1>1. Accepted(t.sub, t.accepted)
  BY DEF Sound, Consistent, Accepted
<1>2. QED
  BY <1>1 DEF Sound, Consistent

\* Setting what Answered makes of a session of a sound client.
LEMMA AnsweredSound ==
    ASSUME NEW x, Sound(x), NEW s \in Sessions, NEW r \in SessionState, NEW k \in Keys,
           r.cancelled = x.ses[s].cancelled,
           Filtered(r, OnOf(x.place, s)), Serves(r, x.confirmed \cap OnOf(x.place, s)),
           Answering(r, k)
    PROVE  Sound(SetSession(x, s, Answered(r, k)))
<1> DEFINE t == Answered(r, k)
<1>1. Fits(x, s, t) /\ t.cancelled = r.cancelled /\ t.phase # "free"
  BY AnsweredFits
<1> HIDE DEF t
<1>2. OnOf(x.place, s) # {} => ~t.cancelled /\ t.phase # "free"
  BY <1>1, HostedFacts
<1>3. Sound(SetSession(x, s, t))
  BY <1>1, <1>2, SetSessionSound
<1>4. QED
  BY <1>3 DEF t

\* The server accepts a key: it is confirmed unless its incarnation has ended.
LEMMA ConfirmedSound ==
    ASSUME IInv, NEW s \in Sessions, NEW k \in Keys,
           c.ses[s].phase = "sent", c.ses[s].op = "subscribe", k \in c.ses[s].todo,
           k \notin c.ses[s].stale, c.ses[s].server[k] # "none",
           NEW t, t = [c EXCEPT !.confirmed = @ \cup {k}, !.accepted = @ \cup {k}]
    PROVE  Sound(t) /\ t.listeners = c.listeners /\ t.ses = c.ses
<1>1. Sound(c) /\ Consistent(c) /\ c \in ClientState
  BY DEF IInv, Sound, Consistent
<1>2. c.confirmed \cup {k} \in SUBSET Keys /\ c.accepted \cup {k} \in SUBSET Keys
  BY <1>1, ClientFields
<1>3. /\ t \in ClientState /\ t.place = c.place /\ t.listeners = c.listeners /\ t.sub = c.sub
      /\ t.ses = c.ses /\ t.confirmed = c.confirmed \cup {k} /\ t.accepted = c.accepted \cup {k}
  BY <1>1, <1>2 DEF ClientState
<1>4. Filtered(c.ses[s], OnOf(c.place, s)) /\ Operation(c.ses[s], OnOf(c.place, s))
  BY <1>1, SessionFits DEF Fits
<1>5. c.ses[s].filters[k] = "current"
  BY <1>4 DEF Operation
<1>6. c.place[k] = s /\ c.ses[s].server[k] = "current"
  BY <1>4, <1>5 DEF Filtered, OnOf
<1>7. ConfirmedInv(c.place, c.confirmed \cup {k}, c.ses)
  BY <1>1, <1>6, SetAssumption DEF Consistent, ConfirmedInv, Before
<1>8. t.confirmed \subseteq t.accepted /\ c.accepted \subseteq t.accepted
  BY <1>1, <1>3 DEF Consistent
<1>9. QED
  BY <1>1, <1>3, <1>7, <1>8, NotesSound

\* The server accepts a filter, or its removal.
LEMMA AckAcceptedStep ==
    ASSUME IInv, NEW s \in Sessions, NEW k \in Keys, AckAccepted(s, k) PROVE IInv'
<1> DEFINE old == c.ses[s]
           told == [c EXCEPT !.confirmed = @ \cup {k}, !.accepted = @ \cup {k}]
           current == old.op = "subscribe" /\ k \notin old.stale
           x == IF current THEN markReady(deliver(told, c.listeners[k], 1), c.listeners[k]) ELSE c
           now == x.ses[s]
           removed == [now EXCEPT !.server = [@ EXCEPT ![k] = "none"]]
           served == IF old.op = "subscribe" THEN now ELSE removed
<1>1. Sound(c) /\ Consistent(c) /\ old \in SessionState /\ c.listeners[k] \in SUBSET Subs
  BY ClientFields DEF IInv, Sound, Consistent
<1>2. /\ old.phase = "sent" /\ k \in old.todo /\ old.server[k] # "none"
      /\ c' = SetSession(x, s, Answered(served, k))
  BY DEF AckAccepted
<1>3. Filtered(old, OnOf(c.place, s)) /\ Operation(old, OnOf(c.place, s))
      /\ Serves(old, c.confirmed \cap OnOf(c.place, s))
  BY <1>1, SessionFits DEF Fits
<1>4. CASE old.op = "subscribe"
  <2>1. /\ Sound(x) /\ now.phase = "sent" /\ now.op = "subscribe"
        /\ now.todo = old.todo /\ now.keys = old.keys
    <3>1. CASE current
      <4> DEFINE y == deliver(told, c.listeners[k], 1)
      <4>1. Sound(told) /\ told.ses = c.ses
        BY <1>2, <3>1, ConfirmedSound
      <4> HIDE DEF told
      <4>2. Sound(y) /\ Delivered(y, told)
        BY <1>1, <4>1, DeliverSound
      <4>3. x = markReady(y, c.listeners[k])
        BY <3>1
      <4> HIDE DEF y, x
      <4>4. Sound(x) /\ Delivered(x, y)
        BY <4>2, <4>3, ReadySound
      <4>5. QED
        BY <1>2, <1>4, <4>1, <4>2, <4>4 DEF Delivered
    <3>2. CASE ~current
      BY <1>1, <1>2, <1>4, <3>2
    <3>3. QED
      BY <3>1, <3>2
  <2>2. served = now
    BY <1>4
  <2> HIDE DEF x, served
  <2>3. /\ now \in SessionState /\ Filtered(now, OnOf(x.place, s))
        /\ Operation(now, OnOf(x.place, s)) /\ Serves(now, x.confirmed \cap OnOf(x.place, s))
    BY <2>1, SessionFits DEF Fits, Sound
  <2> HIDE DEF now
  <2>4. Answering(now, k)
    BY <2>1, <2>3 DEF Operation, Answering
  <2>5. Sound(SetSession(x, s, Answered(now, k)))
    BY <2>1, <2>3, <2>4, AnsweredSound DEF now
  <2>6. QED
    BY <1>2, <2>2, <2>5 DEF IInv
<1>5. CASE old.op # "subscribe"
  <2> DEFINE server == [old.server EXCEPT ![k] = "none"]
             r == [old EXCEPT !.server = server]
             on == OnOf(c.place, s)
  <2>1. x = c /\ served = r
    BY <1>5
  <2>2. old.op = "unsubscribe"
    BY <1>1, <1>2, <1>3, <1>5 DEF Operation, SessionState
  <2>3. old.server \in [Keys -> Tag] /\ old.keys \in SUBSET Keys /\ on \in SUBSET Keys
    BY <1>1, SessionFields DEF OnOf
  <2>4. /\ server \in [Keys -> Tag] /\ server[k] = "none"
        /\ \A j \in Keys : j # k => server[j] = old.server[j]
    BY <2>3 DEF Tag
  <2> HIDE DEF server, x, served
  <2>5. /\ r \in SessionState /\ r.phase = "sent" /\ r.op = old.op /\ r.keys = old.keys
        /\ r.todo = old.todo /\ r.stale = old.stale /\ r.rejected = old.rejected
        /\ r.cancelled = old.cancelled /\ r.filters = old.filters /\ r.server = server
    BY <1>1, <1>2, <2>4 DEF SessionState
  <2> HIDE DEF r
  <2>6. /\ old.todo \subseteq old.keys /\ \A j \in old.keys : old.filters[j] = "stale"
        /\ \A j \in old.keys \ old.todo : old.server[j] = "none"
    BY <1>2, <1>3, <2>2 DEF Operation
  <2>7. Filtered(r, on)
    BY <1>3, <2>4, <2>5 DEF Filtered
  <2>8. old.server[k] # "current"
    BY <1>2, <1>3, <2>6 DEF Filtered
  <2>9. Serves(r, c.confirmed \cap on)
    BY <1>2, <1>3, <2>3, <2>4, <2>5, <2>8 DEF Serves, Before, OnSocket
  <2>10. \A j \in r.keys \ (r.todo \ {k}) : r.server[j] = "none"
    BY <2>3, <2>4, <2>5, <2>6
  <2>11. Answering(r, k)
    BY <2>2, <2>5, <2>6, <2>10 DEF Answering
  <2>12. Sound(SetSession(c, s, Answered(r, k)))
    BY <1>1, <2>5, <2>7, <2>9, <2>11, AnsweredSound
  <2>13. QED
    BY <1>2, <2>1, <2>12 DEF IInv
<1>6. QED
  BY <1>4, <1>5

\* The server rejects a filter, or its removal.
LEMMA AckRejectedStep ==
    ASSUME IInv, NEW s \in Sessions, NEW k \in Keys, AckRejected(s, k) PROVE IInv'
<1> DEFINE old == c.ses[s]
           x == IF k \in old.stale THEN c ELSE reject(c, {k})
           now == x.ses[s]
           rejected == now.rejected \cup {k}
           r == [now EXCEPT !.rejected = rejected]
<1>1. Sound(c) /\ Consistent(c) /\ old \in SessionState
  BY ClientFields DEF IInv, Sound, Consistent
<1>2. /\ old.phase = "sent" /\ k \in old.todo /\ Alive(s)
      /\ old.op = "subscribe" => old.server[k] = "none"
      /\ old.op = "unsubscribe" => c' = Disconnect(s, "lost")
      /\ old.op # "unsubscribe" => c' = SetSession(x, s, Answered(r, k))
  BY DEF AckRejected
<1>3. old.op # "none"
  BY <1>1, <1>2 DEF Consistent, SessionsInv, Operation
<1>4. CASE old.op = "unsubscribe"
  BY <1>2, <1>4, DisconnectSound DEF IInv
<1>5. CASE old.op = "subscribe"
  <2>1. /\ Sound(x) /\ now.phase = "sent" /\ now.op = "subscribe"
        /\ now.todo = old.todo /\ now.keys = old.keys /\ now.server[k] = "none"
    <3>1. CASE k \in old.stale
      BY <1>1, <1>2, <1>5, <3>1
    <3>2. CASE k \notin old.stale
      <4>1. x = reject(c, {k})
        BY <3>2
      <4> DEFINE us == UNION {c.listeners[j] : j \in {k}}
      <4>2. {k} \in SUBSET Keys
        OBVIOUS
      <4> HIDE DEF x, us
      <4>3. Sound(x) /\ Ended(x, c, us)
        BY <1>1, <4>1, <4>2, RejectKeeps DEF us
      <4>4. QED
        BY <1>2, <1>5, <4>3 DEF Ended
    <3>3. QED
      BY <3>1, <3>2
  <2> HIDE DEF x
  <2>2. /\ now \in SessionState /\ Filtered(now, OnOf(x.place, s))
        /\ Operation(now, OnOf(x.place, s)) /\ Serves(now, x.confirmed \cap OnOf(x.place, s))
    BY <2>1, SessionFits DEF Fits, Sound
  <2>3. rejected \in SUBSET Keys
    BY <2>2, SessionFields
  <2> HIDE DEF rejected
  <2>4. /\ r \in SessionState /\ r.phase = now.phase /\ r.op = now.op /\ r.keys = now.keys
        /\ r.todo = now.todo /\ r.stale = now.stale /\ r.rejected = rejected
        /\ r.cancelled = now.cancelled /\ r.filters = now.filters /\ r.server = now.server
    BY <2>2, <2>3 DEF SessionState
  <2> HIDE DEF r, now
  <2>5. Filtered(r, OnOf(x.place, s))
    BY <2>2, <2>4 DEF Filtered
  <2>6. Serves(r, x.confirmed \cap OnOf(x.place, s))
    BY <2>2, <2>4 DEF Serves
  <2>7. /\ now.todo \subseteq now.keys
        /\ \A j \in now.keys : now.filters[j] = IF j \in now.stale THEN "stale" ELSE "current"
        /\ \A j \in now.rejected : j \notin now.todo /\ now.server[j] = "none"
    BY <2>1, <2>2 DEF Operation
  <2>8. \A j \in rejected : j \notin now.todo \ {k} /\ now.server[j] = "none"
    BY <2>1, <2>7 DEF rejected
  <2>9. Answering(r, k)
    BY <2>1, <2>4, <2>7, <2>8, SMT DEF Answering
  <2>10. r.cancelled = x.ses[s].cancelled
    BY <2>4 DEF now
  <2>11. Sound(SetSession(x, s, Answered(r, k)))
    BY <2>1, <2>4, <2>5, <2>6, <2>9, <2>10, AnsweredSound
  <2>12. QED
    BY <1>2, <1>5, <2>11 DEF IInv
<1>6. QED
  BY <1>1, <1>3, <1>4, <1>5 DEF SessionState

\* An event reaches the listeners of its key, if its filter is current.
LEMMA EventStep ==
    ASSUME IInv, NEW s \in Sessions, NEW k \in Keys, Event(s, k) PROVE IInv'
<1> DEFINE seen == [c EXCEPT !.snapshot = c.snapshot \cup {k}]
           x == IF c.ses[s].filters[k] = "current" THEN deliver(seen, c.listeners[k], 1) ELSE c
           now == x.ses[s]
           r == [now EXCEPT !.phase = "top"]
<1>1. Sound(c) /\ c \in ClientState /\ c.listeners[k] \in SUBSET Subs
  BY ClientFields DEF IInv, Sound, Consistent
<1>2. c' = IF c.ses[s].phase = "select" THEN SetSession(x, s, r) ELSE x
  BY DEF Event
<1>3. Sound(seen) /\ seen.ses = c.ses
  <2>1. c.snapshot \cup {k} \in SUBSET Keys
    BY <1>1, ClientFields
  <2>2. /\ seen \in ClientState /\ seen.place = c.place /\ seen.listeners = c.listeners
        /\ seen.sub = c.sub /\ seen.ses = c.ses /\ seen.confirmed = c.confirmed
        /\ seen.accepted = c.accepted
    BY <1>1, <2>1 DEF ClientState
  <2> HIDE DEF seen
  <2>3. ConfirmedInv(seen.place, seen.confirmed, seen.ses) /\ seen.confirmed \subseteq seen.accepted
    BY <1>1, <2>2 DEF Sound, Consistent
  <2>4. QED
    BY <1>1, <2>2, <2>3, NotesSound
<1> HIDE DEF seen
<1>4. Sound(x) /\ now.phase = c.ses[s].phase
  <2>1. CASE c.ses[s].filters[k] = "current"
    <3> DEFINE y == deliver(seen, c.listeners[k], 1)
    <3>1. Sound(y) /\ Delivered(y, seen)
      BY <1>1, <1>3, DeliverSound
    <3>2. x = y
      BY <2>1
    <3> HIDE DEF x, y
    <3>3. QED
      BY <1>3, <3>1, <3>2 DEF Delivered
  <2>2. CASE c.ses[s].filters[k] # "current"
    BY <1>1, <2>2
  <2>3. QED
    BY <2>1, <2>2
<1> HIDE DEF x
<1>5. CASE c.ses[s].phase = "select"
  <2>1. Consistent(x) /\ now \in SessionState
    BY <1>4, ClientFields DEF Sound, Consistent
  <2>2. /\ r \in SessionState /\ r.phase = "top" /\ r.cancelled = now.cancelled
        /\ r.filters = now.filters /\ r.server = now.server
    BY <2>1 DEF SessionState, Phases
  <2> HIDE DEF r
  <2>3. Fits(x, s, r)
    BY <1>4, <1>5, <2>1, <2>2, MovedFits DEF OnSocket
  <2>4. OnOf(x.place, s) # {} => ~r.cancelled /\ r.phase # "free"
    BY <1>4, <2>2, HostedFacts
  <2>5. Sound(SetSession(x, s, r))
    BY <1>4, <2>3, <2>4, SetSessionSound
  <2>6. QED
    BY <1>2, <1>5, <2>5 DEF IInv
<1>6. CASE c.ses[s].phase # "select"
  BY <1>2, <1>4, <1>6 DEF IInv
<1>7. QED
  BY <1>5, <1>6

-----------------------------------------------------------------------------
(* The theorems                                                            *)

\* A client that has just been made is sound.
LEMMA InitSound == ASSUME Init PROVE IInv
<1> DEFINE none == [k \in Keys |-> "none"]
           place == [k \in Keys |-> None]
           listeners == [k \in Keys |-> {}]
           sub == [u \in Subs |-> NoSub]
           ses == [s \in Sessions |-> NoSession]
<1>1. none \in [Keys -> Tag] /\ \A k \in Keys : none[k] = "none"
  BY DEF Tag
<1>2. NoSession = [phase |-> "free", cancelled |-> FALSE, wake |-> FALSE,
                   filters |-> none, server |-> none,
                   op |-> "none", keys |-> {}, stale |-> {}, todo |-> {}, rejected |-> {}]
  BY DEF NoSession
<1> HIDE DEF none
<1>3. /\ NoSession \in SessionState /\ NoSession.phase = "free"
      /\ NoSession.filters = none /\ NoSession.server = none
  BY <1>1, <1>2 DEF SessionState, Phases
<1>4. /\ place \in [Keys -> Sessions \cup {None}] /\ \A k \in Keys : place[k] = None
      /\ listeners \in [Keys -> SUBSET Subs] /\ \A k \in Keys : listeners[k] = {}
      /\ sub \in [Subs -> SubState] /\ \A u \in Subs : ~Open(sub[u])
      /\ ses \in [Sessions -> SessionState] /\ \A s \in Sessions : ses[s] = NoSession
  BY <1>3, NoSubFacts
<1>5. c = [closed |-> "open", place |-> place, listeners |-> listeners,
           confirmed |-> {}, accepted |-> {}, snapshot |-> {}, sub |-> sub, ses |-> ses]
  BY DEF Init
<1> HIDE DEF place, listeners, sub, ses
<1>6. /\ c \in ClientState /\ c.place = place /\ c.listeners = listeners /\ c.confirmed = {}
      /\ c.accepted = {} /\ c.sub = sub /\ c.ses = ses
  BY <1>4, <1>5 DEF ClientState
<1>7. Linked(place, listeners, sub) /\ Accepted(sub, {}) /\ Hosted(place, ses, Keys)
  BY <1>4 DEF Linked, Accepted, Hosted
<1>8. \A on : Filtered(NoSession, on) /\ Operation(NoSession, on)
  BY <1>1, <1>3 DEF Filtered, Operation
<1>9. SessionsInv(place, ses) /\ ConfirmedInv(place, {}, ses)
  BY <1>4, <1>8 DEF SessionsInv, ConfirmedInv
<1>10. QED
  BY <1>6, <1>7, <1>9 DEF IInv, Sound, Consistent

\* Every step keeps the client sound.
LEMMA NextSound == ASSUME IInv, [Next]_vars PROVE IInv'
<1>1. ASSUME NEW u \in Subs, Caller(u) PROVE IInv'
  BY <1>1, SubscribeStep, CancelContextStep, AfterFuncStep, SelectedStep, SubscribeReturnsStep,
     CloseSubscriptionStep, ConsumeStep DEF Caller
<1>2. ASSUME NEW s \in Sessions, Worker(s) PROVE IInv'
  <2>1. CASE \E k \in Keys :
                ServerSubscribes(s, k) \/ AckAccepted(s, k) \/ AckRejected(s, k) \/ Event(s, k)
    BY <2>1, ServerSubscribesStep, AckAcceptedStep, AckRejectedStep, EventStep
  <2>2. CASE \/ DialFails(s) \/ DialSucceeds(s) \/ AuthSucceeds(s) \/ Refused(s)
             \/ Reconcile(s) \/ Woken(s) \/ Send(s) \/ OperationRejected(s)
             \/ Lost(s) \/ AckTimeout(s) \/ terminate(s) \/ Reset(s) \/ Retry(s) \/ Exit(s)
    BY <2>2, ProgressStep, DisconnectStep, RejectedStep, ReconcileStep, SendStep, TerminateStep,
       ResetStep, ExitStep
  <2>3. QED
    BY <1>2, <2>1, <2>2 DEF Worker
<1>3. CASE UNCHANGED vars
  BY <1>3 DEF vars, IInv
<1>4. QED
  BY <1>1, <1>2, <1>3, CloseStep, CloseReturnsStep DEF Next

\* Under client.mu, whatever callers, workers and servers do, listeners, places,
\* filters and confirmations agree as IInv says.
THEOREM RealtimeInvariance == Spec => []IInv
<1>1. Init => IInv
  BY InitSound
<1>2. IInv /\ [Next]_vars => IInv'
  BY NextSound
<1>3. QED
  BY <1>1, <1>2, PTL DEF Spec

\* The client's state keeps its shape and no open subscription is stranded on a
\* session whose worker is about to leave (place, end, terminate, Close).
THEOREM NoSubscriptionStranded == Spec => []SubscriptionsPlaced
<1>1. IInv => SubscriptionsPlaced
  <2>1. SUFFICES ASSUME IInv PROVE SubscriptionsPlaced
    OBVIOUS
  <2>2. TypeOK
    BY <2>1 DEF IInv, Sound, Consistent, ClientState, SubState, SessionState, Phases, TypeOK
  <2>3. NoneStranded
    <3>1. SUFFICES ASSUME NEW u \in Subs, c.sub[u].pc # "idle", ~c.sub[u].ended,
                          NEW k \in c.sub[u].keys
                   PROVE  /\ c.place[k] # None /\ u \in c.listeners[k]
                          /\ Alive(c.place[k]) /\ c.ses[c.place[k]].phase # "free"
      BY DEF NoneStranded
    <3>2. k \in Keys
      BY <2>2 DEF TypeOK
    <3>3. u \in c.listeners[k] /\ c.place[k] # None
      BY <2>1, <3>1, <3>2 DEF IInv, Sound, Consistent, Linked, Open
    <3>4. QED
      BY <2>1, <3>2, <3>3 DEF IInv, Sound, Hosted, Alive
  <2>4. QED
    BY <2>2, <2>3 DEF SubscriptionsPlaced
<1>2. QED
  BY <1>1, RealtimeInvariance, PTL

\* What the client reports agrees with the server: handle passes on only prices of
\* filters the current incarnation asked for, a cached confirmation is of the
\* socket in use, and a live subscription was accepted with all of its keys.
THEOREM ReportsAreServed == Spec => []ServedAsReported
<1>1. IInv => ServedAsReported
  <2>1. SUFFICES ASSUME IInv PROVE ServedAsReported
    OBVIOUS
  <2>2. OwnFramesOnly
    BY <2>1 DEF IInv, Sound, Consistent, SessionsInv, Filtered, OnOf, OwnFramesOnly
  <2>3. ConfirmedIsServed
    BY <2>1 DEF IInv, Sound, Consistent, ConfirmedInv, Before, OnSocket, ConfirmedIsServed, Connected
  <2>4. LiveWasAccepted
    BY <2>1 DEF IInv, Sound, Consistent, Accepted, Open, LiveWasAccepted
  <2>5. QED
    BY <2>2, <2>3, <2>4 DEF ServedAsReported
<1>2. QED
  BY <1>1, RealtimeInvariance, PTL
=============================================================================
