-------------------------- MODULE WsSubscriptions --------------------------
(***************************************************************************)
(* The counted market and user subscriptions of the CLOB WebSocket client   *)
(* (clob/ws/client.go), sent when a caller registers or removes one and      *)
(* replayed when a connection is published.  The published connection is    *)
(* that of WsLink, which WsConnection implements.                          *)
(*                                                                         *)
(* Atomicity.  A section under c.subsMu is one step.  sendJSON writes under *)
(* c.mu, so a send is one step, but a step of its own after the bookkeeping. *)
(* A process that replays is past publishing and writes to whatever is      *)
(* published by then.  An id list is a set: a repeated id counts twice in   *)
(* both directions and cancels out.                                        *)
(***************************************************************************)
EXTENDS WsLink, Naturals, Sequences, FiniteSets

CONSTANTS
    User,         \* application goroutines
    Reconnector,  \* the goroutine running attemptReconnect
    Id,           \* asset ids and user markets
    Registration, \* the [channel, target, ids, custom] records callers pass
    MaxSubs,      \* bound on recorded subscriptions
    MaxFaults     \* bound on lost connections and failed writes

Proc == User \cup {Reconnector}

\* What a server can be told to stream: ids, every user market, custom features.
Topic == Id \cup {"allMarkets", "custom"}
Message == [op : {"subscribe", "unsubscribe"}, target : {"market", "user"}, topics : SUBSET Topic]

ASSUME UserAssumption == Reconnector \notin User
ASSUME TopicAssumption == Id \cap {"allMarkets", "custom"} = {}
ASSUME RegistrationAssumption ==
    /\ Registration \subseteq [channel : STRING, target : {"market", "user"},
                               ids : SUBSET Id, custom : BOOLEAN]
    /\ \A r \in Registration : r.target = "market" => r.ids # {}   \* validateSubscriptionInput
    /\ \A r, s \in Registration : r.target # s.target => r.ids \cap s.ids = {}
    /\ \A r, s \in Registration : r.channel = s.channel => r.custom = s.custom
ASSUME SubsAssumption == MaxSubs \in Nat /\ MaxFaults \in Nat

VARIABLES
    creds,        \* c.creds # nil
    subs, refs,   \* c.subs; c.marketRefs and c.userRefs
    customFeature,\* c.customFeature
    server,       \* external: what the published connection's server streams
    pc,           \* where each process is
    outbox,       \* messages a process has still to send
    arg,          \* the subscription a caller would roll back
    undone,       \* history: some removal was rolled back
    faults        \* faults so far

subVars == <<creds, subs, refs, customFeature, undone>>
procVars == <<pc, outbox, arg>>
vars == <<wire, subVars, server, procVars, faults>>

NoArg == [channel |-> "", target |-> "market", ids |-> {}, custom |-> FALSE]

Init ==
    /\ LinkInit
    /\ creds \in BOOLEAN                    \* NewClient, NewAuthenticatedClient
    /\ subs = <<>> /\ refs = [i \in Id |-> 0]
    /\ customFeature = FALSE /\ undone = FALSE
    /\ server = {}
    /\ pc = [p \in Proc |-> "idle"]
    /\ outbox = [p \in Proc |-> <<>>] /\ arg = [p \in Proc |-> NoArg]
    /\ faults = 0

-----------------------------------------------------------------------------
(* Bookkeeping under subsMu                                                *)

Delete(entries, i) ==
    [k \in 1..(Len(entries) - 1) |-> IF k < i THEN entries[k] ELSE entries[k + 1]]

\* recomputeCustomFeatureLocked.
HasCustom(entries) == \E i \in DOMAIN entries : entries[i].target = "market" /\ entries[i].custom

Incremented(r) == [i \in Id |-> IF i \in r.ids THEN refs[i] + 1 ELSE refs[i]]

\* decrementSubscriptionRefsLocked: counts of at most one are deleted and their
\* ids returned.
Decremented(r) == [i \in Id |-> IF i \notin r.ids THEN refs[i]
                                ELSE IF refs[i] <= 1 THEN 0 ELSE refs[i] - 1]
Released(r) == {i \in r.ids : refs[i] <= 1}

\* The message recordSubscription asks to send.  A user subscription without
\* markets covers them all; a custom feature is sent even for known assets.
SubscribeMessage(r) ==
    LET fresh == {i \in r.ids : refs[i] = 0}
    IN  [op |-> "subscribe", target |-> r.target,
         topics |-> IF r.target = "user" /\ r.ids = {} THEN {"allMarkets"}
                    ELSE IF ~r.custom THEN fresh
                    ELSE (IF fresh = {} THEN r.ids ELSE fresh) \cup {"custom"}]

\* The messages replayTrackedSubscriptions sends: one per active target, with
\* the ids that are counted.
ReplayMessages ==
    LET counted(target) == {i \in Id : refs[i] > 0 /\
                              \E r \in Registration : r.target = target /\ i \in r.ids}
        active(target) == \E k \in DOMAIN subs : subs[k].target = target
        market == [op |-> "subscribe", target |-> "market",
                   topics |-> counted("market") \cup (IF customFeature THEN {"custom"} ELSE {})]
        user == [op |-> "subscribe", target |-> "user",
                 topics |-> IF counted("user") = {} THEN {"allMarkets"} ELSE counted("user")]
    IN  (IF active("market") THEN <<market>> ELSE <<>>)
            \o (IF active("user") THEN <<user>> ELSE <<>>)

SameKey(k, r) == subs[k].target = r.target /\ subs[k].ids = r.ids
SameEntry(k, r) == SameKey(k, r) /\ subs[k].channel = r.channel

First(S) == {i \in S : \A j \in S : i <= j}

\* The entry a removal takes: the first of the same channel, else the first
\* with the same target and ids.
MatchFor(r) ==
    LET exact == {k \in DOMAIN subs : SameEntry(k, r)}
    IN  First(IF exact # {} THEN exact ELSE {k \in DOMAIN subs : SameKey(k, r)})

-----------------------------------------------------------------------------
(* sendJSON                                                                *)

Fault == faults < MaxFaults /\ faults' = faults + 1

Goto(p, where) == pc' = [pc EXCEPT ![p] = where]

\* The server of the market and user channels (external).
Applied(current, msg) ==
    IF msg.op = "subscribe" THEN current \cup msg.topics ELSE current \ msg.topics

\* There is a connection to write to, and the credentials a user channel needs.
Writable(msg) == wire \in {"open", "silent"} /\ (msg.target = "user" => creds)

\* A write that reports success; a silent peer reads nothing.
SendOK(msg) ==
    /\ Writable(msg)
    /\ server' = IF wire = "open" THEN Applied(server, msg) ELSE server
    /\ UNCHANGED <<wire, faults>>

\* Nothing to write to, or a write that fails and so ends the connection.
SendFails(msg) ==
    /\ UNCHANGED server
    /\ \/ ~Writable(msg) /\ UNCHANGED <<wire, faults>>
       \/ Writable(msg) /\ Fault /\ wire' = "dead"

-----------------------------------------------------------------------------
(* The published connection                                                *)

\* connect publishes; the reconnecting goroutine runs only after a loss.
Publish(p) ==
    /\ pc[p] = "idle" /\ (p = Reconnector => faults > 0)
    /\ Announce
    /\ server' = {}
    /\ Goto(p, "snapshot")
    /\ UNCHANGED <<subVars, outbox, arg, faults>>

\* The network and the heartbeat end a connection.
ConnectionLost ==
    /\ Fail
    /\ IF wire = "open" THEN Fault ELSE UNCHANGED faults
    /\ UNCHANGED <<subVars, server, procVars>>

markDisconnected ==
    /\ Withdraw
    /\ UNCHANGED <<subVars, server, procVars, faults>>

\* Faulty variant: nothing is replayed.
SnapshotNothing(p) ==
    /\ pc[p] = "snapshot"
    /\ Goto(p, "replay")
    /\ UNCHANGED <<wire, subVars, server, outbox, arg, faults>>

\* replayTrackedSubscriptions reads the subscriptions under subsMu ...
Snapshot(p) ==
    /\ pc[p] = "snapshot"
    /\ outbox' = [outbox EXCEPT ![p] = ReplayMessages]
    /\ Goto(p, "replay")
    /\ UNCHANGED <<wire, subVars, server, arg, faults>>

\* ... and sends them one by one; a failed send is only reported.
Replay(p) ==
    /\ pc[p] = "replay" /\ outbox[p] # <<>>
    /\ SendOK(Head(outbox[p])) \/ SendFails(Head(outbox[p]))
    /\ outbox' = [outbox EXCEPT ![p] = Tail(@)]
    /\ UNCHANGED <<subVars, pc, arg>>

ReplayDone(p) ==
    /\ pc[p] = "replay" /\ outbox[p] = <<>>
    /\ Goto(p, "idle")
    /\ UNCHANGED <<wire, subVars, server, outbox, arg, faults>>

-----------------------------------------------------------------------------
(* addAndSend and removeAndSend                                            *)

WithCredentials(u) ==
    /\ pc[u] = "idle" /\ ~creds
    /\ creds' = TRUE
    /\ UNCHANGED <<wire, subs, refs, customFeature, undone, server, procVars, faults>>

recordSubscription(u, r) ==
    /\ pc[u] = "idle" /\ Len(subs) < MaxSubs
    /\ subs' = Append(subs, r)
    /\ refs' = Incremented(r)
    /\ customFeature' = (customFeature \/ (r.target = "market" /\ r.custom))
    /\ IF SubscribeMessage(r).topics = {}
       THEN UNCHANGED procVars
       ELSE /\ outbox' = [outbox EXCEPT ![u] = <<SubscribeMessage(r)>>]
            /\ arg' = [arg EXCEPT ![u] = r]
            /\ Goto(u, "subscribe")
    /\ UNCHANGED <<wire, creds, undone, server, faults>>

\* removeRecordedSubscription: what nobody else counts is unsubscribed.
removeRecordedSubscription(u, r) ==
    /\ pc[u] = "idle"
    /\ \E i \in MatchFor(r) :
         /\ subs' = Delete(subs, i)
         /\ refs' = Decremented(subs[i])
         /\ customFeature' = HasCustom(subs')
         /\ IF Released(subs[i]) = {}
            THEN UNCHANGED procVars
            ELSE /\ outbox' = [outbox EXCEPT ![u] =
                       <<[op |-> "unsubscribe", target |-> r.target,
                          topics |-> Released(subs[i])]>>]
                 /\ arg' = [arg EXCEPT ![u] = subs[i]]
                 /\ Goto(u, "unsubscribe")
    /\ UNCHANGED <<wire, creds, undone, server, faults>>

Send(u) ==
    /\ pc[u] \in {"subscribe", "unsubscribe"}
    /\ \/ SendOK(Head(outbox[u])) /\ Goto(u, "idle") /\ arg' = [arg EXCEPT ![u] = NoArg]
       \/ /\ SendFails(Head(outbox[u]))
          /\ Goto(u, IF pc[u] = "subscribe" THEN "unrecord" ELSE "restore")
          /\ UNCHANGED arg
    /\ outbox' = [outbox EXCEPT ![u] = <<>>]
    /\ UNCHANGED subVars

RollBack(u, from) ==
    /\ pc[u] = from
    /\ customFeature' = HasCustom(subs')
    /\ arg' = [arg EXCEPT ![u] = NoArg] /\ Goto(u, "idle")
    /\ UNCHANGED <<wire, creds, server, outbox, faults>>

\* Faulty variant: the counts of a failed subscribe are kept.
rollbackRecordedUncounted(u) ==
    /\ \E i \in First({k \in DOMAIN subs : SameEntry(k, arg[u])}) : subs' = Delete(subs, i)
    /\ RollBack(u, "unrecord")
    /\ UNCHANGED <<refs, undone>>

\* rollbackRecordedSubscription: if the entry is gone, the counts still drop.
rollbackRecordedSubscription(u) ==
    /\ LET found == First({k \in DOMAIN subs : SameEntry(k, arg[u])})
       IN  subs' \in (IF found = {} THEN {subs} ELSE {Delete(subs, i) : i \in found})
    /\ refs' = Decremented(arg[u])
    /\ RollBack(u, "unrecord")
    /\ UNCHANGED undone

rollbackRemovedSubscription(u) ==
    /\ subs' = Append(subs, arg[u])
    /\ refs' = Incremented(arg[u])
    /\ RollBack(u, "restore")
    /\ undone' = TRUE

-----------------------------------------------------------------------------
Call(u) ==
    \/ WithCredentials(u)
    \/ \E r \in Registration : recordSubscription(u, r) \/ removeRecordedSubscription(u, r)
    \/ Send(u) \/ rollbackRecordedSubscription(u) \/ rollbackRemovedSubscription(u)

ConnectStep(p) == Publish(p) \/ Snapshot(p) \/ Replay(p) \/ ReplayDone(p)

Next ==
    \/ \E u \in User : Call(u)
    \/ \E p \in Proc : ConnectStep(p)
    \/ ConnectionLost \/ markDisconnected

Spec == Init /\ [][Next]_vars

-----------------------------------------------------------------------------
(* Properties                                                              *)

\* The type invariant: every field holds what its Go type and its use allow.
TypeOK ==
    /\ wire \in {"none", "open", "silent", "dead"}
    /\ creds \in BOOLEAN /\ customFeature \in BOOLEAN /\ undone \in BOOLEAN
    /\ subs \in Seq(Registration) /\ refs \in [Id -> Nat]
    /\ server \in SUBSET Topic /\ faults \in 0..MaxFaults
    /\ pc \in [Proc -> {"idle", "snapshot", "replay", "subscribe", "unsubscribe", "unrecord",
                        "restore"}]
    /\ outbox \in [Proc -> Seq(Message)] /\ arg \in [Proc -> Registration \cup {NoArg}]

\* The counts that decide what is unsubscribed and replayed agree with the
\* recorded subscriptions through failed sends and their rollbacks, and so does
\* the custom feature flag.
RefsMatch ==
    /\ \A i \in Id : refs[i] = Cardinality({k \in DOMAIN subs : i \in subs[k].ids})
    /\ customFeature = HasCustom(subs)

Healthy == wire = "open" /\ \A p \in Proc : pc[p] = "idle"

Counted == {i \in Id : refs[i] > 0}

\* Whenever nothing is in progress, a healthy connection streams every counted
\* id and the custom features: recordSubscription leaves out what others count,
\* and replayTrackedSubscriptions sends the rest after a reconnect.
Covered == Healthy => /\ Counted \subseteq server
                      /\ customFeature => "custom" \in server

\* The same, unless rollbackRemovedSubscription restored a subscription: the
\* restored id is not sent, and may have missed the replay.
CoveredUnlessRestored == ~undone => Covered

\* The bookkeeping of recordSubscription and removeSubscription is well formed and
\* its counts agree with the recorded subscriptions.
CountsMatch == TypeOK /\ RefsMatch
=============================================================================
