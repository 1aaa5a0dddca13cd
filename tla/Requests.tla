------------------------------- MODULE Requests -------------------------------
(***************************************************************************)
(* One call of a REST operation, from its argument checks to its result.   *)
(*                                                                         *)
(* The call goes through the transport helper of its package:              *)
(*   clob  withRetry: the client's rate limiter before every attempt, GET  *)
(*         requests without a nonce repeated on 429, 5xx and every error   *)
(*         that is not an API error, with a backoff, up to RetryMax times; *)
(*   read  data getReadJSON: repeated twice on 429 unless the service asks *)
(*         for more than five seconds;                                     *)
(*   http  polyhttp: one request.                                          *)
(* Headers are made anew inside every attempt (polyhttp doJSON calls the   *)
(* client's HeaderFunc): level 2 takes one snapshot of the credentials and *)
(* the builder, then the time, possibly from the server, then signs.       *)
(*                                                                         *)
(* Meanwhile other goroutines may replace the credentials, promote the     *)
(* client to a builder and cancel the call's context.  The service may     *)
(* answer anything; that and the HTTP library are external.                *)
(***************************************************************************)
EXTENDS Naturals, OneCaller, Endpoints

CONSTANTS RetryMax    \* Config.RetryMax

LOCAL Clob == INSTANCE ClobEndpoints
LOCAL Gamma == INSTANCE GammaEndpoints
LOCAL Data == INSTANCE DataEndpoints
LOCAL Perps == INSTANCE PerpsEndpoints

Calls ==
    {Once(op) : op \in Clob!ClobOperations \cup Gamma!GammaOperations
                          \cup Data!DataOperations \cup Perps!PerpsOperations}
        \cup Clob!ClobCalls \cup Perps!PerpsCalls

NoHeaders == [key |-> 0, secret |-> 0, builder |-> FALSE, stamp |-> 0]

(***************************************************************************)
(* The client is configured with or without a rate limiter and the         *)
(* server's clock.  Attempts are numbered from 1; headers carry the number *)
(* of the attempt whose time they sign.                                    *)
(***************************************************************************)
RequestInit ==
    \E plan \in Calls, limiter, serverTime, builder \in BOOLEAN :
        st = [part |-> "call", plan |-> plan, op |-> plan.first, pc |-> "begin",
                limiter |-> limiter, serverTime |-> serverTime,
                generation |-> 1, builder |-> builder, hadBuilder |-> builder,
                cancelled |-> FALSE, attempt |-> 1, headers |-> NoHeaders,
                sends |-> 0, reply |-> "none", result |-> "none"]

RequestAt(pc) == st.part = "call" /\ st.pc = pc

RequestEnds(result) == st' = [st EXCEPT !.pc = "done", !.result = result]

\* Where an attempt starts.
AttemptOf(op) ==
    CASE op.via = "clob" /\ st.limiter -> "limit"
      [] op.via = "read" -> "context"
      [] OTHER -> "headers"

\* Commands, owner operations and builder-only requests are signed before
\* the transport is called.
SignedFirst(op) == op.auth \in {"builder", "command", "owner"}

BeginOf(op) == IF SignedFirst(op) THEN "presign" ELSE AttemptOf(op)

(***************************************************************************)
(* The operation tests its arguments and returns on the first failure.     *)
(***************************************************************************)
Begin ==
    /\ RequestAt("begin")
    /\ \/ st.op.checks # {} /\ RequestEnds("invalid")
       \/ st' = [st EXCEPT !.pc = BeginOf(st.op)]

\* Signing before the request: builderOnlyHeaders reads the clock and needs a
\* builder, the other two only the signer.
PreSign ==
    /\ RequestAt("presign")
    /\ \/ RequestEnds("local")
       \/ /\ st.op.auth = "builder" => st.builder
          /\ st' = [st EXCEPT !.pc = AttemptOf(st.op),
                                  !.headers = [NoHeaders EXCEPT !.builder = st.builder]]

waitRateLimit ==
    /\ RequestAt("limit")
    /\ IF st.cancelled THEN RequestEnds("context")
                         ELSE st' = [st EXCEPT !.pc = "headers"]

readContext ==
    /\ RequestAt("context")
    /\ IF st.cancelled THEN RequestEnds("context")
                         ELSE st' = [st EXCEPT !.pc = "headers"]

(***************************************************************************)
(* withRetry and getReadJSON on an error.  kind is "rejected" (an API      *)
(* error other than the following), "conflict" (400 or 409), "limited"     *)
(* (429), "limitedLong" (429 asking for more than five seconds), "server"  *)
(* (5xx), "local" (anything that is not an API error) or "context".        *)
(***************************************************************************)
Repeatable(op) == op.method = "GET" /\ ~op.nonce

\* Of the operations in the tables: getReadJSON only reads, levels 1 and 2 are
\* not asked of the public client, and a conflict has its second request.
Operations ==
    {plan.first : plan \in Calls} \cup {plan.second[1] : plan \in {p \in Calls : p.second # <<>>}}
ASSUME RequestAssumption ==
    /\ RetryMax \in Nat
    /\ \A op \in Operations : /\ op.via = "read" => Repeatable(op)
                              /\ op.auth \in {"L1", "L2", "L2Builder"} => op.on # "public"
    /\ \A plan \in Calls : plan.on = "conflict" => plan.second # <<>>

withRetryRepeats(kind) ==
    /\ Repeatable(st.op)
    /\ kind \in {"limited", "limitedLong", "server", "local"}
    /\ st.attempt <= RetryMax

getReadRepeats(kind) == kind = "limited" /\ st.attempt < 3

\* Faulty variant: writes are repeated after server errors too.
RepeatsAnything(kind) ==
    CASE st.op.via = "clob" -> /\ kind \in {"limited", "limitedLong", "server", "local"}
                                 /\ st.attempt <= RetryMax
      [] st.op.via = "read" -> getReadRepeats(kind)
      [] OTHER -> FALSE

Repeats(kind) ==
    CASE st.op.via = "clob" -> withRetryRepeats(kind)
      [] st.op.via = "read" -> getReadRepeats(kind)
      [] OTHER -> FALSE

Fail(kind) ==
    \/ /\ Repeats(kind)
       /\ st' = [st EXCEPT !.pc = "backoff", !.reply = kind]
    \/ /\ ~Repeats(kind)
       /\ IF kind = "conflict" /\ st.plan.on = "conflict" /\ st.op = st.plan.first
          THEN st' = [st EXCEPT !.op = st.plan.second[1], !.pc = "begin", !.attempt = 1,
                                    !.sends = 0, !.headers = NoHeaders, !.reply = "none"]
          ELSE st' = [st EXCEPT !.pc = "done", !.result = kind, !.reply = kind]

(***************************************************************************)
(* addAuthHeaders.  The public client has no header function, so whatever  *)
(* the level the request goes unsigned; the signer's refuses level 2.      *)
(***************************************************************************)
addAuthHeaders ==
    /\ RequestAt("headers")
    /\ CASE st.op.auth \in {"none", "builder", "command", "owner", "secret"}
              \/ st.op.on = "public" ->
              st' = [st EXCEPT !.pc = "send"]
         [] st.op.auth = "L1" ->
              st' = [st EXCEPT !.pc = "stamp", !.headers = NoHeaders]
         [] OTHER ->
              IF st.op.on = "authenticated"
              THEN st' = [st EXCEPT !.pc = "stamp",
                                        !.headers = [key |-> st.generation,
                                                     secret |-> st.generation,
                                                     builder |-> st.builder, stamp |-> 0]]
              ELSE Fail("local")

\* timestamp: the local clock, or a request of its own to the server.
timestamp ==
    /\ RequestAt("stamp")
    /\ \/ st' = [st EXCEPT !.pc = "sign", !.headers.stamp = st.attempt]
       \/ /\ st.serverTime
          /\ \E kind \in {"rejected", "limited", "server", "local"} : Fail(kind)
       \/ st.serverTime /\ st.cancelled /\ Fail("context")

(***************************************************************************)
(* L1Headers, L2Headers and, for a builder's request, the builder's        *)
(* Headers, which may be a remote service.                                 *)
(***************************************************************************)
Sign ==
    /\ RequestAt("sign")
    /\ \/ st' = [st EXCEPT !.pc = "send"]
       \/ Fail("local")

\* HTTPClient.Do: a cancelled context fails the request before it is sent.
Send ==
    /\ RequestAt("send")
    /\ IF st.cancelled
       THEN Fail("context")
       ELSE st' = [st EXCEPT !.pc = "flight", !.sends = @ + 1]

(***************************************************************************)
(* The answer.  An undecodable body is an error inside the attempt; a body *)
(* that decodes and does not fit is returned after it.                     *)
(***************************************************************************)
Receive ==
    /\ RequestAt("flight")
    /\ \/ \E kind \in {"rejected", "conflict", "limited", "limitedLong", "server", "local"} :
              Fail(kind)
       \/ st.cancelled /\ Fail("context")
       \/ st.op.fits # {} /\ st' = [st EXCEPT !.pc = "done", !.reply = "ok", !.result = "unfit"]
       \/ IF st.plan.second # <<>> /\ st.plan.on = "ok" /\ st.op = st.plan.first
          THEN st' = [st EXCEPT !.op = st.plan.second[1], !.pc = "begin", !.attempt = 1,
                                    !.sends = 0, !.headers = NoHeaders, !.reply = "none"]
          ELSE st' = [st EXCEPT !.pc = "done", !.reply = "ok", !.result = "ok"]

\* The wait between two attempts ends with the timer or with the context.
Backoff ==
    /\ RequestAt("backoff")
    /\ \/ st' = [st EXCEPT !.pc = AttemptOf(st.op), !.attempt = @ + 1]
       \/ st.cancelled /\ RequestEnds("context")

RequestLive == st.part = "call" /\ st.pc # "done"

\* SetCredentials: key and secret change under one lock.
SetCredentials ==
    /\ RequestLive
    /\ st.op.on = "authenticated"
    /\ st.generation = 1
    /\ st' = [st EXCEPT !.generation = 2]

PromoteToBuilder ==
    /\ RequestLive
    /\ st.op.on = "authenticated"
    /\ ~st.builder
    /\ st' = [st EXCEPT !.builder = TRUE]

\* The caller cancels the context, or its deadline passes.
Cancel ==
    /\ RequestLive
    /\ ~st.cancelled
    /\ st' = [st EXCEPT !.cancelled = TRUE]

RequestNext ==
    \/ Begin \/ PreSign \/ waitRateLimit \/ readContext \/ addAuthHeaders \/ timestamp \/ Sign
    \/ Send \/ Receive \/ Backoff
    \/ SetCredentials \/ PromoteToBuilder \/ Cancel

RequestSpec == RequestInit /\ [][RequestNext]_st

-----------------------------------------------------------------------------
(***************************************************************************)
(* A request that changes something on the service (every method but GET,  *)
(* and a GET with a nonce) is sent at most once in a call, whatever fails, *)
(* so an order or a cancellation is never submitted twice by withRetry.    *)
(***************************************************************************)
WritesSentOnce ==
    (st.part = "call" /\ ~Repeatable(st.op)) => st.sends <= 1

(***************************************************************************)
(* Every request on the wire is signed as its level says, with a key and a *)
(* secret of one generation although SetCredentials runs concurrently, and *)
(* with a time taken in that very attempt; a client that was a builder's   *)
(* when the call began adds the builder's headers to every attempt.        *)
(***************************************************************************)
SignedAfresh ==
    RequestAt("flight") =>
        /\ st.op.auth \in {"L1", "L2", "L2Builder"} => st.headers.stamp = st.attempt
        /\ st.op.auth \in {"L2", "L2Builder"} =>
              st.headers.key # 0 /\ st.headers.key = st.headers.secret
        /\ (st.op.auth \in {"builder", "L2Builder"} /\ st.hadBuilder) => st.headers.builder

(***************************************************************************)
(* A call gives up only when it must: it reports a failure that the        *)
(* transport repeats (429, 5xx, a transport error) only after all the      *)
(* attempts it is allowed, a cancelled context only when the context was   *)
(* cancelled, and invalid arguments only when nothing was sent.            *)
(***************************************************************************)
GivesUpOnlyWhenDone ==
    (RequestAt("done") /\ st.result # "ok") =>
        /\ st.result = "invalid" => st.sends = 0
        /\ st.result = "context" => st.cancelled
        /\ (st.op.via = "clob" /\ Repeatable(st.op) /\ st.reply \in {"limited", "server"}
                /\ st.result # "context") =>
              st.attempt = RetryMax + 1
        /\ (st.op.via = "read" /\ st.result = "limited") => st.attempt = 3

(***************************************************************************)
(* Retries repeat no write, sign every attempt afresh and end only when    *)
(* they must.                                                              *)
(***************************************************************************)
RetriesAreSafe == WritesSentOnce /\ SignedAfresh /\ GivesUpOnlyWhenDone
=============================================================================
