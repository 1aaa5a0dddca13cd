------------------------------ MODULE Endpoints ------------------------------
(***************************************************************************)
(* The shape of a REST operation.  Every exported operation of the client  *)
(* packages that makes one request is a record of what decides its course: *)
(*                                                                         *)
(*   on      the client it is a method of: "public" (no header function),  *)
(*           "signer" (level 1), "authenticated" (levels 1 and 2) or       *)
(*           "secret" (perps: fixed proxy headers)                         *)
(*   via     the transport helper it goes through:                         *)
(*           "clob"  clob.Client.getJSON/postJSON/... (rate limit, retry)  *)
(*           "read"  data.Client.getReadJSON (retry of 429)                *)
(*           "http"  polyhttp.Client directly                              *)
(*   method  the HTTP method                                               *)
(*   auth    the level of the headers: "none", "L1", "L2", "L2Builder",    *)
(*           "builder" (builder headers made before the request), "secret" *)
(*   nonce   a caller's nonce is signed into the request                   *)
(*   checks  the conditions on the arguments that are tested before        *)
(*           anything is sent                                              *)
(*   fits    the conditions a decoded answer must meet to be returned      *)
(***************************************************************************)
LOCAL Operation(on, via, method, auth) ==
    [on |-> on, via |-> via, method |-> method, auth |-> auth, nonce |-> FALSE,
     checks |-> {}, fits |-> {}]

\* clob.Client: public market data.
Public(method) == Operation("public", "clob", method, "none")

\* clob.SignerClient: requests signed with the wallet key and a nonce.
Signed(method) == [Operation("signer", "clob", method, "L1") EXCEPT !.nonce = TRUE]

\* clob.AuthenticatedClient: requests signed with the API secret, with or
\* without the builder's headers.
Authenticated(method, auth) == Operation("authenticated", "clob", method, auth)

\* gamma.Client, data/legacy.Client, bridge.Client and perps.Client: one
\* request through polyhttp, no retry.
Plain(method) == Operation("public", "http", method, "none")

\* data.Client: reads that are repeated when the service is rate limiting.
Read == Operation("public", "read", "GET", "none")

\* perps.AuthenticatedClient: one request with the proxy's fixed headers.
Secret(method) == Operation("secret", "http", method, "secret")

\* An operation whose arguments are tested first, and one whose answer is.
Checked(op, conditions) == [op EXCEPT !.checks = @ \cup conditions]
Fitting(op, conditions) == [op EXCEPT !.fits = @ \cup conditions]

(***************************************************************************)
(* A call is one request, or two of which the second follows the first's   *)
(* success or a 400 or 409 answer to it.                                   *)
(***************************************************************************)
Once(op) == [first |-> op, second |-> <<>>, on |-> "ok"]
Then(op, next) == [first |-> op, second |-> <<next>>, on |-> "ok"]
OnConflict(op, next) == [first |-> op, second |-> <<next>>, on |-> "conflict"]
=============================================================================
