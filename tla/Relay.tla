-------------------------------- MODULE Relay --------------------------------
(***************************************************************************)
(* Operations of smart wallets through the relayer (internal/polyrelay and *)
(* clob/gasless.go, collateral_return.go, wallet_readiness.go,             *)
(* wallet_readiness_safe.go, session_keys.go): a signed batch, a           *)
(* collateral-return plan, a wallet deployment, EnsureWalletReady, and     *)
(* the authorization or revocation of a session key.                       *)
(*                                                                         *)
(* The relayer takes a signed batch only for the wallet's nonce on chain   *)
(* and while nothing of the wallet is in flight; its nonce endpoint may    *)
(* lag by one.  Other clients of the wallet move the nonce.  A request may *)
(* be refused, rate limited, or its answer lost after the relayer acted.   *)
(* Calldata, hashes and signatures are left out.                           *)
(***************************************************************************)
EXTENDS Integers, OneCaller

CONSTANTS SubmitRetryAttempts,  \* resubmissions after the first attempt
          PollMaxAttempts,      \* reads of a transaction or of a view
          MaxMoves              \* actions of other clients of the wallet

RelayOps == {"gasless", "collateral", "deploy", "deploySafe", "ensure", "authorize", "revoke"}

\* What is submitted: a batch signed for a nonce, the creation of a deposit
\* wallet or of a Safe, or a session-key mutation (itself a signed batch).
Kind ==
    CASE st.op \in {"gasless", "collateral"} -> "batch"
      [] st.op \in {"authorize", "revoke"} -> "session"
      [] st.op = "deploySafe" \/ (st.op = "ensure" /\ st.wallet = "SAFE") -> "safe"
      [] OTHER -> "create"
Nonced == Kind \in {"batch", "session"}

\* view: what the relayer's deployment view or session-key registry shows;
\* "expected" is the deployed wallet, or the key with the asked expiry and scopes.
RelayInit ==
    \E op \in RelayOps, wallet \in {"EOA", "PROXY", "SAFE", "WALLET"}, owner \in BOOLEAN,
       view \in {"absent", "other", "expected"} :
        /\ op \in {"deploy", "deploySafe", "ensure"} => view # "other"
        /\ op = "revoke" => view # "expected"
        /\ op = "authorize" => view # "expected"
        /\ op \in {"gasless", "collateral"} => view = "absent"
        /\ st = [part |-> "relay", op |-> op, wallet |-> wallet, owner |-> owner, view |-> view,
                 pc |-> "begin", attempt |-> 0, polls |-> 0, chain |-> 1, moves |-> 0,
                 nonce |-> 0, named |-> 0, corrected |-> FALSE, answer |-> "none", taken |-> FALSE,
                 tx |-> "none", executed |-> 0, handle |-> FALSE, confirmed |-> FALSE,
                 result |-> "none"]

RelayAt(pc) == st.part = "relay" /\ st.pc = pc
RelayGo(pc) == st' = [st EXCEPT !.pc = pc]
RelayReturn(result) == st' = [st EXCEPT !.pc = "done", !.result = result]

-----------------------------------------------------------------------------
(* Checks before anything is submitted *)

\* relayerWalletType and gaslessConfig: an EOA has no relayer; a signer that
\* does not own the deposit wallet signs as a session signer.
gaslessConfig(wallet) == wallet \in {"PROXY", "SAFE", "WALLET"}

\* requireDepositWalletDeploymentTarget; DeploySafeWallet's identity checks
requireDepositWalletDeploymentTarget == st.wallet = "WALLET" /\ st.owner
requireSafeDeploymentTarget == st.wallet = "SAFE" /\ st.owner

\* PrepareGaslessTransaction and PrepareGasless, ExecuteCollateralReturnPlan
\* (which also compares the plan with the client), signSessionKeyMutation.
beginSigned ==
    /\ RelayAt("begin")
    /\ Nonced
    /\ IF /\ gaslessConfig(st.wallet)
          /\ st.op \in {"authorize", "revoke"} => st.wallet = "WALLET" /\ st.owner
       THEN RelayGo("build") \/ RelayReturn("invalid")
       ELSE RelayReturn("invalid")

\* DeployDepositWallet
beginCreate ==
    /\ RelayAt("begin")
    /\ st.op = "deploy"
    /\ IF requireDepositWalletDeploymentTarget THEN RelayGo("submit") ELSE RelayReturn("invalid")

\* DeploySafeWallet up to its submission: it probes the view once more.
beginSafe ==
    /\ RelayAt("begin") \/ RelayAt("safe")
    /\ st.pc = "begin" => st.op = "deploySafe"
    /\ IF ~requireSafeDeploymentTarget
       THEN RelayReturn("invalid")
       ELSE \/ RelayReturn("failed")
            \/ IF st.view = "expected" THEN RelayReturn("already deployed") ELSE RelayGo("submit")

\* EnsureWalletReady up to the deployment
EnsureWalletReady ==
    /\ RelayAt("begin")
    /\ st.op = "ensure"
    /\ CASE st.wallet = "EOA" -> RelayReturn("ready")
         [] OTHER ->
            \/ RelayReturn("failed")
            \/ CASE st.view = "expected" -> RelayReturn("ready")
                 [] st.view # "expected" /\ st.wallet = "SAFE" -> RelayGo("safe")
                 [] st.view # "expected" /\ st.wallet # "SAFE" ->
                    IF requireDepositWalletDeploymentTarget THEN RelayGo("submit") ELSE RelayReturn("invalid")

-----------------------------------------------------------------------------
(* Submission *)

(***************************************************************************)
(* BuildGaslessSubmit: the nonce of the wallet, as the relayer reports it, *)
(* and a signature over it.  The request may fail; a rate limited one is   *)
(* judged like a failed submission, except for a session key, whose        *)
(* payload is built once.                                                  *)
(***************************************************************************)
BuildGaslessSubmit ==
    /\ RelayAt("build")
    /\ \/ \E nonce \in {st.chain - 1, st.chain} :
             st' = [st EXCEPT !.pc = "submit", !.nonce = nonce, !.corrected = FALSE]
       \/ IF Kind = "session"
          THEN RelayReturn("failed")
          ELSE \E answer \in {"limited", "refused"} : st' = [st EXCEPT !.pc = "judge", !.answer = answer]

submit ==
    /\ RelayAt("submit")
    /\ RelayGo("flight")

\* The relayer takes a batch for the current nonce when nothing is in flight;
\* creations and mutations are idempotent: the same one is taken once.
Takes == IF Nonced THEN st.nonce = st.chain /\ st.tx # "new" ELSE TRUE
Repeated == Kind # "batch" /\ st.taken
Take(s) == [s EXCEPT !.taken = TRUE, !.tx = "new"]

\* The relayer's answer, and what it did before answering.
relayAnswers ==
    /\ RelayAt("flight")
    /\ LET reply(s, answer) == [s EXCEPT !.pc = "judge", !.answer = answer] IN
       \/ \E answer \in {"limited", "refused", "lost"} : st' = reply(st, answer)
       \/ Kind # "session" /\ st' = reply(st, "busy")
       \/ Nonced /\ ~Repeated /\ st.nonce < st.chain
          /\ st' = reply([st EXCEPT !.named = st.chain], "low")
       \/ Repeated /\ st' = reply(st, "accepted")
       \/ ~Repeated /\ Takes /\ \E answer \in {"accepted", "lost"} : st' = reply(Take(st), answer)

\* Faulty variant: a lost answer is retried like a rate limit.
isRetryableLost(kind, answer) == kind # "safe" /\ answer # "refused"

\* isRetryableSubmitError for batches and creations, retryWalletError for
\* session keys; a Safe creation is submitted once.
isRetryable(kind, answer) ==
    CASE kind \in {"batch", "create"} -> answer \in {"limited", "busy", "low"}
      [] kind = "session" -> answer \in {"limited", "lost"}
      [] kind = "safe" -> FALSE

\* Faulty variant: the nonce the relayer names is not used.
CorrectNever == FALSE

(***************************************************************************)
(* CorrectDepositNonce applies to a deposit wallet's batch whose nonce the *)
(* relayer calls too low, naming the one on chain; once per attempt.       *)
(***************************************************************************)
CorrectDepositNonce ==
    /\ st.answer = "low"
    /\ Kind = "batch"
    /\ st.wallet = "WALLET"
    /\ ~st.corrected

(***************************************************************************)
(* submitForWalletType and the retry loops: the same calls are signed      *)
(* again for the named nonce (the signer may fail), a retryable answer is  *)
(* retried after a pause, anything else is the caller's.                   *)
(***************************************************************************)
judge ==
    /\ RelayAt("judge")
    /\ CASE st.answer = "accepted" ->
            st' = [st EXCEPT !.pc = IF Kind = "session" THEN "status" ELSE "wait", !.handle = TRUE]
         [] CorrectDepositNonce ->
            \/ RelayReturn("failed")
            \/ st' = [st EXCEPT !.pc = "submit", !.nonce = st.named, !.corrected = TRUE]
         [] OTHER -> IF st.attempt = SubmitRetryAttempts \/ ~isRetryable(Kind, st.answer)
                     THEN RelayReturn(st.answer)
                     ELSE RelayGo("sleep")

\* sleepCtx: a batch is then built afresh, anything else sent again as it is.
sleepCtx ==
    /\ RelayAt("sleep")
    /\ \/ RelayReturn("cancelled")
       \/ st' = [st EXCEPT !.pc = IF Kind = "batch" THEN "build" ELSE "submit", !.attempt = @ + 1]

-----------------------------------------------------------------------------
(* Waiting *)

\* What follows the confirmation: EnsureWalletReady and AuthorizeSessionKey
\* wait for the view; the other operations end with the handle's outcome.
afterConfirmed ==
    [st EXCEPT !.confirmed = TRUE, !.polls = 0,
               !.pc = IF st.op \in {"ensure", "authorize"} THEN "view" ELSE "done",
               !.result = IF st.op \in {"ensure", "authorize"} THEN @ ELSE "confirmed"]

\* validateSessionKeyStatus: the status may already be a failure.  A revocation
\* waits for the registry only.
validateSessionKeyStatus ==
    /\ RelayAt("status")
    /\ RelayReturn("failed") \/ RelayGo(IF st.op = "revoke" THEN "view" ELSE "wait")

Again(pc) ==
    IF st.polls + 1 = PollMaxAttempts
    THEN RelayReturn("timeout")
    ELSE st' = [st EXCEPT !.pc = pc, !.polls = @ + 1]

\* PollUntilTerminal with terminalOutcome: one read of the transaction.
PollUntilTerminal ==
    /\ RelayAt("wait")
    /\ \/ RelayReturn("cancelled")
       \/ RelayReturn("failed")    \* a hard error
       \/ Again("wait")       \* a read that fails for now
       \/ CASE st.tx = "new" -> Again("wait")
            [] st.tx = "confirmed" -> st' = afterConfirmed
            [] st.tx = "failed" -> RelayReturn("reverted")

\* The view shows what WaitWalletDeployed or waitSessionKeyRegistry waits for.
Ready == IF st.op = "revoke" THEN st.view = "absent" ELSE st.view = "expected"

\* WaitWalletDeployed, waitSessionKeyRegistry: one read of the view.
pollView ==
    /\ RelayAt("view")
    /\ \/ RelayReturn("cancelled")
       \/ RelayReturn("failed")
       \/ Again("view")
       \/ IF Ready THEN RelayReturn("ready") ELSE Again("view")

-----------------------------------------------------------------------------
(* The relayer and other clients of the wallet *)

RelayRunning == st.part = "relay" /\ st.pc \notin {"begin", "done"}

\* A taken transaction is mined, or fails.
relayExecutes ==
    /\ RelayRunning
    /\ st.tx = "new"
    /\ \E outcome \in {"confirmed", "failed"} :
          st' = [st EXCEPT !.tx = outcome, !.executed = @ + 1, !.chain = IF Nonced THEN @ + 1 ELSE @]

\* The view follows: a revocation at once, the rest after confirmation.
viewFollows ==
    /\ RelayRunning
    /\ IF st.op = "revoke" THEN st.taken ELSE st.tx = "confirmed"
    /\ st.op \in {"deploy", "deploySafe", "ensure", "authorize", "revoke"}
    /\ ~Ready
    /\ st' = [st EXCEPT !.view = IF st.op = "revoke" THEN "absent" ELSE "expected"]

otherMoves ==
    /\ RelayRunning
    /\ st.moves < MaxMoves
    /\ IF Nonced
       THEN st.tx # "new" /\ st' = [st EXCEPT !.chain = @ + 1, !.moves = @ + 1]
       ELSE ~Ready /\ st.tx = "none" /\ st' = [st EXCEPT !.view = "expected", !.moves = @ + 1]

RelayNext ==
    \/ beginSigned \/ beginCreate \/ beginSafe \/ EnsureWalletReady
    \/ BuildGaslessSubmit \/ submit \/ relayAnswers \/ judge \/ sleepCtx
    \/ validateSessionKeyStatus \/ PollUntilTerminal \/ pollView
    \/ relayExecutes \/ viewFollows \/ otherMoves

RelaySpec == RelayInit /\ [][RelayNext]_st

-----------------------------------------------------------------------------

(***************************************************************************)
(* However often a submission is repeated, corrected or its answer lost,   *)
(* the calls of one PrepareGaslessTransaction, ExecuteCollateralReturnPlan *)
(* or session-key mutation are executed at most once.                      *)
(***************************************************************************)
BatchExecutedOnce == st.part = "relay" => st.executed <= 1

(***************************************************************************)
(* A lagging nonce endpoint alone never makes a deposit wallet's batch     *)
(* fail: PrepareGasless gives up on a low nonce only in its last attempt   *)
(* and only if another client moved the nonce meanwhile.                   *)
(***************************************************************************)
StaleNonceIsCorrected ==
    st.part = "relay" /\ st.pc = "done" /\ Kind = "batch" /\ st.wallet = "WALLET" /\ st.result = "low"
    => st.attempt = SubmitRetryAttempts /\ st.moves > 0

(***************************************************************************)
(* What the waits report is so: Handle.Wait's outcome is that of the       *)
(* mined transaction, readiness and a session key's registration were      *)
(* seen, a failed registry read never proves removal, and a deployment is  *)
(* submitted only for the wallet the signer owns.                          *)
(***************************************************************************)
RelayOutcomeTruthful ==
    st.part = "relay" =>
        /\ st.result = "ready" => Ready \/ (st.op = "ensure" /\ st.wallet = "EOA")
        /\ st.result = "ready" /\ st.op = "authorize" => st.confirmed
        /\ st.confirmed => st.tx = "confirmed"
        /\ st.result = "reverted" => st.tx = "failed"
        /\ st.taken /\ st.op \in {"deploy", "deploySafe", "ensure"} =>
              st.owner /\ st.wallet \in {"SAFE", "WALLET"}

(***************************************************************************)
(* A relayed operation fails for a low nonce only if another client        *)
(* interfered, and what its waits report is so.                            *)
(***************************************************************************)
RelayTruthful == StaleNonceIsCorrected /\ RelayOutcomeTruthful
=============================================================================
