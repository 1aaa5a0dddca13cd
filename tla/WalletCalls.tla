----------------------------- MODULE WalletCalls -----------------------------
(***************************************************************************)
(* On-chain operations of a wallet: WalletOperations (split, merge and     *)
(* redeem, planned from balances read first), trading approvals, direct    *)
(* token and CTF calls, and the execution and confirmation of the calls    *)
(* (clob/wallet_operations.go, wallet_transactions.go, token.go,           *)
(* trading_approvals.go, ctf.go, signing/sending.go, waiting.go).          *)
(*                                                                         *)
(* An EOA sends its calls one by one and each may be lost, reverted, or    *)
(* sent without the sender learning so; a smart wallet relays one atomic   *)
(* batch (see Relay).  Somebody else may trade the wallet's positions.     *)
(* Identifiers, calldata and gas are left out.                             *)
(***************************************************************************)
EXTENDS Integers, Sequences, SequencesExt, FiniteSetsExt, OneCaller

CONSTANTS Conditions,  \* binary conditions the wallet holds positions of
          Approvals,   \* the approvals requiredTradingApprovals lists
          MaxBalance,  \* largest position
          MaxTrades    \* trades of the wallet by somebody else

-----------------------------------------------------------------------------
(* Requests and plans *)

\* A merge request names its condition by market, by position id or by combo
\* legs; amount 0 stands for the whole mergeable balance.
MergeRequests == [style : {"market", "position", "legs"}, cond : Conditions, amount : 0..MaxBalance]
MergeBatches ==
    {<<r>> : r \in MergeRequests}
    \cup {<<r, q>> : r, q \in {r \in MergeRequests : r.style # "legs" /\ r.amount # 2}}

Redemptions == [style : {"position", "native", "ctf"}, cond : Conditions]
Empty == [c \in Conditions |-> <<0, 0>>]

WalletStart(op, eoa, request, bal, granted) ==
    [part |-> "wallet", op |-> op, eoa |-> eoa, request |-> request, next |-> 1, plan |-> <<>>,
     pc |-> "plan", net |-> <<>>, attempts |-> <<>>, receipts |-> <<>>, recheck |-> 0,
     bal |-> bal, granted |-> granted, trades |-> 0, starved |-> FALSE, result |-> "none"]

WalletInit ==
    \E eoa \in BOOLEAN, low \in 0..1, high \in {0, MaxBalance} :
        LET bal == [c \in Conditions |-> <<high, low>>] IN
        \/ \E batch \in MergeBatches : st = WalletStart("merge", eoa, batch, bal, {})
        \/ \E redeem \in Redemptions : st = WalletStart("redeem", eoa, <<redeem>>, bal, {})
        \/ \E style \in {"market", "legs"}, c \in Conditions :
              st = WalletStart("split", eoa, <<[style |-> style, cond |-> c]>>, bal, {})
        \/ \E granted \in SUBSET Approvals :
              st = WalletStart("approve", eoa, <<>>, Empty, granted)

LOCAL At(pc) == st.part = "wallet" /\ st.pc = pc
LOCAL Go(pc) == st' = [st EXCEPT !.pc = pc]
LOCAL Return(result) == st' = [st EXCEPT !.pc = "done", !.result = result]

Call(kind, cond, sizes) == [kind |-> kind, cond |-> cond, sizes |-> sizes]

\* The calls are planned: an EOA sends them in turn, a smart wallet in a batch.
Execute(plan) ==
    st' = [st EXCEPT !.plan = plan, !.net = [i \in DOMAIN plan |-> "unsent"],
                     !.pc = IF st.eoa THEN "send" ELSE "relay"]

\* PrepareSplitPosition: a combo is prepared before it is split.
PrepareSplitPosition ==
    /\ At("plan")
    /\ st.op = "split"
    /\ LET req == st.request[1]
           split == Call("split", req.cond, <<1, 1>>) IN
       \/ Return("failed")
       \/ Execute(IF req.style = "legs" THEN <<Call("prepare", req.cond, <<0, 0>>), split>> ELSE <<split>>)

\* The calls of one merge request whose balances are bal, or none if refused.
prepareMerge(req, bal) ==
    LET maximum == Min({bal[1], bal[2]})
        amount == IF req.amount = 0 THEN maximum ELSE req.amount
        merge == Call("merge", req.cond, <<amount, amount>>)
    IN CASE maximum = 0 \/ amount > maximum -> <<>>
         [] maximum # 0 /\ amount <= maximum ->
            IF req.style = "legs" THEN <<Call("prepare", req.cond, <<0, 0>>), merge>> ELSE <<merge>>

\* Faulty variant: the same condition may be named twice.
MergeRepeated ==
    /\ At("plan")
    /\ st.op = "merge"
    /\ LET req == st.request[st.next]
           calls == prepareMerge(req, st.bal[req.cond]) IN
       \/ Return("failed")
       \/ CASE calls = <<>> \/ (req.style = "position") # (st.request[1].style = "position") ->
               Return("invalid")
            [] OTHER ->
               IF st.next = Len(st.request)
               THEN Execute(st.plan \o calls)
               ELSE st' = [st EXCEPT !.plan = @ \o calls, !.next = @ + 1]

(***************************************************************************)
(* MergePositions and MergeMultiplePositions: the balances of one request  *)
(* after another are read, and nothing is sent before all are planned.     *)
(***************************************************************************)
MergeMultiplePositions ==
    /\ At("plan")
    /\ st.op = "merge"
    /\ LET req == st.request[st.next]
           calls == prepareMerge(req, st.bal[req.cond]) IN
       \/ Return("failed")
       \/ CASE \/ calls = <<>>
               \/ (req.style = "position") # (st.request[1].style = "position")
               \/ \E i \in DOMAIN st.plan : st.plan[i].cond = req.cond -> Return("invalid")
            [] OTHER ->
               IF st.next = Len(st.request)
               THEN Execute(st.plan \o calls)
               ELSE st' = [st EXCEPT !.plan = @ \o calls, !.next = @ + 1]

\* PrepareRedeemPositions: a native market redeems each outcome that has a
\* balance, a position id its own, a CTF market whatever there is.
PrepareRedeemPositions ==
    /\ At("plan")
    /\ st.op = "redeem"
    /\ LET req == st.request[1]
           bal == st.bal[req.cond]
           yes == Call("redeem", req.cond, <<bal[1], 0>>)
           no == Call("redeem", req.cond, <<0, bal[2]>>)
           calls == CASE req.style = "ctf" -> <<Call("redeem", req.cond, <<0, 0>>)>>
                      [] req.style = "position" -> IF bal[1] = 0 THEN <<>> ELSE <<yes>>
                      [] req.style = "native" ->
                         (IF bal[1] = 0 THEN <<>> ELSE <<yes>>) \o (IF bal[2] = 0 THEN <<>> ELSE <<no>>)
       IN \/ Return("failed")
          \/ IF calls = <<>> THEN Return("invalid") ELSE Execute(calls)

\* PrepareTradingApprovals with GetTradingApprovalsState, and the calls of
\* SetupTradingApprovals or SetupTradingApprovalsGasless: what is missing.
SetupTradingApprovals ==
    /\ At("plan")
    /\ st.op = "approve"
    /\ LET missing == SetToSeq(Approvals \ st.granted)
           calls == [i \in DOMAIN missing |-> Call("approve", missing[i], <<0, 0>>)] IN
       \/ Return("failed")
       \/ IF calls = <<>> THEN Return("confirmed") ELSE Execute(calls)

-----------------------------------------------------------------------------
(* Sending *)

LOCAL Current == Len(st.attempts) + 1

\* Attempt and network state after call i was sent; hash: its hash is known.
Sent(hash, network) ==
    [st EXCEPT !.attempts = Append(@, [hash |-> hash, receipt |-> "none"]),
               !.net[Current] = network]

\* Faulty variant: a failed send leaves no record.
broadcastForgetful ==
    /\ At("send")
    /\ \/ Return("failed")
       \/ st' = [st EXCEPT !.pc = "handle", !.result = "failed", !.net[Current] = "pending"]
       \/ st' = [Sent(TRUE, "pending") EXCEPT !.pc = "sent"]

(***************************************************************************)
(* broadcastWalletCall: the call fails before it is sent, is sent, or the  *)
(* sender fails although the call may be on its way, with its hash (signed *)
(* locally, or reported by the wallet) or without one.  ExecuteEOACalls    *)
(* records every attempt and gives up at the first error.                  *)
(***************************************************************************)
broadcastWalletCall ==
    /\ At("send")
    /\ \/ IF st.attempts = <<>> THEN Return("failed")
          ELSE st' = [st EXCEPT !.pc = "handle", !.result = "failed"]
       \/ \E hash \in BOOLEAN, network \in {"pending", "dropped"} :
             st' = [Sent(hash, network) EXCEPT !.pc = "handle", !.result = "failed"]
       \/ st' = [Sent(TRUE, "pending") EXCEPT !.pc = "sent"]

\* ExecuteEOACalls waits for every call but the last; SetupTradingApprovals
\* and the direct calls (sendContractTxAndWait) for every call.
afterSend ==
    /\ At("sent")
    /\ IF Len(st.attempts) = Len(st.plan) /\ st.op # "approve"
       THEN st' = [st EXCEPT !.pc = "handle", !.result = "sent"]
       ELSE Go("confirm")

(***************************************************************************)
(* waitWalletCallReceipt after a send, by RPC (waitForReceipt) or by the   *)
(* wallet (WaitTransaction): a mined receipt is kept, whether the call was *)
(* reverted or the wait then failed; an error without one ends the         *)
(* sequence too.                                                           *)
(***************************************************************************)
confirmCall ==
    /\ At("confirm")
    /\ LET last == Len(st.attempts)
           kept == [st EXCEPT !.attempts[last].receipt = st.net[last]] IN
       \/ st' = [st EXCEPT !.pc = "handle", !.result = "failed"]
       \/ /\ st.net[last] = "reverted"
          /\ st' = [kept EXCEPT !.pc = "handle", !.result = "failed"]
       \/ /\ st.net[last] = "ok"
          /\ \/ st' = [kept EXCEPT !.pc = "handle", !.result = "failed"]
             \/ st' = IF last < Len(st.plan) THEN [kept EXCEPT !.pc = "send"]
                      ELSE [kept EXCEPT !.pc = "done", !.result = "confirmed"]

\* ExecuteWalletTransaction for a smart wallet: one batch.
relayBatch ==
    /\ At("relay")
    /\ \/ Return("failed")
       \/ st' = [st EXCEPT !.pc = "handle", !.result = "sent", !.net = [k \in DOMAIN @ |-> "pending"]]

-----------------------------------------------------------------------------
(* WaitReceipts on the handle *)

\* The receipt reported when the recheck of an attempt fails.
recheckFailed(seen) == seen

WaitReceipts ==
    /\ At("handle")
    /\ st.eoa
    /\ st.op # "approve"   \* whose error or receipts say all there is
    /\ LET k == st.recheck + 1
           attempt == st.attempts[k]
           report(receipt, result) ==
               [st EXCEPT !.recheck = k, !.pc = "done", !.result = result,
                          !.receipts = IF receipt = "none" THEN @ ELSE Append(@, receipt)]
       IN IF ~attempt.hash
          THEN st' = report("none", "unknown hash")
          ELSE \/ st' = report(recheckFailed(attempt.receipt), "failed")
               \/ st.net[k] = "reverted" /\ st' = report("reverted", "reverted")
               \/ /\ st.net[k] = "ok"
                  /\ st' = IF k < Len(st.attempts)
                           THEN [report("ok", st.result) EXCEPT !.pc = "handle"]
                           ELSE report("ok", IF k = Len(st.plan) THEN "confirmed" ELSE "incomplete")

\* The relayer's outcome, then the receipt of the batch.
WaitBatchReceipt ==
    /\ At("handle")
    /\ ~st.eoa
    /\ \/ Return("failed")
       \/ st.net[1] = "reverted" /\ Return("reverted")
       \/ st.net[1] = "ok" /\ Return("confirmed")

-----------------------------------------------------------------------------
(* The chain, and trades by somebody else *)

Covers(bal, call) == bal[call.cond][1] >= call.sizes[1] /\ bal[call.cond][2] >= call.sizes[2]

\* The wallet after one call that succeeds.
Effect(s, call) ==
    CASE call.kind \in {"merge", "redeem"} ->
         [s EXCEPT !.bal[call.cond] = <<@[1] - call.sizes[1], @[2] - call.sizes[2]>>]
      [] call.kind = "split" ->
         [s EXCEPT !.bal[call.cond] = <<@[1] + call.sizes[1], @[2] + call.sizes[2]>>]
      [] call.kind = "approve" -> [s EXCEPT !.granted = @ \cup {call.cond}]
      [] call.kind = "prepare" -> s

Spends(call) == call.kind \in {"merge", "redeem"}

mine ==
    /\ st.part = "wallet"
    /\ st.eoa
    /\ \E k \in DOMAIN st.net :
          /\ st.net[k] = "pending"
          /\ IF Spends(st.plan[k]) /\ ~Covers(st.bal, st.plan[k])
             THEN st' = [st EXCEPT !.net[k] = "reverted", !.starved = TRUE]
             ELSE \/ st' = [Effect(st, st.plan[k]) EXCEPT !.net[k] = "ok"]
                  \/ st' = [st EXCEPT !.net[k] = "reverted"]

mineBatch ==
    /\ st.part = "wallet"
    /\ ~st.eoa
    /\ st.net # <<>>
    /\ st.net[1] = "pending"
    /\ LET after == FoldLeft(Effect, st, st.plan)
           covered == \A k \in DOMAIN st.plan :
                         Spends(st.plan[k]) => Covers(FoldLeft(Effect, st, SubSeq(st.plan, 1, k - 1)).bal,
                                                      st.plan[k])
       IN IF covered
          THEN st' = [after EXCEPT !.net = [k \in DOMAIN @ |-> "ok"]]
          ELSE st' = [st EXCEPT !.net = [k \in DOMAIN @ |-> "reverted"], !.starved = TRUE]

somebodySells ==
    /\ st.part = "wallet"
    /\ st.pc # "done"
    /\ st.trades < MaxTrades
    /\ \E c \in Conditions :
          /\ st.bal[c][1] > 0
          /\ st' = [st EXCEPT !.bal[c][1] = @ - 1, !.trades = @ + 1]

WalletNext ==
    \/ PrepareSplitPosition \/ MergeMultiplePositions \/ PrepareRedeemPositions \/ SetupTradingApprovals
    \/ broadcastWalletCall \/ afterSend \/ confirmCall \/ relayBatch
    \/ WaitReceipts \/ WaitBatchReceipt \/ mine \/ mineBatch \/ somebodySells

-----------------------------------------------------------------------------

(***************************************************************************)
(* ExecuteEOACalls and SetupTradingApprovals send a call only after every  *)
(* call before it was mined successfully.                                  *)
(***************************************************************************)
ConfirmedBeforeNext ==
    st.part = "wallet" /\ st.eoa =>
        \A k \in DOMAIN st.net : st.net[k] # "unsent" => \A j \in 1..(k - 1) : st.net[j] = "ok"

(***************************************************************************)
(* Whatever fails, the handle or error of an EOA sequence names every call *)
(* that may be on chain, and the wait on it succeeds only if all requested *)
(* calls were mined successfully.                                          *)
(***************************************************************************)
NoCallForgotten ==
    st.part = "wallet" =>
        /\ st.eoa => \A k \in DOMAIN st.net : st.net[k] # "unsent" => k <= Len(st.attempts)
        /\ st.result = "confirmed" => \A k \in DOMAIN st.net : st.net[k] = "ok"
        /\ st.result = "confirmed" /\ st.op = "approve" => st.granted = Approvals

(***************************************************************************)
(* A receipt seen while the calls were executed is reported by             *)
(* WaitReceipts whatever becomes of the recheck: every attempt it looked   *)
(* at and had a receipt for is among the receipts it returns.              *)
(***************************************************************************)
ReceiptsAreKept ==
    st.part = "wallet" /\ st.pc = "done" =>
        \A k \in 1..st.recheck :
            st.attempts[k].receipt # "none" => k <= Len(st.receipts) /\ st.receipts[k] = st.attempts[k].receipt

(***************************************************************************)
(* A plan fits the balances it was made from: unless somebody else sells,  *)
(* no merge or redemption reverts for want of positions, whatever is named *)
(* in a batch of MergeMultiplePositions.                                   *)
(***************************************************************************)
PlanFitsBalances == st.part = "wallet" /\ st.trades = 0 => ~st.starved

(***************************************************************************)
(* A sequence of EOA calls goes on only after success, and whatever fails  *)
(* its handle accounts for every call that may be on chain.                *)
(***************************************************************************)
CallsAccounted == ConfirmedBeforeNext /\ NoCallForgotten /\ ReceiptsAreKept
=============================================================================
