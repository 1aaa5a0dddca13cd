--------------------------- MODULE PerpsBuilders ----------------------------
(***************************************************************************)
(* RefreshBuilder, ApproveBuilderFee and RevokeBuilderFee of goroutines    *)
(* that share a perps session and an owner client (perps/builders.go).     *)
(***************************************************************************)
EXTENDS Integers, Sequences, OneCaller

CONSTANTS BuilderCallers,   \* goroutines
          FeeRates,         \* builder fee rates; 0 revokes
          MaxBuilderCalls   \* builder calls of the goroutines together

ASSUME BuilderAssumption == 0 \notin BuilderCallers /\ FeeRates \subseteq Nat

NoTerms == [rate |-> 0, version |-> 0]

\* One builder.  consents: the rates the owner approved, in the order of
\* their versions; excused: two calls overlapped or one has failed.
BuilderInit ==
    \E cap \in FeeRates \ {0} :
        st = [part |-> "builder", cap |-> cap, consents |-> <<>>, terms |-> NoTerms, addressed |-> FALSE,
              pc |-> [c \in BuilderCallers |-> "idle"], rate |-> [c \in BuilderCallers |-> 0],
              read |-> [c \in BuilderCallers |-> NoTerms], version |-> [c \in BuilderCallers |-> 0],
              lock |-> 0, calls |-> 0, excused |-> FALSE, clash |-> FALSE]

BuilderAt(c, pc) == st.part = "builder" /\ st.pc[c] = pc
Consent == IF st.consents = <<>> THEN 0 ELSE st.consents[Len(st.consents)]

BuilderStarts(c) ==
    [st EXCEPT !.calls = @ + 1, !.excused = @ \/ \E d \in BuilderCallers : st.pc[d] # "idle"]
BuilderFails(s, c) ==
    [s EXCEPT !.pc[c] = "idle", !.excused = TRUE, !.lock = IF @ = c THEN 0 ELSE @]

\* RefreshBuilder: with an address it is resolved first, without one the
\* attribution ends at once.
RefreshBuilder(c) ==
    /\ BuilderAt(c, "idle")
    /\ st.calls < MaxBuilderCalls
    /\ \/ st' = [BuilderStarts(c) EXCEPT !.pc[c] = "status"]
       \/ st' = [BuilderStarts(c) EXCEPT !.terms = NoTerms, !.addressed = FALSE]

\* resolveBuilder: the builder's status, then the saved consent.
resolveStatus(c) ==
    /\ BuilderAt(c, "status")
    /\ st' = BuilderFails(st, c) \/ st' = [st EXCEPT !.pc[c] = "approvals"]

\* The rate is the lower of the platform's cap and the approved maximum.
resolveBuilder(c) ==
    /\ BuilderAt(c, "approvals")
    /\ \/ st' = BuilderFails(st, c)
       \/ LET rate == IF st.cap < Consent THEN st.cap ELSE Consent IN
          st' = [st EXCEPT !.pc[c] = "store",
                           !.read[c] = IF rate = 0 THEN NoTerms
                                       ELSE [rate |-> rate, version |-> Len(st.consents)]]

storeTerms(c) ==
    /\ BuilderAt(c, "store")
    /\ st' = [st EXCEPT !.pc[c] = "idle", !.terms = st.read[c], !.addressed = TRUE]

\* Session.ApproveBuilderFee and RevokeBuilderFee (rate 0) for an address
\* that is given or the session's own.
ApproveBuilderFee(c) ==
    /\ BuilderAt(c, "idle")
    /\ st.calls < MaxBuilderCalls
    /\ \E rate \in FeeRates :
          st' = [BuilderStarts(c) EXCEPT !.pc[c] = "lock", !.rate[c] = rate]

\* Faulty variant: the consents are not serialized.
lockConsentNever(c) ==
    /\ BuilderAt(c, "lock")
    /\ st' = [st EXCEPT !.pc[c] = "version"]

\* OwnerClient.ApproveBuilderFee holds consentMu to its end.
lockConsent(c) ==
    /\ BuilderAt(c, "lock")
    /\ st.lock = 0
    /\ st' = [st EXCEPT !.lock = c, !.pc[c] = "version"]

\* GetCredentials and GetBuilderApprovals: the version after the saved one.
readVersion(c) ==
    /\ BuilderAt(c, "version")
    /\ \/ st' = BuilderFails(st, c)
       \/ st' = [st EXCEPT !.pc[c] = "submit", !.version[c] = Len(st.consents) + 1]

\* The service takes the next version only; its answer may be lost.
submitConsent(c) ==
    /\ BuilderAt(c, "submit")
    /\ LET unlocked == [st EXCEPT !.lock = IF @ = c THEN 0 ELSE @]
           saved == [unlocked EXCEPT !.consents = Append(@, st.rate[c])] IN
       IF st.version[c] # Len(st.consents) + 1
       THEN st' = [BuilderFails(st, c) EXCEPT !.clash = TRUE]
       ELSE st' = BuilderFails(saved, c) \/ st' = BuilderFails(st, c) \/ st' = [saved EXCEPT !.pc[c] = "approved"]

\* A revocation clears the session's terms, an approval refreshes them.
afterApproval(c) ==
    /\ BuilderAt(c, "approved")
    /\ st' = IF st.rate[c] # 0 THEN [st EXCEPT !.pc[c] = "status"]
             ELSE IF st.addressed THEN [st EXCEPT !.pc[c] = "idle", !.terms = NoTerms, !.addressed = FALSE]
             ELSE [st EXCEPT !.pc[c] = "idle"]

BuilderNext ==
    \E c \in BuilderCallers :
        \/ RefreshBuilder(c) \/ resolveStatus(c) \/ resolveBuilder(c) \/ storeTerms(c)
        \/ ApproveBuilderFee(c) \/ lockConsent(c) \/ readVersion(c) \/ submitConsent(c) \/ afterApproval(c)

BuilderSpec == BuilderInit /\ [][BuilderNext]_st

-----------------------------------------------------------------------------

(***************************************************************************)
(* The terms a session signs with never exceed the platform's cap nor the  *)
(* consent they were read from; and unless two calls overlapped or one has *)
(* failed, they do not exceed the consent in force: approval and           *)
(* revocation update this session's terms.                                 *)
(***************************************************************************)
FeeWithinConsent ==
    st.part = "builder" =>
        /\ st.terms.rate <= st.cap
        /\ st.terms.rate > 0 => st.terms.version > 0 /\ st.terms.rate <= st.consents[st.terms.version]
        /\ ~st.excused /\ (\A c \in BuilderCallers : st.pc[c] = "idle") => st.terms.rate <= Consent

(***************************************************************************)
(* Approvals made concurrently through one owner client never sign the     *)
(* same version twice, so none is refused because of another.              *)
(***************************************************************************)
VersionsDoNotClash == st.part = "builder" => ~st.clash

(***************************************************************************)
(* The builder terms of a session keep to the consent, and concurrent      *)
(* approvals do not refuse each other.                                     *)
(***************************************************************************)
BuilderTermsSafe == FeeWithinConsent /\ VersionsDoNotClash
=============================================================================
