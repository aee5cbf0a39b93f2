------------------------ MODULE InheritanceRegistry ------------------------
(***************************************************************************)
(* RiskGuardInheritanceRegistry: one dead-man switch per smart account.    *)
(*                                                                         *)
(* The contract keeps, per account, a plan (terms and time of the last     *)
(* sign of life), the list of beneficiaries with their shares, the list of *)
(* protected assets, and the progress of a distribution (a balance         *)
(* snapshot and a settled flag per asset and beneficiary).  Three actors   *)
(* outside the contract act on it and are modelled only as far as the      *)
(* contract uses them: the smart accounts (which hold the assets), the     *)
(* Somnia agent platform (which answers a request later, or never) and the *)
(* Reactivity precompile (which fires a subscribed schedule once).         *)
(*                                                                         *)
(* Rules of the abstraction:                                               *)
(*  - a transaction is one action; one that reverts is no action;          *)
(*  - one unit of time stands for an arbitrary number of seconds; the      *)
(*    second fraction of a schedule stamp is floored by the contract, so   *)
(*    stamps are whole units;                                              *)
(*  - a beneficiary list is the function from its addresses to their       *)
(*    shares: duplicates are rejected, and the order only decides which of *)
(*    two transfers is tried first, which TransferOutcomes leaves open;    *)
(*  - addresses, events and the timestamps kept for display (createdAt,    *)
(*    updatedAt, executedAt) are left out.                                 *)
(***************************************************************************)
EXTENDS Integers, FiniteSets, FiniteSetsExt

CONSTANTS
    Accounts,           \* smart accounts (addresses with code)
    Heirs,              \* addresses a plan may name as beneficiaries
    Tokens,             \* assets: the native coin and ERC-20 tokens
    SilentTokens,       \* tokens whose transfer returns FALSE instead of reverting
    Platforms,          \* agent platforms the admin may configure
    NoAccount, NoPlatform,
    BpsTotal,           \* BPS_TOTAL, the sum of a plan's shares
    BeneficiaryTimelock,  \* BENEFICIARY_TIMELOCK
    MaxRetries,         \* MAX_DISTRIBUTION_RETRIES
    MinHeartbeat, MaxDuration,
    DriftTolerance,     \* REACTIVITY_SCHEDULE_DRIFT_TOLERANCE_SECONDS
    ShareChoices, AssetChoices, TermChoices,  \* arguments a plan call may carry
    ProposalChoices,    \* beneficiary lists an owner may propose
    DepositChoices,     \* costs of one agent request the admin's reward setting yields
    FundChoices,        \* amounts a funding or withdrawal call may carry
    MoveChoices,        \* amounts an account receives or spends by itself
    InitialBalance,     \* asset balance of every account at the start
    Faults,             \* which of the outside world's faults may happen
    MaxDrift,           \* bound: how much later than subscribed an event is stamped
    MaxTime, MaxRequestId, MaxBalance   \* bounds of the model

ASSUME ConstantsAssumption ==
    /\ NoAccount \notin Accounts /\ NoPlatform \notin Platforms /\ IsFiniteSet(Heirs)
    /\ SilentTokens \subseteq Tokens
    /\ {BpsTotal, MaxRetries, MinHeartbeat} \subseteq Nat \ {0}
    /\ {BeneficiaryTimelock, MaxDuration, DriftTolerance, MaxDrift} \subseteq Nat
    /\ {MaxTime, MaxRequestId, MaxBalance} \subseteq Nat
    /\ AssetChoices \subseteq SUBSET Tokens
    /\ \A t \in TermChoices : t \in [hb : Nat, grace : Nat, lock : Nat]
    /\ \A s \in ShareChoices \cup ProposalChoices : \E H \in SUBSET Heirs : s \in [H -> 0 .. BpsTotal]
    /\ DepositChoices # {} /\ DepositChoices \subseteq Nat
    /\ FundChoices \subseteq Nat /\ MoveChoices \subseteq Nat
    /\ InitialBalance \in 0 .. MaxBalance
    /\ Faults \subseteq {"subscribe", "event", "transfer"}

VARIABLES
    now,                            \* block.timestamp
    plans, beneficiaries, protectedAssets,
    pendingBeneficiaries, pendingBeneficiariesAt,
    assetSnapshot, assetSnapshotSet, assetSettled,
    distributionComplete, distributionRetryCount,
    agentPlatform, agentDeposit, agentBudgetOf, registryBalance,
    pendingHeartbeatRequestId, pendingDistributionRequestId,
    pendingHeartbeatSmartAccount, pendingDistributionSmartAccount,
    currentSchedule, scheduledSmartAccounts,
    subscriptions,                  \* schedules the precompile has still to fire
    openRequests, lastRequestId,    \* requests the platforms have not answered
    balanceOf,                      \* what every account holds of every token
    paid,                           \* history: what left the account to whom, this plan
    renewedLate                     \* history: accounts renewed after their grace period

planVars == <<plans, beneficiaries, protectedAssets>>
proposalVars == <<pendingBeneficiaries, pendingBeneficiariesAt>>
progressVars == <<assetSnapshot, assetSnapshotSet, assetSettled,
                  distributionComplete, distributionRetryCount, paid>>
configVars == <<agentPlatform, agentDeposit>>
fundVars == <<agentBudgetOf, registryBalance>>
heartbeatVars == <<pendingHeartbeatRequestId, pendingHeartbeatSmartAccount>>
distributionVars == <<pendingDistributionRequestId, pendingDistributionSmartAccount>>
scheduleVars == <<currentSchedule, scheduledSmartAccounts, subscriptions>>
platformVars == <<openRequests, lastRequestId>>
agentVars == <<configVars, fundVars, heartbeatVars, distributionVars, platformVars>>
worldVars == <<balanceOf, renewedLate>>

vars == <<now, planVars, proposalVars, progressVars, agentVars, scheduleVars, worldVars>>

-----------------------------------------------------------------------------
(* Types. *)

Time == 0 .. MaxTime
RequestId == 1 .. MaxRequestId
Pairs == Tokens \X Heirs
Shares == UNION {[H -> 0 .. BpsTotal] : H \in SUBSET Heirs}
Terms == [hb : Nat, grace : Nat, lock : Nat]
PlanState == {"None", "Active", "Cancelled", "Executed"}
RequestKind == {"heartbeat", "distribution"}

NoShares == [h \in {} |-> 0]
NoTerms == [hb |-> 0, grace |-> 0, lock |-> 0]

TypeOK ==
    /\ now \in Time
    /\ plans \in [Accounts -> [state : PlanState, terms : Terms, last : Time]]
    /\ beneficiaries \in [Accounts -> Shares]
    /\ protectedAssets \in [Accounts -> SUBSET Tokens]
    /\ pendingBeneficiaries \in [Accounts -> Shares]
    /\ pendingBeneficiariesAt \in [Accounts -> Time]
    /\ assetSnapshot \in [Accounts -> [Tokens -> Nat]]
    /\ assetSnapshotSet \in [Accounts -> SUBSET Tokens]
    /\ assetSettled \in [Accounts -> SUBSET Pairs]
    /\ distributionComplete \in [Accounts -> BOOLEAN]
    /\ distributionRetryCount \in [Accounts -> Nat]
    /\ agentPlatform \in Platforms \cup {NoPlatform}
    /\ agentDeposit \in DepositChoices
    /\ agentBudgetOf \in [Accounts -> Nat]
    /\ registryBalance \in Nat
    /\ pendingHeartbeatRequestId \in [Accounts -> {0} \cup RequestId]
    /\ pendingDistributionRequestId \in [Accounts -> {0} \cup RequestId]
    /\ pendingHeartbeatSmartAccount \in [RequestId -> Accounts \cup {NoAccount}]
    /\ pendingDistributionSmartAccount \in [RequestId -> Accounts \cup {NoAccount}]
    /\ currentSchedule \in [Accounts -> Time]
    /\ scheduledSmartAccounts \in [Time -> SUBSET Accounts]
    /\ subscriptions \subseteq Time
    /\ openRequests \subseteq [platform : Platforms, id : RequestId, kind : RequestKind]
    /\ lastRequestId \in [Platforms -> {0} \cup RequestId]
    /\ balanceOf \in [Accounts -> [Tokens -> Nat]]
    /\ paid \in [Accounts -> [Pairs -> Nat]]
    /\ renewedLate \subseteq Accounts

Init ==
    /\ now = 0
    /\ plans = [a \in Accounts |-> [state |-> "None", terms |-> NoTerms, last |-> 0]]
    /\ beneficiaries = [a \in Accounts |-> NoShares]
    /\ protectedAssets = [a \in Accounts |-> {}]
    /\ pendingBeneficiaries = [a \in Accounts |-> NoShares]
    /\ pendingBeneficiariesAt = [a \in Accounts |-> 0]
    /\ assetSnapshot = [a \in Accounts |-> [t \in Tokens |-> 0]]
    /\ assetSnapshotSet = [a \in Accounts |-> {}]
    /\ assetSettled = [a \in Accounts |-> {}]
    /\ distributionComplete = [a \in Accounts |-> FALSE]
    /\ distributionRetryCount = [a \in Accounts |-> 0]
    /\ agentPlatform = NoPlatform
    /\ agentDeposit \in DepositChoices
    /\ agentBudgetOf = [a \in Accounts |-> 0]
    /\ registryBalance = 0
    /\ pendingHeartbeatRequestId = [a \in Accounts |-> 0]
    /\ pendingDistributionRequestId = [a \in Accounts |-> 0]
    /\ pendingHeartbeatSmartAccount = [i \in RequestId |-> NoAccount]
    /\ pendingDistributionSmartAccount = [i \in RequestId |-> NoAccount]
    /\ currentSchedule = [a \in Accounts |-> 0]
    /\ scheduledSmartAccounts = [s \in Time |-> {}]
    /\ subscriptions = {}
    /\ openRequests = {}
    /\ lastRequestId = [p \in Platforms |-> 0]
    /\ balanceOf = [a \in Accounts |-> [t \in Tokens |-> InitialBalance]]
    /\ paid = [a \in Accounts |-> [p \in Pairs |-> 0]]
    /\ renewedLate = {}

-----------------------------------------------------------------------------
(* Guards and views of the contract. *)

Active(a) == plans[a].state = "Active"

\* The three deadlines that follow from the last sign of life.
GraceEndsAt(a) == plans[a].last + plans[a].terms.hb + plans[a].terms.grace
TimelockEndsAt(a) == GraceEndsAt(a) + plans[a].terms.lock
Length(t) == t.hb + t.grace + t.lock

\* Mutant: the owner may act until the timelock has ended.
OwnerBeforePayout(a) == Active(a) /\ now <= TimelockEndsAt(a)

\* The owner may act on a plan only while it is active and in its grace period.
OwnerInTime(a) == Active(a) /\ now < GraceEndsAt(a)

\* Mutant: the payout waits for the heartbeat deadline alone.
DeadlinePassed(a) == Active(a) /\ now >= plans[a].last + plans[a].terms.hb

TimelockReady(a) == Active(a) /\ now >= TimelockEndsAt(a)

ValidTerms(t) ==
    /\ t.hb >= MinHeartbeat
    /\ \A d \in {t.hb, t.grace, t.lock} : d <= MaxDuration

ValidShares(a, s) ==
    /\ DOMAIN s # {} /\ a \notin DOMAIN s
    /\ \A h \in DOMAIN s : s[h] > 0
    /\ SumFunction(s) = BpsTotal

ValidAssets(A) == A # {}

-----------------------------------------------------------------------------
(* Distribution: what one call of _executeDistribution may do. *)

\* A token's balance is read once, at the first distribution attempt that meets it.
SnapshotOf(a, t) ==
    IF t \in protectedAssets[a] \ assetSnapshotSet[a]
    THEN balanceOf[a][t] ELSE assetSnapshot[a][t]

Amount(a, t, h) == (SnapshotOf(a, t) * beneficiaries[a][h]) \div BpsTotal

\* Mutant: the settled flags are not consulted.
DueAgain(a) ==
    {p \in protectedAssets[a] \X DOMAIN beneficiaries[a] : Amount(a, p[1], p[2]) > 0}

\* The transfers the loop attempts: not settled yet, and of a non-zero amount.
Due(a) ==
    {p \in protectedAssets[a] \X DOMAIN beneficiaries[a] :
        p \notin assetSettled[a] /\ Amount(a, p[1], p[2]) > 0}

Spending(a, S, t) ==
    MapThenSumSet(LAMBDA p : Amount(a, p[1], p[2]), {p \in S : p[1] = t})

Affordable(a, S) == \A t \in Tokens : Spending(a, S, t) \in 0 .. balanceOf[a][t]

\* ok: the transfers whose call did not revert; moved: those that moved the asset.
\* A call may revert because the account refuses the registry or the recipient
\* refuses the coin ("transfer"); else it reverts only for want of balance.  A
\* token that returns FALSE does not revert, and nothing moves.
TransferOutcomes(a) ==
    {o \in [ok : SUBSET Due(a), moved : SUBSET Due(a)] :
        /\ o.moved \subseteq o.ok
        /\ \A p \in o.ok \ o.moved : p[1] \in SilentTokens
        /\ Affordable(a, o.moved)
        /\ "transfer" \notin Faults =>
              /\ \A p \in Due(a) \ o.moved : ~Affordable(a, o.moved \cup {p})
              /\ \A p \in Due(a) \ o.ok : p[1] \notin SilentTokens}

Distributable(a) == TimelockReady(a) /\ ~distributionComplete[a]

\* Mutant: one settled beneficiary of an asset is enough.
SomeSettled(a, settled) ==
    \A t \in protectedAssets[a] :
        SnapshotOf(a, t) # 0 => \E h \in DOMAIN beneficiaries[a] : <<t, h>> \in settled

AllAssetsSettled(a, settled) ==
    \A t \in protectedAssets[a] :
        SnapshotOf(a, t) # 0 => {t} \X DOMAIN beneficiaries[a] \subseteq settled

\* _executeDistribution for the accounts in R, out[a] the outcome for a.  What
\* happens for one account touches no state of another.
ExecuteDistribution(R, out) ==
    LET settled(a) == assetSettled[a] \cup out[a].ok
        done(a) == a \in R /\ AllAssetsSettled(a, settled(a))
    IN
    /\ assetSnapshot' = [a \in Accounts |->
          IF a \in R THEN [t \in Tokens |-> SnapshotOf(a, t)] ELSE assetSnapshot[a]]
    /\ assetSnapshotSet' = [a \in Accounts |->
          IF a \in R THEN assetSnapshotSet[a] \cup protectedAssets[a] ELSE assetSnapshotSet[a]]
    /\ assetSettled' = [a \in Accounts |->
          IF a \in R THEN settled(a) ELSE assetSettled[a]]
    /\ balanceOf' = [a \in Accounts |->
          IF a \in R THEN [t \in Tokens |-> balanceOf[a][t] - Spending(a, out[a].moved, t)]
          ELSE balanceOf[a]]
    /\ paid' = [a \in Accounts |->
          IF a \in R
          THEN [p \in Pairs |-> paid[a][p] +
                  IF p \in out[a].moved THEN Amount(a, p[1], p[2]) ELSE 0]
          ELSE paid[a]]
    /\ distributionComplete' = [a \in Accounts |-> distributionComplete[a] \/ done(a)]
    /\ plans' = [a \in Accounts |->
          IF done(a) THEN [plans[a] EXCEPT !.state = "Executed"] ELSE plans[a]]

\* _clearDistributionState works through the lists the plan has at the moment.
ClearDistributionState(a) ==
    /\ assetSnapshot' = [assetSnapshot EXCEPT ![a] =
          [t \in Tokens |-> IF t \in protectedAssets[a] THEN 0 ELSE @[t]]]
    /\ assetSnapshotSet' = [assetSnapshotSet EXCEPT ![a] = @ \ protectedAssets[a]]
    /\ assetSettled' = [assetSettled EXCEPT ![a] =
          @ \ (protectedAssets[a] \X DOMAIN beneficiaries[a])]
    /\ distributionComplete' = [distributionComplete EXCEPT ![a] = FALSE]
    /\ distributionRetryCount' = [distributionRetryCount EXCEPT ![a] = 0]
    /\ paid' = [paid EXCEPT ![a] = [p \in Pairs |-> 0]]

-----------------------------------------------------------------------------
(* Reactivity schedules. *)

\* _scheduleDistribution for a timelock that ends at s.  A subscription the
\* precompile rejects (balance, gas) leaves the schedule recorded but unfired.
ScheduleDistribution(a, s) ==
    /\ s <= MaxTime
    /\ IF s <= now THEN UNCHANGED scheduleVars
       ELSE /\ currentSchedule' = [currentSchedule EXCEPT ![a] = s]
            /\ scheduledSmartAccounts' = [scheduledSmartAccounts EXCEPT ![s] = @ \cup {a}]
            /\ \/ subscriptions' = subscriptions \cup {s}
               \/ "subscribe" \in Faults /\ UNCHANGED subscriptions

\* Mutant: the oldest schedule within the tolerance.
ResolveOldest(raw) ==
    LET near == {s \in Time : /\ raw - DriftTolerance <= s /\ s <= raw
                              /\ scheduledSmartAccounts[s] # {}}
    IN  IF near = {} THEN raw ELSE Min(near)

\* The newest schedule with accounts among those at most the tolerance older.
ResolveSchedule(raw) ==
    LET near == {s \in Time : /\ raw - DriftTolerance <= s /\ s <= raw
                              /\ scheduledSmartAccounts[s] # {}}
    IN  IF near = {} THEN raw ELSE Max(near)

-----------------------------------------------------------------------------
(* What a smart account calls. *)

CreatePlan(a, s, A, t) ==
    /\ ~Active(a)
    /\ ValidTerms(t) /\ ValidShares(a, s) /\ ValidAssets(A)
    /\ ClearDistributionState(a)
    /\ beneficiaries' = [beneficiaries EXCEPT ![a] = s]
    /\ protectedAssets' = [protectedAssets EXCEPT ![a] = A]
    /\ plans' = [plans EXCEPT ![a] = [state |-> "Active", terms |-> t, last |-> now]]
    /\ ScheduleDistribution(a, now + Length(t))
    /\ UNCHANGED <<now, proposalVars, agentVars, worldVars>>

UpdatePlan(a, s, A, t) ==
    /\ OwnerInTime(a)
    /\ ValidTerms(t) /\ ValidShares(a, s) /\ ValidAssets(A)
    /\ ClearDistributionState(a)
    /\ beneficiaries' = [beneficiaries EXCEPT ![a] = s]
    /\ protectedAssets' = [protectedAssets EXCEPT ![a] = A]
    /\ plans' = [plans EXCEPT ![a].terms = t]
    /\ ScheduleDistribution(a, plans[a].last + Length(t))
    /\ UNCHANGED <<now, proposalVars, agentVars, worldVars>>

CancelPlan(a) ==
    /\ OwnerInTime(a)
    /\ plans' = [plans EXCEPT ![a].state = "Cancelled"]
    /\ beneficiaries' = [beneficiaries EXCEPT ![a] = NoShares]
    /\ protectedAssets' = [protectedAssets EXCEPT ![a] = {}]
    /\ UNCHANGED <<now, proposalVars, progressVars, agentVars, scheduleVars, worldVars>>

\* Mutant: the new deadline is not scheduled.
CheckInUnscheduled(a) ==
    /\ OwnerInTime(a)
    /\ plans' = [plans EXCEPT ![a].last = now]
    /\ UNCHANGED <<now, beneficiaries, protectedAssets, proposalVars, progressVars,
                   agentVars, scheduleVars, worldVars>>

CheckIn(a) ==
    /\ OwnerInTime(a)
    /\ plans' = [plans EXCEPT ![a].last = now]
    /\ ScheduleDistribution(a, now + Length(plans[a].terms))
    /\ UNCHANGED <<now, beneficiaries, protectedAssets, proposalVars, progressVars,
                   agentVars, worldVars>>

ProposeBeneficiaries(a, s) ==
    /\ OwnerInTime(a)
    /\ ValidShares(a, s)
    /\ pendingBeneficiaries' = [pendingBeneficiaries EXCEPT ![a] = s]
    /\ pendingBeneficiariesAt' = [pendingBeneficiariesAt EXCEPT ![a] = now]
    /\ UNCHANGED <<now, planVars, progressVars, agentVars, scheduleVars, worldVars>>

ConfirmBeneficiaries(a) ==
    /\ OwnerInTime(a)
    /\ DOMAIN pendingBeneficiaries[a] # {}
    /\ now >= pendingBeneficiariesAt[a] + BeneficiaryTimelock
    /\ beneficiaries' = [beneficiaries EXCEPT ![a] = pendingBeneficiaries[a]]
    /\ pendingBeneficiaries' = [pendingBeneficiaries EXCEPT ![a] = NoShares]
    /\ pendingBeneficiariesAt' = [pendingBeneficiariesAt EXCEPT ![a] = 0]
    /\ UNCHANGED <<now, plans, protectedAssets, progressVars, agentVars, scheduleVars,
                   worldVars>>

CancelBeneficiariesChange(a) ==
    /\ DOMAIN pendingBeneficiaries[a] # {}
    /\ pendingBeneficiaries' = [pendingBeneficiaries EXCEPT ![a] = NoShares]
    /\ pendingBeneficiariesAt' = [pendingBeneficiariesAt EXCEPT ![a] = 0]
    /\ UNCHANGED <<now, planVars, progressVars, agentVars, scheduleVars, worldVars>>

-----------------------------------------------------------------------------
(* Agent budgets and configuration. *)

FundAgentBudget(a, n) ==
    /\ registryBalance + n <= MaxBalance /\ agentBudgetOf[a] + n <= MaxBalance
    /\ agentBudgetOf' = [agentBudgetOf EXCEPT ![a] = @ + n]
    /\ registryBalance' = registryBalance + n
    /\ UNCHANGED <<now, planVars, proposalVars, progressVars, configVars, heartbeatVars,
                   distributionVars, platformVars, scheduleVars, worldVars>>

\* receive(): money for the subscriptions, credited to no account.
FundReactivity(n) ==
    /\ registryBalance + n <= MaxBalance
    /\ registryBalance' = registryBalance + n
    /\ UNCHANGED <<now, planVars, proposalVars, progressVars, configVars, agentBudgetOf,
                   heartbeatVars, distributionVars, platformVars, scheduleVars, worldVars>>

\* Mutant: the failed transfer of a withdrawal is not noticed.
WithdrawUnchecked(n) ==
    /\ registryBalance' = registryBalance - n
    /\ UNCHANGED <<now, planVars, proposalVars, progressVars, configVars, agentBudgetOf,
                   heartbeatVars, distributionVars, platformVars, scheduleVars, worldVars>>

WithdrawReactivityBudget(n) ==
    /\ n <= registryBalance
    /\ registryBalance' = registryBalance - n
    /\ UNCHANGED <<now, planVars, proposalVars, progressVars, configVars, agentBudgetOf,
                   heartbeatVars, distributionVars, platformVars, scheduleVars, worldVars>>

ConfigureAgent(p) ==
    /\ agentPlatform' = p
    /\ UNCHANGED <<now, planVars, proposalVars, progressVars, agentDeposit, fundVars,
                   heartbeatVars, distributionVars, platformVars, scheduleVars, worldVars>>

SetAgentRewardPerCall(d) ==
    /\ agentDeposit' = d
    /\ UNCHANGED <<now, planVars, proposalVars, progressVars, agentPlatform, fundVars,
                   heartbeatVars, distributionVars, platformVars, scheduleVars, worldVars>>

\* createRequest on the configured platform, paid from the account's budget.
\* The platform numbers its own requests from 1.
RequestAgent(a, kind) ==
    LET id == lastRequestId[agentPlatform] + 1 IN
    /\ agentPlatform # NoPlatform
    /\ agentBudgetOf[a] >= agentDeposit /\ registryBalance >= agentDeposit
    /\ id \in RequestId
    /\ agentBudgetOf' = [agentBudgetOf EXCEPT ![a] = @ - agentDeposit]
    /\ registryBalance' = registryBalance - agentDeposit
    /\ lastRequestId' = [lastRequestId EXCEPT ![agentPlatform] = id]
    /\ openRequests' = openRequests \cup
          {[platform |-> agentPlatform, id |-> id, kind |-> kind]}

-----------------------------------------------------------------------------
(* Heartbeats through the agent platform. *)

\* Mutant: a second request while one is pending.
AlwaysIdle(a) == a \in Accounts

\* One heartbeat request per account at a time.
HeartbeatIdle(a) == pendingHeartbeatRequestId[a] = 0

TriggerAgentHeartbeat(a) ==
    LET id == lastRequestId[agentPlatform] + 1 IN
    /\ OwnerInTime(a)
    /\ HeartbeatIdle(a)
    /\ RequestAgent(a, "heartbeat")
    /\ pendingHeartbeatSmartAccount' = [pendingHeartbeatSmartAccount EXCEPT ![id] = a]
    /\ pendingHeartbeatRequestId' = [pendingHeartbeatRequestId EXCEPT ![a] = id]
    /\ UNCHANGED <<now, planVars, proposalVars, progressVars, configVars, distributionVars,
                   scheduleVars, worldVars>>

\* The answer of the configured platform.  A request it never answers, and one of
\* a platform the admin has replaced, stays in openRequests.
HandleHeartbeatResponse(r, success) ==
    LET a == pendingHeartbeatSmartAccount[r.id] IN
    /\ r.kind = "heartbeat" /\ r.platform = agentPlatform
    /\ a # NoAccount
    /\ openRequests' = openRequests \ {r}
    /\ pendingHeartbeatSmartAccount' = [pendingHeartbeatSmartAccount EXCEPT ![r.id] = NoAccount]
    /\ pendingHeartbeatRequestId' = [pendingHeartbeatRequestId EXCEPT ![a] = 0]
    /\ IF success /\ Active(a)
       THEN /\ plans' = [plans EXCEPT ![a].last = now]
            /\ ScheduleDistribution(a, now + Length(plans[a].terms))
            /\ renewedLate' = renewedLate \cup {b \in {a} : now >= GraceEndsAt(b)}
       ELSE UNCHANGED <<plans, scheduleVars, renewedLate>>
    /\ UNCHANGED <<now, beneficiaries, protectedAssets, proposalVars, progressVars, configVars,
                   fundVars, distributionVars, lastRequestId, balanceOf>>

-----------------------------------------------------------------------------
(* The three ways a distribution starts. *)

\* Mutant: one answer more than the contract allows.
RetryOnceMore(a) == distributionRetryCount[a] <= MaxRetries

RetryLeft(a) == distributionRetryCount[a] < MaxRetries

TriggerDistributionAgent(a) ==
    LET id == lastRequestId[agentPlatform] + 1 IN
    /\ Distributable(a)
    /\ RetryLeft(a)
    /\ pendingDistributionRequestId[a] = 0
    /\ RequestAgent(a, "distribution")
    /\ pendingDistributionSmartAccount' = [pendingDistributionSmartAccount EXCEPT ![id] = a]
    /\ pendingDistributionRequestId' = [pendingDistributionRequestId EXCEPT ![a] = id]
    /\ UNCHANGED <<now, planVars, proposalVars, progressVars, configVars, heartbeatVars,
                   scheduleVars, worldVars>>

\* A distribution answer counts as a retry whatever it says; the transfers are
\* tried only if the plan is still (or again) past its timelock.
HandleDistributionResponse(r, success) ==
    LET a == pendingDistributionSmartAccount[r.id]
        R == {b \in {a} : success /\ Distributable(b)}
    IN
    /\ r.kind = "distribution" /\ r.platform = agentPlatform
    /\ a # NoAccount
    /\ openRequests' = openRequests \ {r}
    /\ pendingDistributionSmartAccount' =
          [pendingDistributionSmartAccount EXCEPT ![r.id] = NoAccount]
    /\ pendingDistributionRequestId' = [pendingDistributionRequestId EXCEPT ![a] = 0]
    /\ distributionRetryCount' = [distributionRetryCount EXCEPT ![a] = @ + 1]
    /\ \E o \in TransferOutcomes(a) : ExecuteDistribution(R, [b \in R |-> o])
    /\ UNCHANGED <<now, beneficiaries, protectedAssets, proposalVars, configVars, fundVars,
                   heartbeatVars, lastRequestId, scheduleVars, renewedLate>>

\* The accounts a schedule event stamped raw pays out for.
Reached(raw) ==
    {a \in Accounts :
        /\ a \in scheduledSmartAccounts[ResolveSchedule(raw)]
        /\ currentSchedule[a] = ResolveSchedule(raw) /\ Distributable(a)}

\* The precompile fires the schedule subscribed for s with a stamp of s or a
\* little later.  Two calls that scheduled the same time made two subscriptions,
\* so firing one may leave another.
OnEvent(s, raw) ==
    /\ s \in subscriptions
    /\ s <= raw /\ raw <= s + MaxDrift /\ raw <= now
    /\ \/ subscriptions' = subscriptions \ {s}
       \/ subscriptions' = subscriptions
    /\ \E out \in [Reached(raw) -> UNION {TransferOutcomes(a) : a \in Reached(raw)}] :
          /\ \A a \in Reached(raw) : out[a] \in TransferOutcomes(a)
          /\ ExecuteDistribution(Reached(raw), out)
    /\ UNCHANGED <<now, beneficiaries, protectedAssets, proposalVars, distributionRetryCount,
                   agentVars, currentSchedule, scheduledSmartAccounts, renewedLate>>

\* An event that is never delivered, or whose handler reverts: one token whose
\* balanceOf reverts takes every account of the schedule with it.
LoseEvent(s) ==
    /\ "event" \in Faults
    /\ s \in subscriptions /\ s <= now
    /\ subscriptions' = subscriptions \ {s}
    /\ UNCHANGED <<now, planVars, proposalVars, progressVars, agentVars, currentSchedule,
                   scheduledSmartAccounts, worldVars>>

\* The manual path, open to anyone: every due transfer succeeds, or all revert.
ExecuteInheritance(a) ==
    /\ Distributable(a)
    /\ Due(a) # {}
    /\ \E o \in TransferOutcomes(a) :
          o.ok = Due(a) /\ ExecuteDistribution({a}, [b \in {a} |-> o])
    /\ UNCHANGED <<now, beneficiaries, protectedAssets, proposalVars, distributionRetryCount,
                   agentVars, scheduleVars, renewedLate>>

-----------------------------------------------------------------------------
(* The rest of the world: the clock, and accounts in day-to-day use. *)

Tick ==
    /\ now < MaxTime
    /\ now' = now + 1
    /\ UNCHANGED <<planVars, proposalVars, progressVars, agentVars, scheduleVars, worldVars>>

ReceiveFunds(a, t, n) ==
    /\ balanceOf[a][t] + n <= MaxBalance
    /\ balanceOf' = [balanceOf EXCEPT ![a][t] = @ + n]
    /\ UNCHANGED <<now, planVars, proposalVars, progressVars, agentVars, scheduleVars,
                   renewedLate>>

SpendFunds(a, t, n) ==
    /\ n <= balanceOf[a][t]
    /\ balanceOf' = [balanceOf EXCEPT ![a][t] = @ - n]
    /\ UNCHANGED <<now, planVars, proposalVars, progressVars, agentVars, scheduleVars,
                   renewedLate>>

-----------------------------------------------------------------------------

OwnerStep ==
    \E a \in Accounts :
        \/ \E s \in ShareChoices, A \in AssetChoices, t \in TermChoices :
              CreatePlan(a, s, A, t) \/ UpdatePlan(a, s, A, t)
        \/ CancelPlan(a)
        \/ CheckIn(a)
        \/ \E s \in ProposalChoices : ProposeBeneficiaries(a, s)
        \/ ConfirmBeneficiaries(a)
        \/ CancelBeneficiariesChange(a)

FundingStep ==
    \/ \E n \in FundChoices :
          \/ \E a \in Accounts : FundAgentBudget(a, n)
          \/ FundReactivity(n)
          \/ WithdrawReactivityBudget(n)
    \/ \E p \in Platforms : ConfigureAgent(p)
    \/ \E d \in DepositChoices : SetAgentRewardPerCall(d)

AgentStep ==
    \/ \E a \in Accounts : TriggerAgentHeartbeat(a) \/ TriggerDistributionAgent(a)
    \/ \E r \in openRequests, success \in BOOLEAN :
          HandleHeartbeatResponse(r, success) \/ HandleDistributionResponse(r, success)

PayoutStep ==
    \/ \E s \in Time : (\E raw \in Time : OnEvent(s, raw)) \/ LoseEvent(s)
    \/ \E a \in Accounts : ExecuteInheritance(a)

WorldStep ==
    \/ Tick
    \/ \E a \in Accounts, t \in Tokens, n \in MoveChoices :
          ReceiveFunds(a, t, n) \/ SpendFunds(a, t, n)

Next == OwnerStep \/ FundingStep \/ AgentStep \/ PayoutStep \/ WorldStep

Spec == Init /\ [][Next]_vars

\* Time passes, and the precompile fires what has been subscribed once it is due.
FireDue == \E s \in subscriptions, raw \in Time : OnEvent(s, raw)
Fairness == WF_vars(Tick) /\ WF_vars(FireDue)
FairSpec == Spec /\ Fairness

-----------------------------------------------------------------------------
(* Properties. *)

\* Nothing of a distribution has happened to the account's plan.
Untouched(a) ==
    /\ assetSettled[a] = {} /\ assetSnapshotSet[a] = {}
    /\ \A p \in Pairs : paid[a][p] = 0

\* While the owner of an active plan can still veto it, no asset of the account has
\* been snapshotted, settled or paid out: whatever mix of stale schedule events,
\* agent answers, list changes and renewals came before.  The one exception is an
\* account that an agent's heartbeat answer renewed after its grace period.
NothingPaidInGrace ==
    \A a \in Accounts \ renewedLate : OwnerInTime(a) => Untouched(a)

ProgressInPlan(a) ==
    /\ plans[a].state \in {"None", "Cancelled"} => Untouched(a)
    /\ Active(a) /\ now < TimelockEndsAt(a) => Untouched(a)
    /\ plans[a].state \in {"Active", "Executed"} =>
          /\ assetSettled[a] \subseteq protectedAssets[a] \X DOMAIN beneficiaries[a]
          /\ assetSnapshotSet[a] \subseteq protectedAssets[a]

\* The inductive form of NothingPaidInGrace.  No progress is left behind by a plan that
\* was cancelled or has not reached the end of its timelock, and the progress of a
\* running or finished distribution lies within the plan's own lists: that is what
\* makes clearing through those lists complete.
ProgressFollowsPlan == \A a \in Accounts \ renewedLate : ProgressInPlan(a)

\* A plan that has not distributed yet still knows when it will: the schedule on
\* record is the end of its timelock, the account is filed under it, and unless the
\* precompile refused the subscription the event is still to come.  Every renewal
\* and change of terms must re-schedule for this to hold.
ScheduleIsCurrent ==
    \A a \in Accounts : Active(a) /\ now < TimelockEndsAt(a) =>
        /\ currentSchedule[a] = TimelockEndsAt(a)
        /\ a \in scheduledSmartAccounts[TimelockEndsAt(a)]
        /\ "subscribe" \notin Faults => TimelockEndsAt(a) \in subscriptions

\* What one plan pays out of an asset never exceeds the balance snapshotted for it,
\* over all attempts, retries, events and agent answers together (the late renewal
\* of an account with a partly paid plan excepted, after which its list can change).
PaidWithinSnapshot ==
    \A a \in Accounts \ renewedLate, t \in Tokens :
        SumFunction([h \in Heirs |-> paid[a][<<t, h>>]]) <= assetSnapshot[a][t]

\* A plan is closed as executed only when every beneficiary has received exactly its
\* share of every asset the account held (late renewals and tokens that fail in
\* silence excepted).
ExecutedMeansPaid ==
    \A a \in Accounts \ renewedLate : plans[a].state = "Executed" =>
        \A t \in protectedAssets[a] \ SilentTokens, h \in DOMAIN beneficiaries[a] :
            assetSnapshot[a][t] # 0 =>
                /\ paid[a][<<t, h>>] = (assetSnapshot[a][t] * beneficiaries[a][h]) \div BpsTotal
                /\ paid[a][<<t, h>>] > 0

\* The two tables of an agent request agree: a request id on record belongs to the
\* account that waits for that very id, and some platform has yet to answer it, even
\* if the admin changes platforms whose ids overlap.
RequestsAgree ==
    \A id \in RequestId :
        /\ LET a == pendingHeartbeatSmartAccount[id] IN a # NoAccount =>
              /\ pendingHeartbeatRequestId[a] = id
              /\ \E r \in openRequests : r.id = id /\ r.kind = "heartbeat"
        /\ LET a == pendingDistributionSmartAccount[id] IN a # NoAccount =>
              /\ pendingDistributionRequestId[a] = id
              /\ \E r \in openRequests : r.id = id /\ r.kind = "distribution"

\* A plan never counts more distribution answers than the contract allows, the one
\* still awaited included.
RetriesBounded ==
    \A a \in Accounts :
        LET awaited == \E id \in RequestId : pendingDistributionSmartAccount[id] = a
        IN  distributionRetryCount[a] + (IF awaited THEN 1 ELSE 0) <= MaxRetries

\* Once something has been paid out, the plan's lists and terms stay as they were
\* until the account starts a new plan (late renewals excepted): an owner cannot
\* redirect the rest of a distribution.
DistributionFixesPlan ==
    [][\A a \in Accounts \ renewedLate' :
          Active(a) /\ ~Untouched(a) =>
              /\ beneficiaries'[a] = beneficiaries[a]
              /\ protectedAssets'[a] = protectedAssets[a]
              /\ plans'[a].terms = plans[a].terms
              /\ plans'[a].state \in {"Active", "Executed"}]_vars

\* An event stamped with the very time it was subscribed for reaches every account
\* that is still scheduled for that time, however many schedules of other accounts
\* and outdated schedules of its own lie within the drift tolerance.
PunctualEventReachesAll ==
    [][\A s \in subscriptions : OnEvent(s, s) =>
          \A a \in Accounts : currentSchedule[a] = s /\ Distributable(a) =>
              protectedAssets[a] \subseteq assetSnapshotSet'[a]]_vars

\* A share too small for one unit of the asset: its transfer is never attempted and
\* the plan never counts as settled.
DustBlocked(a) ==
    \E t \in protectedAssets[a], h \in DOMAIN beneficiaries[a] :
        SnapshotOf(a, t) # 0 /\ Amount(a, t, h) = 0 /\ <<t, h>> \notin assetSettled[a]

\* With a reliable world, a plan whose owner falls silent pays out without anybody's
\* help: an active plan that is scheduled is eventually executed, or renewed past
\* that date, or cancelled.  A dust share, and a plan changed so late that its
\* timelock had ended, are left to the manual path.
SilentPlanPaysOut ==
    \A a \in Accounts, s \in Time :
        (Active(a) /\ TimelockEndsAt(a) = s /\ now < s) ~>
            (~Active(a) \/ TimelockEndsAt(a) # s \/ DustBlocked(a))
=============================================================================
