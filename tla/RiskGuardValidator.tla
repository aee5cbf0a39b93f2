------------------------- MODULE RiskGuardValidator -------------------------
(***************************************************************************)
(* RiskGuardValidator with its approval store: which user operations of a  *)
(* guarded smart account pass validation.                                  *)
(*                                                                         *)
(* Once enabled, the guard lets an operation pass freely only if it is a   *)
(* small plain transfer or a check-in.  Anything else needs an approval    *)
(* for its call data: the owner's, which the account's agent wrote to the  *)
(* store, or that of a Somnia risk agent the owner asked for a review.     *)
(*                                                                         *)
(* Rules of the abstraction:                                               *)
(*  - a transaction is one action; one that reverts is no action, nor is   *)
(*    a user operation whose validation fails;                             *)
(*  - a call is what its call data decodes to; the hash of the data is the *)
(*    call itself, so two operations with equal data share an approval;    *)
(*  - the entry point runs an operation's nonce once, so every validation  *)
(*    is of a fresh signature;                                             *)
(*  - what an account calls on these contracts by itself (install, set,    *)
(*    register) is an operation of its own and happens at any time.        *)
(***************************************************************************)
EXTENDS RiskGuardApprovalStore, Sequences, FiniteSets, FiniteSetsExt

CONSTANTS
    Validator,          \* this contract, one of the Hooks
    Signers, OwnerOrAdmin,  \* keys, and those each account answers to
    Platforms, NoPlatform, NoAccount,
    BpsTotal,
    ConfigChoices,      \* arguments of install and setConfig
    AnswerChoices,      \* what a platform may answer: status and responses
    DepositChoices,     \* costs of one review the admin's reward setting yields
    FundChoices, BalanceChoices,
    MaxGrants,          \* bound: approvals given per account and call
    MaxRequestId, MaxBalance   \* bounds of requests per platform and of money

\* What a call decodes to: one execution ("single"), several ("batch"), or data that
\* is no ERC-7579 execute of these kinds ("other").
Item == [target : {"registry", "eoa", "contract", "zero"}, value : Nat,
         data : {"none", "checkIn", "call"}]

ASSUME ValidatorAssumption ==
    /\ Validator \in Hooks
    /\ Calls \subseteq [type : {"single", "batch", "other"}, items : Seq(Item)]
    /\ NoPlatform \notin Platforms
    /\ IsFiniteSet(Accounts) /\ NoAccount \notin Accounts
    /\ OwnerOrAdmin \in [Accounts -> SUBSET Signers]
    /\ BpsTotal \in Nat \ {0}
    /\ ConfigChoices \subseteq [enabled : BOOLEAN, mode : {"Fixed", "Percent"}, value : Nat]
    /\ DepositChoices # {} /\ DepositChoices \subseteq Nat
    /\ FundChoices \subseteq Nat
    /\ BalanceChoices # {} /\ BalanceChoices \subseteq Nat
    /\ {MaxGrants, MaxRequestId, MaxBalance} \subseteq Nat

VARIABLES
    configs,
    agentPlatform, agentDeposit,
    agentBudgetOf, validatorBalance,
    pendingRiskReviewRequestId, pendingRiskReviewByRequestId,
    agentApprovals,             \* expiry of the agents' approval of a call, 0 if none
    openRequests, lastRequestId,    \* reviews the platforms have not answered
    balanceOf,                  \* balance a percentage threshold is taken of
    granted, lastGrant, passed  \* history, per account and call

configVars == <<configs, agentPlatform, agentDeposit, balanceOf>>
fundVars == <<agentBudgetOf, validatorBalance>>
reviewVars == <<pendingRiskReviewRequestId, pendingRiskReviewByRequestId>>
platformVars == <<openRequests, lastRequestId>>
historyVars == <<granted, lastGrant, passed>>
vars == <<now, storeVars, configVars, fundVars, reviewVars, agentApprovals, platformVars,
          historyVars>>

-----------------------------------------------------------------------------
(* Types. *)

RequestId == 1 .. MaxRequestId
Config == [initialized : BOOLEAN, enabled : BOOLEAN, mode : {"Fixed", "Percent"}, value : Nat]
NoConfig == [initialized |-> FALSE, enabled |-> FALSE, mode |-> "Fixed", value |-> 0]
Review == [account : Accounts \cup {NoAccount}, call : Calls \cup {NoCall}]
NoReview == [account |-> NoAccount, call |-> NoCall]
Request == [platform : Platforms, id : RequestId, account : Accounts, call : Calls]

TypeOK ==
    /\ StoreTypeOK
    /\ configs \in [Accounts -> Config]
    /\ agentPlatform \in Platforms \cup {NoPlatform}
    /\ agentDeposit \in DepositChoices
    /\ agentBudgetOf \in [Accounts -> Nat] /\ validatorBalance \in Nat
    /\ pendingRiskReviewRequestId \in [Accounts -> {0} \cup RequestId]
    /\ pendingRiskReviewByRequestId \in [RequestId -> Review]
    /\ agentApprovals \in [Accounts -> [Calls -> Nat]]
    /\ openRequests \subseteq Request
    /\ lastRequestId \in [Platforms -> {0} \cup RequestId]
    /\ balanceOf \in [Accounts -> BalanceChoices]
    /\ granted \in [Accounts -> [Calls -> Nat]]
    /\ lastGrant \in [Accounts -> [Calls -> 0 .. MaxTime]]
    /\ passed \in [Accounts -> [Calls -> Nat]]

PerCall(x) == [a \in Accounts |-> [c \in Calls |-> x]]

Init ==
    /\ StoreInit
    /\ configs = [a \in Accounts |-> NoConfig]
    /\ agentPlatform = NoPlatform
    /\ agentDeposit \in DepositChoices
    /\ agentBudgetOf = [a \in Accounts |-> 0] /\ validatorBalance = 0
    /\ pendingRiskReviewRequestId = [a \in Accounts |-> 0]
    /\ pendingRiskReviewByRequestId = [i \in RequestId |-> NoReview]
    /\ agentApprovals = PerCall(0)
    /\ openRequests = {}
    /\ lastRequestId = [p \in Platforms |-> 0]
    /\ balanceOf \in [Accounts -> BalanceChoices]
    /\ granted = PerCall(0) /\ lastGrant = PerCall(0) /\ passed = PerCall(0)

-----------------------------------------------------------------------------
(* Whether the policy reviews a call. *)

\* Data the decoder does not know becomes one item of its own, to the zero address.
Items(c) ==
    IF c.type = "other" THEN <<[target |-> "zero", value |-> 0, data |-> "call"]>> ELSE c.items

IsBatch(c) == Len(Items(c)) > 1 \/ c.type = "batch"

ResolveThreshold(a) ==
    IF configs[a].mode = "Fixed" THEN configs[a].value
    ELSE (balanceOf[a] * configs[a].value) \div BpsTotal

\* The zero address, a contract and any call data are always reviewed.
NeedsAgentReview(a, c) ==
    Len(Items(c)) = 1 =>
        LET i == Items(c)[1] IN
        i.data # "none" \/ i.target # "eoa" \/ i.value >= ResolveThreshold(a)

IsAllowlistedCheckIn(c) ==
    /\ Len(Items(c)) = 1
    /\ Items(c)[1] = [target |-> "registry", value |-> 0, data |-> "checkIn"]

NeedsReview(a, c) == ~IsAllowlistedCheckIn(c) /\ (IsBatch(c) \/ NeedsAgentReview(a, c))

\* The reference the policy is held against: a check-in of the registry, or one
\* plain transfer of less than the threshold.
Harmless(a, c) ==
    \/ c.type # "other" /\ c.items = <<[target |-> "registry", value |-> 0, data |-> "checkIn"]>>
    \/ /\ c.type = "single"
       /\ \E v \in 0 .. ResolveThreshold(a) - 1 :
             c.items = <<[target |-> "eoa", value |-> v, data |-> "none"]>>

\* The first response that succeeded decides; malformed output does not approve.
Approves(answer) ==
    /\ answer.success
    /\ \E i \in DOMAIN answer.responses :
          /\ answer.responses[i] = "approve"
          /\ \A j \in 1 .. i - 1 : answer.responses[j] = "failed"

-----------------------------------------------------------------------------
(* Installation, configuration and money. *)

ValidConfig(k) == k.mode = "Percent" => k.value <= BpsTotal

ConfigOf(k) == [initialized |-> TRUE, enabled |-> k.enabled, mode |-> k.mode, value |-> k.value]

OnInstall(a, k) ==
    /\ ~configs[a].initialized
    /\ ValidConfig(k)
    /\ configs' = [configs EXCEPT ![a] = ConfigOf(k)]
    /\ UNCHANGED <<now, storeVars, agentPlatform, agentDeposit, balanceOf, fundVars, reviewVars,
                   agentApprovals, platformVars, historyVars>>

\* Approvals and a pending review outlive the configuration.
OnUninstall(a) ==
    /\ configs[a].initialized
    /\ configs' = [configs EXCEPT ![a] = NoConfig]
    /\ UNCHANGED <<now, storeVars, agentPlatform, agentDeposit, balanceOf, fundVars, reviewVars,
                   agentApprovals, platformVars, historyVars>>

SetConfig(a, k) ==
    /\ configs[a].initialized
    /\ ValidConfig(k)
    /\ configs' = [configs EXCEPT ![a] = ConfigOf(k)]
    /\ UNCHANGED <<now, storeVars, agentPlatform, agentDeposit, balanceOf, fundVars, reviewVars,
                   agentApprovals, platformVars, historyVars>>

ConfigureRiskAgent(p) ==
    /\ agentPlatform' = p
    /\ UNCHANGED <<now, storeVars, configs, agentDeposit, balanceOf, fundVars, reviewVars,
                   agentApprovals, platformVars, historyVars>>

SetRiskAgentRewardPerCall(d) ==
    /\ agentDeposit' = d
    /\ UNCHANGED <<now, storeVars, configs, agentPlatform, balanceOf, fundVars, reviewVars,
                   agentApprovals, platformVars, historyVars>>

FundAgentBudget(a, n) ==
    /\ validatorBalance + n <= MaxBalance
    /\ agentBudgetOf' = [agentBudgetOf EXCEPT ![a] = @ + n]
    /\ validatorBalance' = validatorBalance + n
    /\ UNCHANGED <<now, storeVars, configVars, reviewVars, agentApprovals, platformVars,
                   historyVars>>

\* receive(): a rebate is credited to no account.
ReceiveRebate(n) ==
    /\ validatorBalance + n <= MaxBalance
    /\ validatorBalance' = validatorBalance + n
    /\ UNCHANGED <<now, storeVars, configVars, agentBudgetOf, reviewVars, agentApprovals,
                   platformVars, historyVars>>

-----------------------------------------------------------------------------
(* Reviews by a risk agent. *)

\* Mutant: a second review while one is pending.
AlwaysFree(a) == a \in Accounts

ReviewSlotFree(a) == pendingRiskReviewRequestId[a] = 0

\* Mutant: the review is not charged to the account.
PayFromBalance(a) ==
    /\ validatorBalance >= agentDeposit
    /\ validatorBalance' = validatorBalance - agentDeposit
    /\ UNCHANGED agentBudgetOf

\* Mutant: the account's budget is not compared with the cost.
PayOnCredit(a) ==
    /\ validatorBalance >= agentDeposit
    /\ agentBudgetOf' = [agentBudgetOf EXCEPT ![a] = @ - agentDeposit]
    /\ validatorBalance' = validatorBalance - agentDeposit

PayForReview(a) ==
    /\ agentBudgetOf[a] >= agentDeposit /\ validatorBalance >= agentDeposit
    /\ agentBudgetOf' = [agentBudgetOf EXCEPT ![a] = @ - agentDeposit]
    /\ validatorBalance' = validatorBalance - agentDeposit

\* Called by the account or one of its keys.  An allowlisted check-in may be
\* reviewed too: here the policy does not exempt it.  The platform numbers its own
\* requests from 1.
RequestAgentReview(a, c) ==
    LET id == lastRequestId[agentPlatform] + 1 IN
    /\ configs[a].initialized /\ configs[a].enabled
    /\ agentPlatform # NoPlatform
    /\ IsBatch(c) \/ NeedsAgentReview(a, c)
    /\ ReviewSlotFree(a)
    /\ PayForReview(a)
    /\ id \in RequestId
    /\ lastRequestId' = [lastRequestId EXCEPT ![agentPlatform] = id]
    /\ openRequests' = openRequests \cup
          {[platform |-> agentPlatform, id |-> id, account |-> a, call |-> c]}
    /\ pendingRiskReviewRequestId' = [pendingRiskReviewRequestId EXCEPT ![a] = id]
    /\ pendingRiskReviewByRequestId' =
          [pendingRiskReviewByRequestId EXCEPT ![id] = [account |-> a, call |-> c]]
    /\ UNCHANGED <<now, storeVars, configVars, agentApprovals, historyVars>>

\* The bound on approvals, and the history of them.
Granted(a, c) ==
    /\ granted[a][c] < MaxGrants
    /\ granted' = [granted EXCEPT ![a][c] = @ + 1]
    /\ lastGrant' = [lastGrant EXCEPT ![a][c] = now]
    /\ UNCHANGED passed

\* The answer of the configured platform.  A request it never answers, and one of a
\* platform the admin has replaced, stays in openRequests.
HandleRiskAssessmentResponse(r, answer) ==
    LET review == pendingRiskReviewByRequestId[r.id]
        a == review.account
    IN
    /\ r.platform = agentPlatform
    /\ a # NoAccount
    /\ openRequests' = openRequests \ {r}
    /\ pendingRiskReviewByRequestId' = [pendingRiskReviewByRequestId EXCEPT ![r.id] = NoReview]
    /\ pendingRiskReviewRequestId' = [pendingRiskReviewRequestId EXCEPT ![a] = 0]
    /\ IF Approves(answer)
       THEN /\ agentApprovals' = [agentApprovals EXCEPT ![a][review.call] = now + ApprovalTtl]
            /\ Granted(a, review.call)
       ELSE UNCHANGED <<agentApprovals, historyVars>>
    /\ UNCHANGED <<now, storeVars, configVars, fundVars, lastRequestId>>

-----------------------------------------------------------------------------
(* Validation. *)

HasAgentApproval(a, c) == agentApprovals[a][c] # 0 /\ now <= agentApprovals[a][c]

AllowedFreely(a, c) ==
    /\ ~configs[a].enabled \/ ~NeedsReview(a, c)
    /\ UNCHANGED <<storeVars, agentApprovals>>

AllowedByApproval(a, c) ==
    /\ configs[a].enabled /\ NeedsReview(a, c)
    /\ HasValidApproval(a, c)
    /\ ConsumeApproval(Validator, a, c)
    /\ UNCHANGED agentApprovals

\* Mutant: the agents' approval can be used again.
AllowedByAgentAgain(a, c) ==
    /\ configs[a].enabled /\ NeedsReview(a, c)
    /\ ~HasValidApproval(a, c)
    /\ HasAgentApproval(a, c)
    /\ UNCHANGED <<storeVars, agentApprovals>>

\* A valid approval in the store comes first, even one the validator may not consume.
AllowedByAgent(a, c) ==
    /\ configs[a].enabled /\ NeedsReview(a, c)
    /\ ~HasValidApproval(a, c)
    /\ HasAgentApproval(a, c)
    /\ agentApprovals' = [agentApprovals EXCEPT ![a][c] = 0]
    /\ UNCHANGED storeVars

\* History: a guarded operation passes.
Passed(a, c) ==
    /\ passed' = IF configs[a].enabled /\ ~Harmless(a, c)
                 THEN [passed EXCEPT ![a][c] = @ + 1] ELSE passed
    /\ UNCHANGED <<granted, lastGrant>>

ValidateUserOp(a, signer, c) ==
    /\ configs[a].initialized
    /\ signer \in OwnerOrAdmin[a]
    /\ AllowedFreely(a, c) \/ AllowedByApproval(a, c) \/ AllowedByAgent(a, c)
    /\ Passed(a, c)
    /\ UNCHANGED <<now, configVars, fundVars, reviewVars, platformVars>>

-----------------------------------------------------------------------------
(* The store's other callers, the clock, and the account's balance. *)

RegisterAgentOrHook(a, agent, hook) ==
    /\ Register(a, agent, hook)
    /\ UNCHANGED <<now, configVars, fundVars, reviewVars, agentApprovals, platformVars,
                   historyVars>>

AgentSubmits(agent, a, c) ==
    /\ SubmitApproval(agent, a, c)
    /\ Granted(a, c)
    /\ UNCHANGED <<now, configVars, fundVars, reviewVars, agentApprovals, platformVars>>

\* A hook other than the validator may delete the approval whenever it likes.
OtherHookConsumes(hook, a, c) ==
    /\ hook # Validator
    /\ ConsumeApproval(hook, a, c)
    /\ UNCHANGED <<now, configVars, fundVars, reviewVars, agentApprovals, platformVars,
                   historyVars>>

Tick ==
    /\ now < MaxTime
    /\ now' = now + 1
    /\ UNCHANGED <<storeVars, configVars, fundVars, reviewVars, agentApprovals, platformVars,
                   historyVars>>

BalanceChanges(a, n) ==
    /\ balanceOf' = [balanceOf EXCEPT ![a] = n]
    /\ UNCHANGED <<now, storeVars, configs, agentPlatform, agentDeposit, fundVars, reviewVars,
                   agentApprovals, platformVars, historyVars>>

-----------------------------------------------------------------------------

ConfigStep ==
    \/ \E a \in Accounts, k \in ConfigChoices : OnInstall(a, k) \/ SetConfig(a, k)
    \/ \E a \in Accounts : OnUninstall(a)
    \/ \E p \in Platforms : ConfigureRiskAgent(p)
    \/ \E d \in DepositChoices : SetRiskAgentRewardPerCall(d)
    \/ \E n \in FundChoices : ReceiveRebate(n) \/ \E a \in Accounts : FundAgentBudget(a, n)

ReviewStep ==
    \/ \E a \in Accounts, c \in Calls : RequestAgentReview(a, c)
    \/ \E r \in openRequests, answer \in AnswerChoices : HandleRiskAssessmentResponse(r, answer)

ValidateStep ==
    \E a \in Accounts, signer \in Signers, c \in Calls : ValidateUserOp(a, signer, c)

StoreStep ==
    \E a \in Accounts :
        \/ \E agent \in Agents \cup {NoAgent}, hook \in Hooks \cup {NoHook} :
              RegisterAgentOrHook(a, agent, hook)
        \/ \E c \in Calls :
              \/ \E agent \in Agents : AgentSubmits(agent, a, c)
              \/ \E hook \in Hooks : OtherHookConsumes(hook, a, c)

WorldStep == Tick \/ \E a \in Accounts, n \in BalanceChoices : BalanceChanges(a, n)

Next == ConfigStep \/ ReviewStep \/ ValidateStep \/ StoreStep \/ WorldStep

Spec == Init /\ [][Next]_vars

-----------------------------------------------------------------------------
(* Properties. *)

\* Approvals of a call an account could still use.
Outstanding(a, c) ==
    (IF pendingApprovals[a].call = c THEN 1 ELSE 0) + (IF agentApprovals[a][c] # 0 THEN 1 ELSE 0)

\* Every approval lets at most one guarded operation pass: the operations that passed
\* and the approvals still usable never outnumber those given, although two sources
\* give them, each replaces its own earlier one, and neither looks at the other.
PassesAreGranted ==
    \A a \in Accounts, c \in Calls : passed[a][c] + Outstanding(a, c) <= granted[a][c]

\* No approval on record expires later than ApprovalTtl after the last one given for
\* its call: uninstalling, reinstalling, or a late answer does not extend its life.
ApprovalsAreFresh ==
    \A a \in Accounts, c \in Calls :
        /\ pendingApprovals[a].call = c => pendingApprovals[a].expiry <= lastGrant[a][c] + ApprovalTtl
        /\ agentApprovals[a][c] <= lastGrant[a][c] + ApprovalTtl

\* A guarded operation passes only within ApprovalTtl of an approval for its very call
\* data; a smaller, a batched or an encoded form of it finds no way around the policy.
PassesAreFresh ==
    [][\A a \in Accounts, c \in Calls :
          passed'[a][c] # passed[a][c] =>
              granted[a][c] > 0 /\ now <= lastGrant[a][c] + ApprovalTtl]_vars

\* The two tables of a review agree: a request id on record belongs to the account that
\* waits for that very id, and some platform has yet to answer it, even if the admin
\* changes platforms whose ids overlap.
ReviewsAgree ==
    \A id \in RequestId :
        LET a == pendingRiskReviewByRequestId[id].account IN a # NoAccount =>
            /\ pendingRiskReviewRequestId[a] = id
            /\ \E r \in openRequests : r.id = id

\* What the accounts have paid in for reviews is there to pay for them.
BudgetsAreBacked ==
    SumFunction(agentBudgetOf) <= validatorBalance
=============================================================================
