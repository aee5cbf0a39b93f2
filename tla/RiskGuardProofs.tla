-------------------------- MODULE RiskGuardProofs --------------------------
(***************************************************************************)
(* Theorems about RiskGuardValidator and its approval store, for every     *)
(* value of the constants: any accounts, calls, configurations, platforms  *)
(* and answers.                                                            *)
(***************************************************************************)
EXTENDS RiskGuardRefinement, SequenceTheorems, CollectionTheorems, TLAPS

-----------------------------------------------------------------------------
(* The policy. *)

\* A sequence of one element is the sequence of its first element.
LEMMA OneElement ==
    ASSUME NEW S, NEW s \in Seq(S), Len(s) = 1
    PROVE  s = <<s[1]>> /\ s[1] \in S
<1>1. s[1] \in S
    OBVIOUS
<1>2. <<s[1]>> \in Seq(S) /\ Len(<<s[1]>>) = 1 /\ <<s[1]>>[1] = s[1]
    BY <1>1
<1> QED
    BY <1>1, <1>2, SeqEqual

\* A threshold is a natural number.
LEMMA ThresholdType ==
    ASSUME TypeOK, NEW a \in Accounts
    PROVE  ResolveThreshold(a) \in Nat
<1>1. configs[a].value \in Nat /\ balanceOf[a] \in Nat /\ BpsTotal \in Nat \ {0}
    BY ValidatorAssumption DEF TypeOK, Config, ValidatorAssumption
<1>2. ASSUME NEW x \in Nat, NEW y \in Nat, NEW d \in Nat \ {0}
      PROVE  (x * y) \div d \in Nat
    <2>1. x * y \in Nat
        OBVIOUS
    <2>2. ASSUME NEW z \in Nat PROVE z \div d \in Nat
        OBVIOUS
    <2> QED
        BY <2>1, <2>2
<1> QED
    BY <1>1, <1>2 DEF ResolveThreshold

\* Only a check-in or a small plain transfer escapes review, whatever the call data
\* decodes to.
LEMMA FreeIsHarmless ==
    ASSUME TypeOK, NEW a \in Accounts, NEW c \in Calls, ~NeedsReview(a, c)
    PROVE  Harmless(a, c)
<1>1. c \in [type : {"single", "batch", "other"}, items : Seq(Item)]
    BY ValidatorAssumption DEF ValidatorAssumption
<1>2. ResolveThreshold(a) \in Nat
    BY ThresholdType
<1> DEFINE opaque == [target |-> "zero", value |-> 0, data |-> "call"]
<1>3. opaque \in Item
    BY DEF Item
<1>4. Items(c) \in Seq(Item)
    BY <1>1, <1>3 DEF Items
<1>5. CASE IsAllowlistedCheckIn(c)
    <2>1. Items(c) = <<[target |-> "registry", value |-> 0, data |-> "checkIn"]>>
        BY <1>4, <1>5, OneElement DEF IsAllowlistedCheckIn
    <2>2. c.type # "other"
        <3>1. SUFFICES ASSUME c.type = "other" PROVE FALSE
            OBVIOUS
        <3>2. Items(c) = <<opaque>>
            BY <3>1 DEF Items
        <3>3. Items(c)[1].target = "zero"
            BY <3>2
        <3> QED
            BY <2>1, <3>3
    <2> QED
        BY <2>1, <2>2 DEF Items, Harmless
<1>6. CASE ~IsAllowlistedCheckIn(c)
    <2>1. ~IsBatch(c) /\ ~NeedsAgentReview(a, c)
        BY <1>6 DEF NeedsReview
    <2>2. Len(Items(c)) = 1
        BY <2>1 DEF NeedsAgentReview
    <2> DEFINE i == Items(c)[1]
    <2>3. Items(c) = <<i>> /\ i \in Item
        BY <1>4, <2>2, OneElement
    <2>4. i.data = "none" /\ i.target = "eoa" /\ ~(i.value >= ResolveThreshold(a))
        BY <2>1, <2>2 DEF NeedsAgentReview
    <2>5. i.value \in 0 .. ResolveThreshold(a) - 1
        BY <1>2, <2>3, <2>4 DEF Item
    <2>6. i = [target |-> "eoa", value |-> i.value, data |-> "none"]
        BY <2>3, <2>4 DEF Item
    <2>7. c.type = "single"
        <3>1. c.type # "batch"
            BY <2>1 DEF IsBatch
        <3>2. c.type # "other"
            <4>1. SUFFICES ASSUME c.type = "other" PROVE FALSE
                OBVIOUS
            <4>2. Items(c)[1].target = "zero"
                BY <4>1 DEF Items
            <4> QED
                BY <2>4, <4>2
        <3> QED
            BY <1>1, <3>1, <3>2
    <2>8. c.items = <<[target |-> "eoa", value |-> i.value, data |-> "none"]>>
        <3>1. c.items = Items(c)
            BY <2>7 DEF Items
        <3> HIDE DEF i
        <3> QED
            BY <3>1, <2>3, <2>6
    <2> HIDE DEF i
    <2> QED
        BY <2>5, <2>7, <2>8 DEF Harmless
<1> QED
    BY <1>5, <1>6

-----------------------------------------------------------------------------
(* Types. *)

\* The validator starts in a typed state.
LEMMA InitTyped == Init => TypeOK
<1>1. 0 \in 0 .. MaxTime
    BY StoreAssumption DEF StoreAssumption
<1> QED
    BY <1>1, StoreAssumption, ValidatorAssumption
    DEF Init, StoreInit, TypeOK, StoreTypeOK, Approval, NoApproval, Config, NoConfig, Review,
        NoReview, PerCall, StoreAssumption, ValidatorAssumption

\* Money only moves in natural amounts.
LEMMA Amounts ==
    /\ FundChoices \subseteq Nat
    /\ \A d \in DepositChoices : d \in Nat
BY ValidatorAssumption DEF ValidatorAssumption

\* Configuration, funding and the outside world keep the types.
LEMMA ConfigTyped ==
    ASSUME TypeOK, ConfigStep \/ WorldStep
    PROVE  TypeOK'
<1> USE ValidatorAssumption DEF ValidatorAssumption
<1> USE DEF TypeOK, StoreTypeOK, storeVars, configVars, fundVars, reviewVars, platformVars,
            historyVars
<1>1. ASSUME NEW a \in Accounts, NEW k \in ConfigChoices, OnInstall(a, k) \/ SetConfig(a, k)
      PROVE  TypeOK'
    <2>1. ConfigOf(k) \in Config
        BY DEF ConfigOf, Config
    <2>2. configs' = [configs EXCEPT ![a] = ConfigOf(k)]
        BY <1>1 DEF OnInstall, SetConfig
    <2>3. configs' \in [Accounts -> Config]
        BY <2>1, <2>2
    <2>4. UNCHANGED <<now, storeVars, agentPlatform, agentDeposit, balanceOf, fundVars,
                      reviewVars, agentApprovals, platformVars, historyVars>>
        BY <1>1 DEF OnInstall, SetConfig
    <2> QED
        BY <2>3, <2>4
<1>2. ASSUME NEW a \in Accounts, OnUninstall(a) PROVE TypeOK'
    <2>1. NoConfig \in Config
        BY DEF NoConfig, Config
    <2> QED
        BY <1>2, <2>1 DEF OnUninstall
<1>3. ASSUME NEW p \in Platforms, ConfigureRiskAgent(p) PROVE TypeOK'
    BY <1>3 DEF ConfigureRiskAgent
<1>4. ASSUME NEW d \in DepositChoices, SetRiskAgentRewardPerCall(d) PROVE TypeOK'
    BY <1>4 DEF SetRiskAgentRewardPerCall
<1>5. ASSUME NEW n \in FundChoices, ReceiveRebate(n) PROVE TypeOK'
    BY <1>5 DEF ReceiveRebate
<1>6. ASSUME NEW n \in FundChoices, NEW a \in Accounts, FundAgentBudget(a, n) PROVE TypeOK'
    BY <1>6 DEF FundAgentBudget
<1>7. ASSUME Tick PROVE TypeOK'
    <2>1. now + 1 \in 0 .. MaxTime
        BY <1>7, StoreAssumption DEF Tick, StoreAssumption
    <2> QED
        BY <1>7, <2>1 DEF Tick
<1>8. ASSUME NEW a \in Accounts, NEW n \in BalanceChoices, BalanceChanges(a, n) PROVE TypeOK'
    BY <1>8 DEF BalanceChanges
<1> QED
    BY <1>1, <1>2, <1>3, <1>4, <1>5, <1>6, <1>7, <1>8 DEF ConfigStep, WorldStep

\* Giving an approval keeps the types of the history.
LEMMA GrantedTyped ==
    ASSUME TypeOK, NEW a \in Accounts, NEW c, Granted(a, c)
    PROVE  /\ granted' \in [Accounts -> [Calls -> Nat]]
           /\ lastGrant' \in [Accounts -> [Calls -> 0 .. MaxTime]]
           /\ passed' \in [Accounts -> [Calls -> Nat]]
<1>1. granted' = [granted EXCEPT ![a] = [granted[a] EXCEPT ![c] = granted[a][c] + 1]]
    BY DEF Granted
<1>2. lastGrant' = [lastGrant EXCEPT ![a] = [lastGrant[a] EXCEPT ![c] = now]]
    BY DEF Granted
<1>3. [granted[a] EXCEPT ![c] = granted[a][c] + 1] \in [Calls -> Nat]
    <2>1. granted[a] \in [Calls -> Nat]
        BY DEF TypeOK
    <2>2. CASE c \in Calls
        BY <2>1, <2>2
    <2>3. CASE c \notin Calls
        <3>1. [granted[a] EXCEPT ![c] = granted[a][c] + 1] = granted[a]
            BY <2>1, <2>3
        <3> QED
            BY <2>1, <3>1
    <2> QED
        BY <2>2, <2>3
<1>4. [lastGrant[a] EXCEPT ![c] = now] \in [Calls -> 0 .. MaxTime]
    BY DEF TypeOK, StoreTypeOK
<1> QED
    BY <1>1, <1>2, <1>3, <1>4 DEF TypeOK, Granted

\* An approval that starts now expires at a natural time.
LEMMA ExpiryType ==
    ASSUME TypeOK
    PROVE  now + ApprovalTtl \in Nat /\ now + ApprovalTtl # 0
BY StoreAssumption DEF TypeOK, StoreTypeOK, StoreAssumption

\* Requests for a review and the platforms' answers keep the types.
LEMMA ReviewTyped ==
    ASSUME TypeOK, ReviewStep
    PROVE  TypeOK'
<1>1. ASSUME NEW a \in Accounts, NEW c \in Calls, RequestAgentReview(a, c) PROVE TypeOK'
    <2> DEFINE id == lastRequestId[agentPlatform] + 1
    <2> DEFINE r == [platform |-> agentPlatform, id |-> id, account |-> a, call |-> c]
    <2>1. agentPlatform \in Platforms /\ id \in RequestId
        BY <1>1 DEF RequestAgentReview, TypeOK
    <2>2. r \in Request
        BY <2>1 DEF Request
    <2>3. openRequests' = openRequests \cup {r}
        BY <1>1 DEF RequestAgentReview
    <2>4. lastRequestId' = [lastRequestId EXCEPT ![agentPlatform] = id]
        BY <1>1 DEF RequestAgentReview
    <2>5. /\ pendingRiskReviewRequestId' = [pendingRiskReviewRequestId EXCEPT ![a] = id]
          /\ pendingRiskReviewByRequestId' =
                [pendingRiskReviewByRequestId EXCEPT ![id] = [account |-> a, call |-> c]]
          /\ UNCHANGED <<now, storeVars, configVars, agentApprovals, historyVars>>
        BY <1>1 DEF RequestAgentReview
    <2>6. agentBudgetOf' \in [Accounts -> Nat] /\ validatorBalance' \in Nat
        <3>1. agentDeposit \in Nat /\ agentBudgetOf[a] - agentDeposit \in Nat
              /\ validatorBalance - agentDeposit \in Nat
            BY <1>1, Amounts DEF RequestAgentReview, PayForReview, TypeOK
        <3>2. /\ agentBudgetOf' = [agentBudgetOf EXCEPT ![a] = agentBudgetOf[a] - agentDeposit]
              /\ validatorBalance' = validatorBalance - agentDeposit
            BY <1>1 DEF RequestAgentReview, PayForReview
        <3> QED
            BY <3>1, <3>2 DEF TypeOK
    <2>7. [account |-> a, call |-> c] \in Review
        BY DEF Review
    <2> HIDE DEF id, r
    <2>8. openRequests' \subseteq Request
        BY <2>2, <2>3 DEF TypeOK
    <2>9. lastRequestId' \in [Platforms -> {0} \cup RequestId]
        BY <2>1, <2>4 DEF TypeOK
    <2>10. /\ pendingRiskReviewRequestId' \in [Accounts -> {0} \cup RequestId]
           /\ pendingRiskReviewByRequestId' \in [RequestId -> Review]
        BY <2>1, <2>5, <2>7 DEF TypeOK
    <2> QED
        BY <2>5, <2>6, <2>8, <2>9, <2>10
        DEF TypeOK, StoreTypeOK, storeVars, configVars, historyVars
<1>2. ASSUME NEW r \in openRequests, NEW answer \in AnswerChoices,
             HandleRiskAssessmentResponse(r, answer)
      PROVE  TypeOK'
    <2> DEFINE review == pendingRiskReviewByRequestId[r.id]
    <2> DEFINE a == review.account
    <2>1. r.id \in RequestId
        BY DEF TypeOK, Request
    <2>2. a \in Accounts
        BY <1>2, <2>1 DEF HandleRiskAssessmentResponse, TypeOK, Review
    <2>3. NoReview \in Review
        BY DEF NoReview, Review
    <2>4. /\ openRequests' = openRequests \ {r}
          /\ pendingRiskReviewByRequestId' = [pendingRiskReviewByRequestId EXCEPT ![r.id] = NoReview]
          /\ pendingRiskReviewRequestId' = [pendingRiskReviewRequestId EXCEPT ![a] = 0]
          /\ UNCHANGED <<now, storeVars, configVars, fundVars, lastRequestId>>
        BY <1>2 DEF HandleRiskAssessmentResponse
    <2>5. /\ agentApprovals' \in [Accounts -> [Calls -> Nat]]
          /\ granted' \in [Accounts -> [Calls -> Nat]]
          /\ lastGrant' \in [Accounts -> [Calls -> 0 .. MaxTime]]
          /\ passed' \in [Accounts -> [Calls -> Nat]]
        <3>1. CASE Approves(answer)
            <4>1. Granted(a, review.call)
                BY <1>2, <3>1 DEF HandleRiskAssessmentResponse
            <4>2. agentApprovals' = [agentApprovals EXCEPT
                      ![a] = [agentApprovals[a] EXCEPT ![review.call] = now + ApprovalTtl]]
                BY <1>2, <3>1 DEF HandleRiskAssessmentResponse
            <4> HIDE DEF review, a
            <4>3. [agentApprovals[a] EXCEPT ![review.call] = now + ApprovalTtl] \in [Calls -> Nat]
                BY <2>2, ExpiryType DEF TypeOK
            <4> QED
                BY <2>2, <4>1, <4>2, <4>3, GrantedTyped DEF TypeOK
        <3>2. CASE ~Approves(answer)
            <4>1. UNCHANGED <<agentApprovals, historyVars>>
                BY <1>2, <3>2 DEF HandleRiskAssessmentResponse
            <4> QED
                BY <4>1 DEF TypeOK, historyVars
        <3> QED
            BY <3>1, <3>2
    <2> HIDE DEF review, a
    <2> QED
        BY <2>1, <2>2, <2>3, <2>4, <2>5
        DEF TypeOK, StoreTypeOK, storeVars, configVars, fundVars
<1> QED
    BY <1>1, <1>2 DEF ReviewStep

\* Consuming an approval keeps the store typed.
LEMMA ConsumeTyped ==
    ASSUME TypeOK, NEW hook, NEW a \in Accounts, NEW c, ConsumeApproval(hook, a, c), now' = now
    PROVE  StoreTypeOK'
<1>1. NoApproval \in Approval
    BY DEF NoApproval, Approval
<1> QED
    BY <1>1 DEF ConsumeApproval, TypeOK, StoreTypeOK

\* Validation keeps the types.
LEMMA ValidateTyped ==
    ASSUME TypeOK, NEW a \in Accounts, NEW signer \in Signers, NEW c \in Calls,
           ValidateUserOp(a, signer, c)
    PROVE  TypeOK'
<1>1. UNCHANGED <<now, configVars, fundVars, reviewVars, platformVars>>
    BY DEF ValidateUserOp
<1>2. /\ passed' \in [Accounts -> [Calls -> Nat]]
      /\ UNCHANGED <<granted, lastGrant>>
    <2>1. passed' = passed \/ passed' =
              [passed EXCEPT ![a] = [passed[a] EXCEPT ![c] = passed[a][c] + 1]]
        BY DEF ValidateUserOp, Passed
    <2>2. [passed[a] EXCEPT ![c] = passed[a][c] + 1] \in [Calls -> Nat]
        BY DEF TypeOK
    <2> QED
        BY <2>1, <2>2 DEF TypeOK, ValidateUserOp, Passed
<1>3. StoreTypeOK' /\ agentApprovals' \in [Accounts -> [Calls -> Nat]]
    <2>1. CASE AllowedFreely(a, c)
        BY <1>1, <2>1 DEF AllowedFreely, TypeOK, StoreTypeOK, storeVars
    <2>2. CASE AllowedByApproval(a, c)
        BY <1>1, <2>2, ConsumeTyped DEF AllowedByApproval, TypeOK
    <2>3. CASE AllowedByAgent(a, c)
        <3>1. agentApprovals' = [agentApprovals EXCEPT ![a] = [agentApprovals[a] EXCEPT ![c] = 0]]
            BY <2>3 DEF AllowedByAgent
        <3>2. [agentApprovals[a] EXCEPT ![c] = 0] \in [Calls -> Nat]
            BY DEF TypeOK
        <3> QED
            BY <1>1, <2>3, <3>1, <3>2 DEF AllowedByAgent, TypeOK, StoreTypeOK, storeVars
    <2> QED
        BY <2>1, <2>2, <2>3 DEF ValidateUserOp
<1> QED
    BY <1>1, <1>2, <1>3 DEF TypeOK, configVars, fundVars, reviewVars, platformVars

\* The store's other callers keep the types.
LEMMA StoreTyped ==
    ASSUME TypeOK, StoreStep
    PROVE  TypeOK'
<1>1. ASSUME NEW a \in Accounts, NEW agent \in Agents \cup {NoAgent}, NEW hook \in Hooks \cup {NoHook},
             RegisterAgentOrHook(a, agent, hook)
      PROVE  TypeOK'
    BY <1>1 DEF RegisterAgentOrHook, Register, TypeOK, StoreTypeOK, configVars, fundVars,
                reviewVars, platformVars, historyVars
<1>2. ASSUME NEW a \in Accounts, NEW c \in Calls, NEW agent \in Agents, AgentSubmits(agent, a, c)
      PROVE  TypeOK'
    <2>1. [call |-> c, expiry |-> now + ApprovalTtl] \in Approval
        BY ExpiryType DEF Approval
    <2>2. StoreTypeOK'
        BY <1>2, <2>1 DEF AgentSubmits, SubmitApproval, TypeOK, StoreTypeOK
    <2> QED
        BY <1>2, <2>2, GrantedTyped
        DEF AgentSubmits, TypeOK, configVars, fundVars, reviewVars, platformVars
<1>3. ASSUME NEW a \in Accounts, NEW c \in Calls, NEW hook \in Hooks, OtherHookConsumes(hook, a, c)
      PROVE  TypeOK'
    <2>1. StoreTypeOK'
        BY <1>3, ConsumeTyped DEF OtherHookConsumes
    <2> QED
        BY <1>3, <2>1 DEF OtherHookConsumes, TypeOK, configVars, fundVars, reviewVars, platformVars,
                          historyVars
<1> QED
    BY <1>1, <1>2, <1>3 DEF StoreStep

\* Every variable of the validator and the store keeps its type.
THEOREM GuardTypeCorrect == Spec => []TypeOK
<1>1. TypeOK /\ [Next]_vars => TypeOK'
    <2> SUFFICES ASSUME TypeOK, [Next]_vars PROVE TypeOK'
        OBVIOUS
    <2>1. CASE UNCHANGED vars
        BY <2>1 DEF vars, TypeOK, StoreTypeOK, storeVars, configVars, fundVars, reviewVars,
                    platformVars, historyVars
    <2>2. CASE ValidateStep
        BY <2>2, ValidateTyped DEF ValidateStep
    <2> QED
        BY <2>1, <2>2, ConfigTyped, ReviewTyped, StoreTyped DEF Next
<1> QED
    BY <1>1, InitTyped, PTL DEF Spec

-----------------------------------------------------------------------------
(* One use per approval, within its time. *)

\* What a step does to the approvals of account b and call d: nothing, or they may be
\* lost, or a guarded operation uses one up, or one is given.
Kept(b, d) ==
    /\ pendingApprovals'[b].call = d =>
          pendingApprovals[b].call = d /\ pendingApprovals'[b].expiry = pendingApprovals[b].expiry
    /\ agentApprovals'[b][d] \in {0, agentApprovals[b][d]}

Idle(b, d) ==
    /\ Kept(b, d)
    /\ granted'[b][d] = granted[b][d] /\ lastGrant'[b][d] = lastGrant[b][d]
    /\ passed'[b][d] = passed[b][d]

Used(b, d) ==
    /\ Kept(b, d)
    /\ granted'[b][d] = granted[b][d] /\ lastGrant'[b][d] = lastGrant[b][d]
    /\ passed'[b][d] = passed[b][d] + 1
    /\ \/ HasValidApproval(b, d) /\ pendingApprovals'[b].call # d
       \/ HasAgentApproval(b, d) /\ agentApprovals'[b][d] = 0

Given(b, d) ==
    /\ granted'[b][d] = granted[b][d] + 1 /\ lastGrant'[b][d] = now
    /\ passed'[b][d] = passed[b][d]
    /\ \/ /\ pendingApprovals'[b].call = d
          /\ pendingApprovals'[b].expiry = now + ApprovalTtl
          /\ agentApprovals'[b][d] = agentApprovals[b][d]
       \/ /\ pendingApprovals'[b] = pendingApprovals[b]
          /\ agentApprovals'[b][d] = now + ApprovalTtl

\* A step that leaves every variable these speak of alone is idle for every call.
LEMMA UnchangedIsIdle ==
    ASSUME NEW b \in Accounts, NEW d \in Calls,
           UNCHANGED <<pendingApprovals, agentApprovals, granted, lastGrant, passed>>
    PROVE  Idle(b, d)
BY DEF Idle, Kept

\* Deleting an approval from the store is idle for every call it does not let pass.
LEMMA ConsumeKeeps ==
    ASSUME TypeOK, NEW hook, NEW a \in Accounts, NEW c \in Calls, ConsumeApproval(hook, a, c),
           NEW b \in Accounts, NEW d \in Calls, UNCHANGED agentApprovals
    PROVE  Kept(b, d) /\ (b = a => pendingApprovals'[b].call # d)
<1>1. pendingApprovals' = [pendingApprovals EXCEPT ![a] = NoApproval]
    BY DEF ConsumeApproval
<1>2. pendingApprovals'[a].call = NoCall /\ NoCall \notin Calls
    BY <1>1, StoreAssumption DEF TypeOK, StoreTypeOK, NoApproval, StoreAssumption
<1>3. b # a => pendingApprovals'[b] = pendingApprovals[b]
    BY <1>1 DEF TypeOK, StoreTypeOK
<1> QED
    BY <1>2, <1>3 DEF Kept

\* Giving an approval for one call is idle for the history of the others.
LEMMA GrantedEffect ==
    ASSUME TypeOK, NEW a \in Accounts, NEW c \in Calls, Granted(a, c),
           NEW b \in Accounts, NEW d \in Calls
    PROVE  /\ passed'[b][d] = passed[b][d]
           /\ b = a /\ d = c => granted'[b][d] = granted[b][d] + 1 /\ lastGrant'[b][d] = now
           /\ ~(b = a /\ d = c) =>
                 granted'[b][d] = granted[b][d] /\ lastGrant'[b][d] = lastGrant[b][d]
BY DEF Granted, TypeOK

\* Validation uses up an approval of what it lets pass, unless that is harmless.
LEMMA ValidateEffect ==
    ASSUME TypeOK, NEW a \in Accounts, NEW signer \in Signers, NEW c \in Calls,
           ValidateUserOp(a, signer, c), NEW b \in Accounts, NEW d \in Calls
    PROVE  Idle(b, d) \/ Used(b, d)
<1>1. granted'[b][d] = granted[b][d] /\ lastGrant'[b][d] = lastGrant[b][d]
    BY DEF ValidateUserOp, Passed
<1>2. passed'[b][d] = passed[b][d] \/
        (b = a /\ d = c /\ configs[a].enabled /\ ~Harmless(a, c) /\ passed'[b][d] = passed[b][d] + 1)
    BY DEF ValidateUserOp, Passed, TypeOK
<1>3. CASE AllowedFreely(a, c)
    <2>1. UNCHANGED <<pendingApprovals, agentApprovals>>
        BY <1>3 DEF AllowedFreely, storeVars
    <2>2. ~configs[a].enabled \/ Harmless(a, c)
        BY <1>3, FreeIsHarmless DEF AllowedFreely
    <2> QED
        BY <1>1, <1>2, <2>1, <2>2 DEF Idle, Kept
<1>4. CASE AllowedByApproval(a, c)
    <2>1. Kept(b, d) /\ (b = a => pendingApprovals'[b].call # d)
        BY <1>4, ConsumeKeeps DEF AllowedByApproval
    <2>2. HasValidApproval(a, c)
        BY <1>4 DEF AllowedByApproval
    <2> QED
        BY <1>1, <1>2, <2>1, <2>2 DEF Idle, Used
<1>5. CASE AllowedByAgent(a, c)
    <2>1. agentApprovals' = [agentApprovals EXCEPT ![a][c] = 0] /\ UNCHANGED pendingApprovals
        BY <1>5 DEF AllowedByAgent, storeVars
    <2>2. Kept(b, d) /\ (b = a /\ d = c => agentApprovals'[b][d] = 0)
        BY <2>1 DEF Kept, TypeOK
    <2>3. HasAgentApproval(a, c)
        BY <1>5 DEF AllowedByAgent
    <2> QED
        BY <1>1, <1>2, <2>2, <2>3 DEF Idle, Used
<1> QED
    BY <1>3, <1>4, <1>5 DEF ValidateUserOp

\* An agent's approval is given for the call on record, or nothing is.
LEMMA AnswerEffect ==
    ASSUME TypeOK, NEW r \in openRequests, NEW answer \in AnswerChoices,
           HandleRiskAssessmentResponse(r, answer), NEW b \in Accounts, NEW d \in Calls
    PROVE  Idle(b, d) \/ Given(b, d)
<1> DEFINE a == pendingRiskReviewByRequestId[r.id].account
<1> DEFINE c == pendingRiskReviewByRequestId[r.id].call
<1>1. UNCHANGED pendingApprovals
    BY DEF HandleRiskAssessmentResponse, storeVars
<1>2. CASE ~Approves(answer)
    BY <1>1, <1>2, UnchangedIsIdle DEF HandleRiskAssessmentResponse, historyVars
<1>3. CASE Approves(answer)
    <2>1. r.id \in RequestId /\ a \in Accounts
        BY DEF TypeOK, Request, Review, HandleRiskAssessmentResponse
    <2>2. Granted(a, c) /\ agentApprovals' = [agentApprovals EXCEPT
                                ![a] = [agentApprovals[a] EXCEPT ![c] = now + ApprovalTtl]]
        BY <1>3 DEF HandleRiskAssessmentResponse
    <2> HIDE DEF a, c
    <2>3. CASE c \in Calls
        <3>1. /\ b = a /\ d = c => agentApprovals'[b][d] = now + ApprovalTtl
              /\ ~(b = a /\ d = c) => agentApprovals'[b][d] = agentApprovals[b][d]
            BY <2>1, <2>2, <2>3 DEF TypeOK
        <3> QED
            BY <1>1, <2>1, <2>2, <2>3, <3>1, GrantedEffect DEF Idle, Kept, Given
    <2>4. CASE c \notin Calls
        <3>1. agentApprovals'[b][d] = agentApprovals[b][d]
            BY <2>1, <2>2, <2>4 DEF TypeOK
        <3>2. /\ granted'[b][d] = granted[b][d] /\ lastGrant'[b][d] = lastGrant[b][d]
              /\ passed'[b][d] = passed[b][d]
            BY <2>1, <2>2, <2>4 DEF TypeOK, Granted
        <3> QED
            BY <1>1, <3>1, <3>2 DEF Idle, Kept
    <2> QED
        BY <2>3, <2>4
<1> QED
    BY <1>2, <1>3

\* The owner's approval is given for the call the agent submits; it may replace others.
LEMMA SubmitEffect ==
    ASSUME TypeOK, NEW agent \in Agents, NEW a \in Accounts, NEW c \in Calls,
           AgentSubmits(agent, a, c), NEW b \in Accounts, NEW d \in Calls
    PROVE  Idle(b, d) \/ Given(b, d)
<1>1. /\ pendingApprovals' =
            [pendingApprovals EXCEPT ![a] = [call |-> c, expiry |-> now + ApprovalTtl]]
      /\ Granted(a, c) /\ UNCHANGED agentApprovals
    BY DEF AgentSubmits, SubmitApproval
<1>2. /\ b = a => pendingApprovals'[b].call = c /\ pendingApprovals'[b].expiry = now + ApprovalTtl
      /\ b # a => pendingApprovals'[b] = pendingApprovals[b]
    BY <1>1 DEF TypeOK, StoreTypeOK
<1> QED
    BY <1>1, <1>2, GrantedEffect DEF Idle, Kept, Given

\* Every step of the specification is one of these for every account and call.
LEMMA StepEffect ==
    ASSUME TypeOK, [Next]_vars, NEW b \in Accounts, NEW d \in Calls
    PROVE  Idle(b, d) \/ Used(b, d) \/ Given(b, d)
<1>1. CASE ConfigStep \/ WorldStep \/ UNCHANGED vars
    <2>1. UNCHANGED <<pendingApprovals, agentApprovals, granted, lastGrant, passed>>
        BY <1>1 DEF ConfigStep, WorldStep, vars, OnInstall, SetConfig, OnUninstall,
                    ConfigureRiskAgent, SetRiskAgentRewardPerCall, ReceiveRebate, FundAgentBudget,
                    Tick, BalanceChanges, storeVars, historyVars
    <2> QED
        BY <2>1, UnchangedIsIdle
<1>2. CASE ReviewStep
    <2>1. ASSUME NEW a \in Accounts, NEW c \in Calls, RequestAgentReview(a, c) PROVE Idle(b, d)
        <3>1. UNCHANGED <<pendingApprovals, agentApprovals, granted, lastGrant, passed>>
            BY <2>1 DEF RequestAgentReview, storeVars, historyVars
        <3> QED
            BY <3>1, UnchangedIsIdle
    <2> QED
        BY <1>2, <2>1, AnswerEffect DEF ReviewStep
<1>3. CASE ValidateStep
    BY <1>3, ValidateEffect DEF ValidateStep
<1>4. CASE StoreStep
    <2>1. ASSUME NEW a \in Accounts, NEW agent, NEW hook, RegisterAgentOrHook(a, agent, hook)
          PROVE  Idle(b, d)
        <3>1. UNCHANGED <<pendingApprovals, agentApprovals, granted, lastGrant, passed>>
            BY <2>1 DEF RegisterAgentOrHook, Register, historyVars
        <3> QED
            BY <3>1, UnchangedIsIdle
    <2>2. ASSUME NEW a \in Accounts, NEW c \in Calls, NEW hook, OtherHookConsumes(hook, a, c)
          PROVE  Idle(b, d)
        BY <2>2, ConsumeKeeps DEF OtherHookConsumes, Idle, historyVars
    <2> QED
        BY <1>4, <2>1, <2>2, SubmitEffect DEF StoreStep
<1> QED
    BY <1>1, <1>2, <1>3, <1>4 DEF Next

\* The last approval of a call was not given in the future.
LastGrantPast == \A a \in Accounts, c \in Calls : lastGrant[a][c] <= now

GuardInv == PassesAreGranted /\ ApprovalsAreFresh /\ LastGrantPast

\* The clock does not go back.
LEMMA ClockAdvances ==
    ASSUME TypeOK, [Next]_vars
    PROVE  now' >= now
<1>1. now' = now \/ now' = now + 1
    BY DEF Next, vars, ConfigStep, ReviewStep, ValidateStep, StoreStep, WorldStep, OnInstall,
           SetConfig, OnUninstall, ConfigureRiskAgent, SetRiskAgentRewardPerCall, ReceiveRebate,
           FundAgentBudget, RequestAgentReview, HandleRiskAssessmentResponse, ValidateUserOp,
           RegisterAgentOrHook, AgentSubmits, OtherHookConsumes, Tick, BalanceChanges
<1> QED
    BY <1>1 DEF TypeOK, StoreTypeOK

\* The invariant holds at first and no step breaks it.
LEMMA GuardInvInit == Init => GuardInv
BY StoreAssumption
DEF Init, StoreInit, GuardInv, PassesAreGranted, ApprovalsAreFresh, LastGrantPast, Outstanding,
    PerCall, NoApproval, StoreAssumption

LEMMA GuardInvStep ==
    ASSUME TypeOK, TypeOK', GuardInv, [Next]_vars
    PROVE  GuardInv'
<1> SUFFICES ASSUME NEW b \in Accounts, NEW d \in Calls
             PROVE  /\ passed'[b][d] + Outstanding(b, d)' <= granted'[b][d]
                    /\ pendingApprovals'[b].call = d =>
                          pendingApprovals'[b].expiry <= lastGrant'[b][d] + ApprovalTtl
                    /\ agentApprovals'[b][d] <= lastGrant'[b][d] + ApprovalTtl
                    /\ lastGrant'[b][d] <= now'
    BY DEF GuardInv, PassesAreGranted, ApprovalsAreFresh, LastGrantPast
<1>1. /\ passed[b][d] + Outstanding(b, d) <= granted[b][d]
      /\ pendingApprovals[b].call = d =>
            pendingApprovals[b].expiry <= lastGrant[b][d] + ApprovalTtl
      /\ agentApprovals[b][d] <= lastGrant[b][d] + ApprovalTtl
      /\ lastGrant[b][d] <= now
    BY DEF GuardInv, PassesAreGranted, ApprovalsAreFresh, LastGrantPast
<1>2. /\ {passed[b][d], granted[b][d], agentApprovals[b][d], lastGrant[b][d]} \subseteq Nat
      /\ {passed'[b][d], granted'[b][d], agentApprovals'[b][d], lastGrant'[b][d]} \subseteq Nat
      /\ now \in Nat /\ now' \in Nat /\ ApprovalTtl \in Nat
      /\ pendingApprovals[b].expiry \in Nat
    BY StoreAssumption DEF TypeOK, StoreTypeOK, Approval, StoreAssumption
<1>3. now' >= now
    BY ClockAdvances
<1>4. Idle(b, d) \/ Used(b, d) \/ Given(b, d)
    BY StepEffect
<1>5. CASE Idle(b, d)
    BY <1>1, <1>2, <1>3, <1>5 DEF Idle, Kept, Outstanding
<1>6. CASE Used(b, d)
    BY <1>1, <1>2, <1>3, <1>6 DEF Used, Kept, Outstanding, HasValidApproval, HasAgentApproval
<1>7. CASE Given(b, d)
    BY <1>1, <1>2, <1>3, <1>7 DEF Given, Outstanding
<1> QED
    BY <1>4, <1>5, <1>6, <1>7

\* The passes of a call and its usable approvals never outnumber the approvals given.
THEOREM ApprovalsSpentOnce == Spec => []PassesAreGranted
<1>1. Init => GuardInv /\ TypeOK
    BY GuardInvInit, InitTyped
<1>2. TypeOK /\ TypeOK' /\ GuardInv /\ [Next]_vars => GuardInv'
    BY GuardInvStep
<1>3. GuardInv => PassesAreGranted
    BY DEF GuardInv
<1> QED
    BY <1>1, <1>2, <1>3, GuardTypeCorrect, PTL DEF Spec

\* No approval on record outlives the time it was given for.
THEOREM FreshnessCorrect == Spec => []ApprovalsAreFresh
<1>1. Init => GuardInv /\ TypeOK
    BY GuardInvInit, InitTyped
<1>2. TypeOK /\ TypeOK' /\ GuardInv /\ [Next]_vars => GuardInv'
    BY GuardInvStep
<1>3. GuardInv => ApprovalsAreFresh
    BY DEF GuardInv
<1> QED
    BY <1>1, <1>2, <1>3, GuardTypeCorrect, PTL DEF Spec

\* A guarded operation passes only within ApprovalTtl of an approval of its call.
THEOREM PassesFresh == Spec => PassesAreFresh
<1> DEFINE Fresh == \A a \in Accounts, c \in Calls :
                        passed'[a][c] # passed[a][c] =>
                            granted[a][c] > 0 /\ now <= lastGrant[a][c] + ApprovalTtl
<1>1. Init => GuardInv /\ TypeOK
    BY GuardInvInit, InitTyped
<1>2. TypeOK /\ TypeOK' /\ GuardInv /\ [Next]_vars => GuardInv'
    BY GuardInvStep
<1>3. TypeOK /\ GuardInv /\ [Next]_vars => [Fresh]_vars
    <2> SUFFICES ASSUME TypeOK, GuardInv, [Next]_vars, NEW b \in Accounts, NEW d \in Calls,
                        passed'[b][d] # passed[b][d]
                 PROVE  granted[b][d] > 0 /\ now <= lastGrant[b][d] + ApprovalTtl
        OBVIOUS
    <2>1. Used(b, d)
        BY StepEffect DEF Idle, Given
    <2>2. /\ passed[b][d] + Outstanding(b, d) <= granted[b][d]
          /\ pendingApprovals[b].call = d =>
                pendingApprovals[b].expiry <= lastGrant[b][d] + ApprovalTtl
          /\ agentApprovals[b][d] <= lastGrant[b][d] + ApprovalTtl
        BY DEF GuardInv, PassesAreGranted, ApprovalsAreFresh
    <2>3. /\ {passed[b][d], granted[b][d], agentApprovals[b][d], lastGrant[b][d]} \subseteq Nat
          /\ now \in Nat /\ ApprovalTtl \in Nat /\ pendingApprovals[b].expiry \in Nat
        BY StoreAssumption DEF TypeOK, StoreTypeOK, Approval, StoreAssumption
    <2> QED
        BY <2>1, <2>2, <2>3 DEF Used, HasValidApproval, HasAgentApproval, Outstanding
<1> QED
    BY <1>1, <1>2, <1>3, GuardTypeCorrect, PTL DEF Spec, PassesAreFresh

-----------------------------------------------------------------------------
(* The review tables. *)

\* No record of a review outlives its request or points to an account that waits for
\* another one, whatever the platforms do.
LEMMA ReviewsAgreeStep ==
    ASSUME TypeOK, ReviewsAgree, [Next]_vars
    PROVE  ReviewsAgree'
<1>0. /\ pendingRiskReviewRequestId \in [Accounts -> {0} \cup RequestId]
      /\ pendingRiskReviewByRequestId \in [RequestId -> Review]
      /\ NoAccount \notin Accounts
    BY ValidatorAssumption DEF TypeOK, ValidatorAssumption
<1>1. CASE \E a \in Accounts, c \in Calls : RequestAgentReview(a, c)
    <2>1. PICK a \in Accounts, c \in Calls : RequestAgentReview(a, c)
        BY <1>1
    <2>3. PICK id \in RequestId :
          /\ pendingRiskReviewRequestId' = [pendingRiskReviewRequestId EXCEPT ![a] = id]
          /\ pendingRiskReviewByRequestId' =
                [pendingRiskReviewByRequestId EXCEPT ![id] = [account |-> a, call |-> c]]
          /\ openRequests' = openRequests \cup
                {[platform |-> agentPlatform, id |-> id, account |-> a, call |-> c]}
          /\ pendingRiskReviewRequestId[a] = 0
        <3> DEFINE n == lastRequestId[agentPlatform] + 1
        <3>1. /\ n \in RequestId
              /\ pendingRiskReviewRequestId' = [pendingRiskReviewRequestId EXCEPT ![a] = n]
              /\ pendingRiskReviewByRequestId' =
                    [pendingRiskReviewByRequestId EXCEPT ![n] = [account |-> a, call |-> c]]
              /\ openRequests' = openRequests \cup
                    {[platform |-> agentPlatform, id |-> n, account |-> a, call |-> c]}
              /\ pendingRiskReviewRequestId[a] = 0
            BY <2>1 DEF RequestAgentReview, ReviewSlotFree
        <3> HIDE DEF n
        <3>2. n \in RequestId
            BY <3>1
        <3> WITNESS n \in RequestId
        <3> QED
            BY <3>1
    <2> SUFFICES ASSUME NEW i \in RequestId, NEW b,
                        b = pendingRiskReviewByRequestId'[i].account, b # NoAccount
                 PROVE  /\ pendingRiskReviewRequestId'[b] = i
                        /\ \E r \in openRequests' : r.id = i
        BY DEF ReviewsAgree
    <2>4. CASE i = id
        <3>1. b = a
            BY <1>0, <2>3, <2>4
        <3>2. pendingRiskReviewRequestId'[a] = i
            BY <1>0, <2>3, <2>4
        <3>3. \E r \in openRequests' : r.id = i
            <4> DEFINE q == [platform |-> agentPlatform, id |-> id, account |-> a, call |-> c]
            <4>1. q \in openRequests' /\ q.id = i
                BY <2>3, <2>4
            <4> QED
                BY <4>1, Zenon
        <3> QED
            BY <3>1, <3>2, <3>3
    <2>5. CASE i # id
        <3>1. pendingRiskReviewByRequestId'[i] = pendingRiskReviewByRequestId[i]
            BY <1>0, <2>3, <2>5
        <3>2. b = pendingRiskReviewByRequestId[i].account
            BY <3>1
        <3>3. pendingRiskReviewRequestId[b] = i /\ \E r \in openRequests : r.id = i
            BY <3>2 DEF ReviewsAgree
        <3>4. b \in Accounts /\ i # 0
            BY <1>0, <3>2 DEF Review, RequestId
        <3>5. b # a
            BY <2>3, <3>3, <3>4
        <3>6. pendingRiskReviewRequestId'[b] = i
            BY <1>0, <2>3, <3>3, <3>4, <3>5
        <3> QED
            BY <2>3, <3>3, <3>6
    <2> QED
        BY <2>4, <2>5
<1>2. CASE \E r \in openRequests, answer \in AnswerChoices : HandleRiskAssessmentResponse(r, answer)
    <2>1. PICK r \in openRequests, answer \in AnswerChoices : HandleRiskAssessmentResponse(r, answer)
        BY <1>2
    <2>2. r.id \in RequestId
        BY DEF TypeOK, Request
    <2>4. PICK a :
          /\ a = pendingRiskReviewByRequestId[r.id].account
          /\ pendingRiskReviewByRequestId' = [pendingRiskReviewByRequestId EXCEPT ![r.id] = NoReview]
          /\ pendingRiskReviewRequestId' = [pendingRiskReviewRequestId EXCEPT ![a] = 0]
          /\ openRequests' = openRequests \ {r}
          /\ a # NoAccount
        BY <2>1 DEF HandleRiskAssessmentResponse
    <2>5. pendingRiskReviewRequestId[a] = r.id
        BY <2>2, <2>4 DEF ReviewsAgree
    <2> SUFFICES ASSUME NEW i \in RequestId, NEW b,
                        b = pendingRiskReviewByRequestId'[i].account, b # NoAccount
                 PROVE  /\ pendingRiskReviewRequestId'[b] = i
                        /\ \E q \in openRequests' : q.id = i
        BY DEF ReviewsAgree
    <2>6. i # r.id
        BY <1>0, <2>2, <2>4 DEF NoReview
    <2>7. b = pendingRiskReviewByRequestId[i].account
        BY <1>0, <2>2, <2>4, <2>6
    <2>8. pendingRiskReviewRequestId[b] = i /\ \E q \in openRequests : q.id = i
        BY <2>7 DEF ReviewsAgree
    <2>9. b # a /\ b \in Accounts
        BY <1>0, <2>5, <2>6, <2>7, <2>8 DEF Review
    <2>10. pendingRiskReviewRequestId'[b] = i
        BY <1>0, <2>4, <2>8, <2>9
    <2> QED
        BY <2>4, <2>6, <2>8, <2>10
<1>3. CASE UNCHANGED <<pendingRiskReviewRequestId, pendingRiskReviewByRequestId, openRequests>>
    BY <1>3 DEF ReviewsAgree
<1>4. ConfigStep \/ ValidateStep \/ StoreStep \/ WorldStep \/ UNCHANGED vars =>
        UNCHANGED <<pendingRiskReviewRequestId, pendingRiskReviewByRequestId, openRequests>>
    BY DEF ConfigStep, ValidateStep, StoreStep, WorldStep, OnInstall, SetConfig, OnUninstall,
           ConfigureRiskAgent, SetRiskAgentRewardPerCall, ReceiveRebate, FundAgentBudget,
           ValidateUserOp, RegisterAgentOrHook, AgentSubmits, OtherHookConsumes, Tick,
           BalanceChanges, vars, reviewVars, platformVars
<1> QED
    BY <1>1, <1>2, <1>3, <1>4 DEF Next, ReviewStep

\* The two tables of reviews agree in every reachable state.
THEOREM ReviewTablesCorrect == Spec => []ReviewsAgree
<1>1. Init => ReviewsAgree
    BY DEF Init, ReviewsAgree, NoReview
<1>2. TypeOK /\ ReviewsAgree /\ [Next]_vars => ReviewsAgree'
    BY ReviewsAgreeStep
<1> QED
    BY <1>1, <1>2, GuardTypeCorrect, PTL DEF Spec
-----------------------------------------------------------------------------
(* Budgets. *)

\* What a step does to the budgets and to the balance behind them: a funding raises one
\* budget and the balance by the same amount, a review takes its cost from both, a rebate
\* raises the balance alone.
BudgetMoves(a, n) ==
    /\ agentBudgetOf' = [agentBudgetOf EXCEPT ![a] = agentBudgetOf[a] + n]
    /\ validatorBalance' = validatorBalance + n

LEMMA BudgetEffect ==
    ASSUME TypeOK, [Next]_vars
    PROVE  \/ \E a \in Accounts, n \in Int : BudgetMoves(a, n)
           \/ agentBudgetOf' = agentBudgetOf /\ validatorBalance' >= validatorBalance
<1> USE DEF TypeOK
<1>1. ASSUME NEW a \in Accounts, NEW n \in FundChoices, FundAgentBudget(a, n)
      PROVE  BudgetMoves(a, n) /\ n \in Int
    BY <1>1, Amounts DEF FundAgentBudget, BudgetMoves
<1>2. ASSUME NEW n \in FundChoices, ReceiveRebate(n)
      PROVE  agentBudgetOf' = agentBudgetOf /\ validatorBalance' >= validatorBalance
    BY <1>2, Amounts DEF ReceiveRebate
<1>3. ASSUME NEW a \in Accounts, NEW c \in Calls, RequestAgentReview(a, c)
      PROVE  \E n \in Int : BudgetMoves(a, n)
    <2>1. PICK d \in Nat : d = agentDeposit
        BY Amounts
    <2>2. /\ agentBudgetOf' = [agentBudgetOf EXCEPT ![a] = agentBudgetOf[a] - d]
          /\ validatorBalance' = validatorBalance - d
        BY <1>3, <2>1 DEF RequestAgentReview, PayForReview
    <2>3. agentBudgetOf[a] - d = agentBudgetOf[a] + (-d)
          /\ validatorBalance - d = validatorBalance + (-d)
        BY <2>1
    <2>4. BudgetMoves(a, -d)
        BY <2>2, <2>3 DEF BudgetMoves
    <2> QED
        BY <2>1, <2>4
<1>4. CASE UNCHANGED <<agentBudgetOf, validatorBalance>>
    BY <1>4
<1>5. ASSUME NEW a \in Accounts, NEW k \in ConfigChoices, OnInstall(a, k) \/ SetConfig(a, k)
      PROVE  UNCHANGED <<agentBudgetOf, validatorBalance>>
    BY <1>5 DEF OnInstall, SetConfig, fundVars
<1>6. ValidateStep \/ StoreStep \/ WorldStep \/ UNCHANGED vars =>
        UNCHANGED <<agentBudgetOf, validatorBalance>>
    BY DEF ValidateStep, StoreStep, WorldStep, ValidateUserOp, RegisterAgentOrHook, AgentSubmits,
           OtherHookConsumes, Tick, BalanceChanges, vars, fundVars
<1>7. ASSUME NEW r, NEW answer, HandleRiskAssessmentResponse(r, answer)
      PROVE  UNCHANGED <<agentBudgetOf, validatorBalance>>
    BY <1>7 DEF HandleRiskAssessmentResponse, fundVars
<1>8. ConfigStep => \/ UNCHANGED <<agentBudgetOf, validatorBalance>>
                    \/ \E n \in FundChoices : \/ ReceiveRebate(n)
                                              \/ \E a \in Accounts : FundAgentBudget(a, n)
    BY <1>5 DEF ConfigStep, OnUninstall, ConfigureRiskAgent, SetRiskAgentRewardPerCall, fundVars
<1> QED
    BY <1>1, <1>2, <1>3, <1>4, <1>6, <1>7, <1>8 DEF Next, ReviewStep

\* No step makes the budgets together exceed the balance.
LEMMA BudgetsStep ==
    ASSUME TypeOK, TypeOK', BudgetsAreBacked, [Next]_vars
    PROVE  BudgetsAreBacked'
<1>1. IsFiniteSet(Accounts)
    BY ValidatorAssumption DEF ValidatorAssumption
<1>2. DOMAIN agentBudgetOf = Accounts /\ DOMAIN agentBudgetOf' = Accounts
    BY DEF TypeOK
<1>3. \A a \in Accounts : agentBudgetOf[a] \in Int /\ agentBudgetOf'[a] \in Int
    BY DEF TypeOK
<1>4. validatorBalance \in Int /\ validatorBalance' \in Int
    BY DEF TypeOK
<1>5. SumFunctionOnSet(agentBudgetOf, Accounts) \in Int
    BY <1>1, <1>3, SumInt
<1>6. SumFunctionOnSet(agentBudgetOf, Accounts) <= validatorBalance
    BY <1>2 DEF BudgetsAreBacked, SumFunction
<1>7. ASSUME NEW a \in Accounts, NEW n \in Int, BudgetMoves(a, n)
      PROVE  SumFunctionOnSet(agentBudgetOf', Accounts) <= validatorBalance'
    <2>1. /\ agentBudgetOf'[a] = agentBudgetOf[a] + n
          /\ \A b \in Accounts \ {a} : agentBudgetOf'[b] = agentBudgetOf[b]
        BY <1>7, <1>2 DEF BudgetMoves
    <2>2. SumFunctionOnSet(agentBudgetOf', Accounts) =
            SumFunctionOnSet(agentBudgetOf, Accounts) - agentBudgetOf[a] + agentBudgetOf'[a]
        BY <1>1, <1>3, <2>1, SumChange
    <2>3. SumFunctionOnSet(agentBudgetOf', Accounts) =
            SumFunctionOnSet(agentBudgetOf, Accounts) + n
        BY <1>3, <1>5, <2>1, <2>2
    <2> QED
        BY <1>4, <1>5, <1>6, <1>7, <2>3 DEF BudgetMoves
<1>8. SumFunctionOnSet(agentBudgetOf', Accounts) <= validatorBalance'
    BY <1>4, <1>5, <1>6, <1>7, BudgetEffect
<1> QED
    BY <1>2, <1>8 DEF BudgetsAreBacked, SumFunction

\* The budgets of all accounts together are covered by the balance, in every reachable state.
THEOREM BudgetsCorrect == Spec => []BudgetsAreBacked
<1>1. Init => BudgetsAreBacked
    <2>1. SUFFICES ASSUME Init PROVE BudgetsAreBacked
        OBVIOUS
    <2>2. TypeOK /\ validatorBalance = 0 /\ \A a \in Accounts : agentBudgetOf[a] = 0
        BY <2>1, InitTyped DEF Init
    <2>3. IsFiniteSet(Accounts) /\ DOMAIN agentBudgetOf = Accounts
        BY <2>2, ValidatorAssumption DEF ValidatorAssumption, TypeOK
    <2>4. SumFunctionOnSet(agentBudgetOf, Accounts) = 0
        BY <2>2, <2>3, SumZero
    <2> QED
        BY <2>2, <2>3, <2>4 DEF BudgetsAreBacked, SumFunction
<1>2. TypeOK /\ TypeOK' /\ BudgetsAreBacked /\ [Next]_vars => BudgetsAreBacked'
    BY BudgetsStep
<1> QED
    BY <1>1, <1>2, GuardTypeCorrect, PTL DEF Spec

-----------------------------------------------------------------------------
(* The guard keeps the promise of OneTimeApproval: the initial states map to initial
   states, and every step to a step or a stutter. *)

Tickets == OwnerTickets \cup AgentTickets

OwnerTicket(a, c, e) == [account |-> a, call |-> c, source |-> "owner", until |-> e]
AgentTicket(a, c, e) == [account |-> a, call |-> c, source |-> "agent", until |-> e]

\* What the tickets are, before and after a step.
LEMMA OwnerTicketsAre ==
    ASSUME NEW k
    PROVE  /\ k \in OwnerTickets <=> \E a \in Accounts :
                /\ pendingApprovals[a].call # NoCall
                /\ k = OwnerTicket(a, pendingApprovals[a].call, pendingApprovals[a].expiry)
           /\ k \in OwnerTickets' <=> \E a \in Accounts :
                /\ pendingApprovals'[a].call # NoCall
                /\ k = OwnerTicket(a, pendingApprovals'[a].call, pendingApprovals'[a].expiry)
BY DEF OwnerTickets, OwnerTicket

LEMMA AgentTicketsAre ==
    ASSUME NEW k
    PROVE  /\ k \in AgentTickets <=> \E a \in Accounts, c \in Calls :
                agentApprovals[a][c] # 0 /\ k = AgentTicket(a, c, agentApprovals[a][c])
           /\ k \in AgentTickets' <=> \E a \in Accounts, c \in Calls :
                agentApprovals'[a][c] # 0 /\ k = AgentTicket(a, c, agentApprovals'[a][c])
BY DEF AgentTickets, AgentTicket

\* A step that leaves the approvals and the passes alone is a stutter of the promise, or
\* the passing of time.
LEMMA QuietStep ==
    ASSUME UNCHANGED <<pendingApprovals, agentApprovals>>
    PROVE  Tickets' = Tickets
<1>1. OwnerTickets' = OwnerTickets
    BY DEF OwnerTickets
<1>2. AgentTickets' = AgentTickets
    BY DEF AgentTickets
<1> QED
    BY <1>1, <1>2 DEF Tickets

\* Deleting the store's approval removes its ticket and no other.
LEMMA ConsumeTicket ==
    ASSUME TypeOK, NEW hook, NEW a \in Accounts, NEW c \in Calls, ConsumeApproval(hook, a, c),
           UNCHANGED agentApprovals
    PROVE  LET k == OwnerTicket(a, c, pendingApprovals[a].expiry)
           IN  k \in Tickets /\ Tickets' = Tickets \ {k}
<1> DEFINE k == OwnerTicket(a, c, pendingApprovals[a].expiry)
<1>1. pendingApprovals[a].call = c /\ c # NoCall
    BY StoreAssumption DEF ConsumeApproval, StoreAssumption
<1>2. k \in OwnerTickets
    BY <1>1, OwnerTicketsAre
<1>3. /\ pendingApprovals'[a].call = NoCall
      /\ \A b \in Accounts \ {a} : pendingApprovals'[b] = pendingApprovals[b]
    BY DEF ConsumeApproval, NoApproval, TypeOK, StoreTypeOK
<1>4. ASSUME NEW x PROVE x \in OwnerTickets' <=> x \in OwnerTickets /\ x # k
    <2>1. CASE \E b \in Accounts \ {a} : /\ pendingApprovals[b].call # NoCall
                  /\ x = OwnerTicket(b, pendingApprovals[b].call, pendingApprovals[b].expiry)
        <3>1. x # k
            BY <2>1 DEF OwnerTicket
        <3> HIDE DEF k
        <3> QED
            BY <1>3, <2>1, <3>1, OwnerTicketsAre
    <2>2. CASE ~ \E b \in Accounts \ {a} : /\ pendingApprovals[b].call # NoCall
                  /\ x = OwnerTicket(b, pendingApprovals[b].call, pendingApprovals[b].expiry)
        <3>1. x \notin OwnerTickets'
            BY <1>3, <2>2, OwnerTicketsAre
        <3>2. x \in OwnerTickets => x = k
            BY <1>1, <2>2, OwnerTicketsAre
        <3> QED
            BY <3>1, <3>2
    <2> QED
        BY <2>1, <2>2
<1>5. AgentTickets' = AgentTickets
    BY DEF AgentTickets
<1>6. k \notin AgentTickets
    BY AgentTicketsAre DEF OwnerTicket, AgentTicket
<1> HIDE DEF k
<1>7. k \in Tickets /\ Tickets' = Tickets \ {k}
    BY <1>2, <1>4, <1>5, <1>6 DEF Tickets
<1> QED
    BY <1>7 DEF k

\* Deleting an agent's approval removes its ticket and no other.
LEMMA SpendTicket ==
    ASSUME TypeOK, NEW a \in Accounts, NEW c \in Calls, agentApprovals[a][c] # 0,
           agentApprovals' = [agentApprovals EXCEPT ![a][c] = 0], UNCHANGED pendingApprovals
    PROVE  LET k == AgentTicket(a, c, agentApprovals[a][c])
           IN  k \in Tickets /\ Tickets' = Tickets \ {k}
<1> DEFINE k == AgentTicket(a, c, agentApprovals[a][c])
<1>1. k \in AgentTickets
    BY AgentTicketsAre
<1>2. /\ agentApprovals'[a][c] = 0
      /\ \A b \in Accounts, d \in Calls :
            ~(b = a /\ d = c) => agentApprovals'[b][d] = agentApprovals[b][d]
    BY DEF TypeOK
<1>3. ASSUME NEW x PROVE x \in AgentTickets' <=> x \in AgentTickets /\ x # k
    <2>1. CASE \E b \in Accounts, d \in Calls : /\ ~(b = a /\ d = c) /\ agentApprovals[b][d] # 0
                  /\ x = AgentTicket(b, d, agentApprovals[b][d])
        <3>1. x # k
            BY <2>1 DEF AgentTicket
        <3> HIDE DEF k
        <3> QED
            BY <1>2, <2>1, <3>1, AgentTicketsAre
    <2>2. CASE ~ \E b \in Accounts, d \in Calls : /\ ~(b = a /\ d = c) /\ agentApprovals[b][d] # 0
                  /\ x = AgentTicket(b, d, agentApprovals[b][d])
        <3>1. x \notin AgentTickets'
            BY <1>2, <2>2, AgentTicketsAre
        <3>2. x \in AgentTickets => x = k
            BY <2>2, AgentTicketsAre
        <3> QED
            BY <3>1, <3>2
    <2> QED
        BY <2>1, <2>2
<1>4. OwnerTickets' = OwnerTickets
    BY DEF OwnerTickets
<1>5. k \notin OwnerTickets
    BY OwnerTicketsAre DEF OwnerTicket, AgentTicket
<1> HIDE DEF k
<1>6. k \in Tickets /\ Tickets' = Tickets \ {k}
    BY <1>1, <1>3, <1>4, <1>5 DEF Tickets
<1> QED
    BY <1>6 DEF k

\* An owner's approval adds a ticket, and may cost the account its other one.
LEMMA SubmitTicket ==
    ASSUME TypeOK, NEW a \in Accounts, NEW c \in Calls, UNCHANGED agentApprovals,
           pendingApprovals' = [pendingApprovals EXCEPT
                                    ![a] = [call |-> c, expiry |-> now + ApprovalTtl]]
    PROVE  LET k == OwnerTicket(a, c, now + ApprovalTtl)
           IN  k \in Tickets' /\ Tickets' \subseteq Tickets \cup {k}
<1> DEFINE k == OwnerTicket(a, c, now + ApprovalTtl)
<1>1. c # NoCall
    BY StoreAssumption DEF StoreAssumption
<1>2. /\ pendingApprovals'[a].call = c /\ pendingApprovals'[a].expiry = now + ApprovalTtl
      /\ \A b \in Accounts \ {a} : pendingApprovals'[b] = pendingApprovals[b]
    BY DEF TypeOK, StoreTypeOK
<1>3. k \in OwnerTickets'
    BY <1>1, <1>2, OwnerTicketsAre
<1>4. ASSUME NEW x \in OwnerTickets' PROVE x \in OwnerTickets \/ x = k
    BY <1>2, OwnerTicketsAre
<1>5. AgentTickets' = AgentTickets
    BY DEF AgentTickets
<1> HIDE DEF k
<1>6. k \in Tickets' /\ Tickets' \subseteq Tickets \cup {k}
    BY <1>3, <1>4, <1>5 DEF Tickets
<1> QED
    BY <1>6 DEF k

\* An agent's approval adds a ticket, and replaces an earlier one of the same call.
LEMMA AnswerTicket ==
    ASSUME TypeOK, NEW a \in Accounts, NEW c \in Calls, UNCHANGED pendingApprovals,
           agentApprovals' = [agentApprovals EXCEPT ![a][c] = now + ApprovalTtl]
    PROVE  LET k == AgentTicket(a, c, now + ApprovalTtl)
           IN  k \in Tickets' /\ Tickets' \subseteq Tickets \cup {k}
<1> DEFINE k == AgentTicket(a, c, now + ApprovalTtl)
<1>1. /\ agentApprovals'[a][c] = now + ApprovalTtl /\ now + ApprovalTtl # 0
      /\ \A b \in Accounts, d \in Calls :
            ~(b = a /\ d = c) => agentApprovals'[b][d] = agentApprovals[b][d]
    BY ExpiryType DEF TypeOK
<1>2. k \in AgentTickets'
    BY <1>1, AgentTicketsAre
<1>3. ASSUME NEW x \in AgentTickets' PROVE x \in AgentTickets \/ x = k
    BY <1>1, AgentTicketsAre
<1>4. OwnerTickets' = OwnerTickets
    BY DEF OwnerTickets
<1> HIDE DEF k
<1>5. k \in Tickets' /\ Tickets' \subseteq Tickets \cup {k}
    BY <1>2, <1>3, <1>4 DEF Tickets
<1> QED
    BY <1>5 DEF k

-----------------------------------------------------------------------------
(* The steps of the promise. *)

\* The promise as the refinement instantiates it, in terms of Tickets.
LEMMA PromiseInit ==
    now = 0 /\ Tickets = {} /\ passed = PerCall(0) => Guard!Init
BY DEF Guard!Init, Tickets, PerCall

LEMMA PromiseTime ==
    ASSUME now' > now, Tickets' = Tickets, passed' = passed
    PROVE  Guard!Next
BY DEF Guard!Next, Tickets

LEMMA PromiseLose ==
    ASSUME now' = now, Tickets' \subseteq Tickets, passed' = passed
    PROVE  Guard!Next
BY DEF Guard!Next, Guard!Lose, Tickets

LEMMA PromiseUse ==
    ASSUME NEW k \in Tickets, now' = now, now <= k.until, Tickets' = Tickets \ {k},
           passed' = [passed EXCEPT ![k.account][k.call] = @ + 1]
    PROVE  Guard!Next
BY DEF Guard!Next, Guard!Use, Tickets

LEMMA PromiseGrant ==
    ASSUME NEW a \in Accounts, NEW c \in Calls, NEW s \in {"owner", "agent"},
           now' = now, passed' = passed,
           LET k == [account |-> a, call |-> c, source |-> s, until |-> now + ApprovalTtl]
           IN  k \in Tickets' /\ Tickets' \subseteq Tickets \cup {k}
    PROVE  Guard!Next
BY DEF Guard!Next, Guard!Grant, Tickets

\* The initial states have no tickets.
LEMMA InitRefines == Init => Guard!Init
<1> SUFFICES ASSUME Init PROVE Tickets = {}
    BY PromiseInit DEF Init, StoreInit
<1>1. \A k : k \notin OwnerTickets
    BY OwnerTicketsAre DEF Init, StoreInit, NoApproval
<1>2. \A k : k \notin AgentTickets
    BY AgentTicketsAre DEF Init, PerCall
<1> QED
    BY <1>1, <1>2 DEF Tickets

\* A validation is a use of a ticket, or changes nothing the promise speaks of.
LEMMA ValidateRefines ==
    ASSUME TypeOK, NEW a \in Accounts, NEW signer \in Signers, NEW c \in Calls,
           ValidateUserOp(a, signer, c)
    PROVE  Guard!Next
<1>1. now' = now
    BY DEF ValidateUserOp
<1> DEFINE guarded == configs[a].enabled /\ ~Harmless(a, c)
<1>2. passed' = IF guarded THEN [passed EXCEPT ![a][c] = @ + 1] ELSE passed
    BY DEF ValidateUserOp, Passed
<1>3. CASE AllowedFreely(a, c)
    <2>1. ~guarded
        BY <1>3, FreeIsHarmless DEF AllowedFreely
    <2>2. Tickets' = Tickets
        BY <1>3, QuietStep DEF AllowedFreely, storeVars
    <2> QED
        BY <1>1, <1>2, <2>1, <2>2, PromiseLose
<1>4. CASE AllowedByApproval(a, c)
    <2> DEFINE k == OwnerTicket(a, c, pendingApprovals[a].expiry)
    <2>1. k \in Tickets /\ Tickets' = Tickets \ {k}
        BY <1>4, ConsumeTicket DEF AllowedByApproval
    <2>2. k.account = a /\ k.call = c /\ now <= k.until
        BY <1>4 DEF AllowedByApproval, HasValidApproval, OwnerTicket
    <2> HIDE DEF k
    <2> QED
        BY <1>1, <1>2, <2>1, <2>2, PromiseLose, PromiseUse
<1>5. CASE AllowedByAgent(a, c)
    <2> DEFINE k == AgentTicket(a, c, agentApprovals[a][c])
    <2>1. k \in Tickets /\ Tickets' = Tickets \ {k}
        BY <1>5, SpendTicket DEF AllowedByAgent, HasAgentApproval, storeVars
    <2>2. k.account = a /\ k.call = c /\ now <= k.until
        BY <1>5 DEF AllowedByAgent, HasAgentApproval, AgentTicket
    <2> HIDE DEF k
    <2> QED
        BY <1>1, <1>2, <2>1, <2>2, PromiseLose, PromiseUse
<1> QED
    BY <1>3, <1>4, <1>5 DEF ValidateUserOp

\* An answer grants a ticket, or nothing.  What is on record is a call of the account's.
LEMMA AnswerRefines ==
    ASSUME TypeOK, NEW r \in openRequests, NEW answer \in AnswerChoices,
           HandleRiskAssessmentResponse(r, answer)
    PROVE  Guard!Next
<1> DEFINE a == pendingRiskReviewByRequestId[r.id].account
<1> DEFINE c == pendingRiskReviewByRequestId[r.id].call
<1>1. now' = now /\ UNCHANGED pendingApprovals
    BY DEF HandleRiskAssessmentResponse, storeVars
<1>2. CASE ~Approves(answer)
    <2>1. passed' = passed /\ UNCHANGED agentApprovals
        BY <1>2 DEF HandleRiskAssessmentResponse, historyVars
    <2> QED
        BY <1>1, <2>1, QuietStep, PromiseLose
<1>3. CASE Approves(answer)
    <2>1. r.id \in RequestId /\ a \in Accounts
        BY DEF TypeOK, Request, Review, HandleRiskAssessmentResponse
    <2>2. passed' = passed /\ agentApprovals' = [agentApprovals EXCEPT ![a][c] = now + ApprovalTtl]
        BY <1>3 DEF HandleRiskAssessmentResponse, Granted
    <2> HIDE DEF a, c
    <2>3. CASE c \in Calls
        BY <1>1, <2>1, <2>2, <2>3, AnswerTicket, PromiseGrant DEF AgentTicket
    <2>4. CASE c \notin Calls
        <3>1. agentApprovals[a] \in [Calls -> Nat]
            BY <2>1 DEF TypeOK
        <3>2. [agentApprovals[a] EXCEPT ![c] = now + ApprovalTtl] = agentApprovals[a]
            BY <2>4, <3>1
        <3>3. agentApprovals' = agentApprovals
            BY <2>1, <2>2, <3>2 DEF TypeOK
        <3> QED
            BY <1>1, <2>2, <3>3, QuietStep, PromiseLose
    <2> QED
        BY <2>3, <2>4
<1> QED
    BY <1>2, <1>3

\* Every step is a step of the promise or leaves it alone.
LEMMA StepRefines ==
    ASSUME TypeOK, [Next]_vars
    PROVE  [Guard!Next]_(Guard!vars)
<1>1. CASE ConfigStep \/ UNCHANGED vars \/ \E a \in Accounts, n \in BalanceChoices : BalanceChanges(a, n)
    <2>1. UNCHANGED <<now, pendingApprovals, agentApprovals, passed>>
        BY <1>1 DEF ConfigStep, BalanceChanges, vars, OnInstall, SetConfig, OnUninstall,
                    ConfigureRiskAgent, SetRiskAgentRewardPerCall, ReceiveRebate, FundAgentBudget,
                    storeVars, historyVars
    <2> QED
        BY <2>1, QuietStep, PromiseLose
<1>2. CASE Tick
    <2>1. now' > now /\ UNCHANGED <<pendingApprovals, agentApprovals, passed>>
        BY <1>2 DEF Tick, TypeOK, StoreTypeOK, storeVars, historyVars
    <2> QED
        BY <2>1, QuietStep, PromiseTime
<1>3. CASE ReviewStep
    <2>1. ASSUME NEW a \in Accounts, NEW c \in Calls, RequestAgentReview(a, c) PROVE Guard!Next
        <3>1. UNCHANGED <<now, pendingApprovals, agentApprovals, passed>>
            BY <2>1 DEF RequestAgentReview, storeVars, historyVars
        <3> QED
            BY <3>1, QuietStep, PromiseLose
    <2> QED
        BY <1>3, <2>1, AnswerRefines DEF ReviewStep
<1>4. CASE ValidateStep
    BY <1>4, ValidateRefines DEF ValidateStep
<1>5. CASE StoreStep
    <2>1. ASSUME NEW a \in Accounts, NEW agent, NEW hook, RegisterAgentOrHook(a, agent, hook)
          PROVE  Guard!Next
        <3>1. UNCHANGED <<now, pendingApprovals, agentApprovals, passed>>
            BY <2>1 DEF RegisterAgentOrHook, Register, historyVars
        <3> QED
            BY <3>1, QuietStep, PromiseLose
    <2>2. ASSUME NEW a \in Accounts, NEW c \in Calls, NEW hook, OtherHookConsumes(hook, a, c)
          PROVE  Guard!Next
        <3>1. now' = now /\ passed' = passed
            BY <2>2 DEF OtherHookConsumes, historyVars
        <3>2. Tickets' \subseteq Tickets
            BY <2>2, ConsumeTicket DEF OtherHookConsumes
        <3> QED
            BY <3>1, <3>2, PromiseLose
    <2>3. ASSUME NEW a \in Accounts, NEW c \in Calls, NEW agent \in Agents, AgentSubmits(agent, a, c)
          PROVE  Guard!Next
        BY <2>3, SubmitTicket, PromiseGrant DEF AgentSubmits, SubmitApproval, Granted, OwnerTicket
    <2> QED
        BY <1>5, <2>1, <2>2, <2>3 DEF StoreStep
<1> QED
    BY <1>1, <1>2, <1>3, <1>4, <1>5 DEF Next, WorldStep

\* The validator and its store keep the promise of one-time approvals.
THEOREM GuardIsKept == Spec => KeepsGuard
<1>1. Init => Guard!Init
    BY InitRefines
<1>2. TypeOK /\ [Next]_vars => [Guard!Next]_(Guard!vars)
    BY StepRefines
<1> QED
    BY <1>1, <1>2, GuardTypeCorrect, PTL DEF Spec, KeepsGuard, Guard!Spec
=============================================================================
