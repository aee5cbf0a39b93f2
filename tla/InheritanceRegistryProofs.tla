---------------------- MODULE InheritanceRegistryProofs ----------------------
(***************************************************************************)
(* Theorems about InheritanceRegistry, for every value of its constants.   *)
(***************************************************************************)
EXTENDS InheritanceRegistry, TLAPS

-----------------------------------------------------------------------------
(* Arithmetic and the operators the actions are built from. *)

\* A product of naturals divided by a positive natural is a natural.
LEMMA ShareIsNat ==
    ASSUME NEW x \in Nat, NEW y \in Nat, NEW d \in Nat \ {0}
    PROVE  (x * y) \div d \in Nat
<1>1. x * y \in Nat
    OBVIOUS
<1>2. ASSUME NEW z \in Nat PROVE z \div d \in Nat
    OBVIOUS
<1> QED
    BY <1>1, <1>2

\* Every amount a distribution computes is a natural number.
LEMMA AmountType ==
    ASSUME TypeOK, NEW a \in Accounts, NEW t \in Tokens, NEW h \in DOMAIN beneficiaries[a]
    PROVE  Amount(a, t, h) \in Nat
<1>1. SnapshotOf(a, t) \in Nat
    BY DEF TypeOK, SnapshotOf
<1>2. PICK H \in SUBSET Heirs : beneficiaries[a] \in [H -> 0 .. BpsTotal]
    BY DEF TypeOK, Shares
<1>3. beneficiaries[a][h] \in Nat
    BY <1>2, ConstantsAssumption DEF ConstantsAssumption
<1>4. BpsTotal \in Nat \ {0}
    BY ConstantsAssumption DEF ConstantsAssumption
<1> QED
    BY <1>1, <1>3, <1>4, ShareIsNat DEF Amount

\* Rescheduling keeps the types of the schedule variables.
LEMMA ScheduleType ==
    ASSUME TypeOK, NEW a \in Accounts, NEW s \in Nat, ScheduleDistribution(a, s)
    PROVE  /\ currentSchedule' \in [Accounts -> Time]
           /\ scheduledSmartAccounts' \in [Time -> SUBSET Accounts]
           /\ subscriptions' \subseteq Time
<1>1. s \in Time
    BY ConstantsAssumption DEF ScheduleDistribution, Time, ConstantsAssumption
<1>2. CASE s <= now
    BY <1>2 DEF ScheduleDistribution, TypeOK, scheduleVars
<1>3. CASE ~(s <= now)
    <2>1. currentSchedule' \in [Accounts -> Time]
        BY <1>1, <1>3 DEF ScheduleDistribution, TypeOK
    <2>2. scheduledSmartAccounts' \in [Time -> SUBSET Accounts]
        <3>1. scheduledSmartAccounts' =
                [scheduledSmartAccounts EXCEPT ![s] = scheduledSmartAccounts[s] \cup {a}]
            BY <1>3 DEF ScheduleDistribution
        <3>2. scheduledSmartAccounts[s] \cup {a} \in SUBSET Accounts
            BY <1>1 DEF TypeOK
        <3> QED
            BY <1>1, <3>1, <3>2 DEF TypeOK
    <2>3. subscriptions' \subseteq Time
        <3>1. subscriptions' = subscriptions \cup {s} \/ subscriptions' = subscriptions
            BY <1>3 DEF ScheduleDistribution
        <3> QED
            BY <1>1, <3>1 DEF TypeOK
    <2> QED
        BY <2>1, <2>2, <2>3
<1> QED
    BY <1>2, <1>3

\* Clearing the progress of a distribution keeps its types.
LEMMA ClearType ==
    ASSUME TypeOK, NEW a \in Accounts, ClearDistributionState(a)
    PROVE  /\ assetSnapshot' \in [Accounts -> [Tokens -> Nat]]
           /\ assetSnapshotSet' \in [Accounts -> SUBSET Tokens]
           /\ assetSettled' \in [Accounts -> SUBSET Pairs]
           /\ distributionComplete' \in [Accounts -> BOOLEAN]
           /\ distributionRetryCount' \in [Accounts -> Nat]
           /\ paid' \in [Accounts -> [Pairs -> Nat]]
BY DEF TypeOK, ClearDistributionState

\* A distribution over any set of accounts keeps the types.
LEMMA DistributionType ==
    ASSUME TypeOK, NEW R \in SUBSET Accounts, NEW out,
           \A a \in R : out[a] \in TransferOutcomes(a),
           ExecuteDistribution(R, out)
    PROVE  /\ plans' \in [Accounts -> [state : PlanState, terms : Terms, last : Time]]
           /\ assetSnapshot' \in [Accounts -> [Tokens -> Nat]]
           /\ assetSnapshotSet' \in [Accounts -> SUBSET Tokens]
           /\ assetSettled' \in [Accounts -> SUBSET Pairs]
           /\ distributionComplete' \in [Accounts -> BOOLEAN]
           /\ balanceOf' \in [Accounts -> [Tokens -> Nat]]
           /\ paid' \in [Accounts -> [Pairs -> Nat]]
<1>1. ASSUME NEW a \in R
      PROVE  /\ out[a].ok \subseteq Due(a) /\ out[a].moved \subseteq Due(a)
             /\ Affordable(a, out[a].moved)
    BY DEF TransferOutcomes
<1>2. ASSUME NEW a \in R PROVE Due(a) \subseteq protectedAssets[a] \X DOMAIN beneficiaries[a]
    BY DEF Due
<1>3. ASSUME NEW a \in Accounts
      PROVE  protectedAssets[a] \subseteq Tokens /\ DOMAIN beneficiaries[a] \subseteq Heirs
    <2>1. PICK H \in SUBSET Heirs : beneficiaries[a] \in [H -> 0 .. BpsTotal]
        BY DEF TypeOK, Shares
    <2> QED
        BY <2>1 DEF TypeOK
<1>4. plans' \in [Accounts -> [state : PlanState, terms : Terms, last : Time]]
    <2>1. ASSUME NEW a \in Accounts
          PROVE  plans'[a] \in [state : PlanState, terms : Terms, last : Time]
        <3>1. plans[a] \in [state : PlanState, terms : Terms, last : Time]
            BY DEF TypeOK
        <3>2. plans'[a] = plans[a] \/ plans'[a] = [plans[a] EXCEPT !.state = "Executed"]
            BY DEF ExecuteDistribution
        <3> QED
            BY <3>1, <3>2 DEF PlanState
    <2>2. plans' = [a \in Accounts |-> plans'[a]]
        BY DEF ExecuteDistribution
    <2> QED
        BY <2>1, <2>2
<1>5. assetSnapshot' \in [Accounts -> [Tokens -> Nat]]
    BY DEF ExecuteDistribution, TypeOK, SnapshotOf
<1>6. assetSnapshotSet' \in [Accounts -> SUBSET Tokens]
    BY DEF ExecuteDistribution, TypeOK
<1>7. assetSettled' \in [Accounts -> SUBSET Pairs]
    BY <1>1, <1>2, <1>3 DEF ExecuteDistribution, TypeOK, Pairs
<1>8. distributionComplete' \in [Accounts -> BOOLEAN]
    BY DEF ExecuteDistribution, TypeOK
<1>9. balanceOf' \in [Accounts -> [Tokens -> Nat]]
    <2>1. ASSUME NEW a \in R, NEW t \in Tokens
          PROVE  balanceOf[a][t] - Spending(a, out[a].moved, t) \in Nat
        BY <1>1 DEF Affordable, TypeOK
    <2> QED
        BY <2>1 DEF ExecuteDistribution, TypeOK
<1>10. paid' \in [Accounts -> [Pairs -> Nat]]
    <2>1. ASSUME NEW a \in R, NEW p \in out[a].moved PROVE Amount(a, p[1], p[2]) \in Nat
        BY <1>1, <1>2, <1>3, AmountType
    <2>2. ASSUME NEW a \in R, NEW p \in Pairs
          PROVE  paid[a][p] + (IF p \in out[a].moved THEN Amount(a, p[1], p[2]) ELSE 0) \in Nat
        BY <2>1 DEF TypeOK
    <2> QED
        BY <2>2 DEF ExecuteDistribution, TypeOK
<1> QED
    BY <1>4, <1>5, <1>6, <1>7, <1>8, <1>9, <1>10

\* A validated argument of a plan call has its type.
LEMMA ArgumentTypes ==
    /\ \A s \in ShareChoices \cup ProposalChoices : s \in Shares
    /\ \A A \in AssetChoices : A \in SUBSET Tokens
    /\ \A t \in TermChoices : t \in Terms /\ Length(t) \in Nat
    /\ NoShares \in Shares /\ NoTerms \in Terms
<1>1. \A s \in ShareChoices \cup ProposalChoices : s \in Shares
    BY ConstantsAssumption DEF ConstantsAssumption, Shares
<1>2. \A t \in TermChoices : t \in Terms /\ Length(t) \in Nat
    BY ConstantsAssumption DEF ConstantsAssumption, Terms, Length
<1>3. NoShares \in Shares
    <2>1. NoShares \in [{} -> 0 .. BpsTotal]
        BY DEF NoShares
    <2> QED
        BY <2>1 DEF Shares
<1> QED
    BY <1>1, <1>2, <1>3, ConstantsAssumption DEF ConstantsAssumption, NoTerms, Terms

-----------------------------------------------------------------------------
(* Type correctness. *)

LEMMA InitType == Init => TypeOK
<1> SUFFICES ASSUME Init PROVE TypeOK
    OBVIOUS
<1>1. now \in Time /\ MaxTime \in Nat /\ {0} \subseteq Time
    BY ConstantsAssumption DEF Init, Time, ConstantsAssumption
<1>2. /\ agentDeposit \in DepositChoices
      /\ balanceOf \in [Accounts -> [Tokens -> Nat]]
      /\ registryBalance \in Nat
      /\ agentBudgetOf \in [Accounts -> Nat]
      /\ agentPlatform \in Platforms \cup {NoPlatform}
    BY ConstantsAssumption DEF Init, ConstantsAssumption
<1>3. /\ plans \in [Accounts -> [state : PlanState, terms : Terms, last : Time]]
      /\ beneficiaries \in [Accounts -> Shares]
      /\ protectedAssets \in [Accounts -> SUBSET Tokens]
      /\ pendingBeneficiaries \in [Accounts -> Shares]
      /\ pendingBeneficiariesAt \in [Accounts -> Time]
    BY <1>1, ArgumentTypes DEF Init, PlanState
<1>4. /\ assetSnapshot \in [Accounts -> [Tokens -> Nat]]
      /\ assetSnapshotSet \in [Accounts -> SUBSET Tokens]
      /\ assetSettled \in [Accounts -> SUBSET Pairs]
      /\ distributionComplete \in [Accounts -> BOOLEAN]
      /\ distributionRetryCount \in [Accounts -> Nat]
      /\ paid \in [Accounts -> [Pairs -> Nat]]
      /\ renewedLate \subseteq Accounts
    BY DEF Init
<1>5. /\ pendingHeartbeatRequestId \in [Accounts -> {0} \cup RequestId]
      /\ pendingDistributionRequestId \in [Accounts -> {0} \cup RequestId]
      /\ pendingHeartbeatSmartAccount \in [RequestId -> Accounts \cup {NoAccount}]
      /\ pendingDistributionSmartAccount \in [RequestId -> Accounts \cup {NoAccount}]
      /\ openRequests \subseteq [platform : Platforms, id : RequestId, kind : RequestKind]
      /\ lastRequestId \in [Platforms -> {0} \cup RequestId]
    BY DEF Init
<1>6. /\ currentSchedule \in [Accounts -> Time]
      /\ scheduledSmartAccounts \in [Time -> SUBSET Accounts]
      /\ subscriptions \subseteq Time
    BY <1>1 DEF Init
<1> QED
    BY <1>1, <1>2, <1>3, <1>4, <1>5, <1>6 DEF TypeOK

\* The owner's calls.
LEMMA OwnerType ==
    ASSUME TypeOK, OwnerStep
    PROVE  TypeOK'
<1> USE DEF planVars, proposalVars, progressVars, configVars, fundVars, heartbeatVars,
            distributionVars, platformVars, scheduleVars, agentVars, worldVars
<1> PICK a \in Accounts :
        \/ \E s \in ShareChoices, A \in AssetChoices, t \in TermChoices :
              CreatePlan(a, s, A, t) \/ UpdatePlan(a, s, A, t)
        \/ CancelPlan(a)
        \/ CheckIn(a)
        \/ \E s \in ProposalChoices : ProposeBeneficiaries(a, s)
        \/ ConfirmBeneficiaries(a)
        \/ CancelBeneficiariesChange(a)
    BY DEF OwnerStep
<1>0. now \in Time /\ now \in Nat /\ 0 \in Time
    BY ConstantsAssumption DEF TypeOK, Time, ConstantsAssumption
<1>1. /\ plans[a] \in [state : PlanState, terms : Terms, last : Time]
      /\ plans[a].last \in Nat /\ Length(plans[a].terms) \in Nat
    <2>1. plans[a] \in [state : PlanState, terms : Terms, last : Time]
        BY DEF TypeOK
    <2>2. plans[a].last \in Nat
        BY <2>1, ConstantsAssumption DEF Time, ConstantsAssumption
    <2>3. Length(plans[a].terms) \in Nat
        BY <2>1 DEF Terms, Length
    <2> QED
        BY <2>1, <2>2, <2>3
<1>2. ASSUME NEW s \in ShareChoices, NEW A \in AssetChoices, NEW t \in TermChoices,
             CreatePlan(a, s, A, t)
      PROVE  TypeOK'
    <2>1. now + Length(t) \in Nat
        BY <1>0, ArgumentTypes
    <2>2. [state |-> "Active", terms |-> t, last |-> now]
            \in [state : PlanState, terms : Terms, last : Time]
        BY <1>0, ArgumentTypes DEF PlanState
    <2> QED
        BY <1>2, <2>1, <2>2, ScheduleType, ClearType, ArgumentTypes DEF CreatePlan, TypeOK
<1>3. ASSUME NEW s \in ShareChoices, NEW A \in AssetChoices, NEW t \in TermChoices,
             UpdatePlan(a, s, A, t)
      PROVE  TypeOK'
    <2>1. plans[a].last + Length(t) \in Nat
        BY <1>1, ArgumentTypes
    <2>2. [plans[a] EXCEPT !.terms = t] \in [state : PlanState, terms : Terms, last : Time]
        BY <1>1, ArgumentTypes
    <2> QED
        BY <1>3, <2>1, <2>2, ScheduleType, ClearType, ArgumentTypes DEF UpdatePlan, TypeOK
<1>4. CASE CancelPlan(a)
    <2>1. [plans[a] EXCEPT !.state = "Cancelled"]
            \in [state : PlanState, terms : Terms, last : Time]
        BY <1>1 DEF PlanState
    <2> QED
        BY <1>4, <2>1, ArgumentTypes DEF CancelPlan, TypeOK
<1>5. CASE CheckIn(a)
    <2>1. [plans[a] EXCEPT !.last = now] \in [state : PlanState, terms : Terms, last : Time]
        BY <1>0, <1>1
    <2>2. now + Length(plans[a].terms) \in Nat
        BY <1>0, <1>1
    <2> QED
        BY <1>5, <2>1, <2>2, ScheduleType DEF CheckIn, TypeOK
<1>6. ASSUME NEW s \in ProposalChoices, ProposeBeneficiaries(a, s)
      PROVE  TypeOK'
    BY <1>0, <1>6, ArgumentTypes DEF ProposeBeneficiaries, TypeOK
<1>7. CASE ConfirmBeneficiaries(a)
    BY <1>0, <1>7, ArgumentTypes DEF ConfirmBeneficiaries, TypeOK
<1>8. CASE CancelBeneficiariesChange(a)
    BY <1>0, <1>8, ArgumentTypes DEF CancelBeneficiariesChange, TypeOK
<1> QED
    BY <1>2, <1>3, <1>4, <1>5, <1>6, <1>7, <1>8

\* Budgets, the administrator's settings and day-to-day use of the accounts.
LEMMA FundingAndWorldType ==
    ASSUME TypeOK, FundingStep \/ WorldStep
    PROVE  TypeOK'
<1> USE DEF planVars, proposalVars, progressVars, configVars, fundVars, heartbeatVars,
            distributionVars, platformVars, scheduleVars, agentVars, worldVars
<1>0. FundChoices \subseteq Nat /\ MoveChoices \subseteq Nat /\ MaxTime \in Nat
    BY ConstantsAssumption DEF ConstantsAssumption
<1>1. ASSUME NEW a \in Accounts, NEW n \in FundChoices, FundAgentBudget(a, n)
      PROVE  TypeOK'
    BY <1>0, <1>1 DEF FundAgentBudget, TypeOK
<1>2. ASSUME NEW n \in FundChoices, FundReactivity(n)
      PROVE  TypeOK'
    BY <1>0, <1>2 DEF FundReactivity, TypeOK
<1>3. ASSUME NEW n \in FundChoices, WithdrawReactivityBudget(n)
      PROVE  TypeOK'
    <2>1. registryBalance - n \in Nat
        BY <1>0, <1>3 DEF WithdrawReactivityBudget, TypeOK
    <2> QED
        BY <1>3, <2>1 DEF WithdrawReactivityBudget, TypeOK
<1>4. ASSUME NEW p \in Platforms, ConfigureAgent(p)
      PROVE  TypeOK'
    BY <1>4 DEF ConfigureAgent, TypeOK
<1>5. ASSUME NEW d \in DepositChoices, SetAgentRewardPerCall(d)
      PROVE  TypeOK'
    BY <1>5 DEF SetAgentRewardPerCall, TypeOK
<1>6. CASE Tick
    <2>1. now' \in Time
        BY <1>0, <1>6 DEF Tick, TypeOK, Time
    <2> QED
        BY <1>6, <2>1 DEF Tick, TypeOK
<1>7. ASSUME NEW a \in Accounts, NEW t \in Tokens, NEW n \in MoveChoices,
             ReceiveFunds(a, t, n) \/ SpendFunds(a, t, n)
      PROVE  TypeOK'
    <2>1. balanceOf[a] \in [Tokens -> Nat] /\ balanceOf[a][t] + n \in Nat
        BY <1>0 DEF TypeOK
    <2>2. SpendFunds(a, t, n) => balanceOf[a][t] - n \in Nat
        BY <1>0, <2>1 DEF SpendFunds
    <2>3. balanceOf' \in [Accounts -> [Tokens -> Nat]]
        <3>1. PICK k \in Nat : balanceOf' = [balanceOf EXCEPT ![a][t] = k]
            BY <1>7, <2>1, <2>2 DEF ReceiveFunds, SpendFunds
        <3>2. [balanceOf[a] EXCEPT ![t] = k] \in [Tokens -> Nat]
            BY <2>1
        <3>3. balanceOf' = [balanceOf EXCEPT ![a] = [balanceOf[a] EXCEPT ![t] = k]]
            BY <3>1 DEF TypeOK
        <3> QED
            BY <3>2, <3>3 DEF TypeOK
    <2> QED
        BY <1>7, <2>3 DEF ReceiveFunds, SpendFunds, TypeOK
<1> QED
    BY <1>1, <1>2, <1>3, <1>4, <1>5, <1>6, <1>7 DEF FundingStep, WorldStep

\* Requests to an agent platform and its answers.
LEMMA AgentType ==
    ASSUME TypeOK, AgentStep
    PROVE  TypeOK'
<1> USE DEF planVars, proposalVars, progressVars, configVars, fundVars, heartbeatVars,
            distributionVars, platformVars, scheduleVars, agentVars, worldVars
<1>0. now \in Time /\ now \in Nat /\ DepositChoices \subseteq Nat /\ RequestId \subseteq Nat
    BY ConstantsAssumption DEF TypeOK, Time, RequestId, ConstantsAssumption
<1>1. ASSUME NEW a \in Accounts, NEW kind \in RequestKind, RequestAgent(a, kind)
      PROVE  /\ agentPlatform \in Platforms /\ lastRequestId[agentPlatform] + 1 \in RequestId
             /\ agentBudgetOf' \in [Accounts -> Nat] /\ registryBalance' \in Nat
             /\ lastRequestId' \in [Platforms -> {0} \cup RequestId]
             /\ openRequests' \subseteq
                   [platform : Platforms, id : RequestId, kind : RequestKind]
    <2>1. agentPlatform \in Platforms /\ lastRequestId[agentPlatform] + 1 \in RequestId
        BY <1>1 DEF RequestAgent, TypeOK
    <2>2. agentBudgetOf[a] - agentDeposit \in Nat /\ registryBalance - agentDeposit \in Nat
        BY <1>0, <1>1 DEF RequestAgent, TypeOK
    <2>3. agentBudgetOf' \in [Accounts -> Nat] /\ registryBalance' \in Nat
        BY <1>1, <2>2 DEF RequestAgent, TypeOK
    <2>4. lastRequestId' \in [Platforms -> {0} \cup RequestId]
        BY <1>1, <2>1 DEF RequestAgent, TypeOK
    <2>5. openRequests' \subseteq [platform : Platforms, id : RequestId, kind : RequestKind]
        BY <1>1, <2>1 DEF RequestAgent, TypeOK
    <2> QED
        BY <2>1, <2>3, <2>4, <2>5
<1>2. ASSUME NEW a \in Accounts, TriggerAgentHeartbeat(a)
      PROVE  TypeOK'
    <2>1. RequestAgent(a, "heartbeat") /\ "heartbeat" \in RequestKind
        BY <1>2 DEF TriggerAgentHeartbeat, RequestKind
    <2> QED
        BY <1>1, <1>2, <2>1 DEF TriggerAgentHeartbeat, TypeOK
<1>3. ASSUME NEW a \in Accounts, TriggerDistributionAgent(a)
      PROVE  TypeOK'
    <2>1. RequestAgent(a, "distribution") /\ "distribution" \in RequestKind
        BY <1>3 DEF TriggerDistributionAgent, RequestKind
    <2> QED
        BY <1>1, <1>3, <2>1 DEF TriggerDistributionAgent, TypeOK
<1>4. ASSUME NEW r \in openRequests, NEW success \in BOOLEAN,
             HandleHeartbeatResponse(r, success)
      PROVE  TypeOK'
    <2> DEFINE a == pendingHeartbeatSmartAccount[r.id]
    <2>1. r.id \in RequestId /\ a \in Accounts
        BY <1>4 DEF HandleHeartbeatResponse, TypeOK
    <2>0. /\ openRequests' \subseteq [platform : Platforms, id : RequestId, kind : RequestKind]
          /\ pendingHeartbeatSmartAccount' \in [RequestId -> Accounts \cup {NoAccount}]
          /\ pendingHeartbeatRequestId' \in [Accounts -> {0} \cup RequestId]
        BY <1>4, <2>1 DEF HandleHeartbeatResponse, TypeOK
    <2>2. /\ plans[a] \in [state : PlanState, terms : Terms, last : Time]
          /\ now + Length(plans[a].terms) \in Nat
        BY <1>0, <2>1 DEF TypeOK, Terms, Length
    <2>3. CASE success /\ Active(a)
        <3>1. ScheduleDistribution(a, now + Length(plans[a].terms))
            BY <1>4, <2>3 DEF HandleHeartbeatResponse
        <3>2. [plans[a] EXCEPT !.last = now] \in [state : PlanState, terms : Terms, last : Time]
            BY <1>0, <2>2
        <3>3. renewedLate' \subseteq Accounts
            BY <1>4, <2>1, <2>3 DEF HandleHeartbeatResponse, TypeOK
        <3>4. /\ currentSchedule' \in [Accounts -> Time]
              /\ scheduledSmartAccounts' \in [Time -> SUBSET Accounts]
              /\ subscriptions' \subseteq Time
            BY <2>1, <2>2, <3>1, ScheduleType
        <3> QED
            <4>1. plans' \in [Accounts -> [state : PlanState, terms : Terms, last : Time]]
                <5>1. plans' = [plans EXCEPT ![a].last = now]
                    BY <1>4, <2>3 DEF HandleHeartbeatResponse
                <5>2. plans' = [plans EXCEPT ![a] = [plans[a] EXCEPT !.last = now]]
                    BY <5>1
                <5> QED
                    BY <2>1, <3>2, <5>2 DEF TypeOK
            <4> QED
                BY <1>4, <2>0, <3>3, <3>4, <4>1 DEF HandleHeartbeatResponse, TypeOK
    <2>4. CASE ~(success /\ Active(a))
        BY <1>4, <2>0, <2>1, <2>4 DEF HandleHeartbeatResponse, TypeOK
    <2> QED
        BY <2>3, <2>4
<1>5. ASSUME NEW r \in openRequests, NEW success \in BOOLEAN,
             HandleDistributionResponse(r, success)
      PROVE  TypeOK'
    <2> DEFINE a == pendingDistributionSmartAccount[r.id]
               R == {b \in {a} : success /\ Distributable(b)}
    <2>1. r.id \in RequestId /\ a \in Accounts /\ R \in SUBSET Accounts
        BY <1>5 DEF HandleDistributionResponse, TypeOK
    <2>2. PICK o \in TransferOutcomes(a) : ExecuteDistribution(R, [b \in R |-> o])
        BY <1>5 DEF HandleDistributionResponse
    <2>3. \A b \in R : [c \in R |-> o][b] \in TransferOutcomes(b)
        BY <2>2
    <2>4. /\ plans' \in [Accounts -> [state : PlanState, terms : Terms, last : Time]]
          /\ assetSnapshot' \in [Accounts -> [Tokens -> Nat]]
          /\ assetSnapshotSet' \in [Accounts -> SUBSET Tokens]
          /\ assetSettled' \in [Accounts -> SUBSET Pairs]
          /\ distributionComplete' \in [Accounts -> BOOLEAN]
          /\ balanceOf' \in [Accounts -> [Tokens -> Nat]]
          /\ paid' \in [Accounts -> [Pairs -> Nat]]
        <3> HIDE DEF R
        <3> QED
            BY <2>1, <2>2, <2>3, DistributionType
    <2>5. /\ openRequests' \subseteq [platform : Platforms, id : RequestId, kind : RequestKind]
          /\ pendingDistributionSmartAccount' \in [RequestId -> Accounts \cup {NoAccount}]
          /\ pendingDistributionRequestId' \in [Accounts -> {0} \cup RequestId]
          /\ distributionRetryCount' \in [Accounts -> Nat]
        BY <1>5, <2>1 DEF HandleDistributionResponse, TypeOK
    <2> HIDE DEF R
    <2> QED
        BY <1>5, <2>4, <2>5 DEF HandleDistributionResponse, TypeOK
<1> QED
    BY <1>2, <1>3, <1>4, <1>5 DEF AgentStep

\* Schedule events and manual executions.
LEMMA PayoutType ==
    ASSUME TypeOK, PayoutStep
    PROVE  TypeOK'
<1> USE DEF planVars, proposalVars, progressVars, configVars, fundVars, heartbeatVars,
            distributionVars, platformVars, scheduleVars, agentVars, worldVars
<1>1. ASSUME NEW s \in Time, NEW raw \in Time, OnEvent(s, raw)
      PROVE  TypeOK'
    <2>1. PICK out : /\ \A a \in Reached(raw) : out[a] \in TransferOutcomes(a)
                     /\ ExecuteDistribution(Reached(raw), out)
        BY <1>1 DEF OnEvent
    <2>2. Reached(raw) \in SUBSET Accounts
        BY DEF Reached
    <2>3. subscriptions' \subseteq Time
        BY <1>1 DEF OnEvent, TypeOK
    <2> QED
        BY <1>1, <2>1, <2>2, <2>3, DistributionType DEF OnEvent, TypeOK
<1>2. ASSUME NEW s \in Time, LoseEvent(s)
      PROVE  TypeOK'
    BY <1>2 DEF LoseEvent, TypeOK
<1>3. ASSUME NEW a \in Accounts, ExecuteInheritance(a)
      PROVE  TypeOK'
    <2>1. PICK o \in TransferOutcomes(a) : ExecuteDistribution({a}, [b \in {a} |-> o])
        BY <1>3 DEF ExecuteInheritance
    <2>2. \A b \in {a} : [c \in {a} |-> o][b] \in TransferOutcomes(b)
        BY <2>1
    <2>3. {a} \in SUBSET Accounts
        OBVIOUS
    <2> QED
        BY <1>3, <2>1, <2>2, <2>3, DistributionType DEF ExecuteInheritance, TypeOK
<1> QED
    BY <1>1, <1>2, <1>3 DEF PayoutStep

\* Every variable keeps its type in every reachable state, whatever the amounts,
\* lists, platforms and outcomes of transfers.
THEOREM TypeCorrect == Spec => []TypeOK
<1>1. Init => TypeOK
    BY InitType
<1>2. TypeOK /\ [Next]_vars => TypeOK'
    <2>1. CASE Next
        BY <2>1, OwnerType, FundingAndWorldType, AgentType, PayoutType DEF Next
    <2>2. CASE UNCHANGED vars
        BY <2>2 DEF TypeOK, vars, planVars, proposalVars, progressVars, configVars, fundVars,
            heartbeatVars, distributionVars, platformVars, scheduleVars, agentVars, worldVars
    <2> QED
        BY <2>1, <2>2
<1> QED
    BY <1>1, <1>2, PTL DEF Spec

-----------------------------------------------------------------------------
(* The tables of the agent requests, and the retries they pay for. *)

\* Some request id on record is a distribution request for the account.
Awaited(a) == \E id \in RequestId : pendingDistributionSmartAccount[id] = a

\* RequestsAgree for one id, heartbeats and distributions apart.
HeartbeatAgrees(id) ==
    LET a == pendingHeartbeatSmartAccount[id] IN a # NoAccount =>
        /\ pendingHeartbeatRequestId[a] = id
        /\ \E r \in openRequests : r.id = id /\ r.kind = "heartbeat"

DistributionAgrees(id) ==
    LET a == pendingDistributionSmartAccount[id] IN a # NoAccount =>
        /\ pendingDistributionRequestId[a] = id
        /\ \E r \in openRequests : r.id = id /\ r.kind = "distribution"

\* RequestsAgree is the two halves together.
LEMMA AgreementHalves ==
    /\ RequestsAgree <=> \A id \in RequestId : HeartbeatAgrees(id) /\ DistributionAgrees(id)
    /\ RequestsAgree' <=> \A id \in RequestId : HeartbeatAgrees(id)' /\ DistributionAgrees(id)'
BY DEF RequestsAgree, HeartbeatAgrees, DistributionAgrees

\* The request tables after a step that leaves them, and the requests of their kind, alone.
LEMMA HeartbeatsUntouched ==
    ASSUME NEW id \in RequestId, HeartbeatAgrees(id), UNCHANGED heartbeatVars,
           \A r \in openRequests : r.kind = "heartbeat" => r \in openRequests'
    PROVE  HeartbeatAgrees(id)'
BY DEF HeartbeatAgrees, heartbeatVars

LEMMA DistributionsUntouched ==
    ASSUME NEW id \in RequestId, DistributionAgrees(id), UNCHANGED distributionVars,
           \A r \in openRequests : r.kind = "distribution" => r \in openRequests'
    PROVE  DistributionAgrees(id)'
BY DEF DistributionAgrees, distributionVars

\* A trigger files the new id under the account that waits for it: the account waited
\* for nothing before, so no other id is on record for it.
LEMMA TriggerKeepsAgreement ==
    ASSUME TypeOK, RequestsAgree, NEW a \in Accounts,
           TriggerAgentHeartbeat(a) \/ TriggerDistributionAgent(a)
    PROVE  RequestsAgree'
<1> DEFINE new == lastRequestId[agentPlatform] + 1
<1>1. /\ new \in RequestId /\ NoAccount \notin Accounts
      /\ \A id \in RequestId : id # 0 /\ HeartbeatAgrees(id) /\ DistributionAgrees(id)
    BY ConstantsAssumption, AgreementHalves DEF ConstantsAssumption, RequestId,
        TriggerAgentHeartbeat, TriggerDistributionAgent, RequestAgent
<1>2. CASE TriggerAgentHeartbeat(a)
    <2>1. /\ pendingHeartbeatRequestId[a] = 0
          /\ pendingHeartbeatSmartAccount' = [pendingHeartbeatSmartAccount EXCEPT ![new] = a]
          /\ pendingHeartbeatRequestId' = [pendingHeartbeatRequestId EXCEPT ![a] = new]
          /\ openRequests' = openRequests \cup
                {[platform |-> agentPlatform, id |-> new, kind |-> "heartbeat"]}
          /\ UNCHANGED distributionVars
        BY <1>2 DEF TriggerAgentHeartbeat, HeartbeatIdle, RequestAgent
    <2>2. /\ pendingHeartbeatSmartAccount \in [RequestId -> Accounts \cup {NoAccount}]
          /\ pendingHeartbeatRequestId \in [Accounts -> {0} \cup RequestId]
        BY DEF TypeOK
    <2> HIDE DEF new
    <2>3. ASSUME NEW id \in RequestId PROVE HeartbeatAgrees(id)'
        <3>1. CASE id = new
            <4>1. pendingHeartbeatSmartAccount'[id] = a /\ pendingHeartbeatRequestId'[a] = id
                BY <1>1, <2>1, <2>2, <3>1
            <4>2. \E r \in openRequests' : r.id = id /\ r.kind = "heartbeat"
                <5> DEFINE sent == [platform |-> agentPlatform, id |-> new, kind |-> "heartbeat"]
                <5>1. sent \in openRequests' /\ sent.id = id /\ sent.kind = "heartbeat"
                    BY <2>1, <3>1
                <5> QED
                    BY <5>1
            <4> QED
                BY <4>1, <4>2 DEF HeartbeatAgrees
        <3>2. CASE id # new
            BY <1>1, <2>1, <2>2, <3>2 DEF HeartbeatAgrees
        <3> QED
            BY <3>1, <3>2
    <2>4. ASSUME NEW id \in RequestId PROVE DistributionAgrees(id)'
        BY <1>1, <2>1, DistributionsUntouched
    <2> QED
        BY <2>3, <2>4, AgreementHalves
<1>3. CASE TriggerDistributionAgent(a)
    <2>1. /\ pendingDistributionRequestId[a] = 0
          /\ pendingDistributionSmartAccount' =
                [pendingDistributionSmartAccount EXCEPT ![new] = a]
          /\ pendingDistributionRequestId' = [pendingDistributionRequestId EXCEPT ![a] = new]
          /\ openRequests' = openRequests \cup
                {[platform |-> agentPlatform, id |-> new, kind |-> "distribution"]}
          /\ UNCHANGED heartbeatVars
        BY <1>3 DEF TriggerDistributionAgent, RequestAgent
    <2>2. /\ pendingDistributionSmartAccount \in [RequestId -> Accounts \cup {NoAccount}]
          /\ pendingDistributionRequestId \in [Accounts -> {0} \cup RequestId]
        BY DEF TypeOK
    <2> HIDE DEF new
    <2>3. ASSUME NEW id \in RequestId PROVE DistributionAgrees(id)'
        <3>1. CASE id = new
            <4>1. pendingDistributionSmartAccount'[id] = a /\ pendingDistributionRequestId'[a] = id
                BY <1>1, <2>1, <2>2, <3>1
            <4>2. \E r \in openRequests' : r.id = id /\ r.kind = "distribution"
                <5> DEFINE sent == [platform |-> agentPlatform, id |-> new, kind |-> "distribution"]
                <5>1. sent \in openRequests' /\ sent.id = id /\ sent.kind = "distribution"
                    BY <2>1, <3>1
                <5> QED
                    BY <5>1
            <4> QED
                BY <4>1, <4>2 DEF DistributionAgrees
        <3>2. CASE id # new
            BY <1>1, <2>1, <2>2, <3>2 DEF DistributionAgrees
        <3> QED
            BY <3>1, <3>2
    <2>4. ASSUME NEW id \in RequestId PROVE HeartbeatAgrees(id)'
        BY <1>1, <2>1, HeartbeatsUntouched
    <2> QED
        BY <2>3, <2>4, AgreementHalves
<1> QED
    BY <1>2, <1>3

\* An answer takes its own id off both tables; another id belongs to another account,
\* for the answered account waited for this one.
LEMMA AnswerKeepsAgreement ==
    ASSUME TypeOK, RequestsAgree, NEW r \in openRequests, NEW success \in BOOLEAN,
           HandleHeartbeatResponse(r, success) \/ HandleDistributionResponse(r, success)
    PROVE  RequestsAgree'
<1>1. \A id \in RequestId : HeartbeatAgrees(id) /\ DistributionAgrees(id)
    BY AgreementHalves
<1>2. CASE HandleHeartbeatResponse(r, success)
    <2>1. PICK a \in Accounts : a = pendingHeartbeatSmartAccount[r.id] /\ a # NoAccount
        BY <1>2 DEF HandleHeartbeatResponse, TypeOK
    <2>2. /\ r.kind = "heartbeat" /\ r.id \in RequestId
          /\ openRequests' = openRequests \ {r}
          /\ pendingHeartbeatSmartAccount' =
                [pendingHeartbeatSmartAccount EXCEPT ![r.id] = NoAccount]
          /\ pendingHeartbeatRequestId' = [pendingHeartbeatRequestId EXCEPT ![a] = 0]
          /\ UNCHANGED distributionVars
        BY <1>2, <2>1 DEF HandleHeartbeatResponse, TypeOK
    <2>3. /\ pendingHeartbeatSmartAccount \in [RequestId -> Accounts \cup {NoAccount}]
          /\ pendingHeartbeatRequestId \in [Accounts -> {0} \cup RequestId]
        BY DEF TypeOK
    <2>4. ASSUME NEW id \in RequestId PROVE HeartbeatAgrees(id)'
        <3>1. pendingHeartbeatRequestId[a] = r.id
            BY <1>1, <2>1, <2>2 DEF HeartbeatAgrees
        <3> QED
            BY <1>1, <2>1, <2>2, <2>3, <3>1 DEF HeartbeatAgrees
    <2>5. ASSUME NEW id \in RequestId PROVE DistributionAgrees(id)'
        BY <1>1, <2>2, DistributionsUntouched
    <2> QED
        BY <2>4, <2>5, AgreementHalves
<1>3. CASE HandleDistributionResponse(r, success)
    <2>1. PICK a \in Accounts : a = pendingDistributionSmartAccount[r.id] /\ a # NoAccount
        BY <1>3 DEF HandleDistributionResponse, TypeOK
    <2>2. /\ r.kind = "distribution" /\ r.id \in RequestId
          /\ openRequests' = openRequests \ {r}
          /\ pendingDistributionSmartAccount' =
                [pendingDistributionSmartAccount EXCEPT ![r.id] = NoAccount]
          /\ pendingDistributionRequestId' = [pendingDistributionRequestId EXCEPT ![a] = 0]
          /\ UNCHANGED heartbeatVars
        BY <1>3, <2>1 DEF HandleDistributionResponse, TypeOK
    <2>3. /\ pendingDistributionSmartAccount \in [RequestId -> Accounts \cup {NoAccount}]
          /\ pendingDistributionRequestId \in [Accounts -> {0} \cup RequestId]
        BY DEF TypeOK
    <2>4. ASSUME NEW id \in RequestId PROVE DistributionAgrees(id)'
        <3>1. pendingDistributionRequestId[a] = r.id
            BY <1>1, <2>1, <2>2 DEF DistributionAgrees
        <3> QED
            BY <1>1, <2>1, <2>2, <2>3, <3>1 DEF DistributionAgrees
    <2>5. ASSUME NEW id \in RequestId PROVE HeartbeatAgrees(id)'
        BY <1>1, <2>2, HeartbeatsUntouched
    <2> QED
        BY <2>4, <2>5, AgreementHalves
<1> QED
    BY <1>2, <1>3

\* The steps that send and take no agent message, and what they may do to the retries.
LEMMA MessagelessSteps ==
    ASSUME OwnerStep \/ FundingStep \/ PayoutStep \/ WorldStep \/ UNCHANGED vars
    PROVE  /\ UNCHANGED <<heartbeatVars, distributionVars, openRequests>>
           /\ \/ UNCHANGED distributionRetryCount
              \/ \E a \in Accounts :
                    distributionRetryCount' = [distributionRetryCount EXCEPT ![a] = 0]
<1> USE DEF heartbeatVars, distributionVars, platformVars, agentVars, progressVars
<1>1. CASE OwnerStep
    BY <1>1 DEF OwnerStep, CreatePlan, UpdatePlan, ClearDistributionState, CancelPlan, CheckIn,
        ProposeBeneficiaries, ConfirmBeneficiaries, CancelBeneficiariesChange
<1>2. CASE FundingStep
    BY <1>2 DEF FundingStep, FundAgentBudget, FundReactivity, WithdrawReactivityBudget,
        ConfigureAgent, SetAgentRewardPerCall
<1>3. CASE PayoutStep
    BY <1>3 DEF PayoutStep, OnEvent, LoseEvent, ExecuteInheritance
<1>4. CASE WorldStep
    BY <1>4 DEF WorldStep, Tick, ReceiveFunds, SpendFunds
<1>5. CASE UNCHANGED vars
    BY <1>5 DEF vars
<1> QED
    BY <1>1, <1>2, <1>3, <1>4, <1>5

\* Platforms whose ids overlap, answers in any order, and requests nobody answers never
\* bring the two tables apart.
THEOREM RequestTablesAgree == Spec => []RequestsAgree
<1>1. Init => RequestsAgree
    BY DEF Init, RequestsAgree
<1>2. TypeOK /\ RequestsAgree /\ [Next]_vars => RequestsAgree'
    <2> SUFFICES ASSUME TypeOK, RequestsAgree, [Next]_vars PROVE RequestsAgree'
        OBVIOUS
    <2>1. CASE AgentStep
        BY <2>1, TriggerKeepsAgreement, AnswerKeepsAgreement DEF AgentStep
    <2>2. CASE OwnerStep \/ FundingStep \/ PayoutStep \/ WorldStep \/ UNCHANGED vars
        BY <2>2, MessagelessSteps DEF RequestsAgree, heartbeatVars, distributionVars
    <2> QED
        BY <2>1, <2>2 DEF Next
<1> QED
    BY <1>1, <1>2, TypeCorrect, PTL DEF Spec

\* An account with k answers counted, and awaiting another or not, is within the bound.
WithinRetries(a) ==
    distributionRetryCount[a] + (IF Awaited(a) THEN 1 ELSE 0) <= MaxRetries

\* RetriesBounded is that of every account.
LEMMA RetriesByAccount ==
    /\ RetriesBounded <=> \A a \in Accounts : WithinRetries(a)
    /\ RetriesBounded' <=> \A a \in Accounts : WithinRetries(a)'
BY DEF RetriesBounded, WithinRetries, Awaited

\* A count that did not grow, and no request that was not awaited before, stay in bound.
LEMMA FewerRetries ==
    ASSUME TypeOK, TypeOK', NEW a \in Accounts, WithinRetries(a), Awaited(a)' => Awaited(a),
           distributionRetryCount'[a] <= distributionRetryCount[a]
    PROVE  WithinRetries(a)'
<1>1. /\ distributionRetryCount[a] \in Nat /\ distributionRetryCount'[a] \in Nat
      /\ MaxRetries \in Nat
    BY ConstantsAssumption DEF TypeOK, ConstantsAssumption
<1> QED
    BY <1>1 DEF WithinRetries

\* The agent's steps: a trigger is refused at the bound, and an answer counts the one
\* request the account was waiting for.
LEMMA AgentKeepsRetries ==
    ASSUME TypeOK, TypeOK', RequestsAgree, RetriesBounded, AgentStep
    PROVE  RetriesBounded'
<1>0. /\ \A a \in Accounts : WithinRetries(a) /\ distributionRetryCount[a] \in Nat
      /\ \A id \in RequestId : DistributionAgrees(id)
      /\ MaxRetries \in Nat /\ NoAccount \notin Accounts
      /\ distributionRetryCount \in [Accounts -> Nat]
      /\ pendingDistributionSmartAccount \in [RequestId -> Accounts \cup {NoAccount}]
    BY ConstantsAssumption, AgreementHalves, RetriesByAccount DEF TypeOK, ConstantsAssumption
<1>1. ASSUME NEW b \in Accounts, TriggerAgentHeartbeat(b) PROVE RetriesBounded'
    <2>1. UNCHANGED <<distributionVars, distributionRetryCount>>
        BY <1>1 DEF TriggerAgentHeartbeat, progressVars
    <2>2. \A a \in Accounts : WithinRetries(a)'
        BY <1>0, <2>1 DEF WithinRetries, Awaited, distributionVars
    <2> QED
        BY <2>2, RetriesByAccount
<1>2. ASSUME NEW b \in Accounts, TriggerDistributionAgent(b) PROVE RetriesBounded'
    <2> DEFINE new == lastRequestId[agentPlatform] + 1
    <2>1. /\ new \in RequestId /\ distributionRetryCount[b] < MaxRetries
          /\ pendingDistributionSmartAccount' =
                [pendingDistributionSmartAccount EXCEPT ![new] = b]
          /\ distributionRetryCount' = distributionRetryCount
        BY <1>2 DEF TriggerDistributionAgent, RequestAgent, RetryLeft, progressVars
    <2> HIDE DEF new
    <2> SUFFICES ASSUME NEW a \in Accounts PROVE WithinRetries(a)'
        BY RetriesByAccount
    <2>2. CASE a = b
        BY <1>0, <2>1, <2>2 DEF WithinRetries
    <2>3. CASE a # b
        <3>1. Awaited(a)' => Awaited(a)
            BY <1>0, <2>1, <2>3 DEF Awaited
        <3> QED
            BY <1>0, <2>1, <3>1, FewerRetries
    <2> QED
        BY <2>2, <2>3
<1>3. ASSUME NEW r \in openRequests, NEW success \in BOOLEAN,
             HandleHeartbeatResponse(r, success)
      PROVE  RetriesBounded'
    <2>1. UNCHANGED <<distributionVars, distributionRetryCount>>
        BY <1>3 DEF HandleHeartbeatResponse, progressVars
    <2>2. \A a \in Accounts : WithinRetries(a)'
        BY <1>0, <2>1 DEF WithinRetries, Awaited, distributionVars
    <2> QED
        BY <2>2, RetriesByAccount
<1>4. ASSUME NEW r \in openRequests, NEW success \in BOOLEAN,
             HandleDistributionResponse(r, success)
      PROVE  RetriesBounded'
    <2>1. PICK b \in Accounts : b = pendingDistributionSmartAccount[r.id] /\ b # NoAccount
        BY <1>4 DEF HandleDistributionResponse, TypeOK
    <2>2. /\ r.id \in RequestId
          /\ pendingDistributionSmartAccount' =
                [pendingDistributionSmartAccount EXCEPT ![r.id] = NoAccount]
          /\ distributionRetryCount' = [distributionRetryCount EXCEPT ![b] = @ + 1]
        BY <1>4, <2>1 DEF HandleDistributionResponse, TypeOK
    <2> SUFFICES ASSUME NEW a \in Accounts PROVE WithinRetries(a)'
        BY RetriesByAccount
    <2>3. CASE a = b
        <3>1. Awaited(a) /\ distributionRetryCount[a] + 1 <= MaxRetries
            BY <1>0, <2>1, <2>2, <2>3 DEF WithinRetries, Awaited
        <3>2. \A id \in RequestId : pendingDistributionSmartAccount[id] = a => id = r.id
            BY <1>0, <2>1, <2>2, <2>3 DEF DistributionAgrees
        <3>3. ~Awaited(a)'
            BY <1>0, <2>1, <2>2, <2>3, <3>2 DEF Awaited
        <3>4. distributionRetryCount'[a] = distributionRetryCount[a] + 1
            BY <1>0, <2>2, <2>3
        <3> QED
            BY <1>0, <3>1, <3>3, <3>4 DEF WithinRetries
    <2>4. CASE a # b
        <3>1. Awaited(a)' => Awaited(a)
            BY <1>0, <2>2 DEF Awaited
        <3>2. distributionRetryCount'[a] = distributionRetryCount[a]
            BY <1>0, <2>2, <2>4
        <3> QED
            BY <1>0, <3>1, <3>2, FewerRetries
    <2> QED
        BY <2>3, <2>4
<1> QED
    BY <1>1, <1>2, <1>3, <1>4 DEF AgentStep

\* No mix of lost, late and failing answers, plan changes and platforms lets a plan spend
\* more than its distribution attempts through the agent.
THEOREM RetriesStayBounded == Spec => []RetriesBounded
<1>1. Init => RetriesBounded
    <2>1. MaxRetries \in Nat \ {0} /\ NoAccount \notin Accounts
        BY ConstantsAssumption DEF ConstantsAssumption
    <2>2. ASSUME Init, NEW a \in Accounts PROVE distributionRetryCount[a] = 0 /\ ~Awaited(a)
        BY <2>1, <2>2 DEF Init, Awaited
    <2> QED
        BY <2>1, <2>2, RetriesByAccount DEF WithinRetries
<1>2. TypeOK /\ TypeOK' /\ RequestsAgree /\ RetriesBounded /\ [Next]_vars => RetriesBounded'
    <2> SUFFICES ASSUME TypeOK, TypeOK', RequestsAgree, RetriesBounded, [Next]_vars
                 PROVE  RetriesBounded'
        OBVIOUS
    <2>1. CASE AgentStep
        BY <2>1, AgentKeepsRetries
    <2>2. CASE OwnerStep \/ FundingStep \/ PayoutStep \/ WorldStep \/ UNCHANGED vars
        <3> SUFFICES ASSUME NEW a \in Accounts PROVE WithinRetries(a)'
            BY RetriesByAccount
        <3>1. Awaited(a)' => Awaited(a)
            BY <2>2, MessagelessSteps DEF Awaited, distributionVars
        <3>2. distributionRetryCount \in [Accounts -> Nat]
            BY DEF TypeOK
        <3>3. distributionRetryCount'[a] <= distributionRetryCount[a]
            BY <2>2, <3>2, MessagelessSteps
        <3> QED
            BY <3>1, <3>3, FewerRetries, RetriesByAccount
    <2> QED
        BY <2>1, <2>2 DEF Next
<1> QED
    BY <1>1, <1>2, TypeCorrect, RequestTablesAgree, PTL DEF Spec
=============================================================================
