----------------------- MODULE InheritanceSafetyProofs -----------------------
(***************************************************************************)
(* The safety of the registry, for every value of the constants: nothing   *)
(* is paid in grace, the schedule on record is the current one, a plan     *)
(* closed as executed has paid, a distribution that has begun keeps its    *)
(* plan, and the contract implements the promise of DeadManSwitch.         *)
(***************************************************************************)
EXTENDS InheritanceRegistryProofs, InheritanceRefinement, CollectionTheorems

\* The clock and the dates of a plan are naturals, and the timelock ends no earlier
\* than the grace period.
LEMMA Dates ==
    ASSUME TypeOK, NEW a \in Accounts
    PROVE  /\ now \in Nat
           /\ GraceEndsAt(a) \in Nat /\ TimelockEndsAt(a) \in Nat
           /\ GraceEndsAt(a) <= TimelockEndsAt(a)
           /\ TimelockEndsAt(a) = plans[a].last + Length(plans[a].terms)
<1>1. now \in Nat /\ Time \subseteq Nat
    BY ConstantsAssumption DEF TypeOK, Time, ConstantsAssumption
<1>2. plans[a] \in [state : PlanState, terms : Terms, last : Time]
    BY DEF TypeOK
<1>3. /\ plans[a].last \in Nat /\ plans[a].terms.hb \in Nat
      /\ plans[a].terms.grace \in Nat /\ plans[a].terms.lock \in Nat
    BY <1>1, <1>2 DEF Terms
<1> QED
    BY <1>1, <1>3 DEF GraceEndsAt, TimelockEndsAt, Length

\* What the owner can still act on has not been touched.
LEMMA InTimeUntouched ==
    ASSUME TypeOK, ProgressFollowsPlan, NEW a \in Accounts \ renewedLate, OwnerInTime(a)
    PROVE  Untouched(a)
BY Dates DEF ProgressFollowsPlan, ProgressInPlan, OwnerInTime

\* Clearing through the lists of the plan leaves no progress.
LEMMA ClearUntouches ==
    ASSUME TypeOK, ProgressFollowsPlan, NEW a \in Accounts \ renewedLate,
           ClearDistributionState(a)
    PROVE  Untouched(a)'
<1>1. \/ Untouched(a)
      \/ /\ assetSettled[a] \subseteq protectedAssets[a] \X DOMAIN beneficiaries[a]
         /\ assetSnapshotSet[a] \subseteq protectedAssets[a]
    BY DEF ProgressFollowsPlan, ProgressInPlan, TypeOK, PlanState
<1>2. /\ assetSettled'[a] = assetSettled[a] \ (protectedAssets[a] \X DOMAIN beneficiaries[a])
      /\ assetSnapshotSet'[a] = assetSnapshotSet[a] \ protectedAssets[a]
      /\ \A p \in Pairs : paid'[a][p] = 0
    BY DEF ClearDistributionState, TypeOK
<1> QED
    BY <1>1, <1>2 DEF Untouched

\* A plan that has not been touched satisfies the invariant whatever its state.
LEMMA UntouchedSuffices ==
    ASSUME NEW a \in Accounts, Untouched(a)'
    PROVE  ProgressInPlan(a)'
BY DEF Untouched, ProgressInPlan

\* A step that leaves the plan and the progress of an account alone keeps its invariant,
\* and time may pass.
LEMMA SameAccount ==
    ASSUME NEW a \in Accounts, ProgressInPlan(a), now \in Nat, now' \in Nat, now <= now',
           TimelockEndsAt(a) \in Nat,
           plans'[a] = plans[a], beneficiaries'[a] = beneficiaries[a],
           protectedAssets'[a] = protectedAssets[a],
           assetSettled'[a] = assetSettled[a], assetSnapshotSet'[a] = assetSnapshotSet[a],
           paid'[a] = paid[a]
    PROVE  ProgressInPlan(a)'
<1>1. Untouched(a) <=> Untouched(a)'
    BY DEF Untouched
<1>2. TimelockEndsAt(a)' = TimelockEndsAt(a) /\ (Active(a)' <=> Active(a))
    BY DEF TimelockEndsAt, GraceEndsAt, Active
<1>3. now' < TimelockEndsAt(a) => now < TimelockEndsAt(a)
    OBVIOUS
<1> QED
    BY <1>1, <1>2, <1>3 DEF ProgressInPlan

\* What one call of _executeDistribution does to the progress of one account.
LEMMA DistributionProgress ==
    ASSUME TypeOK, NEW R \in SUBSET Accounts, NEW out,
           \A a \in R : out[a] \in TransferOutcomes(a),
           ExecuteDistribution(R, out), NEW a \in Accounts
    PROVE  /\ a \notin R => /\ plans'[a] = plans[a]
                            /\ assetSettled'[a] = assetSettled[a]
                            /\ assetSnapshotSet'[a] = assetSnapshotSet[a]
                            /\ paid'[a] = paid[a]
           /\ a \in R =>
                 /\ plans'[a].terms = plans[a].terms /\ plans'[a].last = plans[a].last
                 /\ plans'[a].state \in {plans[a].state, "Executed"}
                 /\ assetSettled'[a] \subseteq
                       assetSettled[a] \cup protectedAssets[a] \X DOMAIN beneficiaries[a]
                 /\ assetSnapshotSet'[a] = assetSnapshotSet[a] \cup protectedAssets[a]
<1>0. plans[a] \in [state : PlanState, terms : Terms, last : Time]
    BY DEF TypeOK
<1>1. CASE a \notin R
    BY <1>1 DEF ExecuteDistribution
<1>2. CASE a \in R
    <2>1. out[a].ok \subseteq protectedAssets[a] \X DOMAIN beneficiaries[a]
        BY <1>2 DEF TransferOutcomes, Due
    <2>2. assetSettled'[a] = assetSettled[a] \cup out[a].ok
        BY <1>2 DEF ExecuteDistribution
    <2>3. assetSnapshotSet'[a] = assetSnapshotSet[a] \cup protectedAssets[a]
        BY <1>2 DEF ExecuteDistribution
    <2>4. plans'[a] = plans[a] \/ plans'[a] = [plans[a] EXCEPT !.state = "Executed"]
        BY DEF ExecuteDistribution
    <2>5. /\ plans'[a].terms = plans[a].terms /\ plans'[a].last = plans[a].last
          /\ plans'[a].state \in {plans[a].state, "Executed"}
        BY <1>0, <2>4
    <2> QED
        BY <1>2, <2>1, <2>2, <2>3, <2>5
<1> QED
    BY <1>1, <1>2

\* A distribution for accounts past their timelock keeps the invariant.
LEMMA DistributionKeepsProgress ==
    ASSUME TypeOK, ProgressFollowsPlan, NEW R \in SUBSET Accounts, NEW out,
           \A a \in R : out[a] \in TransferOutcomes(a) /\ Distributable(a),
           ExecuteDistribution(R, out),
           UNCHANGED <<now, beneficiaries, protectedAssets, renewedLate>>
    PROVE  ProgressFollowsPlan'
<1> SUFFICES ASSUME NEW a \in Accounts \ renewedLate
             PROVE  /\ plans'[a].state \in {"None", "Cancelled"} => Untouched(a)'
                    /\ Active(a)' /\ now < TimelockEndsAt(a)' => Untouched(a)'
                    /\ plans'[a].state \in {"Active", "Executed"} =>
                          /\ assetSettled'[a] \subseteq
                                protectedAssets[a] \X DOMAIN beneficiaries[a]
                          /\ assetSnapshotSet'[a] \subseteq protectedAssets[a]
    BY DEF ProgressFollowsPlan, ProgressInPlan
<1>1. CASE a \notin R
    <2>1. /\ plans'[a] = plans[a] /\ assetSettled'[a] = assetSettled[a]
          /\ assetSnapshotSet'[a] = assetSnapshotSet[a] /\ paid'[a] = paid[a]
        BY <1>1, DistributionProgress
    <2> QED
        BY <2>1 DEF ProgressFollowsPlan, ProgressInPlan, Untouched, Active, TimelockEndsAt, GraceEndsAt
<1>2. CASE a \in R
    <2>1. Active(a) /\ now >= TimelockEndsAt(a)
        BY <1>2 DEF Distributable, TimelockReady
    <2>2. /\ plans'[a].terms = plans[a].terms /\ plans'[a].last = plans[a].last
          /\ plans'[a].state \in {"Active", "Executed"}
          /\ assetSettled'[a] \subseteq
                assetSettled[a] \cup protectedAssets[a] \X DOMAIN beneficiaries[a]
          /\ assetSnapshotSet'[a] = assetSnapshotSet[a] \cup protectedAssets[a]
        BY <1>2, <2>1, DistributionProgress DEF Active
    <2>3. TimelockEndsAt(a)' = TimelockEndsAt(a)
        BY <2>2 DEF TimelockEndsAt, GraceEndsAt
    <2>4. ~(now < TimelockEndsAt(a)')
        BY <2>1, <2>3, Dates
    <2>5. /\ assetSettled[a] \subseteq protectedAssets[a] \X DOMAIN beneficiaries[a]
          /\ assetSnapshotSet[a] \subseteq protectedAssets[a]
        BY <2>1 DEF ProgressFollowsPlan, ProgressInPlan, Active
    <2> QED
        BY <2>2, <2>4, <2>5
<1> QED
    BY <1>1, <1>2

\* A step of the owner of one account keeps the invariant.
LEMMA OwnerKeepsProgress ==
    ASSUME TypeOK, ProgressFollowsPlan, OwnerStep
    PROVE  ProgressFollowsPlan'
<1> USE DEF planVars, progressVars, agentVars, worldVars
<1> PICK b \in Accounts :
        \/ \E s \in ShareChoices, A \in AssetChoices, t \in TermChoices :
              CreatePlan(b, s, A, t) \/ UpdatePlan(b, s, A, t)
        \/ CancelPlan(b)
        \/ CheckIn(b)
        \/ \E s \in ProposalChoices : ProposeBeneficiaries(b, s)
        \/ ConfirmBeneficiaries(b)
        \/ CancelBeneficiariesChange(b)
    BY DEF OwnerStep
<1>0. now' = now /\ renewedLate' = renewedLate
    BY DEF CreatePlan, UpdatePlan, CancelPlan, CheckIn, ProposeBeneficiaries,
        ConfirmBeneficiaries, CancelBeneficiariesChange
<1> SUFFICES ASSUME NEW a \in Accounts \ renewedLate PROVE ProgressInPlan(a)'
    BY <1>0 DEF ProgressFollowsPlan
<1>1. ProgressInPlan(a) /\ now \in Nat /\ TimelockEndsAt(a) \in Nat
    BY Dates DEF ProgressFollowsPlan
<1>2. ASSUME a # b PROVE ProgressInPlan(a)'
    <2>1. /\ plans'[a] = plans[a] /\ beneficiaries'[a] = beneficiaries[a]
          /\ protectedAssets'[a] = protectedAssets[a]
          /\ assetSettled'[a] = assetSettled[a] /\ assetSnapshotSet'[a] = assetSnapshotSet[a]
          /\ paid'[a] = paid[a]
        BY <1>2 DEF TypeOK, ClearDistributionState, CreatePlan, UpdatePlan, CancelPlan, CheckIn,
            ProposeBeneficiaries, ConfirmBeneficiaries, CancelBeneficiariesChange
    <2> QED
        BY <1>0, <1>1, <2>1, SameAccount
<1>3. ASSUME a = b,
             NEW s \in ShareChoices, NEW A \in AssetChoices, NEW t \in TermChoices,
             CreatePlan(b, s, A, t) \/ UpdatePlan(b, s, A, t)
      PROVE  ProgressInPlan(a)'
    BY <1>3, ClearUntouches, UntouchedSuffices DEF CreatePlan, UpdatePlan
<1>4. ASSUME a = b, CancelPlan(b) \/ CheckIn(b) \/ ConfirmBeneficiaries(b)
      PROVE  ProgressInPlan(a)'
    <2>1. Untouched(a)
        BY <1>4, InTimeUntouched DEF CancelPlan, CheckIn, ConfirmBeneficiaries
    <2>2. Untouched(a)'
        BY <1>4, <2>1 DEF Untouched, CancelPlan, CheckIn, ConfirmBeneficiaries
    <2> QED
        BY <2>2, UntouchedSuffices
<1>5. ASSUME a = b,
             (\E s \in ProposalChoices : ProposeBeneficiaries(b, s)) \/ CancelBeneficiariesChange(b)
      PROVE  ProgressInPlan(a)'
    BY <1>0, <1>1, <1>5, SameAccount DEF ProposeBeneficiaries, CancelBeneficiariesChange
<1> QED
    BY <1>2, <1>3, <1>4, <1>5

\* The steps that touch neither plans nor progress, and the agent's answers.
LEMMA OtherStepsKeepProgress ==
    ASSUME TypeOK, TypeOK', ProgressFollowsPlan, FundingStep \/ AgentStep \/ WorldStep
    PROVE  ProgressFollowsPlan'
<1> USE DEF planVars, progressVars, agentVars, worldVars
<1>1. ASSUME UNCHANGED <<planVars, progressVars, renewedLate>>, now <= now'
      PROVE  ProgressFollowsPlan'
    <2>1. now \in Nat /\ now' \in Nat
        BY ConstantsAssumption DEF TypeOK, Time, ConstantsAssumption
    <2> QED
        BY <1>1, <2>1, Dates, SameAccount DEF ProgressFollowsPlan
<1>2. now \in Nat
    BY ConstantsAssumption DEF TypeOK, Time, ConstantsAssumption
<1>3. CASE FundingStep
    BY <1>1, <1>2, <1>3 DEF FundingStep, FundAgentBudget, FundReactivity,
        WithdrawReactivityBudget, ConfigureAgent, SetAgentRewardPerCall
<1>4. CASE WorldStep
    BY <1>1, <1>2, <1>4 DEF WorldStep, Tick, ReceiveFunds, SpendFunds
<1>5. ASSUME NEW a \in Accounts, TriggerAgentHeartbeat(a) \/ TriggerDistributionAgent(a)
      PROVE  ProgressFollowsPlan'
    BY <1>1, <1>2, <1>5 DEF TriggerAgentHeartbeat, TriggerDistributionAgent
<1>6. ASSUME NEW r \in openRequests, NEW success \in BOOLEAN,
             HandleHeartbeatResponse(r, success)
      PROVE  ProgressFollowsPlan'
    <2> DEFINE b == pendingHeartbeatSmartAccount[r.id]
    <2>1. b \in Accounts
        BY <1>6 DEF HandleHeartbeatResponse, TypeOK
    <2>2. CASE ~(success /\ Active(b))
        BY <1>1, <1>2, <1>6, <2>2 DEF HandleHeartbeatResponse
    <2>3. CASE success /\ Active(b)
        <3>1. /\ plans' = [plans EXCEPT ![b].last = now]
              /\ renewedLate' = renewedLate \cup {c \in {b} : now >= GraceEndsAt(c)}
              /\ now' = now /\ beneficiaries' = beneficiaries
              /\ protectedAssets' = protectedAssets /\ UNCHANGED progressVars
            BY <1>6, <2>3 DEF HandleHeartbeatResponse
        <3> SUFFICES ASSUME NEW a \in Accounts, a \notin renewedLate' PROVE ProgressInPlan(a)'
            BY DEF ProgressFollowsPlan
        <3>2. a \in Accounts \ renewedLate
            BY <3>1
        <3>3. CASE a = b
            <4>1. OwnerInTime(a)
                BY <2>3, <3>1, <3>3, <1>2, Dates DEF OwnerInTime
            <4>2. Untouched(a)
                BY <3>2, <4>1, InTimeUntouched
            <4>3. Untouched(a)'
                BY <3>1, <4>2 DEF Untouched
            <4> QED
                BY <4>3, UntouchedSuffices
        <3>4. CASE a # b
            BY <1>2, <3>1, <3>2, <3>4, Dates, SameAccount DEF ProgressFollowsPlan, TypeOK
        <3> QED
            BY <3>3, <3>4
    <2> QED
        BY <2>2, <2>3
<1>7. ASSUME NEW r \in openRequests, NEW success \in BOOLEAN,
             HandleDistributionResponse(r, success)
      PROVE  ProgressFollowsPlan'
    <2> DEFINE a == pendingDistributionSmartAccount[r.id]
               R == {b \in {a} : success /\ Distributable(b)}
    <2>1. R \in SUBSET Accounts
        BY <1>7 DEF HandleDistributionResponse, TypeOK
    <2>2. PICK o \in TransferOutcomes(a) : ExecuteDistribution(R, [b \in R |-> o])
        BY <1>7 DEF HandleDistributionResponse
    <2>3. \A b \in R : [c \in R |-> o][b] \in TransferOutcomes(b) /\ Distributable(b)
        BY <2>2
    <2>4. UNCHANGED <<now, beneficiaries, protectedAssets, renewedLate>>
        BY <1>7 DEF HandleDistributionResponse
    <2> HIDE DEF R
    <2> QED
        BY <2>1, <2>2, <2>3, <2>4, DistributionKeepsProgress
<1> QED
    BY <1>3, <1>4, <1>5, <1>6, <1>7 DEF AgentStep

\* Schedule events and manual executions.
LEMMA PayoutKeepsProgress ==
    ASSUME TypeOK, ProgressFollowsPlan, PayoutStep
    PROVE  ProgressFollowsPlan'
<1> USE DEF planVars, progressVars, agentVars, worldVars
<1>1. ASSUME NEW s \in Time, NEW raw \in Time, OnEvent(s, raw)
      PROVE  ProgressFollowsPlan'
    <2>1. PICK out : /\ \A a \in Reached(raw) : out[a] \in TransferOutcomes(a)
                     /\ ExecuteDistribution(Reached(raw), out)
        BY <1>1 DEF OnEvent
    <2>2. Reached(raw) \in SUBSET Accounts /\ \A a \in Reached(raw) : Distributable(a)
        BY DEF Reached
    <2>3. UNCHANGED <<now, beneficiaries, protectedAssets, renewedLate>>
        BY <1>1 DEF OnEvent
    <2> QED
        BY <2>1, <2>2, <2>3, DistributionKeepsProgress
<1>2. ASSUME NEW s \in Time, LoseEvent(s)
      PROVE  ProgressFollowsPlan'
    BY <1>2, Dates, SameAccount DEF LoseEvent, ProgressFollowsPlan
<1>3. ASSUME NEW a \in Accounts, ExecuteInheritance(a)
      PROVE  ProgressFollowsPlan'
    <2>1. PICK o \in TransferOutcomes(a) : ExecuteDistribution({a}, [b \in {a} |-> o])
        BY <1>3 DEF ExecuteInheritance
    <2>2. \A b \in {a} : [c \in {a} |-> o][b] \in TransferOutcomes(b) /\ Distributable(b)
        BY <1>3, <2>1 DEF ExecuteInheritance
    <2>3. UNCHANGED <<now, beneficiaries, protectedAssets, renewedLate>> /\ {a} \in SUBSET Accounts
        BY <1>3 DEF ExecuteInheritance
    <2> QED
        BY <2>1, <2>2, <2>3, DistributionKeepsProgress
<1> QED
    BY <1>1, <1>2, <1>3 DEF PayoutStep

\* The progress of a distribution belongs to the plan in force, in every reachable
\* state and for all lists, terms, platforms and faults.
THEOREM ProgressCorrect == Spec => []ProgressFollowsPlan
<1>1. Init => ProgressFollowsPlan
    BY DEF Init, ProgressFollowsPlan, ProgressInPlan, Untouched, Active
<1>2. TypeOK /\ TypeOK' /\ ProgressFollowsPlan /\ [Next]_vars => ProgressFollowsPlan'
    <2> SUFFICES ASSUME TypeOK, TypeOK', ProgressFollowsPlan, [Next]_vars
                 PROVE  ProgressFollowsPlan'
        OBVIOUS
    <2>1. CASE Next
        BY <2>1, OwnerKeepsProgress, OtherStepsKeepProgress, PayoutKeepsProgress DEF Next
    <2>2. CASE UNCHANGED vars
        BY <2>2, Dates, SameAccount DEF ProgressFollowsPlan, vars, planVars, progressVars,
            worldVars
    <2> QED
        BY <2>1, <2>2
<1> QED
    BY <1>1, <1>2, TypeCorrect, PTL DEF Spec

\* The owner of a plan that no late answer renewed never loses anything to it while the
\* plan can still be vetoed.
THEOREM GraceIsSafe == Spec => []NothingPaidInGrace
<1>1. TypeOK /\ ProgressFollowsPlan => NothingPaidInGrace
    BY InTimeUntouched DEF NothingPaidInGrace
<1> QED
    BY <1>1, TypeCorrect, ProgressCorrect, PTL

-----------------------------------------------------------------------------
(* The schedule on record. *)

\* ScheduleIsCurrent, for one account.
OnSchedule(a) ==
    Active(a) /\ now < TimelockEndsAt(a) =>
        /\ currentSchedule[a] = TimelockEndsAt(a)
        /\ a \in scheduledSmartAccounts[TimelockEndsAt(a)]
        /\ "subscribe" \notin Faults => TimelockEndsAt(a) \in subscriptions

\* A step that schedules an account for the end of its new timelock leaves every
\* account on schedule.
LEMMA RenewalSchedules ==
    ASSUME TypeOK, NEW b \in Accounts, NEW s \in Nat, ScheduleDistribution(b, s),
           TimelockEndsAt(b)' = s, now' = now,
           NEW a \in Accounts, OnSchedule(a), a # b => plans'[a] = plans[a]
    PROVE  OnSchedule(a)'
<1>1. now \in Nat /\ Time \subseteq Nat
    BY ConstantsAssumption DEF TypeOK, Time, ConstantsAssumption
<1>2. CASE s <= now
    <2>1. CASE a = b
        BY <1>1, <1>2, <2>1 DEF OnSchedule
    <2>2. CASE a # b
        BY <1>2, <2>2 DEF OnSchedule, ScheduleDistribution, scheduleVars, Active,
            TimelockEndsAt, GraceEndsAt
    <2> QED
        BY <2>1, <2>2
<1>3. CASE ~(s <= now)
    <2>1. /\ currentSchedule' = [currentSchedule EXCEPT ![b] = s]
          /\ scheduledSmartAccounts' =
                [scheduledSmartAccounts EXCEPT ![s] = scheduledSmartAccounts[s] \cup {b}]
          /\ \/ subscriptions' = subscriptions \cup {s}
             \/ "subscribe" \in Faults /\ UNCHANGED subscriptions
        BY <1>3 DEF ScheduleDistribution
    <2>2. s \in Time
        BY ConstantsAssumption DEF ScheduleDistribution, Time, ConstantsAssumption
    <2>3. currentSchedule \in [Accounts -> Time]
          /\ scheduledSmartAccounts \in [Time -> SUBSET Accounts]
        BY DEF TypeOK
    <2>4. CASE a = b
        BY <2>1, <2>2, <2>3, <2>4 DEF OnSchedule
    <2>5. CASE a # b
        <3>1. /\ TimelockEndsAt(a)' = TimelockEndsAt(a) /\ (Active(a)' <=> Active(a))
              /\ currentSchedule'[a] = currentSchedule[a]
            BY <2>1, <2>3, <2>5 DEF Active, TimelockEndsAt, GraceEndsAt
        <3>2. \A t \in Time : scheduledSmartAccounts[t] \subseteq scheduledSmartAccounts'[t]
            BY <2>1, <2>2, <2>3
        <3>3. currentSchedule[a] \in Time
            BY <2>3
        <3> QED
            BY <2>1, <3>1, <3>2, <3>3 DEF OnSchedule
    <2> QED
        BY <2>4, <2>5
<1> QED
    BY <1>2, <1>3

\* A step that re-schedules nothing leaves an account on schedule as long as the only
\* subscriptions it uses up are due, and its plan is as it was or no longer active.
LEMMA QuietKeepsSchedule ==
    ASSUME TypeOK, NEW a \in Accounts, OnSchedule(a),
           UNCHANGED <<currentSchedule, scheduledSmartAccounts>>,
           now' \in Nat, now <= now',
           \A s \in subscriptions \ subscriptions' : s <= now,
           Active(a)' => Active(a) /\ TimelockEndsAt(a)' = TimelockEndsAt(a)
    PROVE  OnSchedule(a)'
<1>1. now \in Nat /\ TimelockEndsAt(a) \in Nat
    BY Dates
<1> QED
    BY <1>1 DEF OnSchedule

\* The owner's steps: a new plan, new terms and a check-in schedule the new date.
LEMMA OwnerKeepsSchedule ==
    ASSUME TypeOK, ScheduleIsCurrent, OwnerStep
    PROVE  ScheduleIsCurrent'
<1> USE DEF planVars, scheduleVars
<1> PICK b \in Accounts :
        \/ \E s \in ShareChoices, A \in AssetChoices, t \in TermChoices :
              CreatePlan(b, s, A, t) \/ UpdatePlan(b, s, A, t)
        \/ CancelPlan(b)
        \/ CheckIn(b)
        \/ \E s \in ProposalChoices : ProposeBeneficiaries(b, s)
        \/ ConfirmBeneficiaries(b)
        \/ CancelBeneficiariesChange(b)
    BY DEF OwnerStep
<1> SUFFICES ASSUME NEW a \in Accounts PROVE OnSchedule(a)'
    BY DEF ScheduleIsCurrent, OnSchedule
<1>1. OnSchedule(a) /\ now \in Nat
    BY Dates DEF ScheduleIsCurrent, OnSchedule
<1>2. plans \in [Accounts -> [state : PlanState, terms : Terms, last : Time]] /\ Time \subseteq Nat
    <2>1. Time \subseteq Nat
        BY ConstantsAssumption DEF Time, ConstantsAssumption
    <2> QED
        BY <2>1 DEF TypeOK
<1>3. ASSUME NEW s \in ShareChoices, NEW A \in AssetChoices, NEW t \in TermChoices,
             CreatePlan(b, s, A, t)
      PROVE  OnSchedule(a)'
    <2>1. t \in Terms /\ Length(t) \in Nat
        BY ArgumentTypes
    <2>2. /\ plans' = [plans EXCEPT ![b] = [state |-> "Active", terms |-> t, last |-> now]]
          /\ ScheduleDistribution(b, now + Length(t)) /\ now' = now
        BY <1>3 DEF CreatePlan
    <2>3. plans'[b].last = now /\ plans'[b].terms = t /\ (a # b => plans'[a] = plans[a])
        BY <1>2, <2>2
    <2>4. TimelockEndsAt(b)' = now + Length(t)
        BY <1>1, <2>1, <2>3 DEF TimelockEndsAt, GraceEndsAt, Length, Terms
    <2> QED
        BY <1>1, <2>1, <2>2, <2>3, <2>4, RenewalSchedules
<1>4. ASSUME NEW s \in ShareChoices, NEW A \in AssetChoices, NEW t \in TermChoices,
             UpdatePlan(b, s, A, t)
      PROVE  OnSchedule(a)'
    <2>1. t \in Terms /\ Length(t) \in Nat /\ plans[b].last \in Nat
        BY <1>2, ArgumentTypes
    <2>2. /\ plans' = [plans EXCEPT ![b].terms = t]
          /\ ScheduleDistribution(b, plans[b].last + Length(t)) /\ now' = now
        BY <1>4 DEF UpdatePlan
    <2>3. plans'[b].last = plans[b].last /\ plans'[b].terms = t /\ (a # b => plans'[a] = plans[a])
        BY <1>2, <2>2
    <2>4. TimelockEndsAt(b)' = plans[b].last + Length(t)
        BY <2>1, <2>3 DEF TimelockEndsAt, GraceEndsAt, Length, Terms
    <2> QED
        BY <1>1, <2>1, <2>2, <2>3, <2>4, RenewalSchedules
<1>5. CASE CheckIn(b)
    <2>1. plans[b].terms \in Terms /\ Length(plans[b].terms) \in Nat
        BY <1>2 DEF Terms, Length
    <2>2. /\ plans' = [plans EXCEPT ![b].last = now]
          /\ ScheduleDistribution(b, now + Length(plans[b].terms)) /\ now' = now
        BY <1>5 DEF CheckIn
    <2>3. plans'[b].last = now /\ plans'[b].terms = plans[b].terms
          /\ (a # b => plans'[a] = plans[a])
        BY <1>2, <2>2
    <2>4. TimelockEndsAt(b)' = now + Length(plans[b].terms)
        BY <1>1, <2>1, <2>3 DEF TimelockEndsAt, GraceEndsAt, Length, Terms
    <2> QED
        BY <1>1, <2>1, <2>2, <2>3, <2>4, RenewalSchedules
<1>6. CASE CancelPlan(b)
    <2>1. /\ UNCHANGED scheduleVars /\ now' = now
          /\ plans' = [plans EXCEPT ![b].state = "Cancelled"]
        BY <1>6 DEF CancelPlan
    <2>2. Active(a)' => Active(a) /\ TimelockEndsAt(a)' = TimelockEndsAt(a)
        BY <1>2, <2>1 DEF Active, TimelockEndsAt, GraceEndsAt
    <2> QED
        BY <1>1, <2>1, <2>2, QuietKeepsSchedule
<1>7. CASE \/ \E s \in ProposalChoices : ProposeBeneficiaries(b, s)
           \/ ConfirmBeneficiaries(b)
           \/ CancelBeneficiariesChange(b)
    <2>1. UNCHANGED scheduleVars /\ now' = now /\ plans' = plans
        BY <1>7 DEF ProposeBeneficiaries, ConfirmBeneficiaries, CancelBeneficiariesChange
    <2>2. Active(a)' => Active(a) /\ TimelockEndsAt(a)' = TimelockEndsAt(a)
        BY <2>1 DEF Active, TimelockEndsAt, GraceEndsAt
    <2> QED
        BY <1>1, <2>1, <2>2, QuietKeepsSchedule
<1> QED
    BY <1>3, <1>4, <1>5, <1>6, <1>7

\* A payout leaves terms and dates alone, and an event uses up only what is due.
LEMMA PayoutKeepsSchedule ==
    ASSUME TypeOK, ScheduleIsCurrent, NEW R \in SUBSET Accounts, NEW out,
           \A a \in R : out[a] \in TransferOutcomes(a),
           ExecuteDistribution(R, out),
           UNCHANGED <<now, currentSchedule, scheduledSmartAccounts>>,
           \A s \in subscriptions \ subscriptions' : s <= now
    PROVE  ScheduleIsCurrent'
<1> SUFFICES ASSUME NEW a \in Accounts PROVE OnSchedule(a)'
    BY DEF ScheduleIsCurrent, OnSchedule
<1>1. OnSchedule(a) /\ now \in Nat
    BY Dates DEF ScheduleIsCurrent, OnSchedule
<1>2. /\ plans'[a].terms = plans[a].terms /\ plans'[a].last = plans[a].last
      /\ plans'[a].state \in {plans[a].state, "Executed"}
    BY DistributionProgress
<1>3. Active(a)' => Active(a) /\ TimelockEndsAt(a)' = TimelockEndsAt(a)
    BY <1>2 DEF Active, TimelockEndsAt, GraceEndsAt
<1> QED
    BY <1>1, <1>3, QuietKeepsSchedule

\* Every other step: a late renewal schedules its new date, the others touch neither
\* plans nor schedules, and time only uses schedules up.
LEMMA OtherStepsKeepSchedule ==
    ASSUME TypeOK, TypeOK', ScheduleIsCurrent,
           FundingStep \/ AgentStep \/ WorldStep \/ PayoutStep
    PROVE  ScheduleIsCurrent'
<1> USE DEF planVars, progressVars, configVars, fundVars, heartbeatVars, distributionVars,
            platformVars, agentVars, scheduleVars, worldVars
<1>0. now \in Nat /\ now' \in Nat
    BY ConstantsAssumption DEF TypeOK, Time, ConstantsAssumption
<1>1. ASSUME UNCHANGED <<plans, currentSchedule, scheduledSmartAccounts>>, now <= now',
             \A s \in subscriptions \ subscriptions' : s <= now
      PROVE  ScheduleIsCurrent'
    <2> SUFFICES ASSUME NEW a \in Accounts PROVE OnSchedule(a)'
        BY DEF ScheduleIsCurrent, OnSchedule
    <2>1. OnSchedule(a)
        BY DEF ScheduleIsCurrent, OnSchedule
    <2>2. Active(a)' => Active(a) /\ TimelockEndsAt(a)' = TimelockEndsAt(a)
        BY <1>1 DEF Active, TimelockEndsAt, GraceEndsAt
    <2> QED
        BY <1>0, <1>1, <2>1, <2>2, QuietKeepsSchedule
<1>2. CASE FundingStep
    BY <1>0, <1>1, <1>2 DEF FundingStep, FundAgentBudget, FundReactivity,
        WithdrawReactivityBudget, ConfigureAgent, SetAgentRewardPerCall
<1>3. CASE WorldStep
    BY <1>0, <1>1, <1>3 DEF WorldStep, Tick, ReceiveFunds, SpendFunds
<1>4. ASSUME NEW a \in Accounts, TriggerAgentHeartbeat(a) \/ TriggerDistributionAgent(a)
      PROVE  ScheduleIsCurrent'
    BY <1>0, <1>1, <1>4 DEF TriggerAgentHeartbeat, TriggerDistributionAgent
<1>5. ASSUME NEW r \in openRequests, NEW success \in BOOLEAN,
             HandleHeartbeatResponse(r, success)
      PROVE  ScheduleIsCurrent'
    <2>1. PICK b \in Accounts : b = pendingHeartbeatSmartAccount[r.id]
        BY <1>5 DEF HandleHeartbeatResponse, TypeOK
    <2>2. CASE ~(success /\ Active(b))
        BY <1>0, <1>1, <1>5, <2>1, <2>2 DEF HandleHeartbeatResponse
    <2>3. CASE success /\ Active(b)
        <3>1. /\ plans' = [plans EXCEPT ![b].last = now]
              /\ ScheduleDistribution(b, now + Length(plans[b].terms)) /\ now' = now
            BY <1>5, <2>1, <2>3 DEF HandleHeartbeatResponse
        <3>2. plans \in [Accounts -> [state : PlanState, terms : Terms, last : Time]]
            BY DEF TypeOK
        <3>3. plans[b].terms \in Terms /\ Length(plans[b].terms) \in Nat
            BY <2>1, <3>2 DEF Terms, Length
        <3>4. /\ plans'[b].last = now /\ plans'[b].terms = plans[b].terms
              /\ \A a \in Accounts : a # b => plans'[a] = plans[a]
            BY <2>1, <3>1, <3>2
        <3>5. TimelockEndsAt(b)' = now + Length(plans[b].terms)
            BY <1>0, <3>3, <3>4 DEF TimelockEndsAt, GraceEndsAt, Length, Terms
        <3>6. now + Length(plans[b].terms) \in Nat
            BY <1>0, <3>3
        <3>7. \A a \in Accounts : OnSchedule(a)
            BY DEF ScheduleIsCurrent, OnSchedule
        <3>8. \A a \in Accounts : OnSchedule(a)'
            BY <2>1, <3>1, <3>4, <3>5, <3>6, <3>7, RenewalSchedules
        <3> QED
            BY <3>8 DEF ScheduleIsCurrent, OnSchedule
    <2> QED
        BY <2>2, <2>3
<1>6. ASSUME NEW r \in openRequests, NEW success \in BOOLEAN,
             HandleDistributionResponse(r, success)
      PROVE  ScheduleIsCurrent'
    <2> DEFINE a == pendingDistributionSmartAccount[r.id]
               R == {b \in {a} : success /\ Distributable(b)}
    <2>1. R \in SUBSET Accounts
        BY <1>6 DEF HandleDistributionResponse, TypeOK
    <2>2. PICK o \in TransferOutcomes(a) : ExecuteDistribution(R, [b \in R |-> o])
        BY <1>6 DEF HandleDistributionResponse
    <2>3. \A b \in R : [c \in R |-> o][b] \in TransferOutcomes(b)
        BY <2>2
    <2>4. UNCHANGED <<now, currentSchedule, scheduledSmartAccounts, subscriptions>>
        BY <1>6 DEF HandleDistributionResponse
    <2> HIDE DEF R
    <2> QED
        BY <2>1, <2>2, <2>3, <2>4, PayoutKeepsSchedule
<1>7. ASSUME NEW s \in Time, NEW raw \in Time, OnEvent(s, raw)
      PROVE  ScheduleIsCurrent'
    <2>1. PICK out : /\ \A a \in Reached(raw) : out[a] \in TransferOutcomes(a)
                     /\ ExecuteDistribution(Reached(raw), out)
        BY <1>7 DEF OnEvent
    <2>2. Reached(raw) \in SUBSET Accounts
        BY DEF Reached
    <2>3. UNCHANGED <<now, currentSchedule, scheduledSmartAccounts>>
        BY <1>7 DEF OnEvent
    <2>4. s <= now
        BY <1>0, <1>7, ConstantsAssumption DEF OnEvent, Time, ConstantsAssumption
    <2>5. \A t \in subscriptions \ subscriptions' : t = s
        BY <1>7 DEF OnEvent
    <2> QED
        BY <2>1, <2>2, <2>3, <2>4, <2>5, PayoutKeepsSchedule
<1>8. ASSUME NEW s \in Time, LoseEvent(s)
      PROVE  ScheduleIsCurrent'
    BY <1>0, <1>1, <1>8 DEF LoseEvent
<1>9. ASSUME NEW a \in Accounts, ExecuteInheritance(a)
      PROVE  ScheduleIsCurrent'
    <2>1. PICK o \in TransferOutcomes(a) : ExecuteDistribution({a}, [b \in {a} |-> o])
        BY <1>9 DEF ExecuteInheritance
    <2>2. \A b \in {a} : [c \in {a} |-> o][b] \in TransferOutcomes(b)
        BY <2>1
    <2>3. /\ UNCHANGED <<now, currentSchedule, scheduledSmartAccounts, subscriptions>>
          /\ {a} \in SUBSET Accounts
        BY <1>9 DEF ExecuteInheritance
    <2> QED
        BY <2>1, <2>2, <2>3, PayoutKeepsSchedule
<1> QED
    BY <1>2, <1>3, <1>4, <1>5, <1>6, <1>7, <1>8, <1>9 DEF AgentStep, PayoutStep

\* Whatever renewals, changes of terms, late answers and partly failed events came
\* before, a plan that has not reached its date is on record for exactly that date.
THEOREM ScheduleCorrect == Spec => []ScheduleIsCurrent
<1>1. Init => ScheduleIsCurrent
    BY DEF Init, ScheduleIsCurrent, Active
<1>2. TypeOK /\ TypeOK' /\ ScheduleIsCurrent /\ [Next]_vars => ScheduleIsCurrent'
    <2> SUFFICES ASSUME TypeOK, TypeOK', ScheduleIsCurrent, [Next]_vars
                 PROVE  ScheduleIsCurrent'
        OBVIOUS
    <2>1. CASE Next
        BY <2>1, OwnerKeepsSchedule, OtherStepsKeepSchedule DEF Next
    <2>2. CASE UNCHANGED vars
        BY <2>2 DEF ScheduleIsCurrent, Active, TimelockEndsAt, GraceEndsAt, vars, planVars,
            scheduleVars
    <2> QED
        BY <2>1, <2>2
<1> QED
    BY <1>1, <1>2, TypeCorrect, PTL DEF Spec

\* Every account is filed under the schedule on record for it; 0 stands for none, and is
\* no schedule.
Filed ==
    /\ 0 \notin subscriptions
    /\ \A a \in Accounts :
          currentSchedule[a] # 0 => a \in scheduledSmartAccounts[currentSchedule[a]]

\* Schedules are made by _scheduleDistribution only, and never taken back.
LEMMA ScheduleSteps ==
    ASSUME TypeOK, [Next]_vars
    PROVE  \/ /\ UNCHANGED <<currentSchedule, scheduledSmartAccounts>>
              /\ subscriptions' \subseteq subscriptions
           \/ \E a \in Accounts, s \in Nat : ScheduleDistribution(a, s)
<1> USE DEF agentVars, scheduleVars
<1>0. /\ now \in Nat
      /\ \A a \in Accounts : plans[a].last \in Nat /\ Length(plans[a].terms) \in Nat
    <2>1. plans \in [Accounts -> [state : PlanState, terms : Terms, last : Time]]
        BY DEF TypeOK
    <2>2. Time \subseteq Nat
        BY ConstantsAssumption DEF Time, ConstantsAssumption
    <2>3. now \in Nat
        BY <2>2 DEF TypeOK
    <2>4. ASSUME NEW a \in Accounts
          PROVE  plans[a].last \in Nat /\ Length(plans[a].terms) \in Nat
        <3>1. plans[a].last \in Nat /\ plans[a].terms \in Terms
            BY <2>1, <2>2
        <3> QED
            BY <3>1 DEF Terms, Length
    <2> QED
        BY <2>3, <2>4
<1>1. CASE OwnerStep
    <2> PICK a \in Accounts :
            \/ \E s \in ShareChoices, A \in AssetChoices, t \in TermChoices :
                  CreatePlan(a, s, A, t) \/ UpdatePlan(a, s, A, t)
            \/ CancelPlan(a)
            \/ CheckIn(a)
            \/ \E s \in ProposalChoices : ProposeBeneficiaries(a, s)
            \/ ConfirmBeneficiaries(a)
            \/ CancelBeneficiariesChange(a)
        BY <1>1 DEF OwnerStep
    <2>1. ASSUME NEW s \in ShareChoices, NEW A \in AssetChoices, NEW t \in TermChoices,
                 CreatePlan(a, s, A, t) \/ UpdatePlan(a, s, A, t)
          PROVE  \E d \in Nat : ScheduleDistribution(a, d)
        <3>1. now + Length(t) \in Nat /\ plans[a].last + Length(t) \in Nat
            BY <1>0, ArgumentTypes
        <3> QED
            BY <2>1, <3>1 DEF CreatePlan, UpdatePlan
    <2>2. CheckIn(a) => \E d \in Nat : ScheduleDistribution(a, d)
        <3>1. now + Length(plans[a].terms) \in Nat
            BY <1>0
        <3> QED
            BY <3>1 DEF CheckIn
    <2> QED
        BY <2>1, <2>2 DEF CancelPlan, ProposeBeneficiaries, ConfirmBeneficiaries,
            CancelBeneficiariesChange
<1>2. CASE FundingStep \/ WorldStep \/ UNCHANGED vars
    BY <1>2 DEF FundingStep, FundAgentBudget, FundReactivity, WithdrawReactivityBudget,
        ConfigureAgent, SetAgentRewardPerCall, WorldStep, Tick, ReceiveFunds, SpendFunds, vars
<1>3. CASE PayoutStep
    BY <1>3 DEF PayoutStep, OnEvent, LoseEvent, ExecuteInheritance
<1>4. ASSUME NEW r \in openRequests, NEW success \in BOOLEAN,
             HandleHeartbeatResponse(r, success)
      PROVE  UNCHANGED scheduleVars \/ \E a \in Accounts, s \in Nat : ScheduleDistribution(a, s)
    <2>1. PICK a \in Accounts : a = pendingHeartbeatSmartAccount[r.id]
        BY <1>4 DEF HandleHeartbeatResponse, TypeOK
    <2>2. UNCHANGED scheduleVars \/ ScheduleDistribution(a, now + Length(plans[a].terms))
        BY <1>4, <2>1 DEF HandleHeartbeatResponse
    <2>3. now + Length(plans[a].terms) \in Nat
        BY <1>0
    <2> QED
        BY <2>2, <2>3
<1>5. CASE AgentStep
    BY <1>4, <1>5 DEF AgentStep, TriggerAgentHeartbeat, TriggerDistributionAgent,
        HandleDistributionResponse
<1> QED
    BY <1>1, <1>2, <1>3, <1>5 DEF Next

LEMMA FilingKept ==
    ASSUME TypeOK, Filed, [Next]_vars
    PROVE  Filed'
<1>1. ASSUME UNCHANGED <<currentSchedule, scheduledSmartAccounts>>,
             subscriptions' \subseteq subscriptions
      PROVE  Filed'
    BY <1>1 DEF Filed
<1>2. ASSUME NEW b \in Accounts, NEW s \in Nat, ScheduleDistribution(b, s) PROVE Filed'
    <2>1. CASE s <= now
        BY <1>2, <2>1 DEF ScheduleDistribution, scheduleVars, Filed
    <2>2. CASE ~(s <= now)
        <3>1. /\ currentSchedule' = [currentSchedule EXCEPT ![b] = s]
              /\ scheduledSmartAccounts' =
                    [scheduledSmartAccounts EXCEPT ![s] = scheduledSmartAccounts[s] \cup {b}]
              /\ subscriptions' \subseteq subscriptions \cup {s}
            BY <1>2, <2>2 DEF ScheduleDistribution
        <3>2. s \in Time /\ s # 0
            <4>1. now \in Nat
                BY ConstantsAssumption DEF TypeOK, Time, ConstantsAssumption
            <4> QED
                BY <1>2, <2>2, <4>1, ConstantsAssumption
                   DEF ScheduleDistribution, Time, ConstantsAssumption
        <3>3. /\ currentSchedule \in [Accounts -> Time]
              /\ scheduledSmartAccounts \in [Time -> SUBSET Accounts]
            BY DEF TypeOK
        <3>4. ASSUME NEW a \in Accounts, currentSchedule'[a] # 0
              PROVE  a \in scheduledSmartAccounts'[currentSchedule'[a]]
            <4>1. CASE a = b
                BY <3>1, <3>2, <3>3, <4>1
            <4>2. CASE a # b
                <5>1. currentSchedule'[a] = currentSchedule[a] /\ currentSchedule[a] \in Time
                    BY <3>1, <3>3, <4>2
                <5>2. a \in scheduledSmartAccounts[currentSchedule[a]]
                    BY <3>4, <5>1 DEF Filed
                <5> QED
                    BY <3>1, <3>2, <3>3, <5>1, <5>2
            <4> QED
                BY <4>1, <4>2
        <3> QED
            BY <3>1, <3>2, <3>4 DEF Filed
    <2> QED
        BY <2>1, <2>2
<1> QED
    BY <1>1, <1>2, ScheduleSteps

\* The schedule an event is stamped with is the newest that is due, if it has accounts.
LEMMA PunctualResolves ==
    ASSUME TypeOK, NEW s \in Time, scheduledSmartAccounts[s] # {}
    PROVE  ResolveSchedule(s) = s
<1> DEFINE near == {d \in Time : /\ s - DriftTolerance <= d /\ d <= s
                                 /\ scheduledSmartAccounts[d] # {}}
<1>1. s \in Nat /\ Time \subseteq Nat /\ DriftTolerance \in Nat
    BY ConstantsAssumption DEF Time, ConstantsAssumption
<1>2. s \in near /\ \A d \in near : d \in Nat /\ d <= s
    BY <1>1
<1>3. Max(near) = s
    <2> HIDE DEF near
    <2>1. \A m \in near : (\A d \in near : m >= d) => m = s
        BY <1>1, <1>2
    <2>2. \A d \in near : s >= d
        BY <1>1, <1>2
    <2> QED
        BY <1>2, <2>1, <2>2 DEF Max
<1> QED
    BY <1>2, <1>3 DEF ResolveSchedule

\* An event that comes on time leaves out nobody who is still scheduled for it, however
\* many older schedules of whichever accounts lie within the drift tolerance.
THEOREM PunctualEventsReachAll == Spec => PunctualEventReachesAll
<1>1. Init => Filed
    BY DEF Init, Filed
<1>2. TypeOK /\ Filed /\ [Next]_vars => Filed'
    BY FilingKept
<1>3. TypeOK /\ Filed /\ [Next]_vars =>
        [\A s \in subscriptions : OnEvent(s, s) =>
            \A a \in Accounts : currentSchedule[a] = s /\ Distributable(a) =>
                protectedAssets[a] \subseteq assetSnapshotSet'[a]]_vars
    <2> SUFFICES ASSUME TypeOK, Filed, NEW s \in subscriptions, OnEvent(s, s),
                        NEW a \in Accounts, currentSchedule[a] = s, Distributable(a)
                 PROVE  protectedAssets[a] \subseteq assetSnapshotSet'[a]
        OBVIOUS
    <2>1. s \in Time /\ s # 0 /\ a \in scheduledSmartAccounts[s]
        BY DEF TypeOK, Filed
    <2>2. a \in Reached(s)
        BY <2>1, PunctualResolves DEF Reached
    <2>3. PICK out : ExecuteDistribution(Reached(s), out)
        BY DEF OnEvent
    <2> QED
        BY <2>2, <2>3 DEF ExecuteDistribution
<1> QED
    BY <1>1, <1>2, <1>3, TypeCorrect, PTL DEF Spec, PunctualEventReachesAll

-----------------------------------------------------------------------------
(* What a plan closed as executed has paid. *)

ShareDue(a, t, h) == (assetSnapshot[a][t] * beneficiaries[a][h]) \div BpsTotal

\* Of an asset that cannot fail in silence, a beneficiary is settled once it was paid its
\* share of the balance on record, and was paid nothing before.
PaidAsSettled(a) ==
    \A t \in protectedAssets[a] \ SilentTokens, h \in DOMAIN beneficiaries[a] :
        IF <<t, h>> \in assetSettled[a]
        THEN /\ t \in assetSnapshotSet[a]
             /\ paid[a][<<t, h>>] = ShareDue(a, t, h) /\ ShareDue(a, t, h) > 0
        ELSE paid[a][<<t, h>>] = 0

\* A plan is closed only with everyone settled for every asset that was not empty.
ClosedAsSettled(a) ==
    plans[a].state = "Executed" =>
        \A t \in protectedAssets[a] :
            assetSnapshot[a][t] # 0 => {t} \X DOMAIN beneficiaries[a] \subseteq assetSettled[a]

\* Of any asset, a beneficiary of the plan gets its share of the balance on record, once:
\* whoever was paid is settled, and the share is of a balance that is not read again.
PaidOfShare(a) ==
    \A t \in Tokens, h \in Heirs : paid[a][<<t, h>>] # 0 =>
        /\ <<t, h>> \in assetSettled[a] /\ t \in assetSnapshotSet[a]
        /\ h \in DOMAIN beneficiaries[a]
        /\ paid[a][<<t, h>>] = ShareDue(a, t, h)

Payments(a) == PaidAsSettled(a) /\ ClosedAsSettled(a) /\ PaidOfShare(a)

\* The inductive form of ExecutedMeansPaid, and half that of PaidWithinSnapshot.
PaymentsFollowPlan ==
    \A a \in Accounts \ renewedLate : Payments(a)

\* An untouched plan that is not closed has paid what it settled, which is nothing.
LEMMA UntouchedPaid ==
    ASSUME TypeOK', NEW a \in Accounts, Untouched(a)', plans'[a].state # "Executed"
    PROVE  Payments(a)'
<1>1. PICK H \in SUBSET Heirs : beneficiaries'[a] \in [H -> 0 .. BpsTotal]
    BY DEF TypeOK, Shares
<1>2. protectedAssets'[a] \subseteq Tokens
    BY DEF TypeOK
<1>3. \A t \in protectedAssets'[a], h \in DOMAIN beneficiaries'[a] : <<t, h>> \in Pairs
    BY <1>1, <1>2 DEF Pairs
<1> QED
    BY <1>3 DEF Untouched, Payments, PaidAsSettled, ClosedAsSettled, PaidOfShare, Pairs

\* What the payments of an account are made of.
PaymentState(a) ==
    <<plans[a].state, beneficiaries[a], protectedAssets[a], assetSnapshot[a],
      assetSnapshotSet[a], assetSettled[a], paid[a]>>

\* A step that leaves that alone keeps the account's invariant.
LEMMA SamePayments ==
    ASSUME NEW a \in Accounts, Payments(a), UNCHANGED PaymentState(a)
    PROVE  Payments(a)'
BY DEF Payments, PaidAsSettled, ClosedAsSettled, PaidOfShare, ShareDue, PaymentState

\* One call of _executeDistribution pays the shares it settles, of the balance read then
\* or before, and closes the plan only when all are settled.
LEMMA DistributionPays ==
    ASSUME TypeOK, NEW R \in SUBSET Accounts, NEW out,
           \A a \in R : out[a] \in TransferOutcomes(a) /\ Distributable(a),
           ExecuteDistribution(R, out), UNCHANGED <<beneficiaries, protectedAssets, renewedLate>>,
           PaymentsFollowPlan
    PROVE  PaymentsFollowPlan'
<1> SUFFICES ASSUME NEW a \in Accounts \ renewedLate
             PROVE  Payments(a)'
    BY DEF PaymentsFollowPlan
<1>1. Payments(a)
    BY DEF PaymentsFollowPlan
<1>2. CASE a \notin R
    <2>1. UNCHANGED PaymentState(a)
        BY <1>2 DEF ExecuteDistribution, PaymentState
    <2> QED
        BY <1>1, <2>1, SamePayments
<1>3. CASE a \in R
    <2>1. /\ \A t \in Tokens : assetSnapshot'[a][t] = SnapshotOf(a, t)
          /\ assetSnapshotSet'[a] = assetSnapshotSet[a] \cup protectedAssets[a]
          /\ assetSettled'[a] = assetSettled[a] \cup out[a].ok
          /\ \A p \in Pairs : paid'[a][p] = paid[a][p] +
                (IF p \in out[a].moved THEN Amount(a, p[1], p[2]) ELSE 0)
        BY <1>3 DEF ExecuteDistribution
    <2>2. /\ out[a].ok \subseteq Due(a) /\ out[a].moved \subseteq out[a].ok
          /\ \A p \in out[a].ok \ out[a].moved : p[1] \in SilentTokens
        BY <1>3 DEF TransferOutcomes
    <2>3. PICK H \in SUBSET Heirs : beneficiaries[a] \in [H -> 0 .. BpsTotal]
        BY DEF TypeOK, Shares
    <2>4. protectedAssets[a] \subseteq Tokens
        BY DEF TypeOK
    <2>5. ASSUME NEW t \in protectedAssets[a] \ SilentTokens, NEW h \in DOMAIN beneficiaries[a]
          PROVE  IF <<t, h>> \in assetSettled'[a]
                 THEN /\ t \in assetSnapshotSet'[a]
                      /\ paid'[a][<<t, h>>] = ShareDue(a, t, h)' /\ ShareDue(a, t, h)' > 0
                 ELSE paid'[a][<<t, h>>] = 0
        <3>1. <<t, h>> \in Pairs /\ t \in Tokens
            BY <2>3, <2>4 DEF Pairs
        <3>2. Amount(a, t, h) \in Nat /\ paid[a][<<t, h>>] \in Nat
            BY <3>1, AmountType DEF TypeOK
        <3>3. ShareDue(a, t, h)' = Amount(a, t, h)
            BY <2>1, <3>1 DEF ShareDue, Amount
        <3>4. /\ <<t, h>> \in out[a].ok <=> <<t, h>> \in out[a].moved
              /\ <<t, h>> \in out[a].ok =>
                    <<t, h>> \notin assetSettled[a] /\ Amount(a, t, h) > 0
            BY <2>2 DEF Due
        <3>5. paid'[a][<<t, h>>] = paid[a][<<t, h>>] +
                (IF <<t, h>> \in out[a].moved THEN Amount(a, t, h) ELSE 0)
            BY <2>1, <3>1
        <3>6. CASE <<t, h>> \in assetSettled[a]
            <4>1. /\ t \in assetSnapshotSet[a]
                  /\ paid[a][<<t, h>>] = ShareDue(a, t, h) /\ ShareDue(a, t, h) > 0
                BY <1>1, <3>6 DEF Payments, PaidAsSettled
            <4>2. ShareDue(a, t, h) = Amount(a, t, h)
                BY <4>1 DEF ShareDue, Amount, SnapshotOf
            <4>3. paid'[a][<<t, h>>] = paid[a][<<t, h>>]
                BY <3>2, <3>4, <3>5, <3>6
            <4>4. <<t, h>> \in assetSettled'[a] /\ t \in assetSnapshotSet'[a]
                BY <2>1, <3>6
            <4> QED
                BY <3>3, <4>1, <4>2, <4>3, <4>4
        <3>7. CASE <<t, h>> \notin assetSettled[a]
            <4>1. paid[a][<<t, h>>] = 0
                BY <1>1, <3>7 DEF Payments, PaidAsSettled
            <4>2. /\ <<t, h>> \in assetSettled'[a] <=> <<t, h>> \in out[a].ok
                  /\ t \in assetSnapshotSet'[a]
                BY <2>1, <3>7
            <4>3. CASE <<t, h>> \in out[a].ok
                BY <3>2, <3>3, <3>4, <3>5, <4>1, <4>2, <4>3
            <4>4. CASE <<t, h>> \notin out[a].ok
                BY <3>2, <3>4, <3>5, <4>1, <4>2, <4>4
            <4> QED
                BY <4>3, <4>4
        <3> QED
            BY <3>6, <3>7
    <2>6. PaidAsSettled(a)'
        BY <2>5 DEF PaidAsSettled
    <2>7. ASSUME plans'[a].state = "Executed", NEW t \in protectedAssets[a],
                 assetSnapshot'[a][t] # 0
          PROVE  {t} \X DOMAIN beneficiaries[a] \subseteq assetSettled'[a]
        <3>1. plans[a].state = "Active"
            BY <1>3 DEF Distributable, TimelockReady, Active
        <3>2. AllAssetsSettled(a, assetSettled[a] \cup out[a].ok)
            BY <2>7, <3>1 DEF ExecuteDistribution
        <3> QED
            BY <2>1, <2>4, <2>7, <3>2 DEF AllAssetsSettled
    <2>8. ASSUME NEW t \in Tokens, NEW h \in Heirs, paid'[a][<<t, h>>] # 0
          PROVE  /\ <<t, h>> \in assetSettled'[a] /\ t \in assetSnapshotSet'[a]
                 /\ h \in DOMAIN beneficiaries[a]
                 /\ paid'[a][<<t, h>>] = ShareDue(a, t, h)'
        <3>1. <<t, h>> \in Pairs /\ paid[a][<<t, h>>] \in Nat
            BY DEF Pairs, TypeOK
        <3>2. ShareDue(a, t, h)' = Amount(a, t, h)
            BY <2>1 DEF ShareDue, Amount
        <3>3. paid'[a][<<t, h>>] = paid[a][<<t, h>>] +
                (IF <<t, h>> \in out[a].moved THEN Amount(a, t, h) ELSE 0)
            BY <2>1, <3>1
        <3>4. <<t, h>> \in out[a].moved =>
                /\ <<t, h>> \in out[a].ok /\ <<t, h>> \notin assetSettled[a]
                /\ t \in protectedAssets[a] /\ h \in DOMAIN beneficiaries[a]
            BY <2>2 DEF Due
        <3>5. CASE paid[a][<<t, h>>] # 0
            <4>1. /\ <<t, h>> \in assetSettled[a] /\ t \in assetSnapshotSet[a]
                  /\ h \in DOMAIN beneficiaries[a]
                  /\ paid[a][<<t, h>>] = ShareDue(a, t, h)
                BY <1>1, <3>5 DEF Payments, PaidOfShare
            <4>2. ShareDue(a, t, h) = Amount(a, t, h)
                BY <4>1 DEF ShareDue, Amount, SnapshotOf
            <4>3. paid'[a][<<t, h>>] = paid[a][<<t, h>>]
                BY <3>1, <3>3, <3>4, <4>1
            <4> QED
                BY <2>1, <3>2, <4>1, <4>2, <4>3
        <3>6. CASE paid[a][<<t, h>>] = 0
            <4>1. <<t, h>> \in out[a].moved
                BY <2>8, <3>3, <3>6
            <4>2. Amount(a, t, h) \in Nat
                BY <3>4, <4>1, AmountType
            <4>3. paid'[a][<<t, h>>] = Amount(a, t, h)
                BY <3>3, <3>6, <4>1, <4>2
            <4> QED
                BY <2>1, <3>2, <3>4, <4>1, <4>3
        <3> QED
            BY <3>1, <3>5, <3>6
    <2>9. PaidOfShare(a)'
        BY <2>8 DEF PaidOfShare
    <2> QED
        BY <2>6, <2>7, <2>9 DEF ClosedAsSettled, Payments
<1> QED
    BY <1>2, <1>3

\* The owner's steps: the lists change only while nothing has been paid.
LEMMA OwnerKeepsPayments ==
    ASSUME TypeOK, TypeOK', ProgressFollowsPlan, PaymentsFollowPlan, OwnerStep
    PROVE  PaymentsFollowPlan'
<1> USE DEF planVars, progressVars, agentVars, worldVars
<1> PICK b \in Accounts :
        \/ \E s \in ShareChoices, A \in AssetChoices, t \in TermChoices :
              CreatePlan(b, s, A, t) \/ UpdatePlan(b, s, A, t)
        \/ CancelPlan(b)
        \/ CheckIn(b)
        \/ \E s \in ProposalChoices : ProposeBeneficiaries(b, s)
        \/ ConfirmBeneficiaries(b)
        \/ CancelBeneficiariesChange(b)
    BY DEF OwnerStep
<1>0. renewedLate' = renewedLate
    BY DEF CreatePlan, UpdatePlan, CancelPlan, CheckIn, ProposeBeneficiaries,
        ConfirmBeneficiaries, CancelBeneficiariesChange
<1> SUFFICES ASSUME NEW a \in Accounts \ renewedLate
             PROVE  Payments(a)'
    BY <1>0 DEF PaymentsFollowPlan
<1>1. Payments(a)
    BY DEF PaymentsFollowPlan
<1>2. plans \in [Accounts -> [state : PlanState, terms : Terms, last : Time]]
    BY DEF TypeOK
<1>3. ASSUME a # b PROVE Payments(a)'
    <2>1. UNCHANGED PaymentState(a)
        BY <1>3 DEF PaymentState, TypeOK, ClearDistributionState, CreatePlan, UpdatePlan,
            CancelPlan, CheckIn, ProposeBeneficiaries, ConfirmBeneficiaries,
            CancelBeneficiariesChange
    <2> QED
        BY <1>1, <2>1, SamePayments
<1>4. ASSUME a = b,
             NEW s \in ShareChoices, NEW A \in AssetChoices, NEW t \in TermChoices,
             CreatePlan(b, s, A, t) \/ UpdatePlan(b, s, A, t)
      PROVE  Payments(a)'
    <2>1. Untouched(a)'
        BY <1>4, ClearUntouches DEF CreatePlan, UpdatePlan
    <2>2. plans'[a].state = "Active"
        BY <1>2, <1>4 DEF CreatePlan, UpdatePlan, OwnerInTime, Active
    <2> QED
        BY <2>1, <2>2, UntouchedPaid
<1>5. ASSUME a = b, CancelPlan(b) \/ CheckIn(b) \/ ConfirmBeneficiaries(b)
      PROVE  Payments(a)'
    <2>1. Untouched(a)
        BY <1>5, InTimeUntouched DEF CancelPlan, CheckIn, ConfirmBeneficiaries
    <2>2. Untouched(a)'
        BY <1>5, <2>1 DEF Untouched, CancelPlan, CheckIn, ConfirmBeneficiaries
    <2>3. plans'[a].state \in {"Active", "Cancelled"}
        BY <1>2, <1>5 DEF CancelPlan, CheckIn, ConfirmBeneficiaries, OwnerInTime, Active
    <2> QED
        BY <2>2, <2>3, UntouchedPaid
<1>6. ASSUME a = b,
             (\E s \in ProposalChoices : ProposeBeneficiaries(b, s)) \/ CancelBeneficiariesChange(b)
      PROVE  Payments(a)'
    <2>1. UNCHANGED PaymentState(a)
        BY <1>6 DEF PaymentState, ProposeBeneficiaries, CancelBeneficiariesChange
    <2> QED
        BY <1>1, <2>1, SamePayments
<1> QED
    BY <1>3, <1>4, <1>5, <1>6

\* Every other step pays through _executeDistribution or does not pay at all.
LEMMA OtherStepsKeepPayments ==
    ASSUME TypeOK, PaymentsFollowPlan,
           FundingStep \/ AgentStep \/ WorldStep \/ PayoutStep \/ UNCHANGED vars
    PROVE  PaymentsFollowPlan'
<1> USE DEF planVars, progressVars, agentVars, worldVars
<1>1. ASSUME UNCHANGED <<beneficiaries, protectedAssets, progressVars>>,
             renewedLate \subseteq renewedLate',
             \A a \in Accounts : plans'[a].state = plans[a].state
      PROVE  PaymentsFollowPlan'
    <2>1. ASSUME NEW a \in Accounts \ renewedLate' PROVE Payments(a)'
        <3>1. Payments(a)
            BY <1>1 DEF PaymentsFollowPlan
        <3>2. UNCHANGED PaymentState(a)
            BY <1>1 DEF PaymentState
        <3> QED
            BY <3>1, <3>2, SamePayments
    <2> QED
        BY <2>1 DEF PaymentsFollowPlan
<1>2. CASE FundingStep
    BY <1>1, <1>2 DEF FundingStep, FundAgentBudget, FundReactivity,
        WithdrawReactivityBudget, ConfigureAgent, SetAgentRewardPerCall
<1>3. CASE WorldStep
    BY <1>1, <1>3 DEF WorldStep, Tick, ReceiveFunds, SpendFunds
<1>4. ASSUME NEW a \in Accounts, TriggerAgentHeartbeat(a) \/ TriggerDistributionAgent(a)
      PROVE  PaymentsFollowPlan'
    BY <1>1, <1>4 DEF TriggerAgentHeartbeat, TriggerDistributionAgent
<1>5. ASSUME NEW r \in openRequests, NEW success \in BOOLEAN,
             HandleHeartbeatResponse(r, success)
      PROVE  PaymentsFollowPlan'
    <2>1. PICK b \in Accounts : b = pendingHeartbeatSmartAccount[r.id]
        BY <1>5 DEF HandleHeartbeatResponse, TypeOK
    <2>2. /\ UNCHANGED <<beneficiaries, protectedAssets, progressVars>>
          /\ renewedLate \subseteq renewedLate'
          /\ plans' = plans \/ plans' = [plans EXCEPT ![b].last = now]
        BY <1>5, <2>1 DEF HandleHeartbeatResponse
    <2>3. plans \in [Accounts -> [state : PlanState, terms : Terms, last : Time]]
        BY DEF TypeOK
    <2>4. \A a \in Accounts : plans'[a].state = plans[a].state
        BY <2>2, <2>3
    <2> QED
        BY <1>1, <2>2, <2>4
<1>6. ASSUME NEW r \in openRequests, NEW success \in BOOLEAN,
             HandleDistributionResponse(r, success)
      PROVE  PaymentsFollowPlan'
    <2> DEFINE a == pendingDistributionSmartAccount[r.id]
               R == {b \in {a} : success /\ Distributable(b)}
    <2>1. R \in SUBSET Accounts
        BY <1>6 DEF HandleDistributionResponse, TypeOK
    <2>2. PICK o \in TransferOutcomes(a) : ExecuteDistribution(R, [b \in R |-> o])
        BY <1>6 DEF HandleDistributionResponse
    <2>3. \A b \in R : [c \in R |-> o][b] \in TransferOutcomes(b) /\ Distributable(b)
        BY <2>2
    <2>4. UNCHANGED <<beneficiaries, protectedAssets, renewedLate>>
        BY <1>6 DEF HandleDistributionResponse
    <2> HIDE DEF R
    <2> QED
        BY <2>1, <2>2, <2>3, <2>4, DistributionPays
<1>7. ASSUME NEW s \in Time, NEW raw \in Time, OnEvent(s, raw)
      PROVE  PaymentsFollowPlan'
    <2>1. PICK out : /\ \A a \in Reached(raw) : out[a] \in TransferOutcomes(a)
                     /\ ExecuteDistribution(Reached(raw), out)
        BY <1>7 DEF OnEvent
    <2>2. Reached(raw) \in SUBSET Accounts /\ \A a \in Reached(raw) : Distributable(a)
        BY DEF Reached
    <2>3. UNCHANGED <<beneficiaries, protectedAssets, renewedLate>>
        BY <1>7 DEF OnEvent
    <2> QED
        BY <2>1, <2>2, <2>3, DistributionPays
<1>8. CASE (\E s \in Time : LoseEvent(s)) \/ UNCHANGED vars
    BY <1>1, <1>8 DEF LoseEvent, vars
<1>9. ASSUME NEW a \in Accounts, ExecuteInheritance(a)
      PROVE  PaymentsFollowPlan'
    <2>1. PICK o \in TransferOutcomes(a) : ExecuteDistribution({a}, [b \in {a} |-> o])
        BY <1>9 DEF ExecuteInheritance
    <2>2. \A b \in {a} : [c \in {a} |-> o][b] \in TransferOutcomes(b) /\ Distributable(b)
        BY <1>9, <2>1 DEF ExecuteInheritance
    <2>3. UNCHANGED <<beneficiaries, protectedAssets, renewedLate>> /\ {a} \in SUBSET Accounts
        BY <1>9 DEF ExecuteInheritance
    <2> QED
        BY <2>1, <2>2, <2>3, DistributionPays
<1> QED
    BY <1>2, <1>3, <1>4, <1>5, <1>6, <1>7, <1>8, <1>9 DEF AgentStep, PayoutStep

\* Payments follow the plan in every reachable state.
LEMMA PaymentsCorrect == Spec => []PaymentsFollowPlan
<1>1. Init => PaymentsFollowPlan
    <2> SUFFICES ASSUME Init, NEW a \in Accounts PROVE Payments(a)
        BY DEF PaymentsFollowPlan
    <2> QED
        BY DEF Init, Payments, PaidAsSettled, ClosedAsSettled, PaidOfShare, Pairs
<1>2. /\ TypeOK /\ TypeOK' /\ ProgressFollowsPlan /\ PaymentsFollowPlan /\ [Next]_vars
      => PaymentsFollowPlan'
    BY OwnerKeepsPayments, OtherStepsKeepPayments DEF Next
<1> QED
    BY <1>1, <1>2, TypeCorrect, ProgressCorrect, PTL DEF Spec

\* A plan is closed as executed only when every beneficiary has received exactly its share
\* of the balance on record of every asset: over partial transfers, retries, events and
\* manual executions, whichever finishes it, for all lists, shares and balances.  Two
\* cases are left out: accounts that an agent's answer renewed after their grace period,
\* of which the claim is false, and tokens whose failed transfers look like good ones.
THEOREM ExecutedPlansPaid == Spec => []ExecutedMeansPaid
<1>1. TypeOK /\ PaymentsFollowPlan => ExecutedMeansPaid
    <2> SUFFICES ASSUME TypeOK, PaymentsFollowPlan, NEW a \in Accounts \ renewedLate,
                        plans[a].state = "Executed",
                        NEW t \in protectedAssets[a] \ SilentTokens,
                        NEW h \in DOMAIN beneficiaries[a], assetSnapshot[a][t] # 0
                 PROVE  paid[a][<<t, h>>] = ShareDue(a, t, h) /\ paid[a][<<t, h>>] > 0
        BY DEF ExecutedMeansPaid, ShareDue
    <2>1. <<t, h>> \in assetSettled[a]
        BY DEF PaymentsFollowPlan, Payments, ClosedAsSettled
    <2> QED
        BY <2>1 DEF PaymentsFollowPlan, Payments, PaidAsSettled
<1> QED
    BY <1>1, TypeCorrect, PaymentsCorrect, PTL

-----------------------------------------------------------------------------
(* Nothing is paid beyond the snapshot. *)

\* A list of shares that gives away no more than the whole.
Fits(s) == SumFunction(s) <= BpsTotal

\* The lists an account has, and has proposed, do.
SharesFit == \A a \in Accounts : Fits(beneficiaries[a]) /\ Fits(pendingBeneficiaries[a])

LEMMA NoSharesFit == Fits(NoShares)
<1>1. DOMAIN NoShares = {}
    BY DEF NoShares
<1>2. SumFunction(NoShares) = SumFunctionOnSet(NoShares, DOMAIN NoShares)
    BY DEF SumFunction
<1>3. SumFunction(NoShares) = 0
    BY <1>1, <1>2, SumEmpty
<1> QED
    BY <1>3, ConstantsAssumption DEF Fits, ConstantsAssumption

\* Shares are written by the owner's steps only, from a list the contract has validated.
LEMMA SharesStayFit ==
    ASSUME TypeOK, SharesFit, [Next]_vars
    PROVE  SharesFit'
<1> USE DEF planVars, proposalVars, agentVars, worldVars
<1>1. ASSUME UNCHANGED <<beneficiaries, pendingBeneficiaries>> PROVE SharesFit'
    BY <1>1 DEF SharesFit
<1>2. CASE OwnerStep
    <2> PICK b \in Accounts :
            \/ \E s \in ShareChoices, A \in AssetChoices, t \in TermChoices :
                  CreatePlan(b, s, A, t) \/ UpdatePlan(b, s, A, t)
            \/ CancelPlan(b)
            \/ CheckIn(b)
            \/ \E s \in ProposalChoices : ProposeBeneficiaries(b, s)
            \/ ConfirmBeneficiaries(b)
            \/ CancelBeneficiariesChange(b)
        BY <1>2 DEF OwnerStep
    <2>1. \A s : ValidShares(b, s) => Fits(s)
        BY ConstantsAssumption DEF ValidShares, Fits, ConstantsAssumption
    <2>2. beneficiaries \in [Accounts -> Shares] /\ pendingBeneficiaries \in [Accounts -> Shares]
        BY DEF TypeOK
    <2> HIDE DEF Fits
    <2>3. ASSUME NEW s, Fits(s),
                 \/ /\ beneficiaries' = [beneficiaries EXCEPT ![b] = s]
                    /\ UNCHANGED pendingBeneficiaries
                 \/ /\ pendingBeneficiaries' = [pendingBeneficiaries EXCEPT ![b] = s]
                    /\ UNCHANGED beneficiaries
          PROVE  SharesFit'
        BY <2>2, <2>3 DEF SharesFit
    <2>4. ASSUME NEW s \in ShareChoices, NEW A \in AssetChoices, NEW t \in TermChoices,
                 CreatePlan(b, s, A, t) \/ UpdatePlan(b, s, A, t)
          PROVE  SharesFit'
        BY <2>1, <2>3, <2>4 DEF CreatePlan, UpdatePlan
    <2>5. CASE CancelPlan(b) \/ CancelBeneficiariesChange(b)
        BY <2>3, <2>5, NoSharesFit DEF CancelPlan, CancelBeneficiariesChange
    <2>6. CASE CheckIn(b)
        BY <1>1, <2>6 DEF CheckIn
    <2>7. ASSUME NEW s \in ProposalChoices, ProposeBeneficiaries(b, s)
          PROVE  SharesFit'
        BY <2>1, <2>3, <2>7 DEF ProposeBeneficiaries
    <2>8. CASE ConfirmBeneficiaries(b)
        BY <2>2, <2>8, NoSharesFit DEF ConfirmBeneficiaries, SharesFit
    <2> QED
        BY <2>4, <2>5, <2>6, <2>7, <2>8
<1>3. CASE FundingStep \/ WorldStep \/ UNCHANGED vars
    BY <1>1, <1>3 DEF FundingStep, FundAgentBudget, FundReactivity, WithdrawReactivityBudget,
        ConfigureAgent, SetAgentRewardPerCall, WorldStep, Tick, ReceiveFunds, SpendFunds, vars
<1>4. CASE AgentStep
    BY <1>1, <1>4 DEF AgentStep, TriggerAgentHeartbeat, TriggerDistributionAgent,
        HandleHeartbeatResponse, HandleDistributionResponse
<1>5. CASE PayoutStep
    BY <1>1, <1>5 DEF PayoutStep, OnEvent, LoseEvent, ExecuteInheritance
<1> QED
    BY <1>2, <1>3, <1>4, <1>5 DEF Next

\* A share, rounded down, is at most that share.
LEMMA ShareRounds ==
    ASSUME NEW n \in Nat, NEW k \in Nat
    PROVE  BpsTotal * ((n * k) \div BpsTotal) <= n * k
<1>1. PICK m \in Nat : m = n * k
    OBVIOUS
<1>2. BpsTotal \in Nat /\ BpsTotal > 0
    BY ConstantsAssumption DEF ConstantsAssumption
<1>3. BpsTotal * (m \div BpsTotal) <= m
    BY <1>2
<1> QED
    BY <1>1, <1>3

\* What is at most a part of a whole, counted in parts, is at most that whole.
LEMMA PartOfWhole ==
    ASSUME NEW w \in Nat, NEW b \in Nat \ {0}, NEW p \in Int, NEW g \in Int,
           g <= b, b * p <= w * g
    PROVE  p <= w
<1>1. w * g <= w * b
    OBVIOUS
<1>2. b * p <= b * w
    <2>1. w * b = b * w /\ w * g \in Int /\ b * p \in Int /\ b * w \in Int
        OBVIOUS
    <2> QED
        BY <1>1, <2>1
<1>3. SUFFICES ASSUME p >= w + 1 PROVE FALSE
    OBVIOUS
<1>4. b * p >= b * (w + 1)
    BY <1>3
<1>5. b * (w + 1) = b * w + b
    OBVIOUS
<1>6. b * w \in Int /\ b * p \in Int
    OBVIOUS
<1> QED
    BY <1>2, <1>4, <1>5, <1>6

\* The payments of one plan out of one asset, none above its share and the shares no more
\* than the whole, add up to no more than the snapshot.
LEMMA PaymentsFit ==
    ASSUME TypeOK, SharesFit, NEW a \in Accounts, PaidOfShare(a), NEW t \in Tokens
    PROVE  SumFunction([h \in Heirs |-> paid[a][<<t, h>>]]) <= assetSnapshot[a][t]
<1>1. IsFiniteSet(Heirs) /\ BpsTotal \in Nat \ {0}
    BY ConstantsAssumption DEF ConstantsAssumption
<1>2. PICK H \in SUBSET Heirs : beneficiaries[a] \in [H -> 0 .. BpsTotal]
    BY DEF TypeOK, Shares
<1>3. PICK f : f = [h \in Heirs |-> paid[a][<<t, h>>]]
    OBVIOUS
<1>4. PICK g : g = [h \in Heirs |-> IF h \in H THEN beneficiaries[a][h] ELSE 0]
    OBVIOUS
<1>5. PICK w \in Nat : w = assetSnapshot[a][t]
    BY DEF TypeOK
<1>6. ASSUME NEW h \in Heirs
      PROVE  f[h] \in Int /\ g[h] \in Int /\ BpsTotal * f[h] <= w * g[h]
    <2>1. f[h] = paid[a][<<t, h>>] /\ f[h] \in Nat
        BY <1>3 DEF TypeOK, Pairs
    <2>2. g[h] \in Nat
        BY <1>1, <1>2, <1>4
    <2>3. CASE f[h] = 0
        <3>1. w * g[h] \in Nat
            BY <2>2
        <3> QED
            BY <1>1, <2>2, <2>3, <3>1
    <2>4. CASE f[h] # 0
        <3>1. h \in H /\ f[h] = ShareDue(a, t, h)
            BY <1>2, <2>1, <2>4 DEF PaidOfShare
        <3>2. f[h] = (w * g[h]) \div BpsTotal
            BY <1>4, <1>5, <3>1 DEF ShareDue
        <3>3. BpsTotal * ((w * g[h]) \div BpsTotal) <= w * g[h]
            BY <2>2, ShareRounds
        <3> QED
            BY <2>1, <2>2, <3>2, <3>3
    <2> QED
        BY <2>3, <2>4
<1>7. BpsTotal * SumFunctionOnSet(f, Heirs) <= w * SumFunctionOnSet(g, Heirs)
    BY <1>1, <1>6, SumScaled
<1>8. SumFunctionOnSet(g, Heirs) = SumFunctionOnSet(beneficiaries[a], H)
    <2>1. \A h \in H : g[h] = beneficiaries[a][h] /\ beneficiaries[a][h] \in Int
        BY <1>2, <1>4
    <2>2. \A h \in Heirs \ H : g[h] = 0
        BY <1>4
    <2> QED
        BY <1>1, <2>1, <2>2, SumRestrict
<1>9. SumFunctionOnSet(g, Heirs) <= BpsTotal
    <2>1. SumFunction(beneficiaries[a]) = SumFunctionOnSet(beneficiaries[a], H)
        BY <1>2 DEF SumFunction
    <2> QED
        BY <1>8, <2>1 DEF SharesFit, Fits
<1>10. SumFunctionOnSet(f, Heirs) \in Int /\ SumFunctionOnSet(g, Heirs) \in Int
    BY <1>1, <1>6, SumInt
<1>11. SumFunctionOnSet(f, Heirs) <= w
    BY <1>1, <1>7, <1>9, <1>10, PartOfWhole
<1>12. SumFunction(f) = SumFunctionOnSet(f, Heirs)
    BY <1>3 DEF SumFunction
<1> QED
    BY <1>3, <1>5, <1>11, <1>12

\* One plan never pays more of an asset than the balance on record for it: over partial
\* transfers, retries, events and manual executions, for any number of beneficiaries and
\* any shares, rounding included; accounts renewed late are left out.
THEOREM SnapshotIsTheLimit == Spec => []PaidWithinSnapshot
<1>1. Init => SharesFit
    BY NoSharesFit DEF Init, SharesFit
<1>2. TypeOK /\ SharesFit /\ [Next]_vars => SharesFit'
    BY SharesStayFit
<1>3. TypeOK /\ SharesFit /\ PaymentsFollowPlan => PaidWithinSnapshot
    BY PaymentsFit DEF PaymentsFollowPlan, Payments, PaidWithinSnapshot
<1> QED
    BY <1>1, <1>2, <1>3, TypeCorrect, PaymentsCorrect, PTL DEF Spec

-----------------------------------------------------------------------------
(* A distribution that has begun keeps its plan. *)

\* DistributionFixesPlan, for one account.
KeepsPlan(a) ==
    /\ beneficiaries'[a] = beneficiaries[a]
    /\ protectedAssets'[a] = protectedAssets[a]
    /\ plans'[a].terms = plans[a].terms
    /\ plans'[a].state \in {"Active", "Executed"}

LEMMA BegunPlanIsFixed ==
    ASSUME TypeOK, ProgressFollowsPlan, [Next]_vars,
           NEW a \in Accounts, a \notin renewedLate', Active(a), ~Untouched(a)
    PROVE  KeepsPlan(a)
<1> USE DEF planVars, progressVars, agentVars, worldVars
<1>0. plans \in [Accounts -> [state : PlanState, terms : Terms, last : Time]]
    BY DEF TypeOK
<1>1. ASSUME UNCHANGED planVars PROVE KeepsPlan(a)
    BY <1>1 DEF KeepsPlan, Active
<1>2. ASSUME NEW R \in SUBSET Accounts, NEW out, \A b \in R : out[b] \in TransferOutcomes(b),
             ExecuteDistribution(R, out), UNCHANGED <<beneficiaries, protectedAssets>>
      PROVE  KeepsPlan(a)
    <2>1. plans'[a].terms = plans[a].terms /\ plans'[a].state \in {plans[a].state, "Executed"}
        BY <1>0, <1>2, DistributionProgress
    <2> QED
        BY <1>2, <2>1 DEF KeepsPlan, Active
<1>3. ASSUME NEW b \in Accounts, OwnerInTime(b), renewedLate' = renewedLate PROVE a # b
    BY <1>3, InTimeUntouched
<1>4. CASE OwnerStep
    <2> PICK b \in Accounts :
            \/ \E s \in ShareChoices, A \in AssetChoices, t \in TermChoices :
                  CreatePlan(b, s, A, t) \/ UpdatePlan(b, s, A, t)
            \/ CancelPlan(b)
            \/ CheckIn(b)
            \/ \E s \in ProposalChoices : ProposeBeneficiaries(b, s)
            \/ ConfirmBeneficiaries(b)
            \/ CancelBeneficiariesChange(b)
        BY <1>4 DEF OwnerStep
    <2>1. CASE (\E s \in ProposalChoices : ProposeBeneficiaries(b, s)) \/ CancelBeneficiariesChange(b)
        BY <1>1, <2>1 DEF ProposeBeneficiaries, CancelBeneficiariesChange
    <2>2. ASSUME NEW s \in ShareChoices, NEW A \in AssetChoices, NEW t \in TermChoices,
                 CreatePlan(b, s, A, t)
          PROVE  KeepsPlan(a)
        BY <1>0, <2>2 DEF CreatePlan, KeepsPlan, Active, TypeOK
    <2>3. ASSUME NEW s \in ShareChoices, NEW A \in AssetChoices, NEW t \in TermChoices,
                 UpdatePlan(b, s, A, t)
          PROVE  KeepsPlan(a)
        <3>1. a # b
            BY <1>3, <2>3 DEF UpdatePlan
        <3> QED
            BY <1>0, <2>3, <3>1 DEF UpdatePlan, KeepsPlan, Active, TypeOK
    <2>4. CASE CancelPlan(b) \/ CheckIn(b) \/ ConfirmBeneficiaries(b)
        <3>1. a # b
            BY <1>3, <2>4 DEF CancelPlan, CheckIn, ConfirmBeneficiaries
        <3> QED
            BY <1>0, <2>4, <3>1 DEF CancelPlan, CheckIn, ConfirmBeneficiaries, KeepsPlan, Active,
                TypeOK
    <2> QED
        BY <2>1, <2>2, <2>3, <2>4
<1>5. CASE FundingStep \/ WorldStep \/ UNCHANGED vars
    BY <1>1, <1>5 DEF FundingStep, FundAgentBudget, FundReactivity, WithdrawReactivityBudget,
        ConfigureAgent, SetAgentRewardPerCall, WorldStep, Tick, ReceiveFunds, SpendFunds, vars
<1>6. ASSUME NEW b \in Accounts, TriggerAgentHeartbeat(b) \/ TriggerDistributionAgent(b)
      PROVE  KeepsPlan(a)
    BY <1>1, <1>6 DEF TriggerAgentHeartbeat, TriggerDistributionAgent
<1>7. ASSUME NEW r \in openRequests, NEW success \in BOOLEAN,
             HandleHeartbeatResponse(r, success)
      PROVE  KeepsPlan(a)
    <2>1. PICK b \in Accounts : b = pendingHeartbeatSmartAccount[r.id]
        BY <1>7 DEF HandleHeartbeatResponse, TypeOK
    <2>2. /\ UNCHANGED <<beneficiaries, protectedAssets>>
          /\ plans' = plans \/ plans' = [plans EXCEPT ![b].last = now]
        BY <1>7, <2>1 DEF HandleHeartbeatResponse
    <2> QED
        BY <1>0, <2>2 DEF KeepsPlan, Active
<1>8. ASSUME NEW r \in openRequests, NEW success \in BOOLEAN,
             HandleDistributionResponse(r, success)
      PROVE  KeepsPlan(a)
    <2> DEFINE b == pendingDistributionSmartAccount[r.id]
               R == {c \in {b} : success /\ Distributable(c)}
    <2>1. R \in SUBSET Accounts
        BY <1>8 DEF HandleDistributionResponse, TypeOK
    <2>2. PICK o \in TransferOutcomes(b) : ExecuteDistribution(R, [c \in R |-> o])
        BY <1>8 DEF HandleDistributionResponse
    <2>3. \A c \in R : [d \in R |-> o][c] \in TransferOutcomes(c)
        BY <2>2
    <2>4. UNCHANGED <<beneficiaries, protectedAssets>>
        BY <1>8 DEF HandleDistributionResponse
    <2> HIDE DEF R
    <2> QED
        BY <1>2, <2>1, <2>2, <2>3, <2>4
<1>9. CASE PayoutStep
    <2>1. ASSUME NEW s \in Time, NEW raw \in Time, OnEvent(s, raw) PROVE KeepsPlan(a)
        <3>1. PICK out : /\ \A b \in Reached(raw) : out[b] \in TransferOutcomes(b)
                         /\ ExecuteDistribution(Reached(raw), out)
            BY <2>1 DEF OnEvent
        <3>2. Reached(raw) \in SUBSET Accounts /\ UNCHANGED <<beneficiaries, protectedAssets>>
            BY <2>1 DEF Reached, OnEvent
        <3> QED
            BY <1>2, <3>1, <3>2
    <2>2. ASSUME NEW s \in Time, LoseEvent(s) PROVE KeepsPlan(a)
        BY <1>1, <2>2 DEF LoseEvent
    <2>3. ASSUME NEW b \in Accounts, ExecuteInheritance(b) PROVE KeepsPlan(a)
        <3>1. PICK o \in TransferOutcomes(b) : ExecuteDistribution({b}, [c \in {b} |-> o])
            BY <2>3 DEF ExecuteInheritance
        <3>2. \A c \in {b} : [d \in {b} |-> o][c] \in TransferOutcomes(c)
            BY <3>1
        <3>3. UNCHANGED <<beneficiaries, protectedAssets>> /\ {b} \in SUBSET Accounts
            BY <2>3 DEF ExecuteInheritance
        <3> QED
            BY <1>2, <3>1, <3>2, <3>3
    <2> QED
        BY <1>9, <2>1, <2>2, <2>3 DEF PayoutStep
<1> QED
    BY <1>4, <1>5, <1>6, <1>7, <1>8, <1>9 DEF Next, AgentStep

\* An owner can redirect nothing of a distribution that has begun, and no other step
\* can: the lists and terms it began with are those it ends with.
THEOREM DistributionsKeepPlan == Spec => DistributionFixesPlan
<1>1. TypeOK /\ ProgressFollowsPlan /\ [Next]_vars =>
        [\A a \in Accounts \ renewedLate' :
            Active(a) /\ ~Untouched(a) =>
              /\ beneficiaries'[a] = beneficiaries[a]
              /\ protectedAssets'[a] = protectedAssets[a]
              /\ plans'[a].terms = plans[a].terms
              /\ plans'[a].state \in {"Active", "Executed"}]_vars
    BY BegunPlanIsFixed DEF KeepsPlan
<1> QED
    BY <1>1, TypeCorrect, ProgressCorrect, PTL DEF Spec, DistributionFixesPlan

-----------------------------------------------------------------------------
(* The contract implements the promise of DeadManSwitch. *)

\* A running plan gives its owner notice: its heartbeat is no shorter than the minimum.
GivesNotice == \A a \in Accounts : Active(a) => plans[a].terms.hb >= MinHeartbeat

LEMMA NoticeKept ==
    ASSUME TypeOK, GivesNotice, [Next]_vars
    PROVE  GivesNotice'
<1> USE DEF planVars, progressVars, agentVars, worldVars
<1>0. plans \in [Accounts -> [state : PlanState, terms : Terms, last : Time]]
    BY DEF TypeOK
<1>1. ASSUME \A a \in Accounts : plans'[a].terms = plans[a].terms /\ (Active(a)' => Active(a))
      PROVE  GivesNotice'
    BY <1>1 DEF GivesNotice
<1>2. ASSUME NEW R \in SUBSET Accounts, NEW out, \A b \in R : out[b] \in TransferOutcomes(b),
             ExecuteDistribution(R, out)
      PROVE  GivesNotice'
    <2>1. ASSUME NEW a \in Accounts
          PROVE  plans'[a].terms = plans[a].terms /\ (Active(a)' => Active(a))
        <3>1. plans'[a].terms = plans[a].terms /\ plans'[a].state \in {plans[a].state, "Executed"}
            BY <1>0, <1>2, DistributionProgress
        <3> QED
            BY <3>1 DEF Active
    <2> QED
        BY <1>1, <2>1
<1>3. ASSUME NEW b \in Accounts, NEW s \in ShareChoices, NEW A \in AssetChoices,
             NEW t \in TermChoices, CreatePlan(b, s, A, t) \/ UpdatePlan(b, s, A, t)
      PROVE  GivesNotice'
    BY <1>0, <1>3 DEF CreatePlan, UpdatePlan, ValidTerms, GivesNotice, Active
<1>4. ASSUME NEW b \in Accounts, CancelPlan(b) \/ CheckIn(b) PROVE GivesNotice'
    BY <1>0, <1>4 DEF CancelPlan, CheckIn, GivesNotice, Active
<1>5. ASSUME UNCHANGED plans PROVE GivesNotice'
    BY <1>5 DEF GivesNotice, Active
<1>6. CASE OwnerStep
    BY <1>3, <1>4, <1>5, <1>6 DEF OwnerStep, ProposeBeneficiaries, ConfirmBeneficiaries,
        CancelBeneficiariesChange
<1>7. CASE FundingStep \/ WorldStep \/ UNCHANGED vars
    BY <1>5, <1>7 DEF FundingStep, FundAgentBudget, FundReactivity, WithdrawReactivityBudget,
        ConfigureAgent, SetAgentRewardPerCall, WorldStep, Tick, ReceiveFunds, SpendFunds, vars
<1>8. ASSUME NEW b \in Accounts, TriggerAgentHeartbeat(b) \/ TriggerDistributionAgent(b)
      PROVE  GivesNotice'
    BY <1>5, <1>8 DEF TriggerAgentHeartbeat, TriggerDistributionAgent
<1>9. ASSUME NEW r \in openRequests, NEW success \in BOOLEAN,
             HandleHeartbeatResponse(r, success)
      PROVE  GivesNotice'
    <2>1. PICK b \in Accounts : b = pendingHeartbeatSmartAccount[r.id]
        BY <1>9 DEF HandleHeartbeatResponse, TypeOK
    <2>2. plans' = plans \/ plans' = [plans EXCEPT ![b].last = now]
        BY <1>9, <2>1 DEF HandleHeartbeatResponse
    <2> QED
        BY <1>0, <2>2 DEF GivesNotice, Active
<1>10. ASSUME NEW r \in openRequests, NEW success \in BOOLEAN,
              HandleDistributionResponse(r, success)
       PROVE  GivesNotice'
    <2> DEFINE b == pendingDistributionSmartAccount[r.id]
               R == {c \in {b} : success /\ Distributable(c)}
    <2>1. R \in SUBSET Accounts
        BY <1>10 DEF HandleDistributionResponse, TypeOK
    <2>2. PICK o \in TransferOutcomes(b) : ExecuteDistribution(R, [c \in R |-> o])
        BY <1>10 DEF HandleDistributionResponse
    <2>3. \A c \in R : [d \in R |-> o][c] \in TransferOutcomes(c)
        BY <2>2
    <2> HIDE DEF R
    <2> QED
        BY <1>2, <2>1, <2>2, <2>3
<1>11. CASE PayoutStep
    <2>1. ASSUME NEW s \in Time, NEW raw \in Time, OnEvent(s, raw) PROVE GivesNotice'
        <3>1. PICK out : /\ \A b \in Reached(raw) : out[b] \in TransferOutcomes(b)
                         /\ ExecuteDistribution(Reached(raw), out)
            BY <2>1 DEF OnEvent
        <3>2. Reached(raw) \in SUBSET Accounts
            BY DEF Reached
        <3> QED
            BY <1>2, <3>1, <3>2
    <2>2. ASSUME NEW s \in Time, LoseEvent(s) PROVE GivesNotice'
        BY <1>5, <2>2 DEF LoseEvent
    <2>3. ASSUME NEW b \in Accounts, ExecuteInheritance(b) PROVE GivesNotice'
        <3>1. PICK o \in TransferOutcomes(b) : ExecuteDistribution({b}, [c \in {b} |-> o])
            BY <2>3 DEF ExecuteInheritance
        <3>2. \A c \in {b} : [d \in {b} |-> o][c] \in TransferOutcomes(c)
            BY <3>1
        <3>3. {b} \in SUBSET Accounts
            OBVIOUS
        <3> QED
            BY <1>2, <3>1, <3>2, <3>3
    <2> QED
        BY <1>11, <2>1, <2>2, <2>3 DEF PayoutStep
<1> QED
    BY <1>6, <1>7, <1>8, <1>9, <1>10, <1>11 DEF Next, AgentStep

\* A step of one switch, a payout for several, the passing of time and a stutter.
LEMMA PromiseTouch ==
    ASSUME now' = now, NEW a \in Accounts,
           \A b \in Accounts \ {a} : SwitchOf(b)' = SwitchOf(b),
           \/ Promise!Arm(SwitchOf(a), SwitchOf(a)')
           \/ Promise!Amend(SwitchOf(a), SwitchOf(a)')
           \/ Promise!Renew(SwitchOf(a), SwitchOf(a)')
           \/ Promise!Cancel(SwitchOf(a), SwitchOf(a)')
           \/ Promise!Ask(SwitchOf(a), SwitchOf(a)')
           \/ Promise!Answer(SwitchOf(a), SwitchOf(a)')
    PROVE  Promise!Next
<1>1. Promise!Touch(a)
    BY DEF Promise!Touch
<1> QED
    BY <1>1 DEF Promise!Next

LEMMA PromisePays ==
    ASSUME now' = now,
           \A a \in Accounts :
              SwitchOf(a)' = SwitchOf(a) \/ Promise!Pay(SwitchOf(a), SwitchOf(a)')
    PROVE  Promise!Next
<1>1. Promise!PayOut
    BY DEF Promise!PayOut
<1> QED
    BY <1>1 DEF Promise!Next

LEMMA PromiseStill ==
    ASSUME now' = now \/ now' > now, \A a \in Accounts : SwitchOf(a)' = SwitchOf(a)
    PROVE  [Promise!Next]_(Promise!vars)
<1>1. [a \in Accounts |-> SwitchOf(a)]' = [a \in Accounts |-> SwitchOf(a)]
    OBVIOUS
<1> QED
    BY <1>1 DEF Promise!Next, Promise!Pass, Promise!vars

\* A switch depends on the plan, on what was paid and on the pending question.
LEMMA SameSwitch ==
    ASSUME NEW a \in Accounts, plans'[a] = plans[a], paid'[a] = paid[a],
           pendingHeartbeatRequestId'[a] = pendingHeartbeatRequestId[a]
    PROVE  SwitchOf(a)' = SwitchOf(a)
BY DEF SwitchOf, GraceEndsAt, TimelockEndsAt

\* A switch is the record of its fields.
LEMMA SwitchRecord ==
    ASSUME NEW a
    PROVE  /\ SwitchOf(a) = [phase |-> plans[a].state, vetoUntil |-> GraceEndsAt(a),
                             payFrom |-> TimelockEndsAt(a), begun |-> SwitchOf(a).begun,
                             asked |-> SwitchOf(a).asked]
           /\ SwitchOf(a)' = [phase |-> plans'[a].state, vetoUntil |-> GraceEndsAt(a)',
                              payFrom |-> TimelockEndsAt(a)', begun |-> SwitchOf(a)'.begun,
                              asked |-> SwitchOf(a)'.asked]
BY Zenon DEF SwitchOf

\* The dates of a running plan, in the terms of the promise.
LEMMA SwitchDates ==
    ASSUME TypeOK', GivesNotice', NEW a \in Accounts, plans'[a].state = "Active"
    PROVE  /\ Promise!Dated(SwitchOf(a)')
           /\ plans'[a].last = now => now < SwitchOf(a)'.vetoUntil
<1>1. plans'[a] \in [state : PlanState, terms : Terms, last : Time] /\ plans'[a].terms.hb >= 1
    BY ConstantsAssumption DEF TypeOK, GivesNotice, Active, ConstantsAssumption, Terms
<1>2. /\ plans'[a].last \in Nat /\ plans'[a].terms.hb \in Nat
      /\ plans'[a].terms.grace \in Nat /\ plans'[a].terms.lock \in Nat
    BY <1>1, ConstantsAssumption DEF Terms, Time, ConstantsAssumption
<1>3. /\ SwitchOf(a)'.vetoUntil = plans'[a].last + plans'[a].terms.hb + plans'[a].terms.grace
      /\ SwitchOf(a)'.payFrom = SwitchOf(a)'.vetoUntil + plans'[a].terms.lock
      /\ SwitchOf(a)'.phase = "Active"
    BY DEF SwitchOf, GraceEndsAt, TimelockEndsAt
<1> QED
    BY <1>1, <1>2, <1>3 DEF Promise!Dated

\* A call of _executeDistribution for accounts past their timelock is a payout of the
\* promise.
LEMMA DistributionRefines ==
    ASSUME TypeOK, TypeOK', NEW R \in SUBSET Accounts, NEW out,
           \A a \in R : out[a] \in TransferOutcomes(a) /\ Distributable(a),
           ExecuteDistribution(R, out), now' = now,
           UNCHANGED <<beneficiaries, pendingHeartbeatRequestId>>
    PROVE  Promise!Next
<1>1. ASSUME NEW a \in Accounts \ R PROVE SwitchOf(a)' = SwitchOf(a)
    BY <1>1, DistributionProgress, SameSwitch
<1>2. ASSUME NEW a \in R PROVE Promise!Pay(SwitchOf(a), SwitchOf(a)')
    <2>1. /\ plans'[a].terms = plans[a].terms /\ plans'[a].last = plans[a].last
          /\ plans'[a].state \in {plans[a].state, "Executed"}
        BY <1>2, DistributionProgress
    <2>2. plans[a].state = "Active" /\ now >= TimelockEndsAt(a)
        BY <1>2 DEF Distributable, TimelockReady, Active
    <2>3. ASSUME NEW p \in Pairs, paid[a][p] > 0 PROVE paid'[a][p] > 0
        <3>1. paid'[a][p] = paid[a][p] +
                (IF p \in out[a].moved THEN Amount(a, p[1], p[2]) ELSE 0)
            BY <1>2 DEF ExecuteDistribution
        <3>2. p \in out[a].moved => Amount(a, p[1], p[2]) > 0
            BY <1>2 DEF TransferOutcomes, Due
        <3>3. paid[a][p] \in Nat /\ paid'[a][p] \in Nat
            BY DEF TypeOK
        <3>4. CASE p \in out[a].moved
            <4>1. p \in protectedAssets[a] \X DOMAIN beneficiaries[a]
                BY <1>2, <3>4 DEF TransferOutcomes, Due
            <4>2. Amount(a, p[1], p[2]) \in Nat
                BY <4>1, AmountType DEF TypeOK
            <4> QED
                BY <2>3, <3>1, <3>2, <3>3, <3>4, <4>2
        <3>5. CASE p \notin out[a].moved
            BY <2>3, <3>1, <3>3, <3>5
        <3> QED
            BY <3>4, <3>5
    <2>4. /\ SwitchOf(a).phase = "Active" /\ now >= SwitchOf(a).payFrom
          /\ SwitchOf(a)'.phase \in {"Active", "Executed"}
          /\ SwitchOf(a).begun => SwitchOf(a)'.begun
        BY <2>1, <2>2, <2>3 DEF SwitchOf
    <2>5. SwitchOf(a)' = [SwitchOf(a) EXCEPT !.phase = SwitchOf(a)'.phase,
                                             !.begun = SwitchOf(a)'.begun]
        <3>1. GraceEndsAt(a)' = GraceEndsAt(a) /\ TimelockEndsAt(a)' = TimelockEndsAt(a)
            BY <2>1 DEF GraceEndsAt, TimelockEndsAt
        <3>2. SwitchOf(a)'.asked = SwitchOf(a).asked
            BY DEF SwitchOf
        <3>3. SwitchOf(a)' = [phase |-> SwitchOf(a)'.phase, vetoUntil |-> GraceEndsAt(a),
                              payFrom |-> TimelockEndsAt(a), begun |-> SwitchOf(a)'.begun,
                              asked |-> SwitchOf(a).asked]
            BY <3>1, <3>2, SwitchRecord
        <3> DEFINE t == SwitchOf(a)'
                   half == [SwitchOf(a) EXCEPT !.phase = t.phase]
        <3>4. half = [phase |-> t.phase, vetoUntil |-> GraceEndsAt(a),
                      payFrom |-> TimelockEndsAt(a), begun |-> SwitchOf(a).begun,
                      asked |-> SwitchOf(a).asked]
            BY SwitchRecord
        <3>5. [half EXCEPT !.begun = t.begun] = t
            <4> HIDE DEF half
            <4> QED
                BY <3>3, <3>4
        <3>6. [SwitchOf(a) EXCEPT !.phase = t.phase, !.begun = t.begun] =
                [half EXCEPT !.begun = t.begun]
            OBVIOUS
        <3> QED
            BY <3>5, <3>6
    <2> QED
        BY <2>4, <2>5 DEF Promise!Pay
<1> QED
    BY <1>1, <1>2, PromisePays

\* The owner's steps.
LEMMA OwnerRefines ==
    ASSUME TypeOK, TypeOK', GivesNotice', OwnerStep
    PROVE  [Promise!Next]_(Promise!vars)
<1> USE DEF planVars, progressVars, agentVars, heartbeatVars, worldVars
<1> PICK a \in Accounts :
        \/ \E s \in ShareChoices, A \in AssetChoices, t \in TermChoices :
              CreatePlan(a, s, A, t) \/ UpdatePlan(a, s, A, t)
        \/ CancelPlan(a)
        \/ CheckIn(a)
        \/ \E s \in ProposalChoices : ProposeBeneficiaries(a, s)
        \/ ConfirmBeneficiaries(a)
        \/ CancelBeneficiariesChange(a)
    BY DEF OwnerStep
<1>0. plans \in [Accounts -> [state : PlanState, terms : Terms, last : Time]]
      /\ paid \in [Accounts -> [Pairs -> Nat]]
    BY DEF TypeOK
<1>1. /\ now' = now /\ UNCHANGED pendingHeartbeatRequestId
      /\ \A b \in Accounts \ {a} : plans'[b] = plans[b] /\ paid'[b] = paid[b]
    BY <1>0 DEF CreatePlan, UpdatePlan, ClearDistributionState, CancelPlan, CheckIn,
        ProposeBeneficiaries, ConfirmBeneficiaries, CancelBeneficiariesChange
<1>2. \A b \in Accounts \ {a} : SwitchOf(b)' = SwitchOf(b)
    BY <1>1, SameSwitch
<1>3. OwnerInTime(a) => Promise!InTime(SwitchOf(a))
    BY DEF OwnerInTime, Active, SwitchOf, Promise!InTime
<1>4. ASSUME NEW s \in ShareChoices, NEW A \in AssetChoices, NEW t \in TermChoices,
             CreatePlan(a, s, A, t)
      PROVE  Promise!Arm(SwitchOf(a), SwitchOf(a)')
    <2>1. /\ plans[a].state # "Active" /\ plans'[a].state = "Active" /\ plans'[a].last = now
          /\ \A p \in Pairs : paid'[a][p] = 0
        BY <1>0, <1>4 DEF CreatePlan, ClearDistributionState, Active
    <2>2. SwitchOf(a).phase # "Active" /\ ~SwitchOf(a)'.begun
          /\ SwitchOf(a)'.asked = SwitchOf(a).asked
        BY <1>1, <2>1 DEF SwitchOf
    <2> QED
        BY <2>1, <2>2, SwitchDates DEF Promise!Arm
<1>5. ASSUME NEW s \in ShareChoices, NEW A \in AssetChoices, NEW t \in TermChoices,
             UpdatePlan(a, s, A, t)
      PROVE  Promise!Amend(SwitchOf(a), SwitchOf(a)')
    <2>1. /\ OwnerInTime(a) /\ plans'[a].state = "Active"
          /\ \A p \in Pairs : paid'[a][p] = 0
        BY <1>0, <1>5 DEF UpdatePlan, ClearDistributionState, OwnerInTime, Active
    <2>2. ~SwitchOf(a)'.begun /\ SwitchOf(a)'.asked = SwitchOf(a).asked
        BY <1>1, <2>1 DEF SwitchOf
    <2> QED
        BY <1>3, <2>1, <2>2, SwitchDates DEF Promise!Amend
<1>6. CASE CheckIn(a)
    <2>1. /\ OwnerInTime(a) /\ plans'[a].state = "Active" /\ plans'[a].last = now
          /\ paid' = paid
        BY <1>0, <1>6 DEF CheckIn, OwnerInTime, Active
    <2>2. SwitchOf(a)'.begun = SwitchOf(a).begun /\ SwitchOf(a)'.asked = SwitchOf(a).asked
        BY <1>1, <2>1 DEF SwitchOf
    <2>3. Promise!Renew(SwitchOf(a), SwitchOf(a)')
        BY <1>3, <2>1, <2>2, SwitchDates DEF Promise!Renew
    <2> QED
        BY <1>1, <1>2, <2>3, PromiseTouch
<1>7. CASE CancelPlan(a)
    <2>1. /\ OwnerInTime(a) /\ plans' = [plans EXCEPT ![a].state = "Cancelled"]
          /\ paid' = paid
        BY <1>7 DEF CancelPlan
    <2>2. /\ plans'[a].state = "Cancelled" /\ plans'[a].terms = plans[a].terms
          /\ plans'[a].last = plans[a].last
        BY <1>0, <2>1
    <2>3. SwitchOf(a)' = [SwitchOf(a) EXCEPT !.phase = "Cancelled"]
        <3>1. GraceEndsAt(a)' = GraceEndsAt(a) /\ TimelockEndsAt(a)' = TimelockEndsAt(a)
            BY <2>2 DEF GraceEndsAt, TimelockEndsAt
        <3>2. SwitchOf(a)'.begun = SwitchOf(a).begun /\ SwitchOf(a)'.asked = SwitchOf(a).asked
            BY <1>1, <2>1 DEF SwitchOf
        <3> QED
            BY <2>2, <3>1, <3>2, SwitchRecord
    <2>4. Promise!Cancel(SwitchOf(a), SwitchOf(a)')
        BY <1>3, <2>1, <2>3 DEF Promise!Cancel
    <2> QED
        BY <1>1, <1>2, <2>4, PromiseTouch
<1>8. CASE \/ \E s \in ProposalChoices : ProposeBeneficiaries(a, s)
           \/ ConfirmBeneficiaries(a)
           \/ CancelBeneficiariesChange(a)
    <2>1. UNCHANGED <<plans, paid>>
        BY <1>8 DEF ProposeBeneficiaries, ConfirmBeneficiaries, CancelBeneficiariesChange
    <2> QED
        BY <1>1, <2>1, SameSwitch, PromiseStill
<1> QED
    BY <1>1, <1>2, <1>4, <1>5, <1>6, <1>7, <1>8, PromiseTouch

\* Questions and answers.
LEMMA AgentRefines ==
    ASSUME TypeOK, TypeOK', GivesNotice', RequestsAgree, AgentStep
    PROVE  [Promise!Next]_(Promise!vars)
<1> USE DEF planVars, progressVars, heartbeatVars, worldVars
<1>0. /\ plans \in [Accounts -> [state : PlanState, terms : Terms, last : Time]]
      /\ pendingHeartbeatRequestId \in [Accounts -> {0} \cup RequestId]
      /\ 0 \notin RequestId
    BY DEF TypeOK, RequestId
<1>1. ASSUME NEW a \in Accounts, TriggerAgentHeartbeat(a) PROVE Promise!Next
    <2> DEFINE id == lastRequestId[agentPlatform] + 1
    <2>1. /\ OwnerInTime(a) /\ pendingHeartbeatRequestId[a] = 0 /\ id \in RequestId
          /\ pendingHeartbeatRequestId' = [pendingHeartbeatRequestId EXCEPT ![a] = id]
          /\ UNCHANGED <<now, plans, paid>>
        BY <1>1 DEF TriggerAgentHeartbeat, HeartbeatIdle, RequestAgent
    <2> HIDE DEF id
    <2>2. pendingHeartbeatRequestId'[a] # 0
        BY <1>0, <2>1
    <2>3. SwitchOf(a)' = [SwitchOf(a) EXCEPT !.asked = TRUE] /\ ~SwitchOf(a).asked
        <3>1. GraceEndsAt(a)' = GraceEndsAt(a) /\ TimelockEndsAt(a)' = TimelockEndsAt(a)
            BY <2>1 DEF GraceEndsAt, TimelockEndsAt
        <3>2. SwitchOf(a)'.begun = SwitchOf(a).begun
            BY <2>1 DEF SwitchOf
        <3>3. SwitchOf(a)'.asked = TRUE /\ ~SwitchOf(a).asked
            BY <2>1, <2>2 DEF SwitchOf
        <3> QED
            BY <2>1, <3>1, <3>2, <3>3, SwitchRecord
    <2>4. Promise!Ask(SwitchOf(a), SwitchOf(a)')
        BY <2>1, <2>3 DEF Promise!Ask, Promise!InTime, OwnerInTime, Active, SwitchOf
    <2>5. \A b \in Accounts \ {a} : SwitchOf(b)' = SwitchOf(b)
        BY <1>0, <2>1, SameSwitch
    <2> QED
        BY <2>1, <2>4, <2>5, PromiseTouch
<1>2. ASSUME NEW a \in Accounts, TriggerDistributionAgent(a)
      PROVE  [Promise!Next]_(Promise!vars)
    <2>1. UNCHANGED <<now, plans, paid, pendingHeartbeatRequestId>>
        BY <1>2 DEF TriggerDistributionAgent
    <2> QED
        BY <2>1, SameSwitch, PromiseStill
<1>3. ASSUME NEW r \in openRequests, NEW success \in BOOLEAN,
             HandleHeartbeatResponse(r, success)
      PROVE  Promise!Next
    <2>1. PICK a \in Accounts : a = pendingHeartbeatSmartAccount[r.id] /\ a # NoAccount
        BY <1>3 DEF HandleHeartbeatResponse, TypeOK
    <2>2. /\ pendingHeartbeatRequestId' = [pendingHeartbeatRequestId EXCEPT ![a] = 0]
          /\ UNCHANGED <<now, paid>>
          /\ \/ plans' = plans
             \/ Active(a) /\ plans' = [plans EXCEPT ![a].last = now]
        BY <1>3, <2>1 DEF HandleHeartbeatResponse
    <2>3. pendingHeartbeatRequestId[a] # 0 /\ pendingHeartbeatRequestId'[a] = 0
        <3>1. r.id \in RequestId
            BY DEF TypeOK
        <3>2. pendingHeartbeatRequestId[a] = r.id
            BY <2>1, <3>1 DEF RequestsAgree
        <3> QED
            BY <1>0, <2>2, <3>1, <3>2
    <2>4. SwitchOf(a).asked /\ ~SwitchOf(a)'.asked /\ SwitchOf(a)'.begun = SwitchOf(a).begun
        BY <2>2, <2>3 DEF SwitchOf
    <2>5. Promise!Answer(SwitchOf(a), SwitchOf(a)')
        <3>1. CASE plans' = plans
            <4>1. SwitchOf(a)' = [SwitchOf(a) EXCEPT !.asked = FALSE]
                <5>1. GraceEndsAt(a)' = GraceEndsAt(a) /\ TimelockEndsAt(a)' = TimelockEndsAt(a)
                    BY <3>1 DEF GraceEndsAt, TimelockEndsAt
                <5>2. SwitchOf(a)'.begun = SwitchOf(a).begun
                    BY <2>2 DEF SwitchOf
                <5>3. SwitchOf(a)'.asked = FALSE
                    BY <2>3 DEF SwitchOf
                <5> QED
                    BY <3>1, <5>1, <5>2, <5>3, SwitchRecord
            <4> QED
                BY <2>4, <4>1 DEF Promise!Answer
        <3>2. CASE Active(a) /\ plans' = [plans EXCEPT ![a].last = now]
            <4>1. plans'[a].state = "Active" /\ plans'[a].last = now
                BY <1>0, <3>2 DEF Active
            <4>2. SwitchOf(a).phase = "Active"
                BY <3>2 DEF SwitchOf, Active
            <4> QED
                BY <2>4, <4>1, <4>2, SwitchDates DEF Promise!Answer
        <3> QED
            BY <2>2, <3>1, <3>2
    <2>6. \A b \in Accounts \ {a} : SwitchOf(b)' = SwitchOf(b)
        BY <1>0, <2>2, SameSwitch
    <2> QED
        BY <2>2, <2>5, <2>6, PromiseTouch
<1>4. ASSUME NEW r \in openRequests, NEW success \in BOOLEAN,
             HandleDistributionResponse(r, success)
      PROVE  Promise!Next
    <2> DEFINE a == pendingDistributionSmartAccount[r.id]
               R == {b \in {a} : success /\ Distributable(b)}
    <2>1. R \in SUBSET Accounts
        BY <1>4 DEF HandleDistributionResponse, TypeOK
    <2>2. PICK o \in TransferOutcomes(a) : ExecuteDistribution(R, [b \in R |-> o])
        BY <1>4 DEF HandleDistributionResponse
    <2>3. \A b \in R : [c \in R |-> o][b] \in TransferOutcomes(b) /\ Distributable(b)
        BY <2>2
    <2>4. now' = now /\ UNCHANGED <<beneficiaries, pendingHeartbeatRequestId>>
        BY <1>4 DEF HandleDistributionResponse
    <2> HIDE DEF R
    <2> QED
        BY <2>1, <2>2, <2>3, <2>4, DistributionRefines
<1> QED
    BY <1>1, <1>2, <1>3, <1>4 DEF AgentStep

\* Payouts and the rest of the world.
LEMMA OtherStepsRefine ==
    ASSUME TypeOK, TypeOK', FundingStep \/ PayoutStep \/ WorldStep \/ UNCHANGED vars
    PROVE  [Promise!Next]_(Promise!vars)
<1> USE DEF planVars, progressVars, agentVars, heartbeatVars, worldVars
<1>0. now \in Nat
    BY ConstantsAssumption DEF TypeOK, Time, ConstantsAssumption
<1>1. ASSUME now' = now \/ now' = now + 1, UNCHANGED <<plans, paid, pendingHeartbeatRequestId>>
      PROVE  [Promise!Next]_(Promise!vars)
    <2>1. now' = now \/ now' > now
        BY <1>0, <1>1
    <2> QED
        BY <1>1, <2>1, SameSwitch, PromiseStill
<1>2. CASE FundingStep \/ WorldStep \/ UNCHANGED vars
    BY <1>1, <1>2 DEF FundingStep, FundAgentBudget, FundReactivity, WithdrawReactivityBudget,
        ConfigureAgent, SetAgentRewardPerCall, WorldStep, Tick, ReceiveFunds, SpendFunds, vars
<1>3. ASSUME NEW s \in Time, NEW raw \in Time, OnEvent(s, raw) PROVE Promise!Next
    <2>1. PICK out : /\ \A a \in Reached(raw) : out[a] \in TransferOutcomes(a)
                     /\ ExecuteDistribution(Reached(raw), out)
        BY <1>3 DEF OnEvent
    <2>2. Reached(raw) \in SUBSET Accounts /\ \A a \in Reached(raw) : Distributable(a)
        BY DEF Reached
    <2>3. now' = now /\ UNCHANGED <<beneficiaries, pendingHeartbeatRequestId>>
        BY <1>3 DEF OnEvent
    <2> QED
        BY <2>1, <2>2, <2>3, DistributionRefines
<1>4. ASSUME NEW s \in Time, LoseEvent(s) PROVE [Promise!Next]_(Promise!vars)
    BY <1>1, <1>4 DEF LoseEvent
<1>5. ASSUME NEW a \in Accounts, ExecuteInheritance(a) PROVE Promise!Next
    <2>1. PICK o \in TransferOutcomes(a) : ExecuteDistribution({a}, [b \in {a} |-> o])
        BY <1>5 DEF ExecuteInheritance
    <2>2. \A b \in {a} : [c \in {a} |-> o][b] \in TransferOutcomes(b) /\ Distributable(b)
        BY <1>5, <2>1 DEF ExecuteInheritance
    <2>3. /\ now' = now /\ UNCHANGED <<beneficiaries, pendingHeartbeatRequestId>>
          /\ {a} \in SUBSET Accounts
        BY <1>5 DEF ExecuteInheritance
    <2> QED
        BY <2>1, <2>2, <2>3, DistributionRefines
<1> QED
    BY <1>2, <1>3, <1>4, <1>5 DEF PayoutStep

\* The contract implements the switch: whatever owners, agents, events, keepers and the
\* clock do in whatever order, every step of it is one the promise allows, or none.
THEOREM PromiseIsKept == Spec => KeepsPromise
<1>1. Init => Promise!Init /\ GivesNotice
    <2> SUFFICES ASSUME Init PROVE Promise!Init /\ GivesNotice
        OBVIOUS
    <2>1. ASSUME NEW a \in Accounts
          PROVE  SwitchOf(a) = [phase |-> "None", vetoUntil |-> 0, payFrom |-> 0,
                                begun |-> FALSE, asked |-> FALSE]
        <3>1. GraceEndsAt(a) = 0 /\ TimelockEndsAt(a) = 0
            BY DEF Init, NoTerms, GraceEndsAt, TimelockEndsAt
        <3>2. SwitchOf(a).begun = FALSE
            <4>1. \A p \in Pairs : ~(paid[a][p] > 0)
                BY DEF Init
            <4> QED
                BY <4>1 DEF SwitchOf
        <3>3. SwitchOf(a).asked = FALSE
            <4>1. pendingHeartbeatRequestId[a] = 0
                BY DEF Init
            <4> QED
                BY <4>1 DEF SwitchOf
        <3>4. plans[a].state = "None"
            BY DEF Init
        <3> QED
            BY <3>1, <3>2, <3>3, <3>4, SwitchRecord
    <2>2. GivesNotice
        BY DEF Init, GivesNotice, Active
    <2> QED
        BY <2>1, <2>2 DEF Init, Promise!Init
<1>2. TypeOK /\ GivesNotice /\ [Next]_vars => GivesNotice'
    BY NoticeKept
<1>3. TypeOK /\ TypeOK' /\ GivesNotice' /\ RequestsAgree /\ [Next]_vars
      => [Promise!Next]_(Promise!vars)
    BY OwnerRefines, AgentRefines, OtherStepsRefine DEF Next
<1> QED
    BY <1>1, <1>2, <1>3, TypeCorrect, RequestTablesAgree, PTL
       DEF Spec, KeepsPromise, Promise!Spec
=============================================================================
