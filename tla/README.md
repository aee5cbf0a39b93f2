# A verification project for Somnia RiskGuard Agent

RiskGuard protects an ERC-4337 smart account in three ways: a **dead-man
switch** pays the account's assets to its beneficiaries when the owner falls
silent, a **spend guard** holds risky UserOperations until the owner approves
them in Telegram (or an AI agent review passes), and an **approval scanner**
lets AI agents judge the token approvals an account has granted. The contracts
decide who may move assets; an off-chain agent (TypeScript) watches the chain,
talks to Telegram, and submits what the owner approved. The repository also
ships the tooling its team builds and configures its assistant skills with, a set
of Python scripts under `.agents/skills` and `_bmad/scripts`.

Here, TLA+ modules model the code that decides, TLC checks them on small
instances, and TLAPS proves the central safety properties for every instance.

Two modules serve all the others. `Lists.tla` defines, as folds, what several programs do
to lists: `Filter` and `Distinct`. `CollectionTheorems.tla` holds what the proofs need of
collections: sums over a finite set (a summand taken out, changed, bounded, scaled), the
elements of a list that is filtered, rid of duplicates, extended, put together or
shortened, the largest and the smallest of a finite set. All of it rests on one induction,
`SubsetInduction`: a property of the strict subsets of every subset that carries over to the
subset is a property of all. The property is given as a set of subsets, so that no theorem
with an operator as parameter is needed, and a sum or a fold is unfolded by showing that
the recursive function it is defined by exists and is unique.

## 1. Inventory

| Part | State it keeps | Operations | Talks to | What is hard |
|---|---|---|---|---|
| `contracts/src/InheritanceRegistry.sol` | plan, beneficiaries, assets, pending list change, snapshot and settled flags, request tables, schedules, budgets | owner calls (create, update, cancel, check in, propose/confirm), agent requests and their answers, `onEvent`, `executeInheritance` | smart accounts (transfers), agent platform (requests, answers), Reactivity precompile (subscriptions, events) | late answers, stale and drifted events, partial distributions and retries, lists changed between steps |
| `contracts/src/riskguard/RiskGuardValidator.sol` | policy and signer per account, agent review tables, one-time agent approvals, review budgets | install, uninstall, configure, request review, handle answer, `validateUserOp` | entry point, approval store, agent platform | one-time use of approvals from two sources, reinstalls, answers for replaced configuration |
| `contracts/src/riskguard/RiskGuardApprovalStore.sol` | one pending approval per account, registered agent and hook | register, submit, consume | agent, validator | overwritten approvals, replay |
| `contracts/src/riskguard/ApprovalRiskScanner.sol` | scans with escrow, batch state, per-item results | request, three response handlers, refund | agent platform | fan-in of two callbacks in any order, lost answers, escrow |
| `contracts/src/riskguard/TelegramCheckInValidator.sol` | the Telegram signer per account | install, `validateUserOp` | entry point | only `checkIn()` may pass |
| `contracts/src/riskguard/RiskGuardHookModule.sol` | configuration and approvals per account | pre and post check | smart account | experimental second enforcement path |
| Telegram approval pipeline: `agent/src/services/telegram-alert`, `riskguard-approval`, `riskguard-pending-userop`, `persistence/action-nonces` | single-use nonces, pending UserOperations | send buttons, handle callback, submit approval, replay | Telegram, approval store, bundler | duplicate and crossed callbacks, a crash or a failure between approval and replay |
| Job runner and jobs: `agent/src/main.ts`, `agent/src/jobs` | running flags, last scanned block | heartbeat check, reward claim, review events | all services | overlap, restart, re-sent alerts |
| Stores: `agent/src/persistence` | JSON files or Supabase rows | read, update | every service | lost updates |
| Heartbeat, reward-claim, check-in, connect, session-key and portfolio services | heartbeats, claims, bindings, session keys | evaluate, send, claim, connect | stores, chain, Telegram | reminders sent twice, a claim retried after its receipt was lost |
| Module setup: `bmad-bmb-setup/scripts` (merge-config, merge-help-csv, cleanup-legacy) | `_bmad/config.yaml`, `config.user.yaml`, `module-help.csv`, the installer's directories | merge answers, merge help rows, remove old directories | the owner, through the setup skill | two scripts side by side, files truncated before they are written, interrupted and repeated setups |
| Configuration resolvers: `_bmad/scripts` | none; read TOML layers | load, merge, look up | every skill | merging arrays by shape across three or four layers |
| Builders: template processor, scaffolds, sanctum, module validator, catalog | folders of skills | resolve blocks, scaffold, validate, list | the builder skills | files left by interrupted runs, lists kept by hand in several places |
| Analyses: pre-passes and scans of the agent and workflow builders, the distillation planner | their findings | graph functions, structure, execution, sanctum, path and script scans, grouping | linters, the analysing assistant | linters that fail, rules that only hold together |
| Tooling reports and prompt metrics | none | render, count | | formatting and counting |
| API server, frontend, deployment scripts, SQL | none of their own beyond the above | HTTP, UI, one-shot scripts | everything | I/O |

What makes each part correct:

- *Registry*: nothing moves while the owner can still veto; a silent plan does
  pay out; every beneficiary gets its share of the snapshot, once; events and
  answers of the past cannot act on a plan they were not made for.
- *Validator and store*: a guarded operation executes only after an approval
  for exactly that call data which has not expired, and each approval
  authorises at most one execution.
- *Scanner*: escrow is spent once per stage, and a scan completes exactly when
  all stages have answered.
- *Telegram pipeline*: a button submits at most one approval, what the account
  executes never outnumbers what was approved, and what the owner is told of a
  transaction is so on the chain.
- *Module setup*: no setting or skill the installer left is lost before what
  replaces it is there; what the owner answered is in force, once.
- *Resolvers, template, catalog, planner*: what several passes over the input
  produce is what the input means, independent of the order of the passes.
- *Scaffolds and scans*: what reports success vouches for everything it is taken
  to vouch for, also after interruptions.
- *Jobs and stores*: runs of one job do not overlap, updates are not lost,
  reminders are sent once per stage, an owner's check-in wins over a stale
  evaluation.

## 2. The inheritance registry

### Modules

- `DeadManSwitch.tla`: what the contract promises, abstractly. Every account
  has a switch that is off, armed, firing or fired; an armed switch is vetoed
  or re-armed by its owner while he may, and fires only when nobody did.
- `InheritanceRegistry.tla`: the contract. One action per transaction; a
  reverting transaction is no action. The Reactivity precompile
  (`subscriptions`, `OnEvent`, `LoseEvent`), the agent platforms
  (`openRequests`) and the holdings of the accounts (`balanceOf`) are modelled
  from how the contract uses them.
- `InheritanceRefinement.tla`: the mapping from the contract to the switch.
- `MCInheritanceRegistry.tla`: the argument sets for TLC.
- `InheritanceRegistryClaims.tla`: a sentence of the documentation the code
  contradicts.
- `InheritanceRegistryProofs.tla`, `InheritanceSafetyProofs.tla`: proofs.

### Correspondence

The variables carry the names of the contract's storage. `plans[a]` holds the
plan's state, its three durations and the time of the last sign of life;
`GraceEndsAt` and `TimelockEndsAt` are its views. `beneficiaries[a]` is a
function from address to share. `assetSettled[a]` is the set of (asset,
beneficiary) pairs whose flag is set. `scheduledSmartAccounts[s]` is the bucket
of accounts whose timelock ends at `s`; `currentSchedule[a]` the one on record.
Two variables are history: `paid` counts what has left an account since its
distribution state was last cleared, and `renewedLate` remembers the accounts
that an agent's answer renewed after the grace period (see the first
divergence).

Abstractions: addresses, events and display timestamps are left out; seconds
are whole units; the order of a beneficiary list only decides which transfer is
tried first, so all orders are allowed; the keeper role and the gas parameters
are left out because no guard that is modelled reads them.

Bounds, each named in the module: `MaxTime` bounds the clock and the dates a
plan may set (`ScheduleDistribution`), `MaxRequestId` the requests of a
platform, `MaxBalance` an account's holding, `MaxDrift` the lateness of an
event's stamp, `Faults` the faults of the outside world. The instances use
durations of one or two units, which is enough to separate every pair of
deadlines, a plan of up to two heirs with a share of one half each (balances
of 0 to 3 then give zero, exact and rounded amounts), and time to live through
a plan, a renewal and a second plan. `registry_platforms` has two ids on each platform, so that
two accounts wait for the same number at once; it has one heir, one token and no money
in the plans, since what is paid is the subject of the other runs. `registry_lifecycle` has one
more bound, `OneTopic`, an action constraint: while a platform is configured or
funded, plans have the shortest terms and holdings change by payouts only. Without a
platform, terms and holdings vary freely.

### Runs

| Run | Instance | Shows |
|---|---|---|
| `registry_lifecycle` | one account, two heirs, one agent platform and one retry, lost events, failing transfers | the type invariant, `ProgressFollowsPlan`, `PaidWithinSnapshot`, `ExecutedMeansPaid`, `DistributionFixesPlan`, `NothingPaidInGrace` over owner calls, list changes, payouts in parts, retries, second plans, answers late or never; `RetriesBounded`; and `KeepsPromise`: the contract implements `DeadManSwitch` |
| `registry_platforms` | two accounts and two platforms that number their requests alike; the admin goes to the other platform and back while requests are open | `RequestsAgree`: the account a request id is on record for waits for that very id, and some platform has yet to answer it |
| `registry_buckets` | two accounts, schedules that coincide or lie within the drift tolerance, subscriptions refused, events lost or late | `ScheduleIsCurrent`, `PunctualEventReachesAll` |
| `registry_liveness` | one account, reliable world | `SilentPlanPaysOut` under fairness |
| `claim_executed` | small | a claim of the documentation, violated (see below) |

Deadlock is not checked: the clock is bounded and an executed account may have
nothing left to do.

Fairness (`FairSpec`) is assumed of two things only: time passes, and the
precompile fires what is subscribed once it is due. Neither the owner, nor an
agent, nor a keeper is assumed to do anything: the contract's claim is that it
pays out by itself. A share that rounds to nothing (`DustBlocked`) and a plan
changed after its new timelock has ended are exempt because
the code leaves both to the manual call.

### Proofs

`TypeCorrect` proves the type invariant. `GraceIsSafe` proves
`NothingPaidInGrace` for any accounts, heirs, tokens, terms, platforms and
faults. The property is not inductive: an untouched plan in its grace
period becomes so by *clearing* an earlier plan's progress, and the contract
clears through the lists of the moment. The strengthening `ProgressFollowsPlan`
says that all progress lies within the lists of the plan in force, and that
there is none at all before the timelock ends, or after a cancellation. It is
proved inductive (`ProgressCorrect`), one lemma per group of actions; it implies
the property.

The other safety properties are proved for every value of the constants too:

| Theorem | Property | Argument |
|---|---|---|
| `ScheduleCorrect` | `ScheduleIsCurrent` | inductive with the types: whatever moves the date of a plan also schedules it (`RenewalSchedules`), and a step that does not uses up only subscriptions that are due (`QuietKeepsSchedule`) |
| `PunctualEventsReachAll` | `PunctualEventReachesAll` | from `Filed` (an account is filed under the schedule on record, and 0 is never subscribed), and because an exact stamp resolves to itself (`PunctualResolves`) |
| `ExecutedPlansPaid` | `ExecutedMeansPaid` | strengthened to `PaymentsFollowPlan`: a settled pair has been paid its share of the balance on record and any other pair nothing, and a closed plan has settled all. The lists change only on an untouched plan, which `ProgressCorrect` gives. Accounts of `renewedLate` are exempt, of which it is false (`claim_executed`), and so are `SilentTokens` |
| `DistributionsKeepPlan` | `DistributionFixesPlan` | what begins a distribution ends the owner's grace, by `ProgressCorrect` |
| `RequestTablesAgree` | `RequestsAgree` | inductive: an account waits for one id of a kind at most, so a new or an answered id disturbs no other entry |
| `RetriesStayBounded` | `RetriesBounded` | from `RequestsAgree`: the answer that is counted was the only one awaited |
| `SnapshotIsTheLimit` | `PaidWithinSnapshot` | the shares on record add up to no more than the whole (`SharesStayFit`: what `_validateBeneficiaries` accepts does), each payment is its share of the snapshot rounded down (`PaymentsFollowPlan`), and a sum of such parts is within the snapshot (`PaymentsFit`) |
| `PromiseIsKept` | `KeepsPromise` | step simulation, from the types, `RequestsAgree` (an answer answers a question) and `GivesNotice` (a running plan's heartbeat is at least the minimum, so a sign of life leaves time to veto) |

They rest on `ConstantsAssumption` alone, and the faults allowed are an arbitrary
subset: the theorems hold for refused subscriptions, lost events and failing
transfers as for a reliable world.

That assumption has the heirs be a finite set, without which a sum over them has no meaning;
addresses are twenty bytes. Only model-checked: liveness, which is out of the prover's reach.

### Where code and documentation part

1. A heartbeat answer renews a plan whenever it arrives, also after the grace
   period and the timelock, where `contracts/README.md:186` says "before grace
   ends". It needs no run of its own: the counterexample of `claim_executed`
   begins with such a renewal, and with late answers refused that run finds nothing. Every
   safety property about plans therefore exempts `renewedLate`.
2. A late-stamped event can be resolved to another account's newer schedule, and
   the account it was subscribed for gets nothing, where
   `contracts/test/InheritanceRegistry.t.sol:416` expects a drifted event to pay. `PunctualEventReachesAll` is therefore about events
   whose stamp is the scheduled one; no run shows the other case.
3. `claim_executed`: payout in part, late renewal, cancel, new plan: the old
   settled flag survives, and the new plan skips a beneficiary and closes as
   executed.

Others are visible in the model without a run of their own. `handleHeartbeatResponse` and
`handleDistributionResponse` look a request up by its id alone, so after the admin has gone to
another platform and back, an answer is taken for whichever account has that id in the table,
and the account whose entry was overwritten waits for ever (`RequestsAgree` asks only that
the tables agree about the entries there are). `OnEvent` pays
directly, where `contracts/README.md:188` says it asks an agent; and a token of
`SilentTokens`, whose transfer returns false, counts as paid, where line 191
says a failed share stays for a retry.

## 3. The spend guard

### Modules

- `OneTimeApproval.tla`: the promise. Approvals are tickets for one call with an
  end of life; a guarded operation passes by using one up. Tickets may be lost,
  but never used twice and never prolonged.
- `RiskGuardApprovalStore.tla`: the store, one pending approval per account. It
  has actions but no next-state relation of its own.
- `RiskGuardValidator.tla`: the validator on top of the store: configuration,
  decoding and policy, agent reviews and their answers, and `validateUserOp`.
- `RiskGuardRefinement.tla`, `MCRiskGuard.tla`, `RiskGuardClaims.tla`.
- `RiskGuardProofs.tla`: proofs, of the refinement too.

### Correspondence

A call is the structure its call data decodes to (`Items`), and stands for its
hash. `NeedsReview` is the policy; `AllowedFreely`, `AllowedByApproval` and
`AllowedByAgent` are the three ways out of `_enforcePolicy`, tried in that order.
The store's approval and the agents' approval of the same call are independent
in the code and in the model. Accounts register agents and hooks freely, so
that an approval may be left without a hook that can consume it. `granted`,
`lastGrant` and `passed` are history. Amounts, thresholds and balances are small
numbers around the boundary of the comparison; a percentage is a fraction of
`BpsTotal`.

Bounds: `MaxGrants` approvals per account and call, `MaxRequestId`, `MaxBalance`,
`MaxTime`. Two grants with a TTL of one unit let an approval be overwritten,
expire and be given again; two request ids on each of two platforms let ids
overlap.

### Runs

| Run | Instance | Shows |
|---|---|---|
| `guard_approvals` | a payment and a contract call, one account, owner and agent approvals; the threshold is the whole balance, which moves between one the payment reaches and one it does not, so that a call changes between risky and free while approvals for it stand | the type invariant, `PassesAreGranted`, `ApprovalsAreFresh`, `PassesAreFresh`, and `KeepsGuard`: the validator implements `OneTimeApproval` |
| `guard_platforms` | two accounts, two platforms, every answer | `ReviewsAgree`, `BudgetsAreBacked` |
| `claim_answer` | the same, going back to the first platform | `AnswerDecidesItsOwnCall` is violated |

The encodings of call data (batches, delegate calls, empty and opaque data) are not
enumerated by a run: that none of them lets a risky call through is what `PassesFresh`
proves for all of them.

Liveness is not stated: nothing in these contracts acts unless somebody calls
them. Deadlock is not checked because grants and the clock are bounded.

### Proofs

`GuardTypeCorrect`, `ApprovalsSpentOnce` (`PassesAreGranted`), `FreshnessCorrect`
(`ApprovalsAreFresh`), `PassesFresh` (`PassesAreFresh`), `ReviewTablesCorrect`
(`ReviewsAgree`), `BudgetsCorrect` (`BudgetsAreBacked`) and `GuardIsKept` (`KeepsGuard`) hold for all accounts, calls,
agents, hooks, platforms, configurations and answers, under
`StoreAssumption` and `ValidatorAssumption`. The argument for the first four is one
summary of every step (`StepEffect`): a step gives at most one approval to one
account and call, or uses at most one up, or only loses approvals; the
counting invariant and the freshness invariant follow from that summary without
looking at the actions again. `PassesFresh` also needs `FreeIsHarmless`: what the
policy lets through without an approval is a small plain transfer, a check-in,
or a call of an account whose guard is off. `GuardIsKept` maps the store's record
and the agents' table to tickets and shows each action to be a grant, a use or a
loss. `BudgetsAreBacked` is about the sum of all budgets: `BudgetEffect` says that a step
moves one budget and the balance by the same amount, or keeps the budgets and does not
lower the balance, and `SumChange` carries that to the sum.
`ValidatorAssumption` has the accounts be finitely many (addresses are twenty bytes).

### Where code and documentation part

- `claim_answer`: platforms number their requests alike and the validator looks
  a request up by id alone. After the admin has gone to another platform and
  back, a late answer of the first is stored as the decision about the review the
  second gave the same id.
- Without a run: the store's header says the approval is consumed "after successful
  execution"; the validator consumes it while validating, so an operation that
  reverts when it runs has used it up. In the model `passed` therefore counts
  validations.

## 4. The approval scanner

`ApprovalRiskScanner.tla` models a scan as the contract keeps it: its escrow, the
deposit fixed when it was requested, which first stages have returned, whether
the third request went out and whether the scan is complete. `requestRefs` is the
table that turns a request id into a scan and a stage; `openRequests` are the
requests the platforms still hold, which they may answer several times
(`AnswerStep`) or drop (`CloseRequest`). A transaction that reverts, such as an answer
whose third request cannot be paid, is no action. The history variables follow
each scan's money.

One run, `scanner`, has two scans, two platforms whose ids overlap, two prices, an
overpayment and a rebate, which is the smallest instance in which the admin can
change the platform and the price between the stages of one scan while another is
in flight. It checks:

- `ScansArePaid`, `EscrowIsBacked`: every payment is forwarded, returned or in escrow,
  each scan costs what was quoted, and the contract holds exactly the escrows and
  the rebates;
- `RefsAgree`: an id on record stands for an answer its scan still lacks;
- `FanInIsExact`: the third request goes out exactly with the later of the two
  first answers;
- `ScansMoveForward`: nothing of a completed scan changes;
- `ScansComplete`: every scan completes unless the platform lets it down.

`FairSpec` assumes only that an answer which could be taken is given or its request is
closed; `Stalled` names the scans whose answer can no longer come. What happens to
those is worth knowing: `claimRefund` pays completed scans only, whose escrow is
spent, so the escrow of a stalled scan stays in the contract (`README.md:29` calls it
refundable).

Proved in `ApprovalRiskScannerProofs.tla`, from `ScannerAssumption` alone (prices,
batches and bounds are natural numbers, no platform is the missing one):
`ScannerTypeCorrect`, `RefsAlwaysAgree`, `FanInAlwaysExact`, `PaymentsAccounted`,
`EscrowAlwaysBacked` and `ScansOnlyMoveForward`. The inductive invariant `ScannerInv` joins the types, the two
invariants above and, per scan, its `Books`: a scan on record is numbered below the
next one, and its escrow is the third deposit until the third request is sent. None
of these is inductive alone. The books stay right because the fan-in happens once; it
happens once because a first answer that is taken was still lacking, which is what
the refs say; and the refs of an unanswered stage stay right because the third
request goes out only when no first stage is left. A refund is shown to change
nothing (`RefundIsEmpty`). `EscrowIsBacked` says that the balance is the rebates and the sum
of all escrows. It is inductive once a number no scan has been given yet is known to hold
no escrow (`EscrowInv`): every step then moves the escrow of one scan on record and the balance
by the same amount, or moves neither (`EscrowEffect`). `ScansComplete`, a liveness property,
is checked by TLC only.

## 5. Telegram approvals

### Model

`TelegramApproval.tla` follows a blocked transaction through the agent. It extends
`RiskGuardApprovalStore`, whose `SubmitApproval` and `ConsumeApproval` are the two steps
in which the agent and the validator touch the chain.

| State | In the code |
|---|---|
| `chat` | the binding of the owner's wallet (`telegram-bindings.repository.ts`, kept in the database) |
| `buttons`, `liveNonces`, `consumedNonces` | nonce records (`action-nonces.repository.ts`); in memory, so a restart empties the two sets, while messages keep their buttons |
| `messageChat`, `status` | the message of a transaction as the audit log finds it, and what its last edit says |
| `pendingUserOps`, `storing` | stored UserOperations (database), and upserts between their read and their write |
| `pc`, `pressed`, `held` | one `processCallback` in progress per handler: the await it is at, its nonce, the record `replayApproved` has read |
| `unstored`, `mempool`, `executed` | operations at the app, at the bundler, on the chain |
| `submissions` | history: approvals submitted for each button |

A handler runs from one await on shared state to the next in a single action:
`ReceiveCallback` (up to the binding), `ConsumeOnce`, `Decline` or `Submit`,
`FindPending`, `Relay`, `AwaitReceipt`, `MarkSubmitted`, `MarkFailed`. Callbacks are processed
by the poller and by the API route, so handlers interleave. Every outside call has
three outcomes: done, refused, and done without the caller learning of it. A
message whose delivery or edit fails is left as it was, which is the state in
which the attempt was not made; its buttons can then not be pressed. Since an edit
that takes buttons away may fail too, any button of the current process may be
pressed at any time, and again. An approval transaction that is mined after its handler has
given up is mined at the moment of `Submit`.

Of the validator only the path through the store's approval matters here (`Passes`,
`ExecuteUserOp`); what the policy lets through, or the agents' review approves, needs no
Telegram. Registration is fixed: the account's agent key and validator are
registered.

### Run

`telegram` has two handlers, two signed operations of the same call, two
requests (four buttons), lifetimes of one unit and a clock of one. Two operations are
needed for an upsert to replace what is being relayed; two requests for a retry
after a lost answer; two handlers for a callback taken twice at once and for
Approve and Decline at once. A second chat could only take presses
away (a button works in the one chat it was made for) and is left out of the instance. Handlers and operations are symmetric, and no
liveness is checked. It shows

- `OneSubmissionPerButton`: a button is worth one approval, a Decline none;
- `ExecutionsAreApproved`: executions of a call, and the approval still standing,
  never outnumber the buttons an approval was submitted for;
- `ToldTruly`: a record marked submitted, or a message that reports success, is about a call
  that was executed. It is about the call only: the mark is put on a record by its id, and the
  record may by then hold another operation of the same call, which never was sent. Nothing
  is claimed of the other messages, "No on-chain approval was submitted." among them.

Deadlock is not checked: buttons and time are bounded. Liveness is not stated: an operation that
is stored after the approval was pressed is relayed by nobody, by design of the message
that asks the owner to reopen the app.

### Proofs

`TelegramApprovalProofs.tla` proves `OneSubmissionPerButton` (`ButtonsSubmitOnce`),
`ExecutionsAreApproved` (`ExecutionsWereApproved`), `ToldTruly` (`ToldTheTruth`) and the type
invariant (`TelegramTyped`) for any number of handlers, buttons, calls,
operations and chats, from `StoreAssumption` and `TelegramAssumption`. `ButtonInv` is
needed because a submission is three steps away from the check that permits it: a
handler about to submit holds a nonce that is used up and has not led to an approval,
no two such handlers hold the same one, and a submitted button is used up or
forgotten. The books then balance step by step: a submission adds one paid button
and at most one standing approval, an execution turns the standing approval into an
executed operation. What is told rests on a fact about records (`RecordInv`): a record is
replaced only by an operation of the same call as the one it was made for, so the handler
that marks a record by its id marks one of the call whose execution it awaited, whatever
was stored in between. Which records an upsert keeps and a lookup finds is known from
`FilterGives`.

### Where code and documentation part

Visible in the model, without runs of their own:

- `contracts/README.md:101` says that on Decline the transaction "remains blocked". The two
  buttons of a message are separate nonces, and nothing orders them: pressed both,
  the approval is submitted, and the later edit says "No on-chain approval was
  submitted." (`telegram-alert/index.ts:919`).
- `contracts/README.md:114` says that after Approve "the backend relays the already-signed
  UserOperation". The app stores the operation after it has requested the review, and
  `replayApproved` looks once, so an Approve that comes earlier relays nothing.
- A record may be marked as submitted while it holds a later operation that never was
  (`riskguard-pending-userop.service.ts:116`, by id).

## 6. The skill tooling

The scripts under `.agents/skills` and `_bmad/scripts` are independent programs over
the files of a project. Each is a module with its own variables, initial
predicate (`...Init(inputs)`) and next-state relation; `MCBmadTooling.tla` puts them side
by side, and its variable `tool` says which one a behaviour is of, so that one run,
`bmad_tooling`, covers all eight without multiplying their states.

| Module | Scripts | State and actions | Property |
|---|---|---|---|
| `ModuleSetup` | `merge-config.py`, `merge-help-csv.py`, `cleanup-legacy.py`, as `bmad-bmb-setup/SKILL.md` runs them | the three project files, the installer's files and packages, and where each script is; a file is truncated and dumped in two actions (`ConfigTruncate`, `ConfigDump`), the first two scripts interleave, `Crash` ends a setup anywhere, `Begin` starts one again | `NothingLost`, `SetupTakesEffect` |
| `LayeredConfig` | `resolve_config.py`, `resolve_customization.py` | files are loaded layer by layer and merged | `LaterLayersWin` |
| `SkillTemplate` | `process-template.py` | one conditional block per step, then the variables | `BlocksResolved` |
| `StageGraph` | `prepass-execution-deps.py` (graph functions) | one level or one call of the search per step | `DependencyReport`, `DependenciesFirst` |
| `SourceGroups` | `analyze_sources.py` | one file per step | `GroupsExact` |
| `SkillCatalog` | `list_customizable_skills.py` | one skill per step | `CatalogExact` |
| `ModuleScaffold` | `scaffold-setup-skill.py`, `scaffold-standalone-module.py`, `init-sanctum-template.py`, `validate-module.py` | one file per step, created and then filled; interruptions and repetitions | `LastFileVouches` |
| `SkillScans` | the structure, execution and sanctum pre-passes, the path and the script scans | one scan or one script per step; what comes of a linter is chosen | `PassMeansSound` |

The properties compare what a script computes by steps with what its input means:
`LaterLayersWin` says from the layers alone which value must come out, `BlocksResolved`
gives a template its meaning without resolving anything, `DependencyReport` asks of the
graph itself whether a dependency is implied by the others, `CatalogExact` names the first
readable root. `NothingLost`, `SetupTakesEffect` and `LastFileVouches` are about the order of
writes and deletions under interruption and repetition.

External, and chosen freely: the owner's answers (a value offered or a new one), where an
interruption falls, and what a linter does (missing, not started, too slow, garbled,
silent, or a list of problems).

Bounds: two modules, which share the name of a personal setting, set up twice in any order with every combination of old and new
files that the installer leaves (`MaxRuns`), which is enough for a setup to follow its own
interrupted attempt or another module's; three or four layers over a path of two
parts and one array; every template of up to five tokens over two conditions, the shortest
in which blocks nest and overlap; every graph of three stages and every acyclic one
of four, in which a dependency may be implied by a way of two steps; up to four sources
of seven, among them a companion of a companion and one name in two folders; three
roots of up to two skills; two scaffolds (`MaxScaffolds`); and a sound agent, a sound workflow
and a sound memory agent with one defect each, since the findings of a scan are
independent of each other. Deadlock is not checked: the scripts end.

`claim_legacy` checks `ExistingBeatsLegacy`, the order of defaults that
`bmad-bmb-setup/SKILL.md:35` states, and finds it violated: a setup cut off after
`config.yaml` is written and run again puts the installer's old core values back over it.

### Proofs

- `BmadToolingProofs`: `LevelsRespectDependencies` proves `DependenciesFirst` for every graph
  and every set of stages, cyclic or not. The invariant adds to the property that the
  levels are sets of stages and that what is not arranged still remains: a stage is
  ready when none of its dependencies remains, and those that do not remain are in
  earlier levels.
- `ModuleSetupProofs`: `SetupLosesNothing` proves `NothingLost` for any modules, keys, files,
  packages, answers and number of setups, given at least one module and `SetupAssumption`
  (the shared settings kept in `config.user.yaml` are not among those of `config.yaml`, no module
  has a variable named as a shared one, a personal variable is a variable of some module;
  `core` and `_config` are no modules). A
  deletion is many steps after the read that makes it safe, so the inductive invariant follows
  a value on its way: `WorkInv` says that what is about to be written holds the old and the
  new, `WrittenInv` that what was written holds what was read, `ReachedInv` that what was in
  an old file that is gone has reached the new ones or was cut off by a crash, and
  `SkillsInv` that removal only begins on packages whose skills are installed.
- `ModuleSetupProofs`: `SetupsTakeEffect` proves `SetupTakesEffect` for the same inputs. For each
  of the three files the invariant says what finished setups left in it (`SectionsTold`,
  `SettingsTold`, `RowsTold`, or the crash that cut it off), and what the setup under way has
  got into its copy or into the file, by the place its script is at. `config.user.yaml` has no
  sections, so of two modules with a personal setting of one name the later setup overwrites
  the earlier one's answer: the history variable `chosen` keeps, for each personal setting,
  what the last setup that asked for it was told, and that is what the file must hold. The
  theorem does not say that personal answers are in that file only, nor that rows
  without a code are there once: neither is so (see below).
- `BmadToolingProofs`: `ScaffoldsVouch` proves `LastFileVouches` for any files, names, help rows
  and interruptions. The invariant follows the list of files still to be written. While a
  setup skill is written, the help rows say nothing until the last write, and the number of
  writes left says which of the generated files are in place (`SetupWriting`); a sanctum has
  every file that is no longer on its list, and CAPABILITIES.md is the last one on it
  (`SanctumWriting`). Two lemmas without steps relate the validator's findings to the
  files (`PassingHasText`, `SoundPasses`). `BornOfScripts` says where behaviours start: a setup skill that is
  already there was written by the scaffold, and the agent has no sanctum yet.
  `ScaffoldAssumption` has references, scripts and filled files lie in directories of their
  own, as they do.
- `BmadToolingProofs`: `CatalogListsExactly` proves `CatalogExact` for any roots, skills and
  overrides. The invariant says, at every place of the scan, which names are taken
  (`NamesInv`), which entries there are and whose (`EntriesInv`), and what has been reported
  (`ErrorsInv`). A root's list has each name once (`RootKind`), as a directory does.

- `BmadToolingProofs`: `DependenciesReported` proves `DependencyReport` for any graphs over
  finitely many nodes (`OverNodes`; a dependency need not have dependencies of its own listed). The invariant `SearchInv` follows the search of
  `detect_cycles`: its path is a walk without repetition, ends in what is being looked at,
  and holds what is marked as under way (`PathInv`); what is named is a cycle
  (`CyclesInv`); a dependency already looked at was met (`ExploredInv`); and in every set of
  nodes the search has left, none of them on a named cycle, one node depends on no other of the
  set (`FinishedInv`). The last part is what makes the search complete although it
  shares one visited set over all roots: a cycle of which nothing is named would be a
  set without such a node. Reachability is stated by closed sets (`Leads`) and related to
  the transitive closure that `find_transitive_redundancy` computes, which is complete
  after as many rounds as there are nodes, since every round before adds one.
- `BmadToolingProofs`: `TemplatesComeOut` proves `BlocksResolved` for any templates, conditions
  and values. A round of the loop takes a set of tokens out of the text. If that set
  has both markers of a block or neither, the blocks of what is left are the blocks that
  are left (`BlocksMove`), so the text stays balanced; if in addition no token of the
  set would have stayed, and what a condition hides goes with its markers, the tokens that stay
  are the same and in the same order (`MeaningMove`). Both kinds of round, a block dropped and
  one that loses its markers, are shown to take such a set (`BlockDropped`,
  `BlockKept`), so that what the text means never changes until the placeholders are replaced; and
  a balanced text without a pair of markers means itself (`MeansItself`). The meaning lists
  the tokens that stay in order, which there is exactly one way to do (`OrderExists`,
  `OrderIsNth`).
- `BmadToolingProofs`: `PlansAreExact` proves `GroupsExact` for any files with natural sizes, in any
  order, and any arguments naming them in any way. The invariant says by name what has been
  placed, which files still wait, and that a group starts with its document.
  `SourceAssumption` (a companion's base is another name) is what the patterns of
  `analyze_sources.py` give: a base is the name without its suffix.
- `BmadToolingProofs`: `PassesMeanSound` proves `PassMeansSound` for any skill that the scans can be
  given (`WellSeen`: numbers are natural, paths are of the kinds the patterns tell
  apart, scripts are of the three languages) and whatever the linters do. The invariant is
  that a scan that has ended has exactly its findings, and each script scanned left its own;
  one lemma per scan then reads the findings backwards (`AgentSound`, `WorkflowSound`,
  `SanctumSound`, `PathsSound`, `ScriptsSound`): without a finding, each rule's condition was false.
- `BmadToolingProofs`: `HighestLayerSettles` proves `LaterLayersWin` for any stacks of files that are
  tidy (`StacksTidy`): no stack is empty, a file that parses is a table of string keys, every
  value is of one kind, tables nest less than some depth `d`, which is any number, and arrays
  are lists of anything. The paths asked for are sequences of strings
  (`PathsAssumption`). The recursions of the code are functions along a path, whose existence
  is shown first (`CurrentExists`, `MergeExists`, `UpToExists`, by induction on the length and the
  depth). `DeepMergeGives` says what a merge of two layers holds at each path and that it is
  tidy again; `ChainTopped` then finds, over all layers, the one that settles a path,
  and `ChainRun` the run of arrays that are joined there. `MergeByKeyGives`
  describes one merge by key, and `RunKeyed` and `RunUnkeyed` carry keyed and plain arrays
  through a run of layers. The invariant (`LayersInv`) ties what is loaded to
  the files and, once printed, what is merged to what is loaded.

Every safety property of the tooling is thus both checked and proved.

### Where code and documentation part

Visible in the models, without runs of their own:

- Settings marked `user_setting` live "exclusively" in `config.user.yaml`, says
  `bmad-bmb-setup/SKILL.md:13`. `merge_config` puts every answer into the module's section of
  `config.yaml` (`merge-config.py:285`), and the personal ones into the other file as
  well. `SetupTakesEffect` neither asks for them in the section nor forbids them.
- A setup removes a module's existing help rows before it writes fresh ones, says
  `SKILL.md:17`. Rows are removed by their code (`merge-help-csv.py:106`), so a row without one is
  added again by every setup. `SetupTakesEffect` is about the rows that carry the code.
- `scaffold-setup-skill.py` deletes the target before it reads a `--module-yaml` that may lie in
  it, and keeps no copy.
- The workflow builder's path scan reports every `.md` file next to `SKILL.md`, while
  `complex-workflow-patterns.md:80` and the builder's own structure scan want the numbered stages
  there: a staged workflow that is clean to the one fails the other.
- A bare `_bmad` is not reported when some `{project-root}/` begins within the thirty
  characters before it.
- The sanctum pre-pass takes an agent without templates for stateless and is silent; the
  structure pre-pass also goes by the laws in `SKILL.md`.
- The agents' execution pre-pass never finds a subagent that spawns others
  (it compares names that have a directory), and the prefixes of memory paths that
  the structure pre-pass compares are always equal. Its scan of prompts never looks
  into `prompts/` or `agents/`, where the other one looks.
- Stage numbers that repeat make the reported gaps wrong.
- Both execution pre-passes hand an empty graph to their graph functions; `StageGraph` checks the
  functions on every graph.
- The help rows of `core` are deleted without being merged.
- Of several sources with one name all but the last are lost from the plan
  (`GroupsExact` is about different names).
- A linter for Python or JavaScript that fails and prints nothing counts as clean.
- The catalog looks for overrides in the project it is given, the resolver in the project
  around the skill.

## 7. Plan

| Order | Module | Composes | Properties aimed at |
|---|---|---|---|
| done | `DeadManSwitch`, `InheritanceRegistry`, its refinement, claims and proofs | | sections above |
| done | `OneTimeApproval`, `RiskGuardApprovalStore`, `RiskGuardValidator`, their refinement, claims and proofs | store and validator | |
| done | `ApprovalRiskScanner` and its proofs | | |
| done | `TelegramApproval` and its proofs | extends the approval store; composes handlers, stored operations, bundler and entry point | |
| done | `ModuleSetup`, `LayeredConfig`, `SkillTemplate`, `StageGraph`, `SourceGroups`, `SkillCatalog`, `ModuleScaffold`, `SkillScans`, two proof modules | put side by side in `MCBmadTooling` | |
| 1 | `TelegramPolling`: batches, offset, redelivery | composed with the former through callbacks | an update is not lost, its effect happens once, one that fails does not stop those behind it |
| 2 | `AgentReviewJob` and the job runner: running flags, the scan window, restarts | answers of the validator | every decision is announced, runs do not overlap |
| 3 | `TelegramCheckInValidator` and the check-in service | registry | only a check-in passes; a check-in wins over a stale evaluation |
| 4 | `HeartbeatReminders`, `RewardClaims`, `TelegramConnect`, the review budget | stores with their write queues | no update lost, one reminder per stage, a claim is not repeated, a code is used once |
| 5 | `RiskGuardHookModule` | approval store | implements `OneTimeApproval` as the validator does |

Every safety property a run checks has its theorem. The liveness
properties `SilentPlanPaysOut` and `ScansComplete` stay with TLC. Theorems to come are
those of the modules above.

## 8. Not modelled

- `TelegramCheckInValidator`, `RiskGuardHookModule`, Telegram polling, the jobs and the
  stores: not yet (section 7).
- Signatures, HMACs and encryption: a signature is taken as valid or not.
- ABI encoding and decoding, prompts and texts: by their outcome only.
- Gas, fees and the EVM's call depth; reentrancy of a token or a beneficiary into
  the registry.
- The portfolio and approval-scanner services, the API server, the frontend, the
  scripts and SQL: they read, display or pass on, and keep no state whose order
  matters.
- Of the tooling: the HTML reports, the conversion report and the prompt metrics, which format
  and count; the texts of the skills, which an assistant reads; the flag that has the
  path scan look at examples; the guess of a workflow's type; descriptions and wording of
  findings.
- The roles `setKeeper`, `setReactivityGasConfig` and `setAdmin`: no guard that is
  modelled depends on who holds them.
