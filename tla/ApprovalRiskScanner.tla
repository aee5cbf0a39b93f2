------------------------ MODULE ApprovalRiskScanner ------------------------
(***************************************************************************)
(* ApprovalRiskScanner: a requester pays once for three agent requests on  *)
(* a batch of token approvals.  Two requests go out at once; the third,    *)
(* paid from the scan's escrow, goes out with the later of their answers,  *)
(* and its own answer completes the scan.                                  *)
(*                                                                         *)
(* Rules of the abstraction:                                               *)
(*  - a transaction is one action; one that reverts is no action;          *)
(*  - the platform numbers its requests from 1; it may answer a request    *)
(*    late, never, or more than once, and an answer whose callback reverts *)
(*    changes nothing;                                                     *)
(*  - a batch is the number of its approvals; their contexts, the verdicts *)
(*    computed from them and the texts of the answers are left out.        *)
(***************************************************************************)
EXTENDS Integers, FiniteSets, FiniteSetsExt

CONSTANTS
    Platforms, NoPlatform,
    BatchChoices,       \* sizes of the batches a requester may submit
    DepositChoices,     \* costs of one request the admin's reward setting yields
    OverpayChoices,     \* what a requester sends above the quote
    MaxItemsPerScan,
    MaxScans, MaxRequestId, MaxRebates  \* bounds

ASSUME ScannerAssumption ==
    /\ NoPlatform \notin Platforms
    /\ BatchChoices \subseteq Nat
    /\ DepositChoices # {} /\ DepositChoices \subseteq Nat
    /\ OverpayChoices \subseteq Nat
    /\ {MaxItemsPerScan, MaxScans, MaxRequestId, MaxRebates} \subseteq Nat

VARIABLES
    agentPlatform, agentIdsSet, agentDeposit,
    scans, nextScanId,
    requestRefs,                    \* the scan and stage a request id stands for
    scannerBalance,
    openRequests, lastRequestId,    \* requests the platforms may still answer
    rebates,                        \* money that came in for no scan
    paidIn, forwarded, refunded     \* history: money of each scan

configVars == <<agentPlatform, agentIdsSet, agentDeposit>>
scanVars == <<scans, nextScanId, requestRefs>>
platformVars == <<openRequests, lastRequestId>>
historyVars == <<paidIn, forwarded, refunded>>
vars == <<configVars, scanVars, scannerBalance, platformVars, rebates, historyVars>>

STAGES_PER_SCAN == 3

ScanId == 1 .. MaxScans
RequestId == 1 .. MaxRequestId
FirstStages == {"JsonApi", "ParseWebsite"}
Stages == FirstStages \cup {"Inference"}

\* returned: the first stages whose answers are in.
Scan == [exists : BOOLEAN, items : BatchChoices \cup {0}, escrow : Nat,
         agentDeposit : DepositChoices \cup {0}, returned : SUBSET FirstStages,
         inferenceFired : BOOLEAN, inferenceSucceeded : BOOLEAN, completed : BOOLEAN]
NoScan == [exists |-> FALSE, items |-> 0, escrow |-> 0, agentDeposit |-> 0, returned |-> {},
           inferenceFired |-> FALSE, inferenceSucceeded |-> FALSE, completed |-> FALSE]

NoRef == [scan |-> 0, stage |-> "None"]
Ref == [scan : ScanId, stage : Stages]
Request == [platform : Platforms, id : RequestId, stage : Stages]

TypeOK ==
    /\ agentPlatform \in Platforms \cup {NoPlatform} /\ agentIdsSet \in BOOLEAN
    /\ agentDeposit \in DepositChoices
    /\ scans \in [ScanId -> Scan] /\ nextScanId \in 1 .. MaxScans + 1
    /\ requestRefs \in [RequestId -> Ref \cup {NoRef}]
    /\ scannerBalance \in Nat
    /\ openRequests \subseteq Request
    /\ lastRequestId \in [Platforms -> 0 .. MaxRequestId]
    /\ rebates \in Nat
    /\ {paidIn, forwarded, refunded} \subseteq [ScanId -> Nat]

Init ==
    /\ agentPlatform = NoPlatform /\ agentIdsSet = FALSE
    /\ agentDeposit \in DepositChoices
    /\ scans = [s \in ScanId |-> NoScan] /\ nextScanId = 1
    /\ requestRefs = [i \in RequestId |-> NoRef]
    /\ scannerBalance = 0
    /\ openRequests = {} /\ lastRequestId = [p \in Platforms |-> 0]
    /\ rebates = 0
    /\ paidIn = [s \in ScanId |-> 0] /\ forwarded = [s \in ScanId |-> 0]
    /\ refunded = [s \in ScanId |-> 0]

-----------------------------------------------------------------------------
(* Views. *)

\* What a view shows of an item: the verdict appears with the scan's completion.
ItemStatus(s) ==
    IF scans[s].completed THEN "Complete"
    ELSE IF scans[s].inferenceFired THEN "Inferring" ELSE "Pending"

-----------------------------------------------------------------------------
(* Administration and money. *)

\* The platform is never zero; an agent id may be.
ConfigureAgents(p, idsSet) ==
    /\ agentPlatform' = p /\ agentIdsSet' = idsSet
    /\ UNCHANGED <<agentDeposit, scanVars, scannerBalance, platformVars, rebates, historyVars>>

SetAgentRewardPerCall(d) ==
    /\ agentDeposit' = d
    /\ UNCHANGED <<agentPlatform, agentIdsSet, scanVars, scannerBalance, platformVars, rebates,
                   historyVars>>

\* receive(): a rebate belongs to no scan.
ReceiveRebate(n) ==
    /\ rebates + n <= MaxRebates
    /\ rebates' = rebates + n
    /\ scannerBalance' = scannerBalance + n
    /\ UNCHANGED <<configVars, scanVars, platformVars, historyVars>>

-----------------------------------------------------------------------------
(* Requests. *)

\* Mutant: one deposit for the whole scan.
QuoteOneStage == agentDeposit

QuoteScan == STAGES_PER_SCAN * agentDeposit

\* The price of the moment is fixed for the whole scan, and the third part set aside.
NewScan(items) ==
    [exists |-> TRUE, items |-> items, escrow |-> agentDeposit, agentDeposit |-> agentDeposit,
     returned |-> {}, inferenceFired |-> FALSE, inferenceSucceeded |-> FALSE, completed |-> FALSE]

\* The requester's overpayment is returned in the same transaction.
RequestScan(items, overpay) ==
    LET s == nextScanId
        first == lastRequestId[agentPlatform] + 1
        IdOf(stage) == IF stage = "JsonApi" THEN first ELSE first + 1
    IN
    /\ agentPlatform # NoPlatform /\ agentIdsSet
    /\ items \in 1 .. MaxItemsPerScan
    /\ s <= MaxScans /\ first + 1 <= MaxRequestId
    /\ nextScanId' = s + 1
    /\ scans' = [scans EXCEPT ![s] = NewScan(items)]
    /\ requestRefs' = [requestRefs EXCEPT
          ![first] = [scan |-> s, stage |-> "JsonApi"],
          ![first + 1] = [scan |-> s, stage |-> "ParseWebsite"]]
    /\ openRequests' = openRequests \cup
          {[platform |-> agentPlatform, id |-> IdOf(stage), stage |-> stage] : stage \in FirstStages}
    /\ lastRequestId' = [lastRequestId EXCEPT ![agentPlatform] = first + 1]
    /\ scannerBalance' =
          scannerBalance + (QuoteScan + overpay) - Cardinality(FirstStages) * agentDeposit - overpay
    /\ paidIn' = [paidIn EXCEPT ![s] = QuoteScan + overpay]
    /\ forwarded' = [forwarded EXCEPT ![s] = Cardinality(FirstStages) * agentDeposit]
    /\ refunded' = [refunded EXCEPT ![s] = overpay]
    /\ UNCHANGED <<configVars, rebates>>

\* Mutant: the deposit of the moment.
CurrentDeposit(s) == IF scans[s].exists THEN agentDeposit ELSE 0

\* The deposit was fixed when the scan was requested.
DepositOf(s) == scans[s].agentDeposit

\* Mutant: the escrow keeps what was spent.
EscrowKept(s) == scans[s].escrow

EscrowLeft(s) == scans[s].escrow - DepositOf(s)

\* The platform the answer to the second of the first stages came from gets the request.
FireBatchInference(s, stage) ==
    LET id == lastRequestId[agentPlatform] + 1
        deposit == DepositOf(s)
    IN
    /\ id <= MaxRequestId
    /\ scannerBalance >= deposit /\ scans[s].escrow >= deposit
    /\ scans' = [scans EXCEPT ![s].returned = @ \cup {stage}, ![s].escrow = EscrowLeft(s),
                              ![s].inferenceFired = TRUE]
    /\ scannerBalance' = scannerBalance - deposit
    /\ forwarded' = [forwarded EXCEPT ![s] = @ + deposit]
    /\ lastRequestId' = [lastRequestId EXCEPT ![agentPlatform] = id]
    /\ openRequests' = openRequests \cup
          {[platform |-> agentPlatform, id |-> id, stage |-> "Inference"]}

-----------------------------------------------------------------------------
(* Answers. *)

\* A request's ref is good for one answer of its own stage, from the platform of now.
MayTake(r) ==
    /\ r.platform = agentPlatform
    /\ requestRefs[r.id] # NoRef /\ requestRefs[r.id].stage = r.stage

\* Mutant: a request can be answered again.
RefKept(r) == IF r \in openRequests THEN requestRefs ELSE [requestRefs EXCEPT ![r.id] = NoRef]

RefTaken(r) == [requestRefs EXCEPT ![r.id] = NoRef]

\* Mutant: the website's answer, expected last, fires the third request.
AfterWebsite(s, stage) == stage = "ParseWebsite" /\ ~scans[s].inferenceFired

\* Mutant: the third request goes out only if the facts come after the website's answer.
AfterFacts(s, stage) == stage = "JsonApi" /\ scans[s].returned \cup {stage} = FirstStages

\* Both answers are in, and the third request has not gone out.
FanIn(s, stage) ==
    scans[s].returned \cup {stage} = FirstStages /\ ~scans[s].inferenceFired

\* An answer that failed or cannot be decoded counts like any other here.
HandleFirstStageResponse(r) ==
    LET s == requestRefs[r.id].scan IN
    /\ r.stage \in FirstStages
    /\ MayTake(r)
    /\ IF r.stage \notin scans[s].returned /\ FanIn(s, r.stage)
       THEN /\ FireBatchInference(s, r.stage)
            /\ requestRefs' = [RefTaken(r) EXCEPT
                  ![lastRequestId'[agentPlatform]] = [scan |-> s, stage |-> "Inference"]]
       ELSE /\ scans' = [scans EXCEPT ![s].returned = @ \cup {r.stage}]
            /\ requestRefs' = RefTaken(r)
            /\ UNCHANGED <<scannerBalance, forwarded, platformVars>>
    /\ UNCHANGED <<configVars, nextScanId, rebates, paidIn, refunded>>

HandleInferenceResponse(r, ok) ==
    LET s == requestRefs[r.id].scan IN
    /\ r.stage = "Inference"
    /\ MayTake(r)
    /\ requestRefs' = RefTaken(r)
    /\ scans' = IF scans[s].completed THEN scans
                ELSE [scans EXCEPT ![s].completed = TRUE, ![s].inferenceSucceeded = ok]
    /\ UNCHANGED <<configVars, nextScanId, scannerBalance, platformVars, rebates, historyVars>>

\* The platform is done with a request: answered as often as it wanted, or not at all.
CloseRequest(r) ==
    /\ openRequests' = openRequests \ {r}
    /\ UNCHANGED <<configVars, scanVars, scannerBalance, lastRequestId, rebates, historyVars>>

ClaimRefund(s) ==
    /\ scans[s].exists /\ scans[s].completed
    /\ scans' = [scans EXCEPT ![s].escrow = 0]
    /\ scannerBalance' = scannerBalance - scans[s].escrow
    /\ refunded' = [refunded EXCEPT ![s] = @ + scans[s].escrow]
    /\ UNCHANGED <<configVars, nextScanId, requestRefs, platformVars, rebates, paidIn, forwarded>>

-----------------------------------------------------------------------------

AdminStep ==
    \/ \E p \in Platforms, idsSet \in BOOLEAN : ConfigureAgents(p, idsSet)
    \/ \E d \in DepositChoices : SetAgentRewardPerCall(d)

UserStep ==
    \/ \E items \in BatchChoices, overpay \in OverpayChoices : RequestScan(items, overpay)
    \/ \E s \in ScanId : ClaimRefund(s)

AnswerStep ==
    \E r \in openRequests :
        HandleFirstStageResponse(r) \/ \E ok \in BOOLEAN : HandleInferenceResponse(r, ok)

PlatformStep == (\E r \in openRequests : CloseRequest(r)) \/ ReceiveRebate(1)

Next == AdminStep \/ UserStep \/ AnswerStep \/ PlatformStep

Spec == Init /\ [][Next]_vars

\* A platform that has a request and neither answers nor drops it is not assumed: an
\* answer that could be taken comes, or the request is closed.
FairSpec == Spec /\ WF_vars(AnswerStep)

-----------------------------------------------------------------------------
(* Properties. *)

\* The money of a scan is accounted for: what was paid in has been forwarded, returned
\* or is still in escrow, and the requests cost what was quoted, although the admin
\* may change the price between the first requests and the last.
ScansArePaid ==
    \A s \in ScanId : scans[s].exists =>
        /\ paidIn[s] = forwarded[s] + refunded[s] + scans[s].escrow
        /\ forwarded[s] + scans[s].escrow = STAGES_PER_SCAN * scans[s].agentDeposit

\* The contract holds exactly the escrows and the rebates: no scan is paid with the
\* escrow of another.
EscrowIsBacked ==
    scannerBalance = rebates + SumFunction([s \in ScanId |-> scans[s].escrow])

\* A request id on record stands for an answer its scan still lacks, and no two ids
\* stand for the same one, even if platforms are replaced whose ids overlap.
RefsAgree ==
    /\ \A i \in RequestId : requestRefs[i] # NoRef =>
          LET scan == scans[requestRefs[i].scan] IN
          /\ scan.exists
          /\ requestRefs[i].stage \in FirstStages => requestRefs[i].stage \notin scan.returned
          /\ requestRefs[i].stage = "Inference" => scan.inferenceFired /\ ~scan.completed
    /\ \A i, j \in RequestId : requestRefs[i] = requestRefs[j] => i = j \/ requestRefs[i] = NoRef

\* The third request goes out exactly with the later of the two first answers, whichever
\* that is, and a scan completes only after all three, with nothing left in escrow.
FanInIsExact ==
    \A s \in ScanId :
        /\ scans[s].inferenceFired <=> scans[s].returned = FirstStages
        /\ scans[s].completed => scans[s].inferenceFired /\ scans[s].escrow = 0

\* What a dashboard polls only moves forward, and nothing of a completed scan changes
\* again: no duplicate, late or foreign answer and no refund touches it.
ScansMoveForward ==
    [][\A s \in ScanId :
          /\ scans[s].completed => scans'[s] = scans[s]
          /\ ItemStatus(s) = "Inferring" => ItemStatus(s)' # "Pending"]_vars

\* The stages whose answers an unfinished scan still needs.
AwaitedStages(s) ==
    IF scans[s].inferenceFired THEN {"Inference"} ELSE FirstStages \ scans[s].returned

\* The scan waits for an answer that can no longer come: no platform in office still
\* has the request, or its ref was overwritten by another platform's.
Stalled(s) ==
    \E stage \in AwaitedStages(s) :
        \A r \in openRequests :
            MayTake(r) => requestRefs[r.id] # [scan |-> s, stage |-> stage]

\* Every scan completes, failed answers or not, unless the platform lets it down.
ScansComplete == \A s \in ScanId : scans[s].exists ~> scans[s].completed \/ Stalled(s)
=============================================================================
