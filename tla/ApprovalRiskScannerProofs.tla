---------------------- MODULE ApprovalRiskScannerProofs ----------------------
(***************************************************************************)
(* Theorems about ApprovalRiskScanner, for any number of scans, requests   *)
(* and platforms, and any prices, batches and overpayments.                *)
(***************************************************************************)
EXTENDS ApprovalRiskScanner, CollectionTheorems, TLAPS

\* The books of one scan: a scan on record was numbered before the next one, and what
\* is in escrow is the third deposit until it is spent.
Books(s) ==
    /\ scans[s].exists <=> s < nextScanId
    /\ scans[s].inferenceFired => scans[s].exists
    /\ scans[s].exists =>
          /\ scans[s].escrow = IF scans[s].inferenceFired THEN 0 ELSE scans[s].agentDeposit
          /\ forwarded[s] + scans[s].escrow = STAGES_PER_SCAN * scans[s].agentDeposit
          /\ paidIn[s] = forwarded[s] + refunded[s] + scans[s].escrow

\* The inductive invariant: the books need the fan-in (the third deposit is spent once),
\* the fan-in needs the refs (no answer counts twice), and the refs need both.
ScannerInv == TypeOK /\ RefsAgree /\ FanInIsExact /\ \A s \in ScanId : Books(s)

-----------------------------------------------------------------------------
(* Facts about the parts. *)

LEMMA Prices == DepositChoices \subseteq Nat /\ OverpayChoices \subseteq Nat /\ BatchChoices \subseteq Nat
BY ScannerAssumption DEF ScannerAssumption

LEMMA Bounds == MaxScans \in Nat /\ MaxRequestId \in Nat /\ MaxRebates \in Nat /\ MaxItemsPerScan \in Nat
BY ScannerAssumption DEF ScannerAssumption

\* Two requests go out at once.
LEMMA TwoFirstStages == Cardinality(FirstStages) = 2
<1>1. IsFiniteSet({}) /\ Cardinality({}) = 0
    BY FS_EmptySet
<1>2. IsFiniteSet({"JsonApi"}) /\ Cardinality({"JsonApi"}) = 1
    BY FS_Singleton
<1>3. Cardinality({"JsonApi"} \cup {"ParseWebsite"}) = 2
    BY <1>2, FS_AddElement
<1>4. {"JsonApi"} \cup {"ParseWebsite"} = FirstStages
    BY DEF FirstStages
<1> QED
    BY <1>3, <1>4

\* A scan's record, field by field.
LEMMA ScanFields ==
    ASSUME NEW x \in Scan
    PROVE  /\ x.exists \in BOOLEAN /\ x.items \in Nat /\ x.escrow \in Nat
           /\ x.agentDeposit \in Nat /\ x.returned \subseteq FirstStages
           /\ x.inferenceFired \in BOOLEAN /\ x.completed \in BOOLEAN
<1>1. x.items \in BatchChoices \cup {0} /\ x.agentDeposit \in DepositChoices \cup {0}
    BY DEF Scan
<1>2. x.escrow \in Nat /\ x.exists \in BOOLEAN /\ x.inferenceFired \in BOOLEAN
    BY DEF Scan
<1>3. x.completed \in BOOLEAN
    BY DEF Scan
<1>4. x.returned \in SUBSET FirstStages
    BY DEF Scan
<1>5. BatchChoices \cup {0} \subseteq Nat /\ DepositChoices \cup {0} \subseteq Nat
    BY Prices
<1>6. x.items \in Nat /\ x.agentDeposit \in Nat
    BY <1>1, <1>5
<1> QED
    BY <1>2, <1>3, <1>4, <1>6

LEMMA NoScanTyped == NoScan \in Scan
BY DEF Scan, NoScan

\* A request that may be taken stands for an answer its scan, which exists, lacks.
LEMMA TakenRef ==
    ASSUME ScannerInv, NEW r \in openRequests, MayTake(r), NEW s, s = requestRefs[r.id].scan
    PROVE  /\ r.id \in RequestId /\ r.stage \in Stages /\ agentPlatform \in Platforms
           /\ s \in ScanId /\ requestRefs[r.id] = [scan |-> s, stage |-> r.stage]
           /\ scans[s] \in Scan /\ scans[s].exists
           /\ r.stage \in FirstStages => r.stage \notin scans[s].returned
           /\ r.stage = "Inference" => scans[s].inferenceFired /\ ~scans[s].completed
<1>1. r \in Request
    BY DEF ScannerInv, TypeOK
<1>2. r.id \in RequestId /\ r.stage \in Stages /\ r.platform \in Platforms
    BY <1>1 DEF Request
<1>3. requestRefs[r.id] \in Ref /\ requestRefs[r.id].stage = r.stage
    BY <1>2 DEF ScannerInv, TypeOK, MayTake
<1>4. s \in ScanId /\ requestRefs[r.id] = [scan |-> s, stage |-> r.stage]
    BY <1>3 DEF Ref
<1>5. scans[s] \in Scan
    BY <1>4 DEF ScannerInv, TypeOK
<1>6. requestRefs[r.id] # NoRef
    BY DEF MayTake
<1> QED
    BY <1>2, <1>3, <1>4, <1>5, <1>6 DEF ScannerInv, RefsAgree, MayTake

-----------------------------------------------------------------------------
(* The invariant holds at first. *)

LEMMA InitInv == Init => ScannerInv
<1> SUFFICES ASSUME Init PROVE ScannerInv
    OBVIOUS
<1>1. TypeOK
    <2>1. scans \in [ScanId -> Scan]
        BY NoScanTyped DEF Init
    <2>2. nextScanId \in 1 .. MaxScans + 1
        BY Bounds DEF Init
    <2>3. {paidIn, forwarded, refunded} \subseteq [ScanId -> Nat]
        BY DEF Init
    <2>4. lastRequestId \in [Platforms -> 0 .. MaxRequestId]
        BY Bounds DEF Init
    <2> QED
        BY <2>1, <2>2, <2>3, <2>4 DEF Init, TypeOK
<1>2. \A s \in ScanId : scans[s] = NoScan
    BY DEF Init
<1>3. FanInIsExact
    BY <1>2 DEF FanInIsExact, NoScan, FirstStages
<1>4. \A s \in ScanId : Books(s)
    <2> SUFFICES ASSUME NEW s \in ScanId PROVE Books(s)
        OBVIOUS
    <2>1. ~scans[s].exists /\ ~scans[s].inferenceFired
        BY <1>2 DEF NoScan
    <2>2. ~(s < nextScanId)
        BY DEF Init, ScanId
    <2> QED
        BY <2>1, <2>2 DEF Books
<1>5. RefsAgree
    BY DEF Init, RefsAgree
<1> QED
    BY <1>1, <1>3, <1>4, <1>5 DEF ScannerInv

-----------------------------------------------------------------------------
(* Steps that touch no scan. *)

LEMMA RecordsKept ==
    ASSUME ScannerInv, TypeOK', UNCHANGED <<scanVars, historyVars>>
    PROVE  ScannerInv'
<1>1. /\ scans' = scans /\ nextScanId' = nextScanId /\ requestRefs' = requestRefs
      /\ paidIn' = paidIn /\ forwarded' = forwarded /\ refunded' = refunded
    BY DEF scanVars, historyVars
<1>2. RefsAgree'
    BY <1>1 DEF ScannerInv, RefsAgree
<1>3. FanInIsExact'
    BY <1>1 DEF ScannerInv, FanInIsExact
<1>4. \A s \in ScanId : Books(s)'
    BY <1>1 DEF ScannerInv, Books
<1> QED
    BY <1>2, <1>3, <1>4 DEF ScannerInv

LEMMA AdminKeepsInv ==
    ASSUME ScannerInv, AdminStep
    PROVE  ScannerInv'
<1>1. TypeOK' /\ UNCHANGED <<scanVars, historyVars>>
    <2>1. CASE \E p \in Platforms, idsSet \in BOOLEAN : ConfigureAgents(p, idsSet)
        BY <2>1 DEF ConfigureAgents, ScannerInv, TypeOK, scanVars, platformVars, historyVars
    <2>2. CASE \E d \in DepositChoices : SetAgentRewardPerCall(d)
        BY <2>2 DEF SetAgentRewardPerCall, ScannerInv, TypeOK, scanVars, platformVars, historyVars
    <2> QED
        BY <2>1, <2>2 DEF AdminStep
<1> QED
    BY <1>1, RecordsKept

LEMMA PlatformKeepsInv ==
    ASSUME ScannerInv, PlatformStep
    PROVE  ScannerInv'
<1>1. TypeOK' /\ UNCHANGED <<scanVars, historyVars>>
    <2>1. CASE \E r \in openRequests : CloseRequest(r)
        BY <2>1 DEF CloseRequest, ScannerInv, TypeOK, configVars, scanVars, historyVars
    <2>2. CASE ReceiveRebate(1)
        BY <2>2 DEF ReceiveRebate, ScannerInv, TypeOK, configVars, scanVars, platformVars, historyVars
    <2> QED
        BY <2>1, <2>2 DEF PlatformStep
<1> QED
    BY <1>1, RecordsKept

-----------------------------------------------------------------------------
(* A new scan. *)

LEMMA RequestKeepsInv ==
    ASSUME ScannerInv, NEW items \in BatchChoices, NEW overpay \in OverpayChoices,
           RequestScan(items, overpay)
    PROVE  ScannerInv'
<1> DEFINE s == nextScanId
           d == agentDeposit
           first == lastRequestId[agentPlatform] + 1
           new == [exists |-> TRUE, items |-> items, escrow |-> d, agentDeposit |-> d,
                   returned |-> {}, inferenceFired |-> FALSE, inferenceSucceeded |-> FALSE,
                   completed |-> FALSE]
<1>1. /\ agentPlatform # NoPlatform /\ items \in 1 .. MaxItemsPerScan
      /\ s <= MaxScans /\ first + 1 <= MaxRequestId
    BY DEF RequestScan
<1>2. /\ agentPlatform \in Platforms /\ s \in ScanId
      /\ first \in RequestId /\ first + 1 \in RequestId /\ first # first + 1
    <2>1. s \in Nat /\ 1 <= s /\ agentPlatform \in Platforms
        BY <1>1, Bounds DEF ScannerInv, TypeOK
    <2>2. lastRequestId[agentPlatform] \in Nat
        BY <2>1, Bounds DEF ScannerInv, TypeOK
    <2> QED
        BY <1>1, <2>1, <2>2, Bounds DEF ScanId, RequestId
<1>3. d \in DepositChoices /\ d \in Nat /\ overpay \in Nat
    BY Prices DEF ScannerInv, TypeOK
<1>4. scans' = [scans EXCEPT ![s] = new]
    BY DEF RequestScan, NewScan
<1>5. requestRefs' = [requestRefs EXCEPT ![first] = [scan |-> s, stage |-> "JsonApi"],
                                         ![first + 1] = [scan |-> s, stage |-> "ParseWebsite"]]
    BY DEF RequestScan
<1>6. /\ nextScanId' = s + 1
      /\ paidIn' = [paidIn EXCEPT ![s] = 3 * d + overpay]
      /\ forwarded' = [forwarded EXCEPT ![s] = 2 * d]
      /\ refunded' = [refunded EXCEPT ![s] = overpay]
      /\ scannerBalance' = scannerBalance + (3 * d + overpay) - 2 * d - overpay
    BY TwoFirstStages DEF RequestScan, QuoteScan, STAGES_PER_SCAN
<1>7. scans \in [ScanId -> Scan] /\ requestRefs \in [RequestId -> Ref \cup {NoRef}]
    BY DEF ScannerInv, TypeOK
<1>8. /\ paidIn \in [ScanId -> Nat] /\ forwarded \in [ScanId -> Nat]
      /\ refunded \in [ScanId -> Nat] /\ scannerBalance \in Nat
    BY DEF ScannerInv, TypeOK
<1>9. scans'[s] = new /\ \A t \in ScanId : t # s => scans'[t] = scans[t]
    BY <1>2, <1>4, <1>7
<1>10. ~scans[s].exists
    BY <1>2 DEF ScannerInv, Books, ScanId
<1>11. TypeOK'
    <2>1. new \in Scan
        BY <1>3 DEF Scan
    <2>2. scans' \in [ScanId -> Scan]
        BY <1>2, <1>4, <1>7, <2>1
    <2>3. nextScanId' \in 1 .. MaxScans + 1
        BY <1>2, <1>6, Bounds DEF ScanId
    <2>4. requestRefs' \in [RequestId -> Ref \cup {NoRef}]
        <3>1. [scan |-> s, stage |-> "JsonApi"] \in Ref /\ [scan |-> s, stage |-> "ParseWebsite"] \in Ref
            BY <1>2 DEF Ref, Stages, FirstStages
        <3> QED
            BY <1>2, <1>5, <1>7, <3>1
    <2>5. scannerBalance' \in Nat
        BY <1>3, <1>6, <1>8
    <2>6. openRequests' \subseteq Request
        <3> DEFINE IdOf(stage) == IF stage = "JsonApi" THEN first ELSE first + 1
        <3>1. openRequests' = openRequests \cup
                 {[platform |-> agentPlatform, id |-> IdOf(stage), stage |-> stage] : stage \in FirstStages}
            BY DEF RequestScan
        <3>2. \A stage \in FirstStages :
                 [platform |-> agentPlatform, id |-> IdOf(stage), stage |-> stage] \in Request
            BY <1>2 DEF Request, Stages
        <3> QED
            BY <3>1, <3>2 DEF ScannerInv, TypeOK
    <2>7. lastRequestId' \in [Platforms -> 0 .. MaxRequestId]
        <3>1. lastRequestId' = [lastRequestId EXCEPT ![agentPlatform] = first + 1]
            BY DEF RequestScan
        <3>2. first + 1 \in 0 .. MaxRequestId
            BY <1>2, Bounds DEF RequestId
        <3> QED
            BY <3>1, <3>2 DEF ScannerInv, TypeOK
    <2>8. {paidIn', forwarded', refunded'} \subseteq [ScanId -> Nat]
        <3>1. 3 * d + overpay \in Nat /\ 2 * d \in Nat
            BY <1>3
        <3>2. paidIn' \in [ScanId -> Nat] /\ forwarded' \in [ScanId -> Nat] /\ refunded' \in [ScanId -> Nat]
            BY <1>2, <1>3, <1>6, <1>8, <3>1
        <3> QED
            BY <3>2
    <2>9. UNCHANGED <<configVars, rebates>>
        BY DEF RequestScan
    <2> HIDE DEF s, d, first, new
    <2> QED
        BY <2>2, <2>3, <2>4, <2>5, <2>6, <2>7, <2>8, <2>9 DEF ScannerInv, TypeOK, configVars
<1>12. RefsAgree'
    <2>1. \A i \in RequestId :
             \/ i = first /\ requestRefs'[i] = [scan |-> s, stage |-> "JsonApi"]
             \/ i = first + 1 /\ requestRefs'[i] = [scan |-> s, stage |-> "ParseWebsite"]
             \/ i # first /\ i # first + 1 /\ requestRefs'[i] = requestRefs[i]
        BY <1>2, <1>5, <1>7
    <2>2. \A i \in RequestId : requestRefs[i] # NoRef =>
             requestRefs[i].scan \in ScanId /\ scans[requestRefs[i].scan].exists
        BY <1>7 DEF ScannerInv, RefsAgree, Ref
    <2>3. \A i \in RequestId : requestRefs[i] # NoRef => requestRefs[i].scan # s
        BY <1>10, <2>2
    <2> HIDE DEF first
    <2>4. ASSUME NEW i \in RequestId, requestRefs'[i] # NoRef
          PROVE  LET scan == scans'[requestRefs'[i].scan] IN
                 /\ scan.exists
                 /\ requestRefs'[i].stage \in FirstStages => requestRefs'[i].stage \notin scan.returned
                 /\ requestRefs'[i].stage = "Inference" => scan.inferenceFired /\ ~scan.completed
        <3>1. CASE requestRefs'[i] = [scan |-> s, stage |-> "JsonApi"]
            BY <1>9, <3>1
        <3>2. CASE requestRefs'[i] = [scan |-> s, stage |-> "ParseWebsite"]
            BY <1>9, <3>2
        <3>3. CASE requestRefs'[i] = requestRefs[i]
            BY <1>9, <2>2, <2>3, <2>4, <3>3 DEF ScannerInv, RefsAgree
        <3> QED
            BY <2>1, <3>1, <3>2, <3>3
    <2>5. ASSUME NEW i \in RequestId, NEW j \in RequestId, requestRefs'[i] = requestRefs'[j],
                 requestRefs'[i] # NoRef
          PROVE  i = j
        <3>1. CASE requestRefs'[i] = requestRefs[i] /\ requestRefs'[j] = requestRefs[j]
            BY <2>5, <3>1 DEF ScannerInv, RefsAgree
        <3>2. CASE requestRefs'[i] # requestRefs[i] \/ requestRefs'[j] # requestRefs[j]
            BY <2>1, <2>3, <2>5, <3>2
        <3> QED
            BY <3>1, <3>2
    <2> QED
        BY <2>4, <2>5 DEF RefsAgree
<1>13. FanInIsExact'
    BY <1>2, <1>9 DEF ScannerInv, FanInIsExact, FirstStages
<1>14. ASSUME NEW t \in ScanId PROVE Books(t)'
    <2>1. CASE t = s
        <3>1. paidIn'[s] = 3 * d + overpay /\ forwarded'[s] = 2 * d /\ refunded'[s] = overpay
            BY <1>2, <1>6, <1>8
        <3>2. t < nextScanId'
            BY <1>2, <1>6, <2>1 DEF ScanId
        <3> HIDE DEF s, d
        <3> QED
            BY <1>3, <1>9, <2>1, <3>1, <3>2 DEF Books, STAGES_PER_SCAN
    <2>2. CASE t # s
        <3>1. /\ scans'[t] = scans[t] /\ paidIn'[t] = paidIn[t]
              /\ forwarded'[t] = forwarded[t] /\ refunded'[t] = refunded[t]
            BY <1>2, <1>6, <1>8, <1>9, <2>2
        <3>2. t < nextScanId' <=> t < nextScanId
            BY <1>2, <1>6, <2>2 DEF ScanId
        <3> QED
            BY <3>1, <3>2 DEF ScannerInv, Books
    <2> QED
        BY <2>1, <2>2
<1> QED
    BY <1>11, <1>12, <1>13, <1>14 DEF ScannerInv

-----------------------------------------------------------------------------
(* Answers.  The ref of the answer is taken; what is left on record of its scan are the *)
(* other stages.                                                                        *)

\* What the answer of a first stage does: it only waits for the other one, or it is the
\* later of the two and sends the third request.
LEMMA FirstStageEffect ==
    ASSUME ScannerInv, NEW r \in openRequests, HandleFirstStageResponse(r),
           NEW s, s = requestRefs[r.id].scan
    PROVE  /\ MayTake(r) /\ r.stage \in FirstStages
           /\ \/ /\ ~FanIn(s, r.stage)
                 /\ scans' = [scans EXCEPT ![s].returned = @ \cup {r.stage}]
                 /\ requestRefs' = RefTaken(r)
                 /\ UNCHANGED <<scannerBalance, forwarded, platformVars>>
              \/ /\ FanIn(s, r.stage)
                 /\ FireBatchInference(s, r.stage)
                 /\ requestRefs' = [RefTaken(r) EXCEPT
                       ![lastRequestId'[agentPlatform]] = [scan |-> s, stage |-> "Inference"]]
           /\ UNCHANGED <<configVars, nextScanId, rebates, paidIn, refunded>>
<1>1. MayTake(r) /\ r.stage \in FirstStages
    BY DEF HandleFirstStageResponse
<1>2. r.stage \notin scans[s].returned
    BY <1>1, TakenRef
<1> QED
    BY <1>1, <1>2 DEF HandleFirstStageResponse

LEMMA WaitingKeepsInv ==
    ASSUME ScannerInv, NEW r \in openRequests, NEW s, s = requestRefs[r.id].scan,
           MayTake(r), r.stage \in FirstStages, ~FanIn(s, r.stage),
           scans' = [scans EXCEPT ![s].returned = @ \cup {r.stage}],
           requestRefs' = RefTaken(r),
           UNCHANGED <<scannerBalance, forwarded, platformVars>>,
           UNCHANGED <<configVars, nextScanId, rebates, paidIn, refunded>>
    PROVE  ScannerInv'
<1> DEFINE stage == r.stage
           old == scans[s]
<1>1. /\ r.id \in RequestId /\ s \in ScanId /\ requestRefs[r.id] = [scan |-> s, stage |-> stage]
      /\ old \in Scan /\ old.exists /\ stage \notin old.returned
    BY TakenRef
<1>2. scans \in [ScanId -> Scan] /\ requestRefs \in [RequestId -> Ref \cup {NoRef}]
    BY DEF ScannerInv, TypeOK
<1>3. /\ scans'[s] = [old EXCEPT !.returned = old.returned \cup {stage}]
      /\ \A t \in ScanId : t # s => scans'[t] = scans[t]
    BY <1>1, <1>2
<1>4. /\ scans'[s].exists = old.exists /\ scans'[s].escrow = old.escrow
      /\ scans'[s].agentDeposit = old.agentDeposit
      /\ scans'[s].returned = old.returned \cup {stage}
      /\ scans'[s].inferenceFired = old.inferenceFired /\ scans'[s].completed = old.completed
    <2> DEFINE R == old.returned \cup {stage}
               y == scans'[s]
    <2>1. old \in Scan /\ y = [old EXCEPT !.returned = R]
        BY <1>1, <1>3
    <2> HIDE DEF old, stage, R, y
    <2>2. /\ y.exists = old.exists /\ y.escrow = old.escrow /\ y.agentDeposit = old.agentDeposit
          /\ y.returned = R /\ y.inferenceFired = old.inferenceFired
          /\ y.completed = old.completed
        BY <2>1 DEF Scan
    <2> QED
        BY <2>2 DEF y, R
<1>5. requestRefs' = [requestRefs EXCEPT ![r.id] = NoRef]
    BY DEF RefTaken
<1>6. ~old.inferenceFired /\ ~old.completed
    BY <1>1 DEF ScannerInv, FanInIsExact
<1>7. TypeOK'
    <2>1. old.returned \cup {stage} \in SUBSET FirstStages
        BY <1>1 DEF Scan
    <2>2. [old EXCEPT !.returned = old.returned \cup {stage}] \in Scan
        BY <1>1, <2>1 DEF Scan
    <2>3. scans' \in [ScanId -> Scan]
        BY <1>1, <1>2, <2>2
    <2>4. requestRefs' \in [RequestId -> Ref \cup {NoRef}]
        BY <1>1, <1>2, <1>5
    <2> QED
        BY <2>3, <2>4 DEF ScannerInv, TypeOK, configVars, platformVars
<1>8. RefsAgree'
    <2>1. \A i \in RequestId : i # r.id => requestRefs'[i] = requestRefs[i]
        BY <1>1, <1>2, <1>5
    <2>2. requestRefs'[r.id] = NoRef
        BY <1>1, <1>2, <1>5
    <2>3. ASSUME NEW i \in RequestId, requestRefs'[i] # NoRef
          PROVE  LET scan == scans'[requestRefs'[i].scan] IN
                 /\ scan.exists
                 /\ requestRefs'[i].stage \in FirstStages => requestRefs'[i].stage \notin scan.returned
                 /\ requestRefs'[i].stage = "Inference" => scan.inferenceFired /\ ~scan.completed
        <3>1. i # r.id /\ requestRefs'[i] = requestRefs[i] /\ requestRefs[i] \in Ref
            BY <1>2, <2>1, <2>2, <2>3
        <3>2. requestRefs[i].scan \in ScanId
            BY <3>1 DEF Ref
        <3>3. CASE requestRefs[i].scan = s
            <4>1. requestRefs[i] = [scan |-> s, stage |-> requestRefs[i].stage]
                BY <3>1, <3>3 DEF Ref
            <4>2. \A j \in RequestId : requestRefs[i] = requestRefs[j] => i = j \/ requestRefs[i] = NoRef
                BY DEF ScannerInv, RefsAgree
            <4>3. ASSUME requestRefs[i].stage = stage PROVE FALSE
                <5>1. requestRefs[i] = requestRefs[r.id]
                    BY <1>1, <4>1, <4>3
                <5> HIDE DEF stage
                <5> QED
                    BY <1>1, <2>3, <3>1, <4>2, <5>1
            <4> QED
                BY <1>4, <3>1, <3>3, <4>3, <2>3 DEF ScannerInv, RefsAgree
        <3>4. CASE requestRefs[i].scan # s
            BY <1>3, <3>1, <3>2, <3>4, <2>3 DEF ScannerInv, RefsAgree
        <3> QED
            BY <3>3, <3>4
    <2>4. ASSUME NEW i \in RequestId, NEW j \in RequestId, requestRefs'[i] = requestRefs'[j],
                 requestRefs'[i] # NoRef
          PROVE  i = j
        BY <2>1, <2>2, <2>4 DEF ScannerInv, RefsAgree
    <2> QED
        BY <2>3, <2>4 DEF RefsAgree
<1>9. FanInIsExact'
    <2>1. old.returned \cup {stage} # FirstStages
        BY <1>6 DEF FanIn
    <2>2. /\ scans'[s].inferenceFired <=> scans'[s].returned = FirstStages
          /\ ~scans'[s].completed
        BY <1>4, <1>6, <2>1
    <2>3. \A t \in ScanId : t # s => scans'[t] = scans[t]
        BY <1>3
    <2> QED
        BY <2>2, <2>3 DEF ScannerInv, FanInIsExact
<1>10. ASSUME NEW t \in ScanId PROVE Books(t)'
    <2>1. /\ scans'[t].exists = scans[t].exists /\ scans'[t].escrow = scans[t].escrow
          /\ scans'[t].agentDeposit = scans[t].agentDeposit
          /\ scans'[t].inferenceFired = scans[t].inferenceFired
        BY <1>3, <1>4
    <2> QED
        BY <2>1 DEF ScannerInv, Books
<1> QED
    BY <1>7, <1>8, <1>9, <1>10 DEF ScannerInv

LEMMA FiringKeepsInv ==
    ASSUME ScannerInv, NEW r \in openRequests, NEW s, s = requestRefs[r.id].scan,
           MayTake(r), r.stage \in FirstStages, FanIn(s, r.stage),
           FireBatchInference(s, r.stage),
           requestRefs' = [RefTaken(r) EXCEPT
               ![lastRequestId'[agentPlatform]] = [scan |-> s, stage |-> "Inference"]],
           UNCHANGED <<configVars, nextScanId, rebates, paidIn, refunded>>
    PROVE  ScannerInv'
<1> DEFINE stage == r.stage
           old == scans[s]
           id == lastRequestId[agentPlatform] + 1
           d == old.agentDeposit
           new == [old EXCEPT !.returned = old.returned \cup {stage}, !.escrow = old.escrow - d,
                              !.inferenceFired = TRUE]
<1>1. /\ r.id \in RequestId /\ s \in ScanId /\ requestRefs[r.id] = [scan |-> s, stage |-> stage]
      /\ old \in Scan /\ old.exists /\ stage \notin old.returned /\ agentPlatform \in Platforms
    BY TakenRef
<1>2. scans \in [ScanId -> Scan] /\ requestRefs \in [RequestId -> Ref \cup {NoRef}]
    BY DEF ScannerInv, TypeOK
<1>3. id <= MaxRequestId /\ scannerBalance >= d /\ old.escrow >= d
    BY DEF FireBatchInference, DepositOf
<1>4. d \in Nat /\ old.escrow \in Nat /\ id \in RequestId
    <2>1. d \in Nat /\ old.escrow \in Nat
        BY <1>1, ScanFields
    <2>2. lastRequestId[agentPlatform] \in Nat
        BY <1>1, Bounds DEF ScannerInv, TypeOK
    <2> QED
        BY <1>3, <2>1, <2>2, Bounds DEF RequestId
<1>5. /\ scans' = [scans EXCEPT ![s] = new]
      /\ scannerBalance' = scannerBalance - d
      /\ forwarded' = [forwarded EXCEPT ![s] = @ + d]
      /\ lastRequestId' = [lastRequestId EXCEPT ![agentPlatform] = id]
      /\ openRequests' = openRequests \cup {[platform |-> agentPlatform, id |-> id, stage |-> "Inference"]}
    BY DEF FireBatchInference, DepositOf, EscrowLeft
<1>6. requestRefs' = [requestRefs EXCEPT ![r.id] = NoRef, ![id] = [scan |-> s, stage |-> "Inference"]]
    <2>1. lastRequestId'[agentPlatform] = id
        BY <1>1, <1>5 DEF ScannerInv, TypeOK
    <2> QED
        BY <2>1 DEF RefTaken
<1>7. scans'[s] = new /\ \A t \in ScanId : t # s => scans'[t] = scans[t]
    BY <1>1, <1>2, <1>5
<1>8. /\ scans'[s].exists /\ scans'[s].escrow = old.escrow - d
      /\ scans'[s].agentDeposit = d /\ scans'[s].returned = old.returned \cup {stage}
      /\ scans'[s].inferenceFired /\ scans'[s].completed = old.completed
    <2>1. old \in Scan /\ scans'[s] = [old EXCEPT !.returned = old.returned \cup {stage},
                                                  !.escrow = old.escrow - d, !.inferenceFired = TRUE]
        BY <1>1, <1>7
    <2>2. old.exists /\ d = old.agentDeposit
        BY <1>1
    <2> DEFINE R == old.returned \cup {stage}
               e == old.escrow - d
               y == scans'[s]
    <2>3. y = [old EXCEPT !.returned = R, !.escrow = e, !.inferenceFired = TRUE]
        BY <2>1
    <2> HIDE DEF old, stage, d, new, R, e, y
    <2>4. /\ y.exists = old.exists /\ y.escrow = e /\ y.agentDeposit = old.agentDeposit
          /\ y.returned = R /\ y.inferenceFired = TRUE /\ y.completed = old.completed
        BY <2>1, <2>3 DEF Scan
    <2> QED
        BY <2>2, <2>4 DEF y, R, e
<1>9. old.returned \cup {stage} = FirstStages /\ ~old.inferenceFired /\ ~old.completed
    BY <1>1 DEF FanIn, ScannerInv, FanInIsExact
<1>10. old.escrow = d /\ forwarded[s] + old.escrow = 3 * d /\ paidIn[s] = forwarded[s] + refunded[s] + old.escrow
    BY <1>1, <1>9 DEF ScannerInv, Books, STAGES_PER_SCAN
<1>11. TypeOK'
    <2>1. new \in Scan
        <3>1. old.escrow - d \in Nat /\ old.returned \cup {stage} \in SUBSET FirstStages
            BY <1>3, <1>4, <1>9
        <3> HIDE DEF d, stage
        <3> QED
            BY <1>1, <3>1 DEF Scan
    <2>2. scans' \in [ScanId -> Scan]
        BY <1>1, <1>2, <1>5, <2>1
    <2>3. requestRefs' \in [RequestId -> Ref \cup {NoRef}]
        <3>1. [scan |-> s, stage |-> "Inference"] \in Ref
            BY <1>1 DEF Ref, Stages
        <3> QED
            BY <1>1, <1>2, <1>4, <1>6, <3>1
    <2>4. scannerBalance' \in Nat
        <3>1. scannerBalance \in Nat
            BY DEF ScannerInv, TypeOK
        <3> HIDE DEF d
        <3> QED
            BY <1>3, <1>4, <1>5, <3>1
    <2>5. openRequests' \subseteq Request
        <3>1. [platform |-> agentPlatform, id |-> id, stage |-> "Inference"] \in Request
            BY <1>1, <1>4 DEF Request, Stages
        <3> QED
            BY <1>5, <3>1 DEF ScannerInv, TypeOK
    <2>6. lastRequestId' \in [Platforms -> 0 .. MaxRequestId]
        <3>1. id \in 0 .. MaxRequestId
            BY <1>4, Bounds DEF RequestId
        <3> QED
            BY <1>5, <3>1 DEF ScannerInv, TypeOK
    <2>7. {paidIn', forwarded', refunded'} \subseteq [ScanId -> Nat]
        <3>1. forwarded \in [ScanId -> Nat] /\ paidIn \in [ScanId -> Nat] /\ refunded \in [ScanId -> Nat]
            BY DEF ScannerInv, TypeOK
        <3>2. forwarded' = [forwarded EXCEPT ![s] = forwarded[s] + d]
            BY <1>5
        <3>3. forwarded[s] + d \in Nat
            BY <1>1, <1>4, <3>1
        <3>4. forwarded' \in [ScanId -> Nat]
            BY <3>1, <3>2, <3>3
        <3>5. paidIn' = paidIn /\ refunded' = refunded
            OBVIOUS
        <3> QED
            BY <3>1, <3>4, <3>5
    <2> HIDE DEF old, id, d, new, stage
    <2> QED
        BY <2>2, <2>3, <2>4, <2>5, <2>6, <2>7 DEF ScannerInv, TypeOK, configVars
<1>12. RefsAgree'
    <2>1. requestRefs'[id] = [scan |-> s, stage |-> "Inference"]
        BY <1>1, <1>2, <1>4, <1>6
    <2>2. \A i \in RequestId : i # id /\ i # r.id => requestRefs'[i] = requestRefs[i]
        BY <1>1, <1>2, <1>4, <1>6
    <2>3. r.id # id => requestRefs'[r.id] = NoRef
        BY <1>1, <1>2, <1>4, <1>6
    <2> HIDE DEF id
    <2>4. ASSUME NEW i \in RequestId, i # id, requestRefs'[i] # NoRef
          PROVE  /\ requestRefs'[i] = requestRefs[i] /\ requestRefs[i] # NoRef
                 /\ requestRefs[i].scan \in ScanId /\ requestRefs[i].scan # s
        <3>1. i # r.id /\ requestRefs'[i] = requestRefs[i] /\ requestRefs[i] \in Ref
            BY <1>2, <2>2, <2>3, <2>4
        <3>2. requestRefs[i].scan \in ScanId /\ requestRefs[i].stage \in Stages
            BY <3>1 DEF Ref
        <3>3. ASSUME requestRefs[i].scan = s PROVE FALSE
            <4>1. requestRefs[i].stage # "Inference"
                BY <1>9, <2>4, <3>1, <3>3 DEF ScannerInv, RefsAgree
            <4>2. requestRefs[i].stage \in FirstStages /\ requestRefs[i].stage \notin old.returned
                BY <2>4, <3>1, <3>2, <3>3, <4>1 DEF ScannerInv, RefsAgree, Stages
            <4>3. requestRefs[i].stage = stage
                BY <1>9, <4>2
            <4>4. requestRefs[i] = [scan |-> s, stage |-> stage]
                BY <3>1, <3>3, <4>3 DEF Ref
            <4> QED
                BY <1>1, <2>4, <3>1, <4>4 DEF ScannerInv, RefsAgree
        <3> QED
            BY <2>4, <3>1, <3>2, <3>3
    <2>5. ASSUME NEW i \in RequestId, requestRefs'[i] # NoRef
          PROVE  LET scan == scans'[requestRefs'[i].scan] IN
                 /\ scan.exists
                 /\ requestRefs'[i].stage \in FirstStages => requestRefs'[i].stage \notin scan.returned
                 /\ requestRefs'[i].stage = "Inference" => scan.inferenceFired /\ ~scan.completed
        <3>1. CASE i = id
            <4>1. requestRefs'[i].scan = s /\ requestRefs'[i].stage = "Inference"
                BY <2>1, <3>1
            <4>2. scans'[s].exists /\ scans'[s].inferenceFired /\ ~scans'[s].completed
                BY <1>8, <1>9
            <4> QED
                BY <4>1, <4>2 DEF FirstStages
        <3>2. CASE i # id
            <4>1. /\ requestRefs'[i] = requestRefs[i] /\ requestRefs[i] # NoRef
                  /\ scans'[requestRefs[i].scan] = scans[requestRefs[i].scan]
                BY <1>7, <2>4, <2>5, <3>2
            <4> QED
                BY <4>1 DEF ScannerInv, RefsAgree
        <3> QED
            BY <3>1, <3>2
    <2>6. ASSUME NEW i \in RequestId, NEW j \in RequestId, requestRefs'[i] = requestRefs'[j],
                 requestRefs'[i] # NoRef
          PROVE  i = j
        <3>1. CASE i = id /\ j # id
            BY <2>1, <2>4, <2>6, <3>1
        <3>2. CASE i # id /\ j = id
            BY <2>1, <2>4, <2>6, <3>2
        <3>3. CASE i # id /\ j # id
            BY <2>4, <2>6, <3>3 DEF ScannerInv, RefsAgree
        <3> QED
            BY <3>1, <3>2, <3>3
    <2> QED
        BY <2>5, <2>6 DEF RefsAgree
<1>13. FanInIsExact'
    <2>1. \A t \in ScanId : t # s => scans'[t] = scans[t]
        BY <1>7
    <2>2. scans'[s].returned = FirstStages /\ scans'[s].inferenceFired /\ ~scans'[s].completed
        BY <1>8, <1>9
    <2> QED
        BY <2>1, <2>2 DEF ScannerInv, FanInIsExact
<1>14. ASSUME NEW t \in ScanId PROVE Books(t)'
    <2>1. CASE t = s
        <3>1. forwarded'[s] = forwarded[s] + d /\ forwarded[s] \in Nat
            BY <1>1, <1>5 DEF ScannerInv, TypeOK
        <3>2. s < nextScanId'
            BY <1>1 DEF ScannerInv, Books
        <3>3. paidIn' = paidIn /\ refunded' = refunded /\ refunded[s] \in Nat /\ paidIn[s] \in Nat
            BY <1>1 DEF ScannerInv, TypeOK
        <3>4. scans'[s].exists /\ scans'[s].inferenceFired /\ scans'[s].agentDeposit = d
            BY <1>8
        <3> HIDE DEF d, new
        <3>5. scans'[s].escrow = 0
            <4>1. scans'[s].escrow = old.escrow - d /\ old.escrow = d
                BY <1>8, <1>10
            <4> HIDE DEF old
            <4> QED
                BY <1>4, <4>1
        <3>6. forwarded'[s] = 3 * d /\ paidIn'[s] = forwarded'[s] + refunded'[s]
            BY <1>4, <1>10, <3>1, <3>3
        <3> QED
            BY <1>4, <2>1, <3>2, <3>3, <3>4, <3>5, <3>6 DEF Books, STAGES_PER_SCAN
    <2>2. CASE t # s
        <3>1. forwarded'[t] = forwarded[t] /\ scans'[t] = scans[t]
            BY <1>1, <1>5, <1>7, <2>2 DEF ScannerInv, TypeOK
        <3> QED
            BY <3>1 DEF ScannerInv, Books
    <2> QED
        BY <2>1, <2>2
<1> QED
    BY <1>11, <1>12, <1>13, <1>14 DEF ScannerInv

LEMMA FirstAnswerKeepsInv ==
    ASSUME ScannerInv, NEW r \in openRequests, HandleFirstStageResponse(r)
    PROVE  ScannerInv'
<1> DEFINE s == requestRefs[r.id].scan
<1> HIDE DEF s
<1>1. s = requestRefs[r.id].scan
    BY DEF s
<1> QED
    BY <1>1, FirstStageEffect, WaitingKeepsInv, FiringKeepsInv

\* The third answer completes its scan; its ref shows that nothing completed it before.
LEMMA ThirdAnswerKeepsInv ==
    ASSUME ScannerInv, NEW r \in openRequests, NEW ok \in BOOLEAN, HandleInferenceResponse(r, ok)
    PROVE  ScannerInv'
<1> DEFINE s == requestRefs[r.id].scan
           old == scans[s]
           new == [old EXCEPT !.completed = TRUE, !.inferenceSucceeded = ok]
<1>1. MayTake(r) /\ r.stage = "Inference"
    BY DEF HandleInferenceResponse
<1>2. /\ r.id \in RequestId /\ s \in ScanId /\ requestRefs[r.id] = [scan |-> s, stage |-> "Inference"]
      /\ old \in Scan /\ old.exists /\ old.inferenceFired /\ ~old.completed
    BY <1>1, TakenRef
<1>3. scans \in [ScanId -> Scan] /\ requestRefs \in [RequestId -> Ref \cup {NoRef}]
    BY DEF ScannerInv, TypeOK
<1>4. scans' = [scans EXCEPT ![s] = new]
    BY <1>2 DEF HandleInferenceResponse
<1>5. requestRefs' = [requestRefs EXCEPT ![r.id] = NoRef]
    BY DEF HandleInferenceResponse, RefTaken
<1>6. /\ scans'[s] = [old EXCEPT !.completed = TRUE, !.inferenceSucceeded = ok]
      /\ \A t \in ScanId : t # s => scans'[t] = scans[t]
    BY <1>2, <1>3, <1>4
<1>7. /\ scans'[s].exists = old.exists /\ scans'[s].escrow = old.escrow
      /\ scans'[s].agentDeposit = old.agentDeposit /\ scans'[s].returned = old.returned
      /\ scans'[s].inferenceFired = old.inferenceFired
    <2> DEFINE y == scans'[s]
    <2>1. old \in Scan /\ y = [old EXCEPT !.completed = TRUE, !.inferenceSucceeded = ok]
        BY <1>2, <1>6
    <2> HIDE DEF s, old, new, y
    <2>2. /\ y.exists = old.exists /\ y.escrow = old.escrow /\ y.agentDeposit = old.agentDeposit
          /\ y.returned = old.returned /\ y.inferenceFired = old.inferenceFired
        BY <2>1 DEF Scan
    <2> QED
        BY <2>2 DEF y
<1>8. UNCHANGED <<configVars, nextScanId, scannerBalance, platformVars, rebates, historyVars>>
    BY DEF HandleInferenceResponse
<1>9. TypeOK'
    <2>1. new \in Scan
        BY <1>2 DEF Scan
    <2>2. scans' \in [ScanId -> Scan]
        BY <1>2, <1>3, <1>4, <2>1
    <2>3. requestRefs' \in [RequestId -> Ref \cup {NoRef}]
        BY <1>2, <1>3, <1>5
    <2> QED
        BY <1>8, <2>2, <2>3 DEF ScannerInv, TypeOK, configVars, platformVars, historyVars
<1>10. RefsAgree'
    <2>1. requestRefs'[r.id] = NoRef /\ \A i \in RequestId : i # r.id => requestRefs'[i] = requestRefs[i]
        BY <1>2, <1>3, <1>5
    <2>2. ASSUME NEW i \in RequestId, requestRefs'[i] # NoRef
          PROVE  LET scan == scans'[requestRefs'[i].scan] IN
                 /\ scan.exists
                 /\ requestRefs'[i].stage \in FirstStages => requestRefs'[i].stage \notin scan.returned
                 /\ requestRefs'[i].stage = "Inference" => scan.inferenceFired /\ ~scan.completed
        <3>1. i # r.id /\ requestRefs'[i] = requestRefs[i] /\ requestRefs[i] \in Ref
            BY <1>3, <2>1, <2>2
        <3>2. requestRefs[i].scan \in ScanId
            BY <3>1 DEF Ref
        <3>3. CASE requestRefs[i].scan = s
            <4>1. requestRefs[i] = [scan |-> s, stage |-> requestRefs[i].stage]
                BY <3>1, <3>3 DEF Ref
            <4>2. requestRefs[i].stage # "Inference"
                BY <1>2, <3>1, <4>1, <2>2 DEF ScannerInv, RefsAgree
            <4> QED
                BY <1>7, <3>1, <3>3, <4>2, <2>2 DEF ScannerInv, RefsAgree
        <3>4. CASE requestRefs[i].scan # s
            BY <1>6, <3>1, <3>2, <3>4, <2>2 DEF ScannerInv, RefsAgree
        <3> QED
            BY <3>3, <3>4
    <2>3. ASSUME NEW i \in RequestId, NEW j \in RequestId, requestRefs'[i] = requestRefs'[j],
                 requestRefs'[i] # NoRef
          PROVE  i = j
        BY <2>1, <2>3 DEF ScannerInv, RefsAgree
    <2> QED
        BY <2>2, <2>3 DEF RefsAgree
<1>11. old.escrow = 0
    BY <1>2 DEF ScannerInv, Books
<1>12. FanInIsExact'
    <2>1. \A t \in ScanId : t # s => scans'[t] = scans[t]
        BY <1>6
    <2>2. /\ scans'[s].returned = FirstStages /\ scans'[s].inferenceFired
          /\ scans'[s].escrow = 0
        BY <1>2, <1>7, <1>11 DEF ScannerInv, FanInIsExact
    <2> QED
        BY <2>1, <2>2 DEF ScannerInv, FanInIsExact
<1>13. ASSUME NEW t \in ScanId PROVE Books(t)'
    <2>1. /\ scans'[t].exists = scans[t].exists /\ scans'[t].escrow = scans[t].escrow
          /\ scans'[t].agentDeposit = scans[t].agentDeposit
          /\ scans'[t].inferenceFired = scans[t].inferenceFired
        BY <1>6, <1>7
    <2> QED
        BY <1>8, <2>1 DEF ScannerInv, Books, historyVars
<1> QED
    BY <1>9, <1>10, <1>12, <1>13 DEF ScannerInv

-----------------------------------------------------------------------------
(* A refund.  By then the third request has spent the escrow. *)

LEMMA RefundIsEmpty ==
    ASSUME ScannerInv, NEW s \in ScanId, ClaimRefund(s)
    PROVE  UNCHANGED vars
<1>1. scans[s].exists /\ scans[s].completed /\ scans[s].escrow = 0
    BY DEF ClaimRefund, ScannerInv, FanInIsExact
<1>2. /\ scans \in [ScanId -> Scan] /\ scans[s] \in Scan
      /\ scannerBalance \in Nat /\ refunded \in [ScanId -> Nat]
    BY DEF ScannerInv, TypeOK
<1>3. scans' = scans
    <2>1. [scans[s] EXCEPT !.escrow = 0] = scans[s]
        BY <1>1, <1>2 DEF Scan
    <2> QED
        BY <1>2, <2>1 DEF ClaimRefund
<1>4. scannerBalance' = scannerBalance /\ refunded' = refunded
    BY <1>1, <1>2 DEF ClaimRefund
<1> QED
    BY <1>3, <1>4 DEF ClaimRefund, vars, configVars, scanVars, platformVars, historyVars

-----------------------------------------------------------------------------
(* The invariant, and what it means. *)

LEMMA StutterKeepsInv == ASSUME ScannerInv, UNCHANGED vars PROVE ScannerInv'
<1>1. TypeOK'
    BY DEF ScannerInv, TypeOK, vars, configVars, scanVars, platformVars, historyVars
<1> QED
    BY <1>1, RecordsKept DEF vars

LEMMA NextKeepsInv == ASSUME ScannerInv, [Next]_vars PROVE ScannerInv'
<1>1. CASE AdminStep
    BY <1>1, AdminKeepsInv
<1>2. CASE UserStep
    <2>1. CASE \E items \in BatchChoices, overpay \in OverpayChoices : RequestScan(items, overpay)
        BY <2>1, RequestKeepsInv
    <2>2. CASE \E s \in ScanId : ClaimRefund(s)
        BY <2>2, RefundIsEmpty, StutterKeepsInv
    <2> QED
        BY <1>2, <2>1, <2>2 DEF UserStep
<1>3. CASE AnswerStep
    BY <1>3, FirstAnswerKeepsInv, ThirdAnswerKeepsInv DEF AnswerStep
<1>4. CASE PlatformStep
    BY <1>4, PlatformKeepsInv
<1>5. CASE UNCHANGED vars
    BY <1>5, StutterKeepsInv
<1> QED
    BY <1>1, <1>2, <1>3, <1>4, <1>5 DEF Next

\* The scanner's invariant, on which the theorems below rest.
THEOREM ScannerInvariant == Spec => []ScannerInv
<1>1. Init => ScannerInv
    BY InitInv
<1>2. ScannerInv /\ [Next]_vars => ScannerInv'
    BY NextKeepsInv
<1> QED
    BY <1>1, <1>2, PTL DEF Spec

\* Every variable keeps its type; the balance never goes below zero.
THEOREM ScannerTypeCorrect == Spec => []TypeOK
<1>1. ScannerInv => TypeOK
    BY DEF ScannerInv
<1> QED
    BY <1>1, ScannerInvariant, PTL

\* A request id on record stands for an answer its scan lacks, and no two for the same
\* one, however answers of platforms in and out of office interleave.
THEOREM RefsAlwaysAgree == Spec => []RefsAgree
<1>1. ScannerInv => RefsAgree
    BY DEF ScannerInv
<1> QED
    BY <1>1, ScannerInvariant, PTL

\* The third request goes out once, with the later of the first two answers.
THEOREM FanInAlwaysExact == Spec => []FanInIsExact
<1>1. ScannerInv => FanInIsExact
    BY DEF ScannerInv
<1> QED
    BY <1>1, ScannerInvariant, PTL

\* What was paid for a scan has been forwarded, returned or is in escrow, and its three
\* requests cost what was quoted, whatever prices the admin sets meanwhile.
THEOREM PaymentsAccounted == Spec => []ScansArePaid
<1>1. ScannerInv => ScansArePaid
    BY DEF ScannerInv, Books, ScansArePaid
<1> QED
    BY <1>1, ScannerInvariant, PTL

-----------------------------------------------------------------------------
(* Steps move a scan forward. *)

\* What a step may do to a scan.
Forward(s) ==
    /\ scans[s].completed => scans'[s] = scans[s]
    /\ ItemStatus(s) = "Inferring" => ItemStatus(s)' # "Pending"

LEMMA KeptIsForward ==
    ASSUME NEW s \in ScanId, scans'[s] = scans[s]
    PROVE  Forward(s)
BY DEF Forward, ItemStatus

LEMMA UnfiredIsForward ==
    ASSUME ScannerInv, NEW s \in ScanId, ~scans[s].inferenceFired
    PROVE  Forward(s)
BY DEF ScannerInv, FanInIsExact, Forward, ItemStatus

LEMMA RequestIsForward ==
    ASSUME ScannerInv, NEW items \in BatchChoices, NEW overpay \in OverpayChoices,
           RequestScan(items, overpay), NEW s \in ScanId
    PROVE  Forward(s)
<1>1. CASE s = nextScanId
    <2>1. ~scans[s].inferenceFired
        BY <1>1 DEF ScannerInv, Books, ScanId
    <2> QED
        BY <2>1, UnfiredIsForward
<1>2. CASE s # nextScanId
    BY <1>2, KeptIsForward DEF RequestScan, ScannerInv, TypeOK
<1> QED
    BY <1>1, <1>2

LEMMA FirstAnswerIsForward ==
    ASSUME ScannerInv, NEW r \in openRequests, HandleFirstStageResponse(r), NEW s \in ScanId
    PROVE  Forward(s)
<1> DEFINE old == requestRefs[r.id].scan
<1>1. MayTake(r) /\ r.stage \in FirstStages
    BY DEF HandleFirstStageResponse
<1>2. CASE s = old
    <2>1. r.stage \notin scans[s].returned
        BY <1>1, <1>2, TakenRef
    <2>2. ~scans[s].inferenceFired
        BY <1>1, <2>1 DEF ScannerInv, FanInIsExact
    <2> QED
        BY <2>2, UnfiredIsForward
<1>3. CASE s # old
    <2>1. \E x : scans' = [scans EXCEPT ![old] = x]
        <3>1. \/ scans' = [scans EXCEPT ![old].returned = @ \cup {r.stage}]
              \/ FireBatchInference(old, r.stage)
            BY FirstStageEffect
        <3> QED
            BY <3>1 DEF FireBatchInference
    <2>2. scans'[s] = scans[s]
        BY <1>3, <2>1 DEF ScannerInv, TypeOK
    <2> QED
        BY <2>2, KeptIsForward
<1> QED
    BY <1>2, <1>3

LEMMA ThirdAnswerIsForward ==
    ASSUME ScannerInv, NEW r \in openRequests, NEW ok \in BOOLEAN, HandleInferenceResponse(r, ok),
           NEW s \in ScanId
    PROVE  Forward(s)
<1> DEFINE old == requestRefs[r.id].scan
           new == [scans[old] EXCEPT !.completed = TRUE, !.inferenceSucceeded = ok]
<1>1. MayTake(r) /\ r.stage = "Inference"
    BY DEF HandleInferenceResponse
<1>2. old \in ScanId /\ scans[old] \in Scan /\ ~scans[old].completed
    BY <1>1, TakenRef
<1>3. scans' = [scans EXCEPT ![old] = new] /\ scans \in [ScanId -> Scan]
    BY <1>2 DEF HandleInferenceResponse, ScannerInv, TypeOK
<1>4. CASE s = old
    <2>1. scans'[s] = new /\ new.completed
        BY <1>2, <1>3, <1>4 DEF Scan
    <2> QED
        BY <1>2, <1>4, <2>1 DEF Forward, ItemStatus
<1>5. CASE s # old
    BY <1>3, <1>5, KeptIsForward
<1> QED
    BY <1>4, <1>5

LEMMA NextIsForward ==
    ASSUME ScannerInv, [Next]_vars
    PROVE  [\A s \in ScanId : Forward(s)]_vars
<1> SUFFICES ASSUME NEW s \in ScanId, Next, ~UNCHANGED vars PROVE Forward(s)
    OBVIOUS
<1>1. CASE AdminStep
    <2>1. scans' = scans
        BY <1>1 DEF AdminStep, ConfigureAgents, SetAgentRewardPerCall, scanVars
    <2> QED
        BY <2>1, KeptIsForward
<1>2. CASE UserStep
    BY <1>2, RequestIsForward, RefundIsEmpty DEF UserStep
<1>3. CASE AnswerStep
    BY <1>3, FirstAnswerIsForward, ThirdAnswerIsForward DEF AnswerStep
<1>4. CASE PlatformStep
    <2>1. scans' = scans
        BY <1>4 DEF PlatformStep, CloseRequest, ReceiveRebate, scanVars
    <2> QED
        BY <2>1, KeptIsForward
<1> QED
    BY <1>1, <1>2, <1>3, <1>4 DEF Next

\* No answer, duplicate, late or foreign, and no refund touches a completed scan, and
\* what a dashboard polls of an unfinished one never goes back.
THEOREM ScansOnlyMoveForward == Spec => ScansMoveForward
<1>1. ScannerInv /\ [Next]_vars =>
        [\A s \in ScanId :
            /\ scans[s].completed => scans'[s] = scans[s]
            /\ ItemStatus(s) = "Inferring" => ItemStatus(s)' # "Pending"]_vars
    BY NextIsForward DEF Forward
<1> QED
    BY <1>1, ScannerInvariant, PTL DEF Spec, ScansMoveForward

-----------------------------------------------------------------------------
(* The balance. *)

Escrow(s) == scans[s].escrow

\* A number no scan has been given yet holds no escrow: with it the invariant is inductive.
EscrowInv == EscrowIsBacked /\ \A s \in ScanId : ~scans[s].exists => Escrow(s) = 0

\* What a step does to the escrows: it changes that of one scan on record and the balance
\* without the rebates by the same amount, or it changes neither.
EscrowMoves(s, n) ==
    /\ Escrow(s)' = Escrow(s) + n /\ scans'[s].exists
    /\ \A t \in ScanId \ {s} : Escrow(t)' = Escrow(t) /\ scans'[t].exists = scans[t].exists
    /\ scannerBalance' - rebates' = scannerBalance - rebates + n

EscrowsKept ==
    /\ \A t \in ScanId : Escrow(t)' = Escrow(t) /\ scans'[t].exists = scans[t].exists
    /\ scannerBalance' - rebates' = scannerBalance - rebates

\* A new scan sets its third deposit aside.
LEMMA RequestEscrow ==
    ASSUME ScannerInv, EscrowInv, NEW items \in BatchChoices, NEW overpay \in OverpayChoices,
           RequestScan(items, overpay)
    PROVE  \E s \in ScanId, n \in Int : EscrowMoves(s, n)
<1>0. PICK s, d : s = nextScanId /\ d = agentDeposit
    OBVIOUS
<1>1. s \in ScanId /\ ~scans[s].exists
    <2>1. s \in Nat /\ 1 <= s /\ s <= MaxScans
        BY <1>0, Bounds DEF ScannerInv, TypeOK, RequestScan
    <2>2. s \in ScanId
        BY <2>1, Bounds DEF ScanId
    <2> QED
        BY <1>0, <2>1, <2>2 DEF ScannerInv, Books
<1>2. d \in Nat /\ overpay \in Nat /\ scannerBalance \in Nat /\ rebates \in Nat
    BY <1>0, Prices DEF ScannerInv, TypeOK
<1>3. scans \in [ScanId -> Scan]
    BY DEF ScannerInv, TypeOK
<1>4. scans' = [scans EXCEPT ![s] = NewScan(items)]
    BY <1>0 DEF RequestScan
<1>5. scans'[s] = NewScan(items) /\ \A t \in ScanId \ {s} : scans'[t] = scans[t]
    BY <1>1, <1>3, <1>4
<1>6. scans'[s].escrow = d /\ scans'[s].exists
    BY <1>0, <1>5 DEF NewScan
<1>7. scannerBalance' - rebates' = scannerBalance - rebates + d
    <2>1. /\ scannerBalance' = scannerBalance + (3 * d + overpay) - 2 * d - overpay
          /\ rebates' = rebates
        BY <1>0, TwoFirstStages DEF RequestScan, QuoteScan, STAGES_PER_SCAN
    <2> QED
        BY <1>2, <2>1
<1>8. Escrow(s) = 0
    BY <1>1 DEF EscrowInv
<1>9. EscrowMoves(s, d)
    <2>1. Escrow(s)' = Escrow(s) + d
        BY <1>2, <1>6, <1>8 DEF Escrow
    <2> QED
        BY <1>5, <1>6, <1>7, <2>1 DEF EscrowMoves, Escrow
<1> QED
    BY <1>1, <1>2, <1>9

\* The third request is paid from the escrow of its own scan.
LEMMA FirstAnswerEscrow ==
    ASSUME ScannerInv, NEW r \in openRequests, HandleFirstStageResponse(r)
    PROVE  EscrowsKept \/ \E s \in ScanId, n \in Int : EscrowMoves(s, n)
<1>1. PICK s : s = requestRefs[r.id].scan
    OBVIOUS
<1>2. scans \in [ScanId -> Scan] /\ scannerBalance \in Nat /\ rebates \in Nat
    BY DEF ScannerInv, TypeOK
<1>3. MayTake(r) /\ rebates' = rebates
    BY <1>1, FirstStageEffect
<1>4. s \in ScanId /\ scans[s] \in Scan /\ scans[s].exists
    BY <1>1, <1>3, TakenRef
<1>5. PICK R : R = scans[s].returned \cup {r.stage}
    OBVIOUS
<1>6. CASE /\ scans' = [scans EXCEPT ![s].returned = @ \cup {r.stage}]
           /\ UNCHANGED scannerBalance
    <2>1. scans' = [scans EXCEPT ![s] = [scans[s] EXCEPT !.returned = R]]
        BY <1>5, <1>6
    <2>2. /\ scans'[s] = [scans[s] EXCEPT !.returned = R]
          /\ \A t \in ScanId \ {s} : scans'[t] = scans[t]
        BY <1>2, <1>4, <2>1
    <2>3. scans'[s].escrow = scans[s].escrow /\ scans'[s].exists = scans[s].exists
        BY <1>4, <2>2 DEF Scan
    <2> QED
        BY <1>2, <1>3, <1>6, <2>2, <2>3 DEF EscrowsKept, Escrow
<1>7. CASE FireBatchInference(s, r.stage)
    <2>1. PICK d \in Nat, e \in Int : d = scans[s].agentDeposit /\ e = scans[s].escrow - d
        BY <1>4, ScanFields
    <2>2. scans' = [scans EXCEPT ![s] = [scans[s] EXCEPT !.returned = R, !.escrow = e,
                                                          !.inferenceFired = TRUE]]
        BY <1>5, <1>7, <2>1 DEF FireBatchInference, DepositOf, EscrowLeft
    <2>3. /\ scans'[s] = [scans[s] EXCEPT !.returned = R, !.escrow = e, !.inferenceFired = TRUE]
          /\ \A t \in ScanId \ {s} : scans'[t] = scans[t]
        BY <1>2, <1>4, <2>2
    <2>4. scans'[s].escrow = e /\ scans'[s].exists = scans[s].exists
        BY <1>4, <2>3 DEF Scan
    <2>5. scannerBalance' = scannerBalance - d
        BY <1>7, <2>1 DEF FireBatchInference, DepositOf
    <2>6. /\ scans[s].escrow \in Int /\ e = scans[s].escrow + (-d)
          /\ scannerBalance' - rebates' = scannerBalance - rebates + (-d)
        BY <1>2, <1>3, <1>4, <2>1, <2>5, ScanFields
    <2>7. EscrowMoves(s, -d)
        BY <1>4, <2>3, <2>4, <2>6 DEF EscrowMoves, Escrow
    <2> QED
        BY <1>4, <2>1, <2>7
<1> QED
    BY <1>1, <1>6, <1>7, FirstStageEffect

\* The third answer leaves the money alone.
LEMMA ThirdAnswerEscrow ==
    ASSUME ScannerInv, NEW r \in openRequests, NEW ok \in BOOLEAN, HandleInferenceResponse(r, ok)
    PROVE  EscrowsKept
<1>1. PICK s : s = requestRefs[r.id].scan
    OBVIOUS
<1>2. scans \in [ScanId -> Scan] /\ UNCHANGED <<scannerBalance, rebates>>
    BY DEF ScannerInv, TypeOK, HandleInferenceResponse
<1>3. s \in ScanId /\ scans[s] \in Scan /\ ~scans[s].completed
    BY <1>1, TakenRef DEF HandleInferenceResponse
<1>4. scans' = [scans EXCEPT ![s] = [scans[s] EXCEPT !.completed = TRUE, !.inferenceSucceeded = ok]]
    BY <1>1, <1>3 DEF HandleInferenceResponse
<1>5. /\ scans'[s] = [scans[s] EXCEPT !.completed = TRUE, !.inferenceSucceeded = ok]
      /\ \A t \in ScanId \ {s} : scans'[t] = scans[t]
    BY <1>2, <1>3, <1>4
<1>6. scans'[s].escrow = scans[s].escrow /\ scans'[s].exists = scans[s].exists
    BY <1>3, <1>5 DEF Scan
<1> QED
    BY <1>2, <1>5, <1>6 DEF EscrowsKept, Escrow

\* So every step moves an escrow together with the balance, or keeps them.
LEMMA EscrowEffect ==
    ASSUME ScannerInv, EscrowInv, [Next]_vars
    PROVE  EscrowsKept \/ \E s \in ScanId, n \in Int : EscrowMoves(s, n)
<1>1. UNCHANGED <<scans, scannerBalance, rebates>> => EscrowsKept
    BY DEF EscrowsKept, Escrow
<1>2. UNCHANGED vars => EscrowsKept
    BY <1>1 DEF vars, scanVars
<1>3. CASE AdminStep
    BY <1>1, <1>3 DEF AdminStep, ConfigureAgents, SetAgentRewardPerCall, scanVars
<1>4. CASE UserStep
    BY <1>2, <1>4, RequestEscrow, RefundIsEmpty DEF UserStep
<1>5. CASE AnswerStep
    BY <1>5, FirstAnswerEscrow, ThirdAnswerEscrow DEF AnswerStep
<1>6. CASE PlatformStep
    <2>1. ASSUME NEW r, CloseRequest(r) PROVE EscrowsKept
        BY <1>1, <2>1 DEF CloseRequest, scanVars
    <2>2. ASSUME ReceiveRebate(1) PROVE EscrowsKept
        <3>1. scannerBalance' - rebates' = scannerBalance - rebates
            BY <2>2 DEF ReceiveRebate, ScannerInv, TypeOK
        <3> QED
            BY <2>2, <3>1 DEF ReceiveRebate, scanVars, EscrowsKept, Escrow
    <2> QED
        BY <1>6, <2>1, <2>2 DEF PlatformStep
<1> QED
    BY <1>2, <1>3, <1>4, <1>5, <1>6 DEF Next

\* Escrows are natural numbers.
LEMMA EscrowType ==
    ASSUME TypeOK
    PROVE  \A s \in ScanId : Escrow(s) \in Nat
BY ScanFields DEF TypeOK, Escrow

\* Equal changes of an escrow and of the balance keep them equal.
LEMMA EscrowStep ==
    ASSUME ScannerInv, ScannerInv', EscrowInv, [Next]_vars
    PROVE  EscrowInv'
<1>1. PICK f : f = [s \in ScanId |-> Escrow(s)]
    OBVIOUS
<1>2. PICK g : g = [s \in ScanId |-> Escrow(s)']
    OBVIOUS
<1>3. IsFiniteSet(ScanId)
    BY Bounds, FS_Interval DEF ScanId
<1>4. \A s \in ScanId : f[s] \in Int /\ g[s] \in Int
    <2>1. \A s \in ScanId : Escrow(s) \in Nat
        BY EscrowType DEF ScannerInv
    <2>2. \A s \in ScanId : Escrow(s)' \in Nat
        <3>1. scans' \in [ScanId -> Scan]
            BY DEF ScannerInv, TypeOK
        <3> QED
            BY <3>1, ScanFields DEF Escrow
    <2> QED
        BY <1>1, <1>2, <2>1, <2>2
<1>5. PICK m \in Int, k \in Int : m = SumFunctionOnSet(f, ScanId) /\ k = SumFunctionOnSet(g, ScanId)
    BY <1>3, <1>4, SumInt
<1>6. PICK b \in Int, r \in Int, b1 \in Int, r1 \in Int :
        /\ b = scannerBalance /\ r = rebates
        /\ b1 = scannerBalance' /\ r1 = rebates'
    BY DEF ScannerInv, TypeOK
<1>7. b = r + m
    BY <1>1, <1>5, <1>6 DEF EscrowInv, EscrowIsBacked, SumFunction, Escrow
<1>8. b1 = r1 + k
    <2>1. CASE EscrowsKept
        <3>1. \A s \in ScanId : f[s] = g[s]
            BY <1>1, <1>2, <2>1 DEF EscrowsKept
        <3>2. m = k
            BY <1>3, <1>5, <3>1, SumSame
        <3>3. b1 - r1 = b - r
            BY <1>6, <2>1 DEF EscrowsKept
        <3> QED
            BY <1>7, <3>2, <3>3
    <2>2. ASSUME NEW s \in ScanId, NEW n \in Int, EscrowMoves(s, n)
          PROVE  b1 = r1 + k
        <3>1. g[s] = f[s] + n /\ \A t \in ScanId \ {s} : g[t] = f[t]
            BY <1>1, <1>2, <2>2 DEF EscrowMoves
        <3>2. k = m - f[s] + g[s]
            BY <1>3, <1>4, <1>5, <3>1, SumChange
        <3>3. k = m + n
            BY <1>4, <3>1, <3>2
        <3>4. b1 - r1 = b - r + n
            BY <1>6, <2>2 DEF EscrowMoves
        <3> QED
            BY <1>7, <3>3, <3>4
    <2> QED
        BY <2>1, <2>2, EscrowEffect
<1>9. EscrowIsBacked'
    BY <1>2, <1>5, <1>6, <1>8 DEF EscrowIsBacked, SumFunction, Escrow
<1>10. \A s \in ScanId : ~scans'[s].exists => Escrow(s)' = 0
    BY EscrowEffect DEF EscrowInv, EscrowsKept, EscrowMoves
<1> QED
    BY <1>9, <1>10 DEF EscrowInv, Escrow

\* The contract's balance is, in every reachable state, the rebates and the escrows of all
\* its scans together.
THEOREM EscrowAlwaysBacked == Spec => []EscrowIsBacked
<1>1. Init => EscrowInv
    <2>1. SUFFICES ASSUME Init PROVE EscrowInv
        OBVIOUS
    <2>2. PICK f : f = [s \in ScanId |-> Escrow(s)]
        OBVIOUS
    <2>3. \A s \in ScanId : Escrow(s) = 0
        BY <2>1 DEF Init, NoScan, Escrow
    <2>4. IsFiniteSet(ScanId)
        BY Bounds, FS_Interval DEF ScanId
    <2>5. SumFunctionOnSet(f, ScanId) = 0
        BY <2>2, <2>3, <2>4, SumZero
    <2>6. SumFunction(f) = 0
        BY <2>2, <2>5 DEF SumFunction
    <2>7. EscrowIsBacked
        BY <2>1, <2>2, <2>6 DEF Init, EscrowIsBacked, Escrow
    <2> QED
        BY <2>3, <2>7 DEF EscrowInv
<1>2. ScannerInv /\ ScannerInv' /\ EscrowInv /\ [Next]_vars => EscrowInv'
    BY EscrowStep
<1>3. EscrowInv => EscrowIsBacked
    BY DEF EscrowInv
<1> QED
    BY <1>1, <1>2, <1>3, ScannerInvariant, PTL DEF Spec
=============================================================================
