----------------------- MODULE RiskGuardApprovalStore -----------------------
(***************************************************************************)
(* RiskGuardApprovalStore: one pending approval per smart account, written *)
(* by the agent the account registered and deleted by the hook the account *)
(* registered.  An approval is for one transaction, named by the hash of   *)
(* its call data (Calls), and is valid for ApprovalTtl.                    *)
(*                                                                         *)
(* The module has no Next of its own: the validator composes these actions *)
(* with the code that calls them.                                          *)
(***************************************************************************)
EXTENDS Integers

CONSTANTS
    Accounts,       \* smart accounts
    Calls,          \* call data of transactions, each with its own hash
    Agents,         \* addresses an account may register as its agent
    Hooks,          \* modules an account may register to consume approvals
    NoCall, NoAgent, NoHook,
    ApprovalTtl,    \* APPROVAL_TTL
    MaxTime         \* bound: the last moment the model looks at

ASSUME StoreAssumption ==
    /\ NoCall \notin Calls /\ NoAgent \notin Agents /\ NoHook \notin Hooks
    /\ ApprovalTtl \in Nat \ {0} /\ MaxTime \in Nat

VARIABLES
    now,                \* block.timestamp
    pendingApprovals,
    registeredAgent, registeredHook

storeVars == <<pendingApprovals, registeredAgent, registeredHook>>

Approval == [call : Calls \cup {NoCall}, expiry : Nat]
NoApproval == [call |-> NoCall, expiry |-> 0]

StoreTypeOK ==
    /\ now \in 0 .. MaxTime
    /\ pendingApprovals \in [Accounts -> Approval]
    /\ registeredAgent \in [Accounts -> Agents \cup {NoAgent}]
    /\ registeredHook \in [Accounts -> Hooks \cup {NoHook}]

StoreInit ==
    /\ now = 0
    /\ pendingApprovals = [a \in Accounts |-> NoApproval]
    /\ registeredAgent = [a \in Accounts |-> NoAgent]
    /\ registeredHook = [a \in Accounts |-> NoHook]

\* Mutant: the expiry is not looked at.
HasStaleApproval(a, c) == pendingApprovals[a].call = c

HasValidApproval(a, c) ==
    pendingApprovals[a].call = c /\ now <= pendingApprovals[a].expiry

\* registerAgent, registerHook and registerAgentAndHook: what is not named stays.
Register(a, agent, hook) ==
    /\ <<agent, hook>> # <<NoAgent, NoHook>>
    /\ registeredAgent' = IF agent = NoAgent THEN registeredAgent
                          ELSE [registeredAgent EXCEPT ![a] = agent]
    /\ registeredHook' = IF hook = NoHook THEN registeredHook
                         ELSE [registeredHook EXCEPT ![a] = hook]
    /\ UNCHANGED pendingApprovals

\* Mutant: an approval that still runs is prolonged.
SubmitProlonged(agent, a, c) ==
    /\ registeredAgent[a] = agent
    /\ pendingApprovals' = [pendingApprovals EXCEPT ![a] =
          [call |-> c, expiry |-> (IF HasValidApproval(a, c) THEN pendingApprovals[a].expiry
                                   ELSE now) + ApprovalTtl]]
    /\ UNCHANGED <<registeredAgent, registeredHook>>

\* A new approval replaces the one the account still has, whatever it was for.
SubmitApproval(agent, a, c) ==
    /\ registeredAgent[a] = agent
    /\ pendingApprovals' =
          [pendingApprovals EXCEPT ![a] = [call |-> c, expiry |-> now + ApprovalTtl]]
    /\ UNCHANGED <<registeredAgent, registeredHook>>

\* Mutant: the approval stays in place.
ConsumeNothing(hook, a, c) ==
    /\ registeredHook[a] = hook
    /\ pendingApprovals[a].call = c
    /\ UNCHANGED storeVars

\* The expiry is the caller's business.
ConsumeApproval(hook, a, c) ==
    /\ registeredHook[a] = hook
    /\ pendingApprovals[a].call = c
    /\ pendingApprovals' = [pendingApprovals EXCEPT ![a] = NoApproval]
    /\ UNCHANGED <<registeredAgent, registeredHook>>
=============================================================================
