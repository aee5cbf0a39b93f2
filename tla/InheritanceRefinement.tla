----------------------- MODULE InheritanceRefinement -----------------------
(***************************************************************************)
(* InheritanceRegistry implements DeadManSwitch: the dates of a switch are *)
(* the end of the grace period and of the timelock, it has begun to pay    *)
(* when something left the account, and it is asked while a heartbeat      *)
(* request is pending.                                                     *)
(***************************************************************************)
EXTENDS InheritanceRegistry

SwitchOf(a) ==
    [phase |-> plans[a].state,
     vetoUntil |-> GraceEndsAt(a),
     payFrom |-> TimelockEndsAt(a),
     begun |-> \E p \in Pairs : paid[a][p] > 0,
     asked |-> pendingHeartbeatRequestId[a] # 0]

Promise == INSTANCE DeadManSwitch WITH switch <- [a \in Accounts |-> SwitchOf(a)]

\* The contract keeps the promise of the switch: an owner changes, renews or cancels
\* a plan in time only, payments begin at the second date only and leave the terms
\* alone, and an agent's answer renews a plan at most once per question asked in time.
KeepsPromise == Promise!Spec
=============================================================================
