------------------------ MODULE RiskGuardRefinement ------------------------
(***************************************************************************)
(* RiskGuardValidator implements OneTimeApproval: the tickets are what the *)
(* store and the agents' table hold, used or not before they expire.       *)
(***************************************************************************)
EXTENDS RiskGuardValidator

OwnerTickets ==
    {[account |-> a, call |-> pendingApprovals[a].call, source |-> "owner",
      until |-> pendingApprovals[a].expiry] :
        a \in {b \in Accounts : pendingApprovals[b].call # NoCall}}

AgentTickets ==
    UNION {{[account |-> a, call |-> c, source |-> "agent", until |-> agentApprovals[a][c]] :
                c \in {d \in Calls : agentApprovals[a][d] # 0}} : a \in Accounts}

Guard == INSTANCE OneTimeApproval
    WITH tickets <- OwnerTickets \cup AgentTickets, Sources <- {"owner", "agent"},
         Ttl <- ApprovalTtl

\* The validator and the store keep the promise of one-time approvals: no step lets a
\* guarded operation pass without using up an unexpired approval for it, and none
\* creates or prolongs an approval except an owner's or an agent's decision.
KeepsGuard == Guard!Spec
=============================================================================
