-------------------------- MODULE RiskGuardClaims --------------------------
(***************************************************************************)
(* Sentences of the documentation about the spend guard that the code does *)
(* not live up to.  TLC finds each of them violated.                       *)
(***************************************************************************)
EXTENDS MCRiskGuard

\* "If the LLM response begins with APPROVE:, the validator stores a one-time
\* agentApprovals entry": an answer decides the transaction it was asked about, and
\* no other.  Platforms number their requests alike, so after the admin has gone back
\* to an earlier platform, its late answer is taken for another account's review.
AnswerDecidesItsOwnCall ==
    [][\A r \in openRequests, answer \in AnswerChoices :
          HandleRiskAssessmentResponse(r, answer) =>
              \A a \in Accounts, c \in Calls :
                  agentApprovals'[a][c] # agentApprovals[a][c] => a = r.account /\ c = r.call]_vars
=============================================================================
