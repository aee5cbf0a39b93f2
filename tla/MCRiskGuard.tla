---------------------------- MODULE MCRiskGuard ----------------------------
(***************************************************************************)
(* Small instances of RiskGuardValidator for TLC.  The calls are a         *)
(* payment around the threshold and a call of a contract.                  *)
(***************************************************************************)
EXTENDS RiskGuardRefinement, TLC

CONSTANTS a1, a2, owner, stranger

Pay(n) == [target |-> "eoa", value |-> n, data |-> "none"]
Invoke == [target |-> "contract", value |-> 0, data |-> "call"]

Single(i) == [type |-> "single", items |-> <<i>>]

TwoRisky == {Single(Pay(2)), Single(Invoke)}
OneRisky == {Single(Invoke)}

\* The whole balance: of 2 the payment reaches the threshold, of 4 it stays below.
Percent == {[enabled |-> TRUE, mode |-> "Percent", value |-> 2]}
On == {[enabled |-> TRUE, mode |-> "Fixed", value |-> 2]}

Owners == [a \in Accounts |-> {owner}]

Answer(success, s) == [success |-> success, responses |-> s]
AllAnswers == {Answer(TRUE, <<"approve">>), Answer(TRUE, <<"reject", "approve">>),
               Answer(TRUE, <<"failed", "approve">>), Answer(TRUE, <<"malformed", "approve">>),
               Answer(TRUE, <<>>), Answer(FALSE, <<"approve">>)}
YesOrNo == {Answer(TRUE, <<"approve">>), Answer(TRUE, <<"reject">>)}

Symmetry == Permutations(Accounts)
=============================================================================
