--------------------- MODULE InheritanceRegistryClaims ---------------------
(***************************************************************************)
(* What the documentation and the tests say of the inheritance registry,   *)
(* stated as properties of InheritanceRegistry.  The code does not keep    *)
(* them; the counterexamples are described in README.md.                   *)
(***************************************************************************)
EXTENDS MCInheritanceRegistry

\* docs/ARCHITECTURE.md:233: _executeDistribution "transfers each asset to
\* beneficiaries by share".  Flags left by a plan that was renewed late and then
\* cancelled make the next plan skip a beneficiary, and close as executed.
ExecutedPaysEveryBeneficiary ==
    \A a \in Accounts : plans[a].state = "Executed" =>
        \A t \in protectedAssets[a], h \in DOMAIN beneficiaries[a] :
            assetSnapshot[a][t] # 0 =>
                paid[a][<<t, h>>] = (assetSnapshot[a][t] * beneficiaries[a][h]) \div BpsTotal
=============================================================================
