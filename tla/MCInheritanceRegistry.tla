----------------------- MODULE MCInheritanceRegistry -----------------------
(***************************************************************************)
(* Small instances of InheritanceRegistry for TLC.  Shares are halves or   *)
(* thirds of BpsTotal so that splits are exact, uneven or leave dust, and  *)
(* terms are a few units long so that several deadlines, renewals and      *)
(* schedules fit under MaxTime.                                            *)
(***************************************************************************)
EXTENDS InheritanceRefinement, TLC

CONSTANTS h1, h2, native, token, p1, p2

\* An even split, a sole heir, and one the contract refuses (shares too small).
SplitOrSole == {[h \in {h1, h2} |-> 1], (h2 :> 2), (h1 :> 1)}
Split == {[h \in {h1, h2} |-> 1]}
Sole == {(h1 :> 2)}

OnlyNative == {{native}}
Everything == {{native, token}}

Term(hb, grace, lock) == [hb |-> hb, grace |-> grace, lock |-> lock]

\* Plain terms, terms that end as soon as the grace does, and a refused heartbeat.
ShortTerms == {Term(1, 1, 1), Term(1, 1, 0), Term(0, 1, 1)}
OneTerm == {Term(1, 1, 0)}
LongAndShort == {Term(1, 1, 1), Term(1, 1, 0)}
TightTerm == {Term(1, 0, 0)}

\* Bound: while an agent platform is in play, plans have the shortest terms and
\* holdings change by payouts only.  (Terms and holdings that vary are looked
\* at together with everything but agents.)
PlatformInPlay == agentPlatform # NoPlatform \/ registryBalance > 0

OneTopic ==
    PlatformInPlay' =>
        /\ \A a \in Accounts : plans'[a].terms \in OneTerm \cup {NoTerms}
        /\ PlatformInPlay \/ \A a \in Accounts, t \in Tokens : balanceOf[a][t] = InitialBalance
        /\ paid' # paid \/ balanceOf' = balanceOf

\* Accounts are interchangeable.
Symmetry == Permutations(Accounts)

\* So are platforms, one of which is configured at a time.
FullSymmetry == Symmetry \cup Permutations(Platforms)
=============================================================================
