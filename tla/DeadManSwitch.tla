--------------------------- MODULE DeadManSwitch ---------------------------
(***************************************************************************)
(* What the inheritance registry promises the owner of a smart account,    *)
(* without lists, schedules, requests or balances.                         *)
(*                                                                         *)
(* Every account has a switch.  An armed switch has two dates: until the   *)
(* first the owner may do with it what he likes; from the second on it may *)
(* pay out, and then close.  A sign of life moves both dates.  It comes    *)
(* before the first date, or answers a question asked before it.           *)
(***************************************************************************)
EXTENDS Naturals

CONSTANT Accounts

VARIABLES now, switch

Phase == {"None", "Active", "Cancelled", "Executed"}

Switch == [phase : Phase, vetoUntil : Nat, payFrom : Nat, begun : BOOLEAN, asked : BOOLEAN]

Init ==
    /\ now = 0
    /\ switch = [a \in Accounts |-> [phase |-> "None", vetoUntil |-> 0, payFrom |-> 0,
                                     begun |-> FALSE, asked |-> FALSE]]

\* What a step may do to one switch, s before and t after it.

Dated(t) == t.phase = "Active" /\ t.vetoUntil <= t.payFrom

InTime(s) == s.phase = "Active" /\ now < s.vetoUntil

\* A new plan: the owner has time to veto it, and nothing of it has been paid.
Arm(s, t) ==
    /\ s.phase # "Active"
    /\ Dated(t) /\ now < t.vetoUntil /\ ~t.begun /\ t.asked = s.asked

\* New terms count from the last sign of life, so both dates may have passed.
Amend(s, t) == InTime(s) /\ Dated(t) /\ ~t.begun /\ t.asked = s.asked

Renew(s, t) ==
    /\ InTime(s)
    /\ Dated(t) /\ now < t.vetoUntil /\ t.begun = s.begun /\ t.asked = s.asked

Cancel(s, t) == InTime(s) /\ t = [s EXCEPT !.phase = "Cancelled"]

Ask(s, t) == InTime(s) /\ ~s.asked /\ t = [s EXCEPT !.asked = TRUE]

\* The answer to a question asked in time, however late it comes.
Answer(s, t) ==
    /\ s.asked /\ ~t.asked
    /\ \/ t = [s EXCEPT !.asked = FALSE]
       \/ /\ s.phase = "Active"
          /\ Dated(t) /\ now < t.vetoUntil /\ t.begun = s.begun

Pay(s, t) ==
    /\ s.phase = "Active" /\ now >= s.payFrom
    /\ t.phase \in {"Active", "Executed"}
    /\ s.begun => t.begun
    /\ t = [s EXCEPT !.phase = t.phase, !.begun = t.begun]

Touch(a) ==
    LET s == switch[a]
        t == switch'[a]
    IN  /\ Arm(s, t) \/ Amend(s, t) \/ Renew(s, t) \/ Cancel(s, t) \/ Ask(s, t) \/ Answer(s, t)
        /\ \A b \in Accounts \ {a} : switch'[b] = switch[b]

\* One event may pay out for several accounts.
PayOut == \A a \in Accounts : switch'[a] = switch[a] \/ Pay(switch[a], switch'[a])

Pass == now' > now /\ UNCHANGED switch

Next ==
    \/ Pass
    \/ /\ UNCHANGED now
       /\ DOMAIN switch' = Accounts
       /\ PayOut \/ \E a \in Accounts : Touch(a)

vars == <<now, switch>>

Spec == Init /\ [][Next]_vars
=============================================================================
