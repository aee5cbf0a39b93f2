-------------------------- MODULE OneTimeApproval --------------------------
(***************************************************************************)
(* What the spend guard promises, whoever approves and however approvals   *)
(* are stored: a guarded operation passes only by using up an approval for *)
(* it that has not expired.  An approval may be lost, but it is never used *)
(* twice and never lives longer than it was given for.                     *)
(***************************************************************************)
EXTENDS Naturals

CONSTANTS Accounts, Calls, Sources, Ttl

VARIABLES
    now,
    tickets,    \* approvals that can still be used
    passed      \* how often a guarded operation has passed

Ticket == [account : Accounts, call : Calls, source : Sources, until : Nat]

Init ==
    /\ now = 0
    /\ tickets = {}
    /\ passed = [a \in Accounts |-> [c \in Calls |-> 0]]

\* Approvals may be lost at any step: overwritten, or deleted by someone else.
Grant(a, c, s) ==
    /\ LET new == [account |-> a, call |-> c, source |-> s, until |-> now + Ttl]
       IN  new \in tickets' /\ tickets' \subseteq tickets \cup {new}
    /\ UNCHANGED passed

Use(k) ==
    /\ now <= k.until
    /\ tickets' = tickets \ {k}
    /\ passed' = [passed EXCEPT ![k.account][k.call] = @ + 1]

Lose == tickets' \subseteq tickets /\ UNCHANGED passed

Next ==
    \/ now' > now /\ UNCHANGED <<tickets, passed>>
    \/ /\ UNCHANGED now
       /\ \/ \E a \in Accounts, c \in Calls, s \in Sources : Grant(a, c, s)
          \/ \E k \in tickets : Use(k)
          \/ Lose

vars == <<now, tickets, passed>>

Spec == Init /\ [][Next]_vars
=============================================================================
