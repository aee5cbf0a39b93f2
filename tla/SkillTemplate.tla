--------------------------- MODULE SkillTemplate ---------------------------
(***************************************************************************)
(* Turning a template of the agent builder into a file of the skill        *)
(* (process-template.py): conditional blocks are resolved one by one until *)
(* no pair of markers is left, then placeholders are replaced.             *)
(*                                                                         *)
(* A text is a sequence of tokens: an opening or closing marker of a       *)
(* condition, a placeholder, or a piece of plain text.                     *)
(***************************************************************************)
EXTENDS Naturals, Sequences, FiniteSets, SequencesExt

CONSTANTS
    Conditions     \* names of conditional blocks

VARIABLES
    text,          \* the text as it is now
    trueOnes,      \* the conditions given with --true
    variables,     \* the sequence of --var pairs: a name and its value, a text
    metTrue,       \* the conditions found true, for the report
    metFalse,      \* the conditions found false
    templatePhase, \* "blocks", then "variables", then "written"
    template       \* history: the text of the template

templateVars == <<text, trueOnes, variables, metTrue, metFalse, templatePhase, template>>

Open(c) == [kind |-> "open", name |-> c]
Close(c) == [kind |-> "close", name |-> c]
Hole(v) == [kind |-> "hole", name |-> v]
Plain(p) == [kind |-> "plain", name |-> p]

\* Where the expression {if-X}...{/if-X} matches: the first marker that is
\* closed at all, up to the nearest closing marker of its name.
Pairs(t) == {p \in (1..Len(t)) \X (1..Len(t)) :
                p[1] < p[2] /\ t[p[1]].kind = "open" /\ t[p[2]] = Close(t[p[1]].name)}
\* Mutant: the match is greedy.
GreedyMatch(t) == CHOOSE p \in Pairs(t) : \A q \in Pairs(t) :
                    p[1] < q[1] \/ (p[1] = q[1] /\ p[2] \geq q[2])
FirstMatch(t) == CHOOSE p \in Pairs(t) : \A q \in Pairs(t) :
                    p[1] < q[1] \/ (p[1] = q[1] /\ p[2] \leq q[2])

\* One round of the loop: the markers go, and with them the block unless its
\* condition is given.
ResolveBlock ==
    /\ templatePhase = "blocks"
    /\ Pairs(text) # {}
    /\ LET p == FirstMatch(text)
           c == text[p[1]].name
           inner == IF c \in trueOnes THEN SubSeq(text, p[1] + 1, p[2] - 1) ELSE <<>>
       IN  /\ text' = SubSeq(text, 1, p[1] - 1) \o inner \o SubSeq(text, p[2] + 1, Len(text))
           /\ metTrue' = IF c \in trueOnes THEN metTrue \cup {c} ELSE metTrue
           /\ metFalse' = IF c \in trueOnes THEN metFalse ELSE metFalse \cup {c}
    /\ UNCHANGED <<trueOnes, variables, templatePhase, template>>

BlocksDone ==
    /\ templatePhase = "blocks"
    /\ Pairs(text) = {}
    /\ templatePhase' = "variables"
    /\ UNCHANGED <<text, trueOnes, variables, metTrue, metFalse, template>>

\* The pairs are applied one after the other, each to what the ones before
\* it have left: a value that holds a later placeholder is replaced in turn.
ReplaceHole(t, v) ==
    FlattenSeq([i \in DOMAIN t |-> IF t[i] = Hole(v.name) THEN v.value ELSE <<t[i]>>])

Filled(t, vars) == FoldLeft(ReplaceHole, t, vars)

Substitute ==
    /\ templatePhase = "variables"
    /\ text' = Filled(text, variables)
    /\ templatePhase' = "written"
    /\ UNCHANGED <<trueOnes, variables, metTrue, metFalse, template>>

TemplateNext == ResolveBlock \/ BlocksDone \/ Substitute

TemplateInit(templates, pairs) ==
    /\ template \in templates
    /\ text = template
    /\ trueOnes \in SUBSET Conditions
    /\ variables \in pairs
    /\ metTrue = {} /\ metFalse = {}
    /\ templatePhase = "blocks"

TemplateSpec(templates, pairs) == TemplateInit(templates, pairs) /\ [][TemplateNext]_templateVars

-----------------------------------------------------------------------------
(* What a template means, for templates whose blocks are properly nested   *)
(* and hold no block of their own condition.                               *)

\* A block reaches from an opening marker to the next closing one of its name.
Blocks(t) == {p \in Pairs(t) : \A k \in (p[1] + 1)..(p[2] - 1) : t[k] # t[p[2]]}
Inside(p, q) == q[1] < p[1] /\ p[2] < q[2]

\* Every marker belongs to a block, and blocks do not overlap.
Balanced(t) ==
    /\ \A k \in DOMAIN t : t[k].kind \in {"open", "close"} => \E p \in Blocks(t) : k \in {p[1], p[2]}
    /\ \A p, q \in Blocks(t) : p = q \/ p[2] < q[1] \/ q[2] < p[1] \/ Inside(p, q) \/ Inside(q, p)

\* A token stays when it is no marker and every block around it is kept.
Around(t, k) == {t[p[1]].name : p \in {q \in Blocks(t) : q[1] < k /\ k < q[2]}}
Stays(t, conditions) ==
    {k \in DOMAIN t : t[k].kind \notin {"open", "close"} /\ Around(t, k) \subseteq conditions}

\* The tokens that stay, in their order: the i-th is the one up to which i stay.
Nth(places, i) == CHOOSE k \in places : Cardinality({l \in places : l <= k}) = i
Meaning(t, conditions) ==
    LET stays == Stays(t, conditions)
    IN  [i \in 1..Cardinality(stays) |-> t[Nth(stays, i)]]

\* A balanced template comes out as what it means: the text of exactly those
\* blocks all of whose conditions are given, in order, with no marker left,
\* and with the placeholders that have a value replaced.
BlocksResolved ==
    Balanced(template) =>
        /\ templatePhase # "written" => Meaning(text, trueOnes) = Meaning(template, trueOnes)
        /\ templatePhase = "written" =>
              text = Filled(Meaning(template, trueOnes), variables)
=============================================================================
