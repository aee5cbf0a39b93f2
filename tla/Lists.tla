------------------------------- MODULE Lists -------------------------------
(***************************************************************************)
(* Two things the programs do to lists, in the form of a fold.             *)
(***************************************************************************)
EXTENDS Naturals, Sequences, SequencesExt

\* The elements of s that are in P, in their order: SelectSeq, for a set.
Filter(s, P) == FoldLeft(LAMBDA kept, x : IF x \in P THEN Append(kept, x) ELSE kept, <<>>, s)

\* The elements of s in the order in which they first occur.
Distinct(s) ==
    FoldLeft(LAMBDA kept, x : IF x \in ToSet(kept) THEN kept ELSE Append(kept, x), <<>>, s)
=============================================================================
