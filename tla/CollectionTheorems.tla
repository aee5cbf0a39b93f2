------------------------- MODULE CollectionTheorems -------------------------
(***************************************************************************)
(* What the models compute over whole collections: sums over a finite set, *)
(* lists that are filtered or rid of duplicates, and the elements of a     *)
(* list.  The facts are proved by induction over the subsets of a set, for *)
(* sums and folds as modules Functions and Folds define them.              *)
(***************************************************************************)
EXTENDS Lists, FiniteSetTheorems, SequenceTheorems, TLAPS

-----------------------------------------------------------------------------
(* Induction. *)

\* A property, given as the set P of its subsets of S, is one of all of them if it passes
\* from the strict subsets of every subset to that subset.
LEMMA SubsetInduction ==
    ASSUME NEW S, IsFiniteSet(S), NEW P,
           \A T \in SUBSET S : (\A U \in SUBSET T : U # T => U \in P) => T \in P
    PROVE  \A T \in SUBSET S : T \in P
<1> DEFINE Bad == (SUBSET S) \ P
<1>1. SUFFICES ASSUME Bad # {}
      PROVE  FALSE
    OBVIOUS
<1>2. IsWellFoundedOn(StrictSubsetOrdering(S), SUBSET S)
    BY FS_StrictSubsetOrderingWellFounded, FS_FiniteSubsetsOfFinite
<1>3. PICK T \in Bad : \A U \in Bad : ~(<<U, T>> \in StrictSubsetOrdering(S))
    <2>1. Bad \subseteq SUBSET S
        OBVIOUS
    <2> HIDE DEF Bad
    <2> QED
        BY <1>1, <1>2, <2>1, WFMin
<1>4. \A U \in SUBSET T : U # T => U \in P
    BY <1>3 DEF StrictSubsetOrdering
<1> QED
    BY <1>3, <1>4

-----------------------------------------------------------------------------
(* Sums. *)

\* The recursion a sum is defined by, and a function that satisfies it on the subsets of S.
OneOf(s) == CHOOSE x \in s : TRUE
SumStep(g, f, s) == IF s = {} THEN 0 ELSE f[OneOf(s)] + g[s \ {OneOf(s)}]
IsSums(g, f, S) == g = [s \in SUBSET S |-> SumStep(g, f, s)]

\* A set that is not empty has the chosen element.
LEMMA OneOfIn ==
    ASSUME NEW s, s # {}
    PROVE  OneOf(s) \in s
BY DEF OneOf

\* The recursion at one subset.
LEMMA SumsApply ==
    ASSUME NEW S, NEW f, NEW g, IsSums(g, f, S), NEW s \in SUBSET S
    PROVE  g[s] = SumStep(g, f, s)
BY DEF IsSums

\* Two such functions agree where both are defined.
LEMMA SumsUnique ==
    ASSUME NEW S, IsFiniteSet(S), NEW f, NEW g, NEW h, NEW S1, NEW S2,
           S \subseteq S1, S \subseteq S2, IsSums(g, f, S1), IsSums(h, f, S2)
    PROVE  \A T \in SUBSET S : g[T] = h[T]
<1> DEFINE P == {T \in SUBSET S : g[T] = h[T]}
<1>1. ASSUME NEW T \in SUBSET S, \A U \in SUBSET T : U # T => U \in P
      PROVE  T \in P
    <2>1. g[T] = SumStep(g, f, T) /\ h[T] = SumStep(h, f, T)
        BY SumsApply
    <2>2. CASE T = {}
        BY <2>1, <2>2 DEF SumStep
    <2>3. CASE T # {}
        <3>1. T \ {OneOf(T)} \in P
            BY <1>1, OneOfIn, <2>3
        <3> QED
            BY <2>1, <2>3, <3>1 DEF SumStep
    <2> QED
        BY <2>2, <2>3
<1> HIDE DEF P
<1>2. \A T \in SUBSET S : T \in P
    BY <1>1, SubsetInduction
<1> QED
    BY <1>2 DEF P

\* There is such a function for every finite set.
LEMMA SumsExist ==
    ASSUME NEW S, IsFiniteSet(S), NEW f
    PROVE  \E g : IsSums(g, f, S)
<1> DEFINE P == {T \in SUBSET S : \E g : IsSums(g, f, T)}
<1>1. ASSUME NEW T \in SUBSET S, \A U \in SUBSET T : U # T => U \in P
      PROVE  T \in P
    <2> DEFINE At(u) == CHOOSE g : IsSums(g, f, u)
               h == [u \in SUBSET T |-> At(u)[u]]
               G == [s \in SUBSET T |-> SumStep(h, f, s)]
    <2>1. \A u \in SUBSET T : u # T => IsSums(At(u), f, u)
        BY <1>1
    <2>2. ASSUME NEW u \in SUBSET T, u # T
          PROVE h[u] = G[u]
        <3> HIDE DEF At
        <3>1. h[u] = SumStep(At(u), f, u)
            BY <2>1, <2>2, SumsApply
        <3>2. CASE u = {}
            BY <3>1, <3>2 DEF SumStep
        <3>3. CASE u # {}
            <4> DEFINE v == u \ {OneOf(u)}
            <4>1. v \in SUBSET T /\ v # T /\ v \in SUBSET u /\ IsFiniteSet(v)
                <5>1. v \in SUBSET S
                    OBVIOUS
                <5>2. IsFiniteSet(v)
                    BY <5>1, FS_Subset
                <5>3. v # T
                    BY OneOfIn, <3>3
                <5> QED
                    BY <5>2, <5>3
            <4>2. IsSums(At(u), f, u) /\ IsSums(At(v), f, v)
                BY <2>1, <2>2, <4>1
            <4>3. At(u)[v] = At(v)[v]
                <5> HIDE DEF v
                <5> QED
                    BY <4>2, <4>1, SumsUnique
            <4> QED
                BY <3>1, <3>3, <4>3, <4>1 DEF SumStep
        <3> QED
            BY <3>2, <3>3
    <2>3. \A s \in SUBSET T : SumStep(h, f, s) = SumStep(G, f, s)
        <3>1. SUFFICES ASSUME NEW s \in SUBSET T, s # {}
              PROVE  SumStep(h, f, s) = SumStep(G, f, s)
            BY DEF SumStep
        <3>2. s \ {OneOf(s)} \in SUBSET T /\ s \ {OneOf(s)} # T
            BY <3>1, OneOfIn
        <3> HIDE DEF h, G
        <3> QED
            BY <3>1, <3>2, <2>2 DEF SumStep
    <2>4. IsSums(G, f, T)
        <3>1. G = [s \in SUBSET T |-> SumStep(G, f, s)]
            <4> HIDE DEF h
            <4> QED
                BY <2>3
        <3> QED
            BY <3>1 DEF IsSums
    <2> QED
        BY <2>4
<1> HIDE DEF P
<1>2. \A T \in SUBSET S : T \in P
    BY <1>1, SubsetInduction
<1> QED
    BY <1>2 DEF P

\* The sum over S is its value at S.
LEMMA SumIs ==
    ASSUME NEW S, IsFiniteSet(S), NEW f, NEW g, IsSums(g, f, S)
    PROVE  SumFunctionOnSet(f, S) = g[S]
<1> DEFINE iter == CHOOSE iter : iter =
                [s \in SUBSET S |->
                    IF s = {} THEN 0
                    ELSE f[CHOOSE x \in s : TRUE] + iter[s \ {CHOOSE x \in s : TRUE}]]
<1>1. SumFunctionOnSet(f, S) = iter[S]
    BY DEF SumFunctionOnSet, FoldFunctionOnSet, MapThenFoldSet
<1>2. iter = CHOOSE h : IsSums(h, f, S)
    BY DEF IsSums, SumStep, OneOf
<1> QED
    BY <1>1, <1>2, SumsUnique

\* A sum takes one summand and the sum over the others.
LEMMA SumFold ==
    ASSUME NEW S, IsFiniteSet(S), NEW f
    PROVE  SumFunctionOnSet(f, S) =
            IF S = {} THEN 0 ELSE f[OneOf(S)] + SumFunctionOnSet(f, S \ {OneOf(S)})
<1>1. PICK g : IsSums(g, f, S)
    BY SumsExist
<1>2. SumFunctionOnSet(f, S) = SumStep(g, f, S)
    BY <1>1, SumIs, SumsApply
<1>3. CASE S # {}
    <2> DEFINE T == S \ {OneOf(S)}
    <2>1. T \in SUBSET S /\ IsFiniteSet(T)
        BY FS_RemoveElement
    <2> HIDE DEF T
    <2>2. PICK h : IsSums(h, f, T)
        BY <2>1, SumsExist
    <2>3. g[T] = h[T] /\ SumFunctionOnSet(f, T) = h[T]
        BY <1>1, <2>1, <2>2, SumIs, SumsUnique
    <2> QED
        BY <1>2, <1>3, <2>3 DEF T, SumStep
<1> QED
    BY <1>2, <1>3 DEF SumStep

\* The sum over no index is zero.
LEMMA SumEmpty ==
    ASSUME NEW f
    PROVE  SumFunctionOnSet(f, {}) = 0
BY SumFold, FS_EmptySet

\* A sum of integers is an integer.
LEMMA SumInt ==
    ASSUME NEW S, IsFiniteSet(S), NEW f, \A x \in S : f[x] \in Int
    PROVE  SumFunctionOnSet(f, S) \in Int
<1> DEFINE P == {T \in SUBSET S : SumFunctionOnSet(f, T) \in Int}
<1>1. ASSUME NEW T \in SUBSET S, \A U \in SUBSET T : U # T => U \in P
      PROVE  T \in P
    <2>1. IsFiniteSet(T)
        BY FS_Subset
    <2>2. CASE T = {}
        BY <2>2, SumEmpty
    <2>3. CASE T # {}
        <3>1. OneOf(T) \in T
            BY <2>3, OneOfIn
        <3>2. T \ {OneOf(T)} \in P
            BY <1>1, <3>1
        <3>3. SumFunctionOnSet(f, T) = f[OneOf(T)] + SumFunctionOnSet(f, T \ {OneOf(T)})
            BY <2>1, <2>3, SumFold
        <3>4. f[OneOf(T)] \in Int /\ SumFunctionOnSet(f, T \ {OneOf(T)}) \in Int
            BY <3>1, <3>2
        <3> QED
            BY <3>3, <3>4
    <2> QED
        BY <2>2, <2>3
<1> HIDE DEF P
<1>2. \A T \in SUBSET S : T \in P
    BY <1>1, SubsetInduction
<1> QED
    BY <1>2 DEF P

\* A sum of zeros is zero.
LEMMA SumZero ==
    ASSUME NEW S, IsFiniteSet(S), NEW f, \A x \in S : f[x] = 0
    PROVE  SumFunctionOnSet(f, S) = 0
<1> DEFINE P == {T \in SUBSET S : SumFunctionOnSet(f, T) = 0}
<1>1. ASSUME NEW T \in SUBSET S, \A U \in SUBSET T : U # T => U \in P
      PROVE  T \in P
    <2>1. IsFiniteSet(T)
        BY FS_Subset
    <2>2. CASE T = {}
        BY <2>2, SumEmpty
    <2>3. CASE T # {}
        <3>1. OneOf(T) \in T
            BY <2>3, OneOfIn
        <3>2. T \ {OneOf(T)} \in P
            BY <1>1, <3>1
        <3>3. SumFunctionOnSet(f, T) = f[OneOf(T)] + SumFunctionOnSet(f, T \ {OneOf(T)})
            BY <2>1, <2>3, SumFold
        <3>4. f[OneOf(T)] = 0 /\ SumFunctionOnSet(f, T \ {OneOf(T)}) = 0
            BY <3>1, <3>2
        <3> QED
            BY <3>3, <3>4
    <2> QED
        BY <2>2, <2>3
<1> HIDE DEF P
<1>2. \A T \in SUBSET S : T \in P
    BY <1>1, SubsetInduction
<1> QED
    BY <1>2 DEF P

\* Any summand may be taken out, whichever the definition takes first.
LEMMA SumRemove ==
    ASSUME NEW S, IsFiniteSet(S), NEW f, \A x \in S : f[x] \in Int, NEW x \in S
    PROVE  SumFunctionOnSet(f, S) = f[x] + SumFunctionOnSet(f, S \ {x})
<1> DEFINE P == {T \in SUBSET S : \A y \in T :
                    SumFunctionOnSet(f, T) = f[y] + SumFunctionOnSet(f, T \ {y})}
<1>1. ASSUME NEW T \in SUBSET S, \A U \in SUBSET T : U # T => U \in P
      PROVE  T \in P
    <2>1. SUFFICES ASSUME NEW y \in T
                   PROVE SumFunctionOnSet(f, T) = f[y] + SumFunctionOnSet(f, T \ {y})
        OBVIOUS
    <2> DEFINE z == OneOf(T)
    <2>2. z \in T
        BY OneOfIn
    <2>3. /\ IsFiniteSet(T) /\ IsFiniteSet(T \ {y})
          /\ IsFiniteSet(T \ {z}) /\ IsFiniteSet((T \ {y}) \ {z})
        BY FS_Subset, FS_RemoveElement
    <2>4. SumFunctionOnSet(f, T) = f[z] + SumFunctionOnSet(f, T \ {z})
        BY <2>2, <2>3, SumFold
    <2> HIDE DEF z
    <2>5. CASE y = z
        BY <2>4, <2>5
    <2>6. CASE y # z
        <3>1. T \ {z} \in P /\ T \ {y} \in P
            BY <1>1, <2>2
        <3>2. SumFunctionOnSet(f, T \ {z}) = f[y] + SumFunctionOnSet(f, (T \ {z}) \ {y})
            BY <3>1, <2>6
        <3>3. SumFunctionOnSet(f, T \ {y}) = f[z] + SumFunctionOnSet(f, (T \ {y}) \ {z})
            BY <3>1, <2>2, <2>6
        <3>4. (T \ {y}) \ {z} = (T \ {z}) \ {y}
            OBVIOUS
        <3>5. PICK r \in Int : r = SumFunctionOnSet(f, (T \ {y}) \ {z})
            BY <2>3, SumInt
        <3>6. PICK fy \in Int, fz \in Int : fy = f[y] /\ fz = f[z]
            BY <2>2
        <3>7. SumFunctionOnSet(f, T) = fz + (fy + r)
            BY <2>4, <3>2, <3>4, <3>5, <3>6
        <3>8. SumFunctionOnSet(f, T \ {y}) = fz + r
            BY <3>3, <3>5, <3>6
        <3> QED
            BY <3>6, <3>7, <3>8
    <2> QED
        BY <2>5, <2>6
<1> HIDE DEF P
<1>2. \A T \in SUBSET S : T \in P
    BY <1>1, SubsetInduction
<1> QED
    BY <1>2 DEF P

\* Equal summands give equal sums.
LEMMA SumSame ==
    ASSUME NEW S, IsFiniteSet(S), NEW f, NEW g, \A x \in S : f[x] = g[x]
    PROVE  SumFunctionOnSet(f, S) = SumFunctionOnSet(g, S)
<1> DEFINE P == {T \in SUBSET S : SumFunctionOnSet(f, T) = SumFunctionOnSet(g, T)}
<1>1. ASSUME NEW T \in SUBSET S, \A U \in SUBSET T : U # T => U \in P
      PROVE  T \in P
    <2>1. IsFiniteSet(T)
        BY FS_Subset
    <2>2. CASE T = {}
        BY <2>2, SumEmpty
    <2>3. CASE T # {}
        <3>1. OneOf(T) \in T
            BY <2>3, OneOfIn
        <3>2. T \ {OneOf(T)} \in P
            BY <1>1, <3>1
        <3> QED
            BY <2>1, <2>3, <3>1, <3>2, SumFold
    <2> QED
        BY <2>2, <2>3
<1> HIDE DEF P
<1>2. \A T \in SUBSET S : T \in P
    BY <1>1, SubsetInduction
<1> QED
    BY <1>2 DEF P

\* Changing one summand changes the sum by the difference.
LEMMA SumChange ==
    ASSUME NEW S, IsFiniteSet(S), NEW f, \A x \in S : f[x] \in Int, NEW x \in S,
           NEW g, \A y \in S : g[y] \in Int, \A y \in S \ {x} : g[y] = f[y]
    PROVE  SumFunctionOnSet(g, S) = SumFunctionOnSet(f, S) - f[x] + g[x]
<1>1. IsFiniteSet(S \ {x})
    BY FS_RemoveElement
<1>2. SumFunctionOnSet(f, S) = f[x] + SumFunctionOnSet(f, S \ {x})
    BY SumRemove
<1>3. SumFunctionOnSet(g, S) = g[x] + SumFunctionOnSet(g, S \ {x})
    BY SumRemove
<1>4. SumFunctionOnSet(f, S \ {x}) = SumFunctionOnSet(g, S \ {x})
    BY <1>1, SumSame
<1>5. SumFunctionOnSet(f, S \ {x}) \in Int /\ f[x] \in Int /\ g[x] \in Int
    BY <1>1, SumInt
<1> QED
    BY <1>2, <1>3, <1>4, <1>5

\* A sum of naturals is a natural, and no less than any of its summands.
LEMMA SumNat ==
    ASSUME NEW S, IsFiniteSet(S), NEW f, \A x \in S : f[x] \in Nat
    PROVE  /\ SumFunctionOnSet(f, S) \in Nat
           /\ \A x \in S : f[x] <= SumFunctionOnSet(f, S)
<1> DEFINE P == {T \in SUBSET S : SumFunctionOnSet(f, T) \in Nat}
<1>1. ASSUME NEW T \in SUBSET S, \A U \in SUBSET T : U # T => U \in P
      PROVE  T \in P
    <2>1. IsFiniteSet(T)
        BY FS_Subset
    <2>2. CASE T = {}
        BY <2>2, SumEmpty
    <2>3. CASE T # {}
        <3>1. OneOf(T) \in T
            BY <2>3, OneOfIn
        <3>2. T \ {OneOf(T)} \in P
            BY <1>1, <3>1
        <3>3. SumFunctionOnSet(f, T) = f[OneOf(T)] + SumFunctionOnSet(f, T \ {OneOf(T)})
            BY <2>1, <2>3, SumFold
        <3>4. f[OneOf(T)] \in Nat /\ SumFunctionOnSet(f, T \ {OneOf(T)}) \in Nat
            BY <3>1, <3>2
        <3> QED
            BY <3>3, <3>4
    <2> QED
        BY <2>2, <2>3
<1> HIDE DEF P
<1>2. \A T \in SUBSET S : T \in P
    BY <1>1, SubsetInduction
<1>3. ASSUME NEW x \in S
      PROVE  f[x] <= SumFunctionOnSet(f, S)
    <2>1. SumFunctionOnSet(f, S) = f[x] + SumFunctionOnSet(f, S \ {x})
        BY SumRemove
    <2>2. SumFunctionOnSet(f, S \ {x}) \in Nat
        BY <1>2 DEF P
    <2> QED
        BY <2>1, <2>2
<1> QED
    BY <1>2, <1>3 DEF P

\* If c times each f[x] is at most d times g[x], so are the sums.
LEMMA SumScaled ==
    ASSUME NEW S, IsFiniteSet(S), NEW f, NEW g, NEW c \in Int, NEW d \in Int,
           \A x \in S : f[x] \in Int /\ g[x] \in Int /\ c * f[x] <= d * g[x]
    PROVE  c * SumFunctionOnSet(f, S) <= d * SumFunctionOnSet(g, S)
<1> DEFINE P == {T \in SUBSET S : c * SumFunctionOnSet(f, T) <= d * SumFunctionOnSet(g, T)}
<1>1. ASSUME NEW T \in SUBSET S, \A U \in SUBSET T : U # T => U \in P
      PROVE  T \in P
    <2>1. IsFiniteSet(T)
        BY FS_Subset
    <2>2. CASE T = {}
        BY <2>2, SumEmpty
    <2>3. CASE T # {}
        <3> DEFINE x == OneOf(T)
                   F == SumFunctionOnSet(f, T \ {x})
                   G == SumFunctionOnSet(g, T \ {x})
        <3>1. x \in T
            BY <2>3, OneOfIn
        <3>2. c * F <= d * G
            BY <1>1, <3>1
        <3>3. SumFunctionOnSet(f, T) = f[x] + F /\ SumFunctionOnSet(g, T) = g[x] + G
            BY <2>1, <2>3, SumFold
        <3>4. F \in Int /\ G \in Int
            BY <2>1, SumInt, FS_RemoveElement
        <3> HIDE DEF F, G, x
        <3>5. PICK fx \in Int, gx \in Int : fx = f[x] /\ gx = g[x] /\ c * fx <= d * gx
            BY <3>1
        <3>6. c * (fx + F) = c * fx + c * F /\ d * (gx + G) = d * gx + d * G
            BY <3>4, <3>5
        <3>7. c * (fx + F) <= d * (gx + G)
            <4>1. c * fx \in Int /\ c * F \in Int /\ d * gx \in Int /\ d * G \in Int
                BY <3>4
            <4> QED
                BY <4>1, <3>2, <3>5, <3>6
        <3> QED
            BY <3>7, <3>3, <3>5
    <2> QED
        BY <2>2, <2>3
<1> HIDE DEF P
<1>2. \A T \in SUBSET S : T \in P
    BY <1>1, SubsetInduction
<1> QED
    BY <1>2 DEF P

\* Summands of zero may be left out.
LEMMA SumRestrict ==
    ASSUME NEW T, IsFiniteSet(T), NEW S \in SUBSET T, NEW f, NEW g,
           \A x \in S : f[x] = g[x] /\ g[x] \in Int,
           \A x \in T \ S : f[x] = 0
    PROVE  SumFunctionOnSet(f, T) = SumFunctionOnSet(g, S)
<1> DEFINE P == {U \in SUBSET T : SumFunctionOnSet(f, U) = SumFunctionOnSet(g, U \cap S)}
<1>1. ASSUME NEW U \in SUBSET T, \A V \in SUBSET U : V # U => V \in P
      PROVE  U \in P
    <2>1. IsFiniteSet(U) /\ IsFiniteSet(U \cap S)
        BY FS_Subset
    <2>2. CASE U = {}
        <3>1. U \cap S = {}
            BY <2>2
        <3> QED
            BY <2>2, <3>1, SumEmpty
    <2>3. CASE U # {}
        <3>1. PICK x : x = OneOf(U)
            OBVIOUS
        <3>2. x \in U
            BY <2>3, <3>1, OneOfIn
        <3>3. SumFunctionOnSet(f, U \ {x}) = SumFunctionOnSet(g, (U \ {x}) \cap S)
            BY <1>1, <3>2
        <3>4. SumFunctionOnSet(f, U) = f[x] + SumFunctionOnSet(f, U \ {x})
            BY <2>1, <2>3, <3>1, SumFold
        <3>5. IsFiniteSet((U \ {x}) \cap S)
            BY FS_Subset
        <3>6. SumFunctionOnSet(g, (U \ {x}) \cap S) \in Int
            BY <3>5, SumInt
        <3>7. CASE x \in S
            <4>1. (U \ {x}) \cap S = (U \cap S) \ {x} /\ x \in U \cap S
                BY <3>2, <3>7
            <4>2. SumFunctionOnSet(g, U \cap S) = g[x] + SumFunctionOnSet(g, (U \cap S) \ {x})
                BY <2>1, <4>1, SumRemove
            <4>3. SumFunctionOnSet(f, U) = SumFunctionOnSet(g, U \cap S)
                BY <3>3, <3>4, <3>7, <4>1, <4>2
            <4> QED
                BY <4>3
        <3>8. CASE x \notin S
            <4>1. (U \ {x}) \cap S = U \cap S /\ f[x] = 0
                BY <3>2, <3>8
            <4>2. PICK r \in Int : r = SumFunctionOnSet(g, U \cap S)
                BY <3>6, <4>1
            <4>3. SumFunctionOnSet(f, U \ {x}) = r
                BY <3>3, <4>1, <4>2
            <4>4. SumFunctionOnSet(f, U) = 0 + r
                BY <3>4, <4>1, <4>3
            <4> QED
                BY <4>2, <4>4
        <3> QED
            BY <3>7, <3>8
    <2> QED
        BY <2>2, <2>3
<1> HIDE DEF P
<1>2. T \in P
    BY <1>1, SubsetInduction
<1>3. T \cap S = S
    OBVIOUS
<1> QED
    BY <1>2, <1>3 DEF P

-----------------------------------------------------------------------------
(* Folds over a list. *)

\* The recursion a fold over s is defined by, for the step T from what has been computed
\* and the next element, and a function that satisfies it on the subsets of D.
FoldStep(g, T, base, s, U) == IF U = {} THEN base ELSE T[<<g[U \ {Max(U)}], s[Max(U)]>>]
IsFolds(g, T, base, s, D) == g = [U \in SUBSET D |-> FoldStep(g, T, base, s, U)]

\* Finitely many positions, a last one in every part of them.
Positions(D) == IsFiniteSet(D) /\ \A U \in SUBSET D : U # {} => Max(U) \in U

\* Integers that are finitely many and not none have a greatest one.
LEMMA MaxIn ==
    ASSUME NEW D \in SUBSET Int, IsFiniteSet(D), D # {}
    PROVE  Max(D) \in D /\ \A i \in D : i <= Max(D)
<1> DEFINE P == {V \in SUBSET D : V = {} \/ \E m \in V : \A i \in V : i <= m}
<1>1. ASSUME NEW V \in SUBSET D, \A W \in SUBSET V : W # V => W \in P
      PROVE  V \in P
    <2>1. CASE V = {}
        BY <2>1
    <2>2. CASE V # {}
        <3>1. PICK x \in V : TRUE
            BY <2>2
        <3>2. V \ {x} \in P
            BY <1>1, <3>1
        <3>3. CASE V \ {x} = {}
            <4>1. \A i \in V : i <= x
                BY <3>1, <3>3
            <4> QED
                BY <3>1, <4>1
        <3>4. CASE V \ {x} # {}
            <4>1. PICK m \in V \ {x} : \A i \in V \ {x} : i <= m
                BY <3>2, <3>4
            <4>2. CASE x <= m
                BY <4>1, <4>2
            <4>3. CASE ~(x <= m)
                BY <4>1, <4>3, <3>1
            <4> QED
                BY <4>2, <4>3
        <3> QED
            BY <3>3, <3>4
    <2> QED
        BY <2>1, <2>2
<1> HIDE DEF P
<1>2. D \in P
    BY <1>1, SubsetInduction
<1>3. \E m \in D : \A i \in D : m >= i
    BY <1>2 DEF P
<1> QED
    BY <1>3 DEF Max

\* The positions of a list are such.
LEMMA ListPositions ==
    ASSUME NEW n \in Nat
    PROVE  Positions(1 .. n)
<1>1. IsFiniteSet(1 .. n)
    BY FS_Interval
<1>2. ASSUME NEW U \in SUBSET (1 .. n), U # {}
      PROVE  Max(U) \in U
    <2>1. IsFiniteSet(U)
        BY <1>1, FS_Subset
    <2>2. U \in SUBSET Int
        OBVIOUS
    <2> QED
        BY <1>2, <2>1, <2>2, MaxIn
<1> QED
    BY <1>1, <1>2 DEF Positions

\* The recursion at one subset.
LEMMA FoldsApply ==
    ASSUME NEW D, NEW T, NEW base, NEW s, NEW g, IsFolds(g, T, base, s, D), NEW U \in SUBSET D
    PROVE  g[U] = FoldStep(g, T, base, s, U)
BY DEF IsFolds

\* Two such functions agree where both are defined.
LEMMA FoldsUnique ==
    ASSUME NEW D, Positions(D), NEW T, NEW base, NEW s, NEW g, NEW h, NEW D1,
           NEW D2, D \subseteq D1, D \subseteq D2,
           IsFolds(g, T, base, s, D1), IsFolds(h, T, base, s, D2)
    PROVE  \A U \in SUBSET D : g[U] = h[U]
<1> DEFINE P == {U \in SUBSET D : g[U] = h[U]}
<1>1. ASSUME NEW U \in SUBSET D, \A V \in SUBSET U : V # U => V \in P
      PROVE  U \in P
    <2>1. g[U] = FoldStep(g, T, base, s, U) /\ h[U] = FoldStep(h, T, base, s, U)
        BY FoldsApply
    <2>2. CASE U = {}
        BY <2>1, <2>2 DEF FoldStep
    <2>3. CASE U # {}
        <3>1. U \ {Max(U)} \in P
            BY <1>1, <2>3 DEF Positions
        <3> QED
            BY <2>1, <2>3, <3>1 DEF FoldStep
    <2> QED
        BY <2>2, <2>3
<1> HIDE DEF P
<1>2. \A U \in SUBSET D : U \in P
    BY <1>1, SubsetInduction DEF Positions
<1> QED
    BY <1>2 DEF P

\* There is such a function for the positions of any list.
LEMMA FoldsExist ==
    ASSUME NEW D, Positions(D), NEW T, NEW base, NEW s
    PROVE  \E g : IsFolds(g, T, base, s, D)
<1> DEFINE P == {V \in SUBSET D : \E g : IsFolds(g, T, base, s, V)}
<1>1. ASSUME NEW V \in SUBSET D, \A W \in SUBSET V : W # V => W \in P
      PROVE  V \in P
    <2> DEFINE At(u) == CHOOSE g : IsFolds(g, T, base, s, u)
               h == [u \in SUBSET V |-> At(u)[u]]
               G == [u \in SUBSET V |-> FoldStep(h, T, base, s, u)]
    <2>1. \A u \in SUBSET V : u # V => IsFolds(At(u), T, base, s, u)
        BY <1>1
    <2>2. ASSUME NEW u \in SUBSET V, u # V
          PROVE h[u] = G[u]
        <3> HIDE DEF At
        <3>1. h[u] = FoldStep(At(u), T, base, s, u)
            BY <2>1, <2>2, FoldsApply
        <3>2. CASE u = {}
            BY <3>1, <3>2 DEF FoldStep
        <3>3. CASE u # {}
            <4> DEFINE v == u \ {Max(u)}
            <4>1. v \in SUBSET V /\ v # V /\ v \in SUBSET u /\ Positions(v)
                BY <3>3, FS_Subset DEF Positions
            <4>2. IsFolds(At(u), T, base, s, u) /\ IsFolds(At(v), T, base, s, v)
                BY <2>1, <2>2, <4>1
            <4>3. At(u)[v] = At(v)[v]
                <5> HIDE DEF v
                <5> QED
                    BY <4>2, <4>1, FoldsUnique
            <4> QED
                BY <3>1, <3>3, <4>3, <4>1 DEF FoldStep
        <3> QED
            BY <3>2, <3>3
    <2>3. \A u \in SUBSET V : FoldStep(h, T, base, s, u) = FoldStep(G, T, base, s, u)
        <3>1. SUFFICES ASSUME NEW u \in SUBSET V, u # {}
              PROVE  FoldStep(h, T, base, s, u) = FoldStep(G, T, base, s, u)
            BY DEF FoldStep
        <3>2. u \ {Max(u)} \in SUBSET V /\ u \ {Max(u)} # V
            BY <3>1 DEF Positions
        <3> HIDE DEF h, G
        <3> QED
            BY <3>1, <3>2, <2>2 DEF FoldStep
    <2>4. IsFolds(G, T, base, s, V)
        <3>1. G = [u \in SUBSET V |-> FoldStep(G, T, base, s, u)]
            <4> HIDE DEF h
            <4> QED
                BY <2>3
        <3> QED
            BY <3>1 DEF IsFolds
    <2> QED
        BY <2>4
<1> HIDE DEF P
<1>2. D \in P
    BY <1>1, SubsetInduction DEF Positions
<1> QED
    BY <1>2 DEF P

\* A fold whose step stays in A stays in A.
LEMMA FoldsIn ==
    ASSUME NEW D, Positions(D), NEW E, NEW s, \A i \in D : s[i] \in E,
           NEW A, NEW base \in A, NEW T \in [A \X E -> A], NEW g, IsFolds(g, T, base, s, D)
    PROVE  \A U \in SUBSET D : g[U] \in A
<1> DEFINE P == {U \in SUBSET D : g[U] \in A}
<1>1. ASSUME NEW U \in SUBSET D, \A V \in SUBSET U : V # U => V \in P
      PROVE  U \in P
    <2>1. g[U] = FoldStep(g, T, base, s, U)
        BY FoldsApply
    <2>2. CASE U = {}
        BY <2>1, <2>2 DEF FoldStep
    <2>3. CASE U # {}
        <3>1. Max(U) \in U
            BY <2>3 DEF Positions
        <3>2. U \ {Max(U)} \in P /\ s[Max(U)] \in E
            BY <1>1, <3>1
        <3>3. T[<<g[U \ {Max(U)}], s[Max(U)]>>] \in A
            BY <3>2
        <3> QED
            BY <2>1, <2>3, <3>3 DEF FoldStep
    <2> QED
        BY <2>2, <2>3
<1> HIDE DEF P
<1>2. \A U \in SUBSET D : U \in P
    BY <1>1, SubsetInduction DEF Positions
<1> QED
    BY <1>2 DEF P

-----------------------------------------------------------------------------
(* Lists filtered, and without duplicates. *)

\* The recursions of Filter and Distinct.
FilterStep(g, s, P, U) ==
    IF U = {} THEN <<>>
    ELSE IF s[Max(U)] \in P THEN Append(g[U \ {Max(U)}], s[Max(U)]) ELSE g[U \ {Max(U)}]
IsFilter(g, s, P) == \A U \in SUBSET DOMAIN s : g[U] = FilterStep(g, s, P, U)
DistinctStep(g, s, U) ==
    IF U = {} THEN <<>>
    ELSE IF s[Max(U)] \in ToSet(g[U \ {Max(U)}]) THEN g[U \ {Max(U)}]
         ELSE Append(g[U \ {Max(U)}], s[Max(U)])

LEMMA FilterSteps ==
    ASSUME NEW E, NEW s \in Seq(E), NEW P
    PROVE  \E g : Filter(s, P) = g[DOMAIN s] /\ IsFilter(g, s, P)
<1>1. PICK D : D = DOMAIN s
    OBVIOUS
<1>2. Positions(D) /\ D = 1 .. Len(s) /\ \A i \in D : s[i] \in E
    BY <1>1, ListPositions
<1>3. PICK T : T = [p \in Seq(E) \X E |-> IF p[2] \in P THEN Append(p[1], p[2]) ELSE p[1]]
    OBVIOUS
<1>4. T \in [Seq(E) \X E -> Seq(E)] /\ <<>> \in Seq(E)
    BY <1>3
<1>5. PICK g : IsFolds(g, T, <<>>, s, D)
    BY <1>2, FoldsExist
<1>6. \A U \in SUBSET D : g[U] \in Seq(E)
    BY <1>2, <1>4, <1>5, FoldsIn
<1>7. ASSUME NEW U \in SUBSET D
      PROVE  g[U] = FilterStep(g, s, P, U)
    <2>1. g[U] = FoldStep(g, T, <<>>, s, U)
        BY <1>5, FoldsApply
    <2>2. CASE U = {}
        BY <2>1, <2>2 DEF FoldStep, FilterStep
    <2>3. CASE U # {}
        <3>1. PICK v, m : v = g[U \ {Max(U)}] /\ m = s[Max(U)]
            OBVIOUS
        <3>2. v \in Seq(E) /\ m \in E
            BY <1>2, <1>6, <2>3, <3>1 DEF Positions
        <3>3. T[<<v, m>>] = IF m \in P THEN Append(v, m) ELSE v
            BY <1>3, <3>2
        <3> QED
            BY <2>1, <2>3, <3>1, <3>3 DEF FoldStep, FilterStep
    <2> QED
        BY <2>2, <2>3
<1>8. g = [U \in SUBSET D |-> FilterStep(g, s, P, U)]
    BY <1>5, <1>7 DEF IsFolds
<1>9. PICK h : h = CHOOSE f : f = [U \in SUBSET D |-> FilterStep(f, s, P, U)]
    OBVIOUS
<1>10. h = [U \in SUBSET D |-> FilterStep(h, s, P, U)]
    BY <1>8, <1>9
<1>11. Filter(s, P) = h[D]
    BY <1>1, <1>9 DEF Filter, FoldLeft, MapThenFoldSet, FilterStep
<1>12. \A U \in SUBSET D : h[U] = FilterStep(h, s, P, U)
    BY <1>10
<1> QED
    BY <1>1, <1>11, <1>12 DEF IsFilter

LEMMA DistinctSteps ==
    ASSUME NEW E, NEW s \in Seq(E)
    PROVE  \E g : /\ Distinct(s) = g[DOMAIN s]
                  /\ \A U \in SUBSET DOMAIN s : g[U] = DistinctStep(g, s, U)
<1>1. PICK D : D = DOMAIN s
    OBVIOUS
<1>2. Positions(D) /\ D = 1 .. Len(s) /\ \A i \in D : s[i] \in E
    BY <1>1, ListPositions
<1>3. PICK T : T = [p \in Seq(E) \X E |-> IF p[2] \in ToSet(p[1]) THEN p[1] ELSE Append(p[1], p[2])]
    OBVIOUS
<1>4. T \in [Seq(E) \X E -> Seq(E)] /\ <<>> \in Seq(E)
    BY <1>3
<1>5. PICK g : IsFolds(g, T, <<>>, s, D)
    BY <1>2, FoldsExist
<1>6. \A U \in SUBSET D : g[U] \in Seq(E)
    BY <1>2, <1>4, <1>5, FoldsIn
<1>7. ASSUME NEW U \in SUBSET D
      PROVE  g[U] = DistinctStep(g, s, U)
    <2>1. g[U] = FoldStep(g, T, <<>>, s, U)
        BY <1>5, FoldsApply
    <2>2. CASE U = {}
        BY <2>1, <2>2 DEF FoldStep, DistinctStep
    <2>3. CASE U # {}
        <3>1. PICK v, m : v = g[U \ {Max(U)}] /\ m = s[Max(U)]
            OBVIOUS
        <3>2. v \in Seq(E) /\ m \in E
            BY <1>2, <1>6, <2>3, <3>1 DEF Positions
        <3>3. T[<<v, m>>] = IF m \in ToSet(v) THEN v ELSE Append(v, m)
            BY <1>3, <3>2
        <3> QED
            BY <2>1, <2>3, <3>1, <3>3 DEF FoldStep, DistinctStep
    <2> QED
        BY <2>2, <2>3
<1>8. g = [U \in SUBSET D |-> DistinctStep(g, s, U)]
    BY <1>5, <1>7 DEF IsFolds
<1>9. PICK h : h = CHOOSE f : f = [U \in SUBSET D |-> DistinctStep(f, s, U)]
    OBVIOUS
<1>10. h = [U \in SUBSET D |-> DistinctStep(h, s, U)]
    BY <1>8, <1>9
<1>11. Distinct(s) = h[D]
    BY <1>1, <1>9 DEF Distinct, FoldLeft, MapThenFoldSet, DistinctStep
<1>12. \A U \in SUBSET D : h[U] = DistinctStep(h, s, U)
    BY <1>10
<1> QED
    BY <1>1, <1>11, <1>12

\* The elements of a list, with one more.
LEMMA ToSetAppend ==
    ASSUME NEW E, NEW s \in Seq(E), NEW x \in E
    PROVE  ToSet(Append(s, x)) = ToSet(s) \cup {x}
<1>1. PICK n \in Nat : n = Len(s)
    OBVIOUS
<1>2. PICK a : a = Append(s, x)
    OBVIOUS
<1>3. DOMAIN s = 1 .. n /\ a \in Seq(E) /\ Len(a) = n + 1 /\ DOMAIN a = 1 .. n + 1
    BY <1>1, <1>2
<1>4. (\A i \in 1 .. n : a[i] = s[i]) /\ a[n + 1] = x
    BY <1>1, <1>2
<1>5. PICK D, F : D = 1 .. n /\ F = 1 .. n + 1
    OBVIOUS
<1>6. F = D \cup {n + 1}
    BY <1>5
<1>7. DOMAIN s = D /\ DOMAIN a = F /\ \A i \in D : a[i] = s[i]
    BY <1>3, <1>4, <1>5
<1>8. {a[i] : i \in F} = {s[i] : i \in D} \cup {x}
    BY <1>4, <1>6, <1>7
<1> QED
    BY <1>2, <1>7, <1>8 DEF ToSet

\* What is filtered is a list of the elements that are in P, and of all of them.
LEMMA FilterGives ==
    ASSUME NEW E, NEW s \in Seq(E), NEW P
    PROVE  Filter(s, P) \in Seq(E) /\ ToSet(Filter(s, P)) = ToSet(s) \cap P
<1>1. PICK g : Filter(s, P) = g[DOMAIN s] /\ IsFilter(g, s, P)
    BY FilterSteps
<1>2. PICK D : D = DOMAIN s
    OBVIOUS
<1>3. Positions(D) /\ D = 1 .. Len(s) /\ \A i \in D : s[i] \in E
    BY <1>2, ListPositions
<1> DEFINE Picked(U) == {s[i] : i \in U} \cap P
           Q == {U \in SUBSET D : g[U] \in Seq(E) /\ ToSet(g[U]) = Picked(U)}
<1>4. ASSUME NEW U \in SUBSET D, \A V \in SUBSET U : V # U => V \in Q
      PROVE  U \in Q
    <2>1. g[U] = FilterStep(g, s, P, U)
        BY <1>1, <1>2 DEF IsFilter
    <2>2. CASE U = {}
        <3>1. g[U] = <<>>
            BY <2>1, <2>2 DEF FilterStep
        <3>2. ToSet(g[U]) = {} /\ g[U] \in Seq(E)
            BY <3>1 DEF ToSet
        <3> QED
            BY <2>2, <3>2
    <2>3. CASE U # {}
        <3>1. PICK m : m = Max(U)
            OBVIOUS
        <3>2. m \in U /\ s[m] \in E
            BY <1>3, <2>3, <3>1 DEF Positions
        <3>3. U \ {m} \in Q
            BY <1>4, <3>2
        <3>4. PICK v \in Seq(E) : v = g[U \ {m}] /\ ToSet(v) = Picked(U \ {m})
            BY <3>3
        <3>5. Picked(U) = Picked(U \ {m}) \cup ({s[m]} \cap P)
            BY <3>2
        <3>6. g[U] = IF s[m] \in P THEN Append(v, s[m]) ELSE v
            BY <2>1, <2>3, <3>1, <3>4 DEF FilterStep
        <3> HIDE DEF Picked
        <3>7. g[U] \in Seq(E)
            BY <3>2, <3>4, <3>6
        <3>8. ToSet(g[U]) = Picked(U)
            BY <3>2, <3>4, <3>5, <3>6, ToSetAppend
        <3> QED
            BY <3>7, <3>8
    <2> QED
        BY <2>2, <2>3
<1> HIDE DEF Q
<1>5. D \in Q
    <2>1. IsFiniteSet(D)
        BY <1>3 DEF Positions
    <2> QED
        BY <1>4, <2>1, SubsetInduction
<1>6. Picked(D) = ToSet(s) \cap P
    BY <1>2 DEF ToSet
<1> QED
    BY <1>1, <1>2, <1>5, <1>6 DEF Q

\* Without duplicates a list has the elements it had, each once.
LEMMA DistinctGives ==
    ASSUME NEW E, NEW s \in Seq(E)
    PROVE  /\ Distinct(s) \in Seq(E) /\ ToSet(Distinct(s)) = ToSet(s)
           /\ \A i, j \in 1 .. Len(Distinct(s)) : Distinct(s)[i] = Distinct(s)[j] => i = j
<1>1. PICK g : /\ Distinct(s) = g[DOMAIN s]
               /\ \A U \in SUBSET DOMAIN s : g[U] = DistinctStep(g, s, U)
    BY DistinctSteps
<1>2. PICK D : D = DOMAIN s
    OBVIOUS
<1>3. Positions(D) /\ D = 1 .. Len(s) /\ \A i \in D : s[i] \in E
    BY <1>2, ListPositions
<1> DEFINE At(U) == {s[i] : i \in U}
           Once(v) == \A i, j \in 1 .. Len(v) : v[i] = v[j] => i = j
           Q == {U \in SUBSET D : g[U] \in Seq(E) /\ ToSet(g[U]) = At(U) /\ Once(g[U])}
<1>4. ASSUME NEW v \in Seq(E), Once(v), NEW x \in E, x \notin ToSet(v)
      PROVE  Once(Append(v, x))
    <2>1. Len(Append(v, x)) = Len(v) + 1 /\ Len(v) \in Nat
        OBVIOUS
    <2>2. \A i \in 1 .. Len(v) : Append(v, x)[i] = v[i] /\ v[i] # x
        BY <1>4 DEF ToSet
    <2>3. Append(v, x)[Len(v) + 1] = x
        OBVIOUS
    <2>4. \A i \in 1 .. Len(v) + 1 : i \in 1 .. Len(v) \/ i = Len(v) + 1
        BY <2>1
    <2> QED
        BY <1>4, <2>1, <2>2, <2>3, <2>4
<1>5. ASSUME NEW U \in SUBSET D, \A V \in SUBSET U : V # U => V \in Q
      PROVE  U \in Q
    <2>1. g[U] = DistinctStep(g, s, U)
        BY <1>1, <1>2
    <2>2. CASE U = {}
        <3>1. g[U] = <<>>
            BY <2>1, <2>2 DEF DistinctStep
        <3>2. ToSet(g[U]) = {} /\ g[U] \in Seq(E) /\ Once(g[U])
            BY <3>1 DEF ToSet
        <3> QED
            BY <2>2, <3>2
    <2>3. CASE U # {}
        <3>1. PICK m : m = Max(U)
            OBVIOUS
        <3>2. m \in U /\ s[m] \in E
            BY <1>3, <2>3, <3>1 DEF Positions
        <3>3. U \ {m} \in Q
            BY <1>5, <3>2
        <3>4. PICK v \in Seq(E) : v = g[U \ {m}] /\ ToSet(v) = At(U \ {m}) /\ Once(v)
            BY <3>3
        <3>5. At(U) = At(U \ {m}) \cup {s[m]}
            BY <3>2
        <3>6. g[U] = IF s[m] \in ToSet(v) THEN v ELSE Append(v, s[m])
            BY <2>1, <2>3, <3>1, <3>4 DEF DistinctStep
        <3> HIDE DEF At, Once
        <3>7. g[U] \in Seq(E)
            BY <3>2, <3>4, <3>6
        <3>8. ToSet(g[U]) = At(U)
            BY <3>2, <3>4, <3>5, <3>6, ToSetAppend
        <3>9. Once(g[U])
            BY <1>4, <3>2, <3>4, <3>6
        <3> QED
            BY <3>7, <3>8, <3>9
    <2> QED
        BY <2>2, <2>3
<1> HIDE DEF Q
<1>6. D \in Q
    <2>1. IsFiniteSet(D)
        BY <1>3 DEF Positions
    <2> QED
        BY <1>5, <2>1, SubsetInduction
<1>7. At(D) = ToSet(s)
    BY <1>2 DEF ToSet
<1> QED
    BY <1>1, <1>2, <1>6, <1>7 DEF Q

-----------------------------------------------------------------------------
(* The elements of a list. *)

\* The set of a list's elements, by their places.
LEMMA ToSetIs ==
    ASSUME NEW E, NEW s \in Seq(E)
    PROVE  ToSet(s) = {s[i] : i \in 1 .. Len(s)}
<1>1. PICK D : D = 1 .. Len(s)
    OBVIOUS
<1>2. DOMAIN s = D
    BY <1>1
<1> QED
    BY <1>1, <1>2 DEF ToSet

\* A list is one over any set that has its elements.
LEMMA OfItsElements ==
    ASSUME NEW E, NEW s \in Seq(E), NEW F, ToSet(s) \subseteq F
    PROVE  s \in Seq(F)
<1>1. \A i \in 1 .. Len(s) : s[i] \in F
    BY ToSetIs
<1> QED
    BY <1>1

\* Two lists put together have the elements of both.
LEMMA ToSetConcat ==
    ASSUME NEW E, NEW s \in Seq(E), NEW t \in Seq(E)
    PROVE  ToSet(s \o t) = ToSet(s) \cup ToSet(t)
<1>1. PICK m \in Nat, n \in Nat : m = Len(s) /\ n = Len(t)
    OBVIOUS
<1>2. PICK u : u = s \o t
    OBVIOUS
<1>3. /\ u \in Seq(E) /\ Len(u) = m + n
      /\ \A i \in 1 .. m : u[i] = s[i]
      /\ \A i \in 1 .. n : u[m + i] = t[i]
    BY <1>1, <1>2
<1>4. /\ ToSet(s) = {s[i] : i \in 1 .. m} /\ ToSet(t) = {t[i] : i \in 1 .. n}
      /\ ToSet(u) = {u[i] : i \in 1 .. (m + n)}
    <2>1. ToSet(s) = {s[i] : i \in 1 .. m}
        BY <1>1, ToSetIs
    <2>2. ToSet(t) = {t[i] : i \in 1 .. n}
        BY <1>1, ToSetIs
    <2>3. ToSet(u) = {u[i] : i \in 1 .. (m + n)}
        BY <1>3, ToSetIs
    <2> QED
        BY <2>1, <2>2, <2>3
<1>5. ASSUME NEW x \in ToSet(u)
      PROVE  x \in ToSet(s) \cup ToSet(t)
    <2>1. PICK i \in 1 .. (m + n) : x = u[i]
        BY <1>4
    <2>2. CASE i <= m
        BY <1>3, <1>4, <2>1, <2>2
    <2>3. CASE i > m
        <3>1. i - m \in 1 .. n /\ i = m + (i - m)
            BY <2>3
        <3>2. x = t[i - m]
            BY <1>3, <2>1, <3>1
        <3> QED
            BY <1>4, <3>1, <3>2
    <2> QED
        BY <2>2, <2>3
<1>6. ToSet(s) \subseteq ToSet(u)
    <2>1. ASSUME NEW i \in 1 .. m
          PROVE  s[i] \in ToSet(u)
        <3>1. i \in 1 .. (m + n) /\ s[i] = u[i]
            BY <1>3
        <3> QED
            BY <1>4, <3>1
    <2> QED
        BY <1>4, <2>1
<1>7. ToSet(t) \subseteq ToSet(u)
    <2>1. ASSUME NEW i \in 1 .. n
          PROVE  t[i] \in ToSet(u)
        <3>1. m + i \in 1 .. (m + n) /\ t[i] = u[m + i]
            BY <1>3
        <3> QED
            BY <1>4, <3>1
    <2> QED
        BY <1>4, <2>1
<1> QED
    BY <1>2, <1>5, <1>6, <1>7

\* Taking the head off a list takes at most that element out of its set.
LEMMA ToSetTail ==
    ASSUME NEW E, NEW s \in Seq(E), s # <<>>
    PROVE  /\ Tail(s) \in Seq(E) /\ Len(Tail(s)) = Len(s) - 1
           /\ \A i \in 1 .. (Len(s) - 1) : Tail(s)[i] = s[i + 1]
           /\ Head(s) \in E /\ Head(s) = s[1]
           /\ ToSet(s) = ToSet(Tail(s)) \cup {Head(s)}
<1>1. PICK n \in Nat : n = Len(s) /\ n >= 1
    <2>1. Len(s) \in Nat /\ Len(s) # 0
        BY EmptySeq
    <2> QED
        BY <2>1
<1>2. PICK t : t = Tail(s)
    OBVIOUS
<1>3. /\ t \in Seq(E) /\ Len(t) = n - 1 /\ Head(s) = s[1] /\ s[1] \in E
      /\ \A i \in 1 .. (n - 1) : t[i] = s[i + 1]
    BY <1>1, <1>2
<1>4. ToSet(s) = {s[i] : i \in 1 .. n} /\ ToSet(t) = {t[i] : i \in 1 .. (n - 1)}
    BY <1>1, <1>3, ToSetIs
<1>5. ASSUME NEW x \in ToSet(s)
      PROVE  x \in ToSet(t) \cup {s[1]}
    <2>1. PICK i \in 1 .. n : x = s[i]
        BY <1>4
    <2>2. CASE i = 1
        BY <2>1, <2>2
    <2>3. CASE i # 1
        <3>1. i - 1 \in 1 .. (n - 1) /\ t[i - 1] = s[i]
            BY <1>3, <2>3
        <3> QED
            BY <1>4, <2>1, <3>1
    <2> QED
        BY <2>2, <2>3
<1>6. ToSet(t) \subseteq ToSet(s)
    <2>1. ASSUME NEW i \in 1 .. (n - 1)
          PROVE  t[i] \in ToSet(s)
        <3>1. i + 1 \in 1 .. n /\ t[i] = s[i + 1]
            BY <1>3
        <3> QED
            BY <1>4, <3>1
    <2> QED
        BY <1>4, <2>1
<1>7. s[1] \in ToSet(s)
    <2>1. 1 \in 1 .. n
        BY <1>1
    <2> QED
        BY <1>4, <2>1
<1> QED
    BY <1>1, <1>2, <1>3, <1>5, <1>6, <1>7

\* The list of the elements of a finite set has each of them once.
LEMMA SetToSeqGives ==
    ASSUME NEW S, IsFiniteSet(S)
    PROVE  /\ SetToSeq(S) \in Seq(S) /\ ToSet(SetToSeq(S)) = S
           /\ \A i, j \in 1 .. Len(SetToSeq(S)) : SetToSeq(S)[i] = SetToSeq(S)[j] => i = j
<1>1. PICK n \in Nat : n = Cardinality(S)
    BY FS_CardinalityType
<1>2. PICK D : D = 1 .. n
    OBVIOUS
<1>3. IsFiniteSet(D) /\ Cardinality(D) = n
    BY <1>2, FS_Interval
<1>4. \E f \in [D -> S] : IsInjective(f)
    <2>1. PICK f \in Bijection(D, S) : TRUE
        BY <1>1, <1>2, FS_CardinalityType DEF ExistsBijection
    <2> QED
        BY <2>1 DEF Bijection, Injection
<1>5. PICK f : f = SetToSeq(S)
    OBVIOUS
<1>6. f \in [D -> S] /\ IsInjective(f)
    BY <1>1, <1>2, <1>4, <1>5 DEF SetToSeq
<1>7. f \in Surjection(D, S)
    <2>1. f \in Injection(D, S)
        BY <1>6 DEF Injection
    <2> QED
        BY <1>1, <1>3, <2>1, FS_Injection
<1>8. \A x \in S : \E i \in D : f[i] = x
    BY <1>6, <1>7 DEF Surjection
<1>9. ToSet(f) = S
    BY <1>6, <1>8 DEF ToSet
<1>10. f \in Seq(S) /\ Len(f) = n /\ DOMAIN f = D
    BY <1>2, <1>6
<1>11. \A i, j \in D : f[i] = f[j] => i = j
    BY <1>6 DEF IsInjective
<1> QED
    BY <1>2, <1>5, <1>9, <1>10, <1>11

\* The smallest number of a finite set is in it.
LEMMA MinIn ==
    ASSUME NEW D \in SUBSET Int, IsFiniteSet(D), D # {}
    PROVE  Min(D) \in D /\ \A i \in D : Min(D) <= i
<1> DEFINE P == {V \in SUBSET D : V = {} \/ \E m \in V : \A i \in V : m <= i}
<1>1. ASSUME NEW V \in SUBSET D, \A W \in SUBSET V : W # V => W \in P
      PROVE  V \in P
    <2>1. CASE V = {}
        BY <2>1
    <2>2. CASE V # {}
        <3>1. PICK x \in V : TRUE
            BY <2>2
        <3>2. V \ {x} \in P
            BY <1>1, <3>1
        <3>3. CASE V \ {x} = {}
            <4>1. \A i \in V : x <= i
                BY <3>1, <3>3
            <4> QED
                BY <3>1, <4>1
        <3>4. CASE V \ {x} # {}
            <4>1. PICK m \in V \ {x} : \A i \in V \ {x} : m <= i
                BY <3>2, <3>4
            <4>2. CASE m <= x
                BY <4>1, <4>2
            <4>3. CASE ~(m <= x)
                BY <4>1, <4>3, <3>1
            <4> QED
                BY <4>2, <4>3
        <3> QED
            BY <3>3, <3>4
    <2> QED
        BY <2>1, <2>2
<1> HIDE DEF P
<1>2. D \in P
    BY <1>1, SubsetInduction
<1>3. \E m \in D : \A i \in D : m <= i
    BY <1>2 DEF P
<1> QED
    BY <1>3 DEF Min

\* The numbers from 0 up to one that all have a property, if 0 has it and it passes on.
LEMMA Upwards ==
    ASSUME NEW n \in Nat, NEW P, 0 \in P, \A k \in 1 .. n : k - 1 \in P => k \in P
    PROVE  \A k \in 0 .. n : k \in P
<1> DEFINE D == (0 .. n) \ P
<1>1. SUFFICES ASSUME D # {}
      PROVE  FALSE
    OBVIOUS
<1>2. IsFiniteSet(0 .. n)
    BY FS_Interval
<1>3. D \in SUBSET Int /\ IsFiniteSet(D)
    BY <1>2, FS_Subset
<1>4. PICK k \in D : \A i \in D : k <= i
    <2> HIDE DEF D
    <2> QED
        BY <1>1, <1>3, MinIn
<1>5. k \in 1 .. n /\ k - 1 \in 0 .. n
    BY <1>4
<1>6. k - 1 \in P
    BY <1>4, <1>5
<1> QED
    BY <1>4, <1>5, <1>6

\* A list without its last element.
LEMMA FrontOf ==
    ASSUME NEW E, NEW s \in Seq(E), NEW n \in Nat, Len(s) = n + 1
    PROVE  /\ SubSeq(s, 1, n) \in Seq(E) /\ Len(SubSeq(s, 1, n)) = n
           /\ DOMAIN SubSeq(s, 1, n) = 1 .. n
           /\ \A i \in 1 .. n : SubSeq(s, 1, n)[i] = s[i]
           /\ ToSet(s) = ToSet(SubSeq(s, 1, n)) \cup {s[n + 1]}
<1>1. \A i \in 1 .. n : s[i] \in E
    OBVIOUS
<1>2. PICK t : t = SubSeq(s, 1, n)
    OBVIOUS
<1>3. t \in Seq(E) /\ Len(t) = n /\ \A i \in 1 .. n : t[i] = s[i]
    <2>1. /\ t \in Seq(E)
          /\ Len(t) = (IF 1 <= n THEN n - 1 + 1 ELSE 0)
          /\ \A i \in 1 .. (n - 1 + 1) : t[i] = s[1 + i - 1]
        BY <1>1, <1>2, SubSeqProperties
    <2>2. n - 1 + 1 = n /\ (IF 1 <= n THEN n - 1 + 1 ELSE 0) = n
        OBVIOUS
    <2>3. \A i \in 1 .. n : 1 + i - 1 = i
        OBVIOUS
    <2> QED
        BY <2>1, <2>2, <2>3
<1>4. DOMAIN t = 1 .. n
    BY <1>3
<1>5. ToSet(t) = {t[i] : i \in 1 .. n} /\ ToSet(s) = {s[i] : i \in 1 .. (n + 1)}
    BY <1>3, ToSetIs
<1>6. \A i \in 1 .. (n + 1) : i \in 1 .. n \/ i = n + 1
    OBVIOUS
<1>7. n + 1 \in 1 .. (n + 1) /\ \A i \in 1 .. n : i \in 1 .. (n + 1)
    OBVIOUS
<1> QED
    BY <1>2, <1>3, <1>4, <1>5, <1>6, <1>7
=============================================================================
