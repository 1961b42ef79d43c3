----------------------------- MODULE SumTheorems -----------------------------
(***************************************************************************)
(* Sums over finite sets, for the proofs about balances.                   *)
(*                                                                         *)
(* MapThenSumSet is a recursive function on the subsets of a set, so what  *)
(* it returns is a matter of induction on the set.  The induction is done  *)
(* with a least counterexample: among the finite subsets for which a claim *)
(* fails there is one with no smaller one (LeastSet, from the library's    *)
(* well-founded ordering by strict inclusion), and taking one element from *)
(* it contradicts that.                                                    *)
(***************************************************************************)
EXTENDS Integers, FiniteSets, FiniteSetsExt, FiniteSetTheorems, TLAPS

Chosen(s) == CHOOSE x \in s : TRUE
\* The sum of f[x] for the x of S.
SumOf(f, S) == MapThenSumSet(LAMBDA x : f[x], S)

\* What a fold over s is, given the folds g of its subsets.
FoldStep(f, g, s) == IF s = {} THEN 0 ELSE f[Chosen(s)] + g[s \ {Chosen(s)}]
IsFold(f, g, S) == g = [s \in SUBSET S |-> FoldStep(f, g, s)]

\* A set of subsets of a finite set has a minimal member: the induction of this module.
LEMMA LeastSet ==
  ASSUME NEW S, IsFiniteSet(S), NEW T, T \subseteq SUBSET S, T # {}
  PROVE \E s \in T : \A t \in T : t \subseteq s => t = s
<1>1. FiniteSubsetsOf(S) = SUBSET S BY FS_FiniteSubsetsOfFinite
<1>2. PICK s \in T : \A t \in T : ~(<<t, s>> \in StrictSubsetOrdering(S))
  BY <1>1, FS_StrictSubsetOrderingWellFounded, WFMin
<1>. QED BY <1>2 DEF StrictSubsetOrdering

\* The element that a fold takes first.
LEMMA ChosenIn ==
  ASSUME NEW s, s # {}
  PROVE Chosen(s) \in s
BY DEF Chosen

\* A fold at one subset.
LEMMA FoldAt ==
  ASSUME NEW f, NEW g, NEW S, IsFold(f, g, S), NEW s, s \subseteq S
  PROVE g[s] = IF s = {} THEN 0 ELSE f[Chosen(s)] + g[s \ {Chosen(s)}]
<1>1. g = [t \in SUBSET S |-> FoldStep(f, g, t)]
  BY DEF IsFold
<1>2. s \in SUBSET S
  OBVIOUS
<1>3. g[s] = FoldStep(f, g, s)
  BY <1>1, <1>2
<1>. QED BY <1>3 DEF FoldStep

\* Two folds of the same summands agree where both are defined.
LEMMA FoldUnique ==
  ASSUME NEW f, NEW g, NEW h, NEW S, IsFiniteSet(S), NEW U, U \subseteq S,
         IsFold(f, g, S), IsFold(f, h, U)
  PROVE \A s \in SUBSET U : h[s] = g[s]
<1> DEFINE T == {s \in SUBSET U : h[s] # g[s]}
<1>. SUFFICES ASSUME T # {} PROVE FALSE
  OBVIOUS
<1>1. PICK s \in T : \A t \in T : t \subseteq s => t = s
  <2>1. T \subseteq SUBSET S
    OBVIOUS
  <2>. HIDE DEF T
  <2>. QED BY <2>1, LeastSet
<1>2. s # {} /\ s \subseteq S /\ s \subseteq U
  BY FoldAt
<1>3. h[s] = f[Chosen(s)] + h[s \ {Chosen(s)}] /\ g[s] = f[Chosen(s)] + g[s \ {Chosen(s)}]
  BY <1>2, FoldAt
<1>4. s \ {Chosen(s)} \notin T /\ s \ {Chosen(s)} \subseteq U
  BY <1>1, <1>2, ChosenIn
<1>. QED BY <1>3, <1>4

\* The recursive function exists, for every finite set and any summands.
LEMMA FoldExists ==
  ASSUME NEW f, NEW S, IsFiniteSet(S)
  PROVE \E g : IsFold(f, g, S)
<1> DEFINE T == {U \in SUBSET S : ~ \E g : IsFold(f, g, U)}
<1>. SUFFICES ASSUME T # {} PROVE FALSE
  OBVIOUS
<1>1. PICK U \in T : \A V \in T : V \subseteq U => V = U
  <2>1. T \subseteq SUBSET S
    OBVIOUS
  <2>. HIDE DEF T
  <2>. QED BY <2>1, LeastSet
<1>2. \A V \in SUBSET U : V # U => \E g : IsFold(f, g, V)
  BY <1>1
<1> DEFINE part == [V \in SUBSET U |-> CHOOSE g : IsFold(f, g, V)]
           rest(s) == s \ {Chosen(s)}
           whole == [s \in SUBSET U |->
                       IF s = {} THEN 0 ELSE f[Chosen(s)] + part[rest(s)][rest(s)]]
<1>3. \A V \in SUBSET U : V # U => IsFold(f, part[V], V)
  BY <1>2
<1>4. ASSUME NEW s \in SUBSET U, s # U
      PROVE whole[s] = part[s][s]
  <2>1. IsFold(f, part[s], s)
    BY <1>3, <1>4
  <2>2. part[s][s] = IF s = {} THEN 0 ELSE f[Chosen(s)] + part[s][rest(s)]
    <3> HIDE DEF part
    <3>. QED BY <2>1, FoldAt
  <2>3. CASE s = {}
    BY <2>2, <2>3
  <2>4. CASE s # {}
    <3>1. rest(s) \subseteq s /\ rest(s) # U /\ rest(s) \in SUBSET U
      BY <2>4, <1>4, ChosenIn
    <3>2. IsFold(f, part[rest(s)], rest(s))
      BY <1>3, <3>1
    <3>3. IsFiniteSet(s)
      BY FS_Subset
    <3>4. part[rest(s)][rest(s)] = part[s][rest(s)]
      <4> HIDE DEF part, rest
      <4>. QED BY <2>1, <3>1, <3>2, <3>3, FoldUnique
    <3>. QED BY <2>2, <2>4, <3>4
  <2>. QED BY <2>3, <2>4
<1>5. ASSUME NEW s \in SUBSET U
      PROVE whole[s] = FoldStep(f, whole, s)
  <2>1. CASE s = {}
    BY <2>1 DEF FoldStep
  <2>2. CASE s # {}
    <3>1. rest(s) \in SUBSET U /\ rest(s) # U
      BY <2>2, ChosenIn
    <3>2. whole[rest(s)] = part[rest(s)][rest(s)]
      BY <1>4, <3>1
    <3>. QED BY <2>2, <3>2 DEF FoldStep
  <2>. QED BY <2>1, <2>2
<1>6. IsFold(f, whole, U)
  <2>1. whole = [s \in SUBSET U |-> whole[s]]
    OBVIOUS
  <2>. HIDE DEF whole
  <2>. QED BY <2>1, <1>5 DEF IsFold
<1>. QED BY <1>1, <1>6

\* The sum over a subset does not depend on the set the recursion starts from.
LEMMA SumIsFold ==
  ASSUME NEW f, NEW S, IsFiniteSet(S), NEW g, IsFold(f, g, S), NEW s \in SUBSET S
  PROVE SumOf(f, s) = g[s]
<1> DEFINE c == CHOOSE h : IsFold(f, h, s)
<1>1. SumOf(f, s) = (CHOOSE h : h = [t \in SUBSET s |-> FoldStep(f, h, t)])[s]
  BY DEF SumOf, MapThenSumSet, MapThenFoldSet, FoldStep, Chosen
<1>2. SumOf(f, s) = c[s]
  BY <1>1 DEF IsFold
<1>3. IsFold(f, c, s)
  BY FoldExists, FS_Subset
<1>. HIDE DEF c
<1>. QED BY <1>2, <1>3, FoldUnique

\* What may be added up.
Summable(f, S) == IsFiniteSet(S) /\ \A x \in S : f[x] \in Int

\* An empty sum is zero.
LEMMA SumEmpty ==
  ASSUME NEW f
  PROVE SumOf(f, {}) = 0
<1>1. PICK g : IsFold(f, g, {})
  BY FoldExists, FS_EmptySet
<1>2. SumOf(f, {}) = g[{}]
  BY <1>1, SumIsFold, FS_EmptySet
<1>3. g[{}] = 0
  BY <1>1, FoldAt
<1>. QED BY <1>2, <1>3

\* A sum of integers is an integer.
LEMMA SumInt ==
  ASSUME NEW f, NEW S, Summable(f, S)
  PROVE SumOf(f, S) \in Int
<1>1. IsFiniteSet(S) /\ \A x \in S : f[x] \in Int
  BY DEF Summable
<1>2. PICK g : IsFold(f, g, S)
  BY <1>1, FoldExists
<1> DEFINE T == {s \in SUBSET S : g[s] \notin Int}
<1>3. T = {}
  <2>. SUFFICES ASSUME T # {} PROVE FALSE
    OBVIOUS
  <2>1. PICK s \in T : \A t \in T : t \subseteq s => t = s
    <3>1. T \subseteq SUBSET S
      OBVIOUS
    <3>. HIDE DEF T
    <3>. QED BY <1>1, <3>1, LeastSet
  <2>2. g[s] = IF s = {} THEN 0 ELSE f[Chosen(s)] + g[s \ {Chosen(s)}]
    <3>1. s \subseteq S
      BY <2>1
    <3>. HIDE DEF T
    <3>. QED BY <1>2, <3>1, FoldAt
  <2>3. Chosen(s) \in s /\ s \ {Chosen(s)} \notin T
    <3>1. s # {}
      BY <2>2
    <3>. QED BY <2>1, <3>1, ChosenIn
  <2>. QED BY <1>1, <2>1, <2>2, <2>3
<1>. QED BY <1>1, <1>2, <1>3, SumIsFold

\* Any element may be taken out first, not only the one that the fold chooses.
LEMMA SumRemove ==
  ASSUME NEW f, NEW S, Summable(f, S), NEW x \in S
  PROVE SumOf(f, S) = f[x] + SumOf(f, S \ {x})
<1>1. IsFiniteSet(S) /\ \A e \in S : f[e] \in Int
  BY DEF Summable
<1>2. PICK g : IsFold(f, g, S)
  BY <1>1, FoldExists
<1>3. \A s \in SUBSET S : g[s] \in Int
  <2>. TAKE s \in SUBSET S
  <2>1. Summable(f, s)
    BY <1>1, FS_Subset DEF Summable
  <2>. QED BY <1>1, <1>2, <2>1, SumInt, SumIsFold
<1> DEFINE Swaps(s) == \A e \in s : g[s] = f[e] + g[s \ {e}]
           T == {s \in SUBSET S : ~Swaps(s)}
<1>4. T = {}
  <2>. SUFFICES ASSUME T # {} PROVE FALSE
    OBVIOUS
  <2>1. PICK s \in T : \A t \in T : t \subseteq s => t = s
    <3>1. T \subseteq SUBSET S
      OBVIOUS
    <3>. HIDE DEF T
    <3>. QED BY <1>1, <3>1, LeastSet
  <2>2. PICK e \in s : g[s] # f[e] + g[s \ {e}]
    BY <2>1
  <2> DEFINE y == Chosen(s)
  <2>3. y \in s /\ g[s] = f[y] + g[s \ {y}]
    BY <1>2, <2>2, FoldAt, ChosenIn
  <2>4. e # y
    BY <2>2, <2>3
  <2>. HIDE DEF y
  <2>5. s \ {y} \notin T /\ s \ {e} \notin T
    BY <2>1, <2>2, <2>3
  <2>6. Swaps(s \ {y}) /\ Swaps(s \ {e})
    BY <2>5
  <2>7. g[s \ {y}] = f[e] + g[(s \ {y}) \ {e}] /\ g[s \ {e}] = f[y] + g[(s \ {e}) \ {y}]
    BY <2>2, <2>3, <2>4, <2>6
  <2>8. (s \ {y}) \ {e} = (s \ {e}) \ {y}
    OBVIOUS
  <2>9. f[e] \in Int /\ f[y] \in Int /\ g[(s \ {e}) \ {y}] \in Int
    BY <1>1, <1>3, <2>2, <2>3
  <2>10. g[s] = f[y] + (f[e] + g[(s \ {e}) \ {y}]) /\ g[s \ {e}] = f[y] + g[(s \ {e}) \ {y}]
    BY <2>3, <2>7, <2>8
  <2>. QED BY <2>2, <2>9, <2>10
<1>5. Swaps(S)
  BY <1>4
<1>6. SumOf(f, S) = g[S] /\ SumOf(f, S \ {x}) = g[S \ {x}]
  BY <1>1, <1>2, SumIsFold
<1>. QED BY <1>5, <1>6

\* One more summand.
LEMMA SumAdd ==
  ASSUME NEW f, NEW S, Summable(f, S), NEW x, x \notin S, f[x] \in Int
  PROVE Summable(f, S \cup {x}) /\ SumOf(f, S \cup {x}) = SumOf(f, S) + f[x]
<1>1. Summable(f, S \cup {x})
  BY FS_AddElement DEF Summable
<1>2. (S \cup {x}) \ {x} = S
  OBVIOUS
<1>3. SumOf(f, S \cup {x}) = f[x] + SumOf(f, S)
  BY <1>1, <1>2, SumRemove
<1>. QED BY <1>1, <1>3, SumInt

\* Sums over disjoint sets add up.
LEMMA SumUnion ==
  ASSUME NEW f, NEW S, Summable(f, S), NEW U, Summable(f, U), S \cap U = {}
  PROVE Summable(f, S \cup U) /\ SumOf(f, S \cup U) = SumOf(f, S) + SumOf(f, U)
<1>1. IsFiniteSet(S) /\ IsFiniteSet(U) /\ \A x \in S \cup U : f[x] \in Int
  BY DEF Summable
<1>2. IsFiniteSet(S \cup U)
  BY <1>1, FS_Union
<1>3. \A s \in SUBSET (S \cup U) : Summable(f, s) /\ SumOf(f, s) \in Int
  <2>. SUFFICES ASSUME NEW s \in SUBSET (S \cup U) PROVE Summable(f, s)
    BY SumInt
  <2>. QED BY <1>1, <1>2, FS_Subset DEF Summable
<1> DEFINE T == {u \in SUBSET U : SumOf(f, S \cup u) # SumOf(f, S) + SumOf(f, u)}
<1>4. T = {}
  <2>. SUFFICES ASSUME T # {} PROVE FALSE
    OBVIOUS
  <2>1. PICK u \in T : \A t \in T : t \subseteq u => t = u
    <3>1. T \subseteq SUBSET U
      OBVIOUS
    <3>. HIDE DEF T
    <3>. QED BY <1>1, <3>1, LeastSet
  <2>0. SumOf(f, S \cup u) # SumOf(f, S) + SumOf(f, u)
    BY <2>1
  <2>2. CASE u = {}
    <3>1. S \cup u = S
      BY <2>2
    <3>2. SumOf(f, u) = 0 /\ SumOf(f, S) \in Int
      BY <1>3, <2>2, SumEmpty
    <3>3. SumOf(f, S \cup u) = SumOf(f, S)
      BY <3>1, Zenon
    <3>. QED BY <2>0, <3>2, <3>3
  <2>3. CASE u # {}
    <3>1. PICK x \in u : TRUE
      BY <2>3
    <3>2. u \ {x} \notin T
      <4>1. u \ {x} # u /\ u \ {x} \subseteq u
        BY <3>1
      <4>. HIDE DEF T
      <4>. QED BY <2>1, <4>1
    <3>3. SumOf(f, S \cup (u \ {x})) = SumOf(f, S) + SumOf(f, u \ {x})
      BY <3>2
    <3>4. (S \cup u) \ {x} = S \cup (u \ {x})
      BY <3>1
    <3>5. SumOf(f, u) = f[x] + SumOf(f, u \ {x})
      BY <1>3, <3>1, SumRemove
    <3>6. SumOf(f, S \cup u) = f[x] + SumOf(f, S \cup (u \ {x}))
      <4>1. SumOf(f, S \cup u) = f[x] + SumOf(f, (S \cup u) \ {x})
        BY <1>3, <3>1, SumRemove
      <4>. QED BY <3>4, <4>1, Zenon
    <3>7. f[x] \in Int /\ SumOf(f, S) \in Int /\ SumOf(f, u \ {x}) \in Int
      BY <1>1, <1>3, <3>1
    <3>. QED BY <2>0, <3>3, <3>4, <3>5, <3>6, <3>7
  <2>. QED BY <2>2, <2>3
<1>5. SumOf(f, S \cup U) = SumOf(f, S) + SumOf(f, U)
  BY <1>4
<1>. QED BY <1>3, <1>5

\* A sum of naturals is a natural.
LEMMA SumNat ==
  ASSUME NEW f, NEW S, IsFiniteSet(S), \A x \in S : f[x] \in Nat
  PROVE Summable(f, S) /\ SumOf(f, S) \in Nat
<1>1. \A s \in SUBSET S : Summable(f, s) /\ SumOf(f, s) \in Int
  BY FS_Subset, SumInt DEF Summable
<1> DEFINE T == {s \in SUBSET S : SumOf(f, s) \notin Nat}
<1>2. T = {}
  <2>. SUFFICES ASSUME T # {} PROVE FALSE
    OBVIOUS
  <2>1. PICK s \in T : \A t \in T : t \subseteq s => t = s
    <3>1. T \subseteq SUBSET S
      OBVIOUS
    <3>. HIDE DEF T
    <3>. QED BY <3>1, LeastSet
  <2>2. CASE s = {}
    BY <2>1, <2>2, SumEmpty
  <2>3. CASE s # {}
    <3>1. PICK x \in s : TRUE
      BY <2>3
    <3>2. s \ {x} \notin T
      BY <2>1, <3>1
    <3>3. SumOf(f, s) = f[x] + SumOf(f, s \ {x})
      BY <1>1, <3>1, SumRemove
    <3>4. f[x] \in Nat /\ SumOf(f, s \ {x}) \in Nat
      BY <3>1, <3>2
    <3>. QED BY <2>1, <3>3, <3>4
  <2>. QED BY <2>2, <2>3
<1>. QED BY <1>1, <1>2

\* A sum by cases of membership in another set.
LEMMA SumSplit ==
  ASSUME NEW f, NEW S, Summable(f, S), NEW U
  PROVE /\ Summable(f, S \cap U) /\ Summable(f, S \ U)
        /\ SumOf(f, S) = SumOf(f, S \cap U) + SumOf(f, S \ U)
<1>1. Summable(f, S \cap U) /\ Summable(f, S \ U)
  BY FS_Intersection, FS_Difference DEF Summable
<1>2. (S \cap U) \cap (S \ U) = {} /\ S = (S \cap U) \cup (S \ U)
  OBVIOUS
<1>. QED BY <1>1, <1>2, SumUnion

\* Equal summands, equal sums.
LEMMA SumSame ==
  ASSUME NEW f, NEW S, Summable(f, S), NEW h, \A x \in S : h[x] = f[x]
  PROVE Summable(h, S) /\ SumOf(h, S) = SumOf(f, S)
<1>1. IsFiniteSet(S) /\ Summable(h, S)
  BY DEF Summable
<1>2. \A s \in SUBSET S : Summable(f, s) /\ Summable(h, s)
  BY <1>1, FS_Subset DEF Summable
<1> DEFINE T == {s \in SUBSET S : SumOf(h, s) # SumOf(f, s)}
<1>3. T = {}
  <2>. SUFFICES ASSUME T # {} PROVE FALSE
    OBVIOUS
  <2>1. PICK s \in T : \A t \in T : t \subseteq s => t = s
    <3>1. T \subseteq SUBSET S
      OBVIOUS
    <3>. HIDE DEF T
    <3>. QED BY <1>1, <3>1, LeastSet
  <2>2. s # {}
    BY <2>1, SumEmpty
  <2>3. PICK x \in s : TRUE
    BY <2>2
  <2>4. SumOf(f, s) = f[x] + SumOf(f, s \ {x}) /\ SumOf(h, s) = h[x] + SumOf(h, s \ {x})
    BY <1>2, <2>3, SumRemove
  <2>5. s \ {x} \notin T
    BY <2>1, <2>3
  <2>. QED BY <2>1, <2>3, <2>4, <2>5
<1>. QED BY <1>1, <1>3

\* The sum of a field, as the ledger of the models forms it, is such a sum.
LEMMA AmountsSum ==
  ASSUME NEW S, IsFiniteSet(S)
  PROVE MapThenSumSet(LAMBDA j : j.amount, S) = SumOf([j \in S |-> j.amount], S)
<1> DEFINE f == [j \in S |-> j.amount]
           At(h, s) == IF s = {} THEN 0 ELSE Chosen(s).amount + h[s \ {Chosen(s)}]
           c == CHOOSE h : h = [s \in SUBSET S |-> At(h, s)]
<1>1. MapThenSumSet(LAMBDA j : j.amount, S) = c[S]
  BY DEF MapThenSumSet, MapThenFoldSet, Chosen
<1>2. ASSUME NEW h
      PROVE IsFold(f, h, S) <=> h = [s \in SUBSET S |-> At(h, s)]
  <2>1. \A s \in SUBSET S : FoldStep(f, h, s) = At(h, s)
    BY ChosenIn DEF FoldStep
  <2>. QED BY <2>1 DEF IsFold
<1>3. \E h : h = [s \in SUBSET S |-> At(h, s)]
  BY <1>2, FoldExists
<1>4. IsFold(f, c, S)
  <2>. HIDE DEF At, f
  <2>. QED BY <1>2, <1>3
<1>5. SumOf(f, S) = c[S]
  <2>. HIDE DEF c, f
  <2>. QED BY <1>4, SumIsFold
<1>. QED BY <1>1, <1>5

\* The sum of a field over some rows of a table.
LEMMA FieldSum ==
  ASSUME NEW S, IsFiniteSet(S), NEW t
  PROVE MapThenSumSet(LAMBDA j : t[j].amount, S) = SumOf([j \in S |-> t[j].amount], S)
<1> DEFINE f == [j \in S |-> t[j].amount]
           At(h, s) == IF s = {} THEN 0 ELSE t[Chosen(s)].amount + h[s \ {Chosen(s)}]
           c == CHOOSE h : h = [s \in SUBSET S |-> At(h, s)]
<1>1. MapThenSumSet(LAMBDA j : t[j].amount, S) = c[S]
  BY DEF MapThenSumSet, MapThenFoldSet, Chosen
<1>2. ASSUME NEW h
      PROVE IsFold(f, h, S) <=> h = [s \in SUBSET S |-> At(h, s)]
  <2>1. \A s \in SUBSET S : FoldStep(f, h, s) = At(h, s)
    BY ChosenIn DEF FoldStep
  <2>. QED BY <2>1 DEF IsFold
<1>3. \E h : h = [s \in SUBSET S |-> At(h, s)]
  BY <1>2, FoldExists
<1>4. IsFold(f, c, S)
  <2>. HIDE DEF At, f
  <2>. QED BY <1>2, <1>3
<1>5. SumOf(f, S) = c[S]
  <2>. HIDE DEF c, f
  <2>. QED BY <1>4, SumIsFold
<1>. QED BY <1>1, <1>5

\* A part of a set of naturals adds up to no more.
LEMMA SumGrows ==
  ASSUME NEW f, NEW S, IsFiniteSet(S), \A x \in S : f[x] \in Nat, NEW P \in SUBSET S
  PROVE SumOf(f, P) \in Nat /\ SumOf(f, P) <= SumOf(f, S)
<1>1. IsFiniteSet(P) /\ IsFiniteSet(S \ P) /\ P \cap (S \ P) = {} /\ P \cup (S \ P) = S
  BY FS_Subset, FS_Difference
<1>2. /\ Summable(f, P) /\ SumOf(f, P) \in Nat
      /\ Summable(f, S \ P) /\ SumOf(f, S \ P) \in Nat
  BY <1>1, SumNat
<1>3. SumOf(f, P \cup (S \ P)) = SumOf(f, P) + SumOf(f, S \ P)
  BY <1>1, <1>2, SumUnion
<1>4. SumOf(f, S) = SumOf(f, P) + SumOf(f, S \ P)
  BY <1>1, <1>3, Zenon
<1>. QED BY <1>2, <1>4
=============================================================================
