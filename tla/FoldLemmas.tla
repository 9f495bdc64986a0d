----------------------------- MODULE FoldLemmas -----------------------------
(***************************************************************************)
(* Sums over finite sets and folds over sequences.  The community modules  *)
(* define both with one recursive operator; that its recursion has a       *)
(* solution at all, what a sum adds up to and what a fold keeps to are     *)
(* shown here from a minimal set for which they would fail.                *)
(***************************************************************************)
EXTENDS Integers, Sequences, FiniteSets, Functions, FiniteSetsExt, SequencesExt,
        FiniteSetTheorems, WellFoundedInduction, TLAPS

(* Among sets of subsets of a finite set there is always a minimal one.    *)
LEMMA MinimalSubset ==
  ASSUME NEW S, IsFiniteSet(S), NEW B \in SUBSET (SUBSET S), B # {}
  PROVE  \E T \in B : \A U \in B : U \subseteq T => U = T
<1>1. IsWellFoundedOn(StrictSubsetOrdering(S), FiniteSubsetsOf(S))
  BY FS_StrictSubsetOrderingWellFounded
<1>2. B \subseteq FiniteSubsetsOf(S)
  BY FS_Subset DEF FiniteSubsetsOf
<1>3. PICK T \in B : \A U \in B : ~(<<U, T>> \in StrictSubsetOrdering(S))
  BY <1>1, <1>2, WFMin
<1>4. QED
  BY <1>3 DEF StrictSubsetOrdering

(* A finite set of integers has a greatest element.                        *)
LEMMA GreatestExists ==
  ASSUME NEW S, IsFiniteSet(S), \A x \in S : x \in Int, S # {}
  PROVE  \E z \in S : \A y \in S : y <= z
<1> DEFINE Has(T) == \E z \in T : \A y \in T : y <= z
           Wrong == {T \in SUBSET S : T # {} /\ ~Has(T)}
<1>1. ASSUME NEW T \in Wrong, \A U \in Wrong : U \subseteq T => U = T
      PROVE  FALSE
  <2>1. PICK x \in T : x \in Int
    OBVIOUS
  <2>2. T \ {x} \subseteq T /\ T \ {x} # T /\ T \ {x} \in SUBSET S
    BY <2>1
  <2>3. T \ {x} = {} \/ Has(T \ {x})
    BY <1>1, <2>2
  <2>4. CASE T \ {x} = {}
    BY <2>1, <2>4
  <2>5. CASE Has(T \ {x})
    <3>1. PICK m \in T \ {x} : \A y \in T \ {x} : y <= m
      BY <2>5
    <3>2. \A y \in T : y \in Int
      OBVIOUS
    <3>3. Has(T)
      <4>1. CASE x <= m
        BY <3>1, <3>2, <4>1
      <4>2. CASE ~(x <= m)
        <5>1. \A y \in T : y <= x
          BY <2>1, <3>1, <3>2, <4>2
        <5>2. QED
          BY <2>1, <5>1
      <4>3. QED
        BY <4>1, <4>2
    <3>4. QED
      BY <3>3
  <2>6. QED
    BY <2>3, <2>4, <2>5
<1>2. ~(S \in Wrong)
  <2> SUFFICES ASSUME Wrong # {} PROVE FALSE
    OBVIOUS
  <2>1. PICK T \in Wrong : \A U \in Wrong : U \subseteq T => U = T
    <3>1. Wrong \in SUBSET (SUBSET S)
      OBVIOUS
    <3> HIDE DEF Wrong
    <3>2. QED
      BY <3>1, MinimalSubset
  <2>2. QED
    BY <1>1, <2>1
<1>3. QED
  BY <1>2

(* What it is for h to be defined by recursion on the subsets of T: one    *)
(* element is picked, and the step applied to it and the rest's value.     *)
Recursive(h, T, base, pick, step) ==
  \A U \in SUBSET T : h[U] = IF U = {} THEN base
                             ELSE step[<<pick[U], h[U \ {pick[U]}]>>]

(* Two such functions agree wherever both are defined.                     *)
LEMMA RecursionUnique ==
  ASSUME NEW S, IsFiniteSet(S), NEW base, NEW pick, NEW step, NEW g, NEW h,
         \A U \in SUBSET S : U # {} => pick[U] \in U,
         Recursive(g, S, base, pick, step), Recursive(h, S, base, pick, step)
  PROVE  \A U \in SUBSET S : g[U] = h[U]
<1> DEFINE Differ == {U \in SUBSET S : g[U] # h[U]}
<1> SUFFICES ASSUME Differ # {}
             PROVE  FALSE
  OBVIOUS
<1>1. PICK T \in Differ : \A U \in Differ : U \subseteq T => U = T
  <2>1. Differ \in SUBSET (SUBSET S)
    OBVIOUS
  <2> HIDE DEF Differ
  <2>2. QED
    BY <2>1, MinimalSubset
<1>2. T # {}
  BY DEF Recursive
<1>3. /\ T \ {pick[T]} \in SUBSET S /\ T \ {pick[T]} \subseteq T
      /\ T \ {pick[T]} # T
  BY <1>2
<1>4. g[T \ {pick[T]}] = h[T \ {pick[T]}]
  BY <1>1, <1>3
<1>5. QED
  BY <1>2, <1>4 DEF Recursive

(* Such a function exists: otherwise there is a smallest set without one,  *)
(* and the functions of its proper subsets, which agree, make one.         *)
LEMMA RecursionExists ==
  ASSUME NEW S, IsFiniteSet(S), NEW Val, NEW base \in Val, NEW pick, NEW step,
         \A U \in SUBSET S : U # {} => pick[U] \in U,
         \A x \in S, v \in Val : step[<<x, v>>] \in Val
  PROVE  \E g \in [SUBSET S -> Val] : Recursive(g, S, base, pick, step)
<1> DEFINE Has(T) == \E h \in [SUBSET T -> Val] : Recursive(h, T, base, pick, step)
           Lacking == {T \in SUBSET S : ~Has(T)}
<1> SUFFICES ASSUME Lacking # {}
             PROVE  FALSE
  OBVIOUS
<1>1. PICK T \in Lacking : \A U \in Lacking : U \subseteq T => U = T
  <2>1. Lacking \in SUBSET (SUBSET S)
    OBVIOUS
  <2> HIDE DEF Lacking
  <2>2. QED
    BY <2>1, MinimalSubset
<1> DEFINE H(U) == CHOOSE h \in [SUBSET U -> Val] : Recursive(h, U, base, pick, step)
<1>2. ASSUME NEW U \in SUBSET T, U # T
      PROVE  /\ H(U) \in [SUBSET U -> Val]
             /\ Recursive(H(U), U, base, pick, step)
  <2>1. Has(U)
    BY <1>1, <1>2
  <2>2. QED
    BY <2>1
<1> HIDE DEF H
<1>3. ASSUME NEW U \in SUBSET T, U # T, NEW V \in SUBSET U
      PROVE  H(U)[V] = H(V)[V]
  <2>1. V # T /\ V \in SUBSET T /\ IsFiniteSet(V)
    BY <1>3, FS_Subset
  <2>2. Recursive(H(U), V, base, pick, step)
    <3>1. Recursive(H(U), U, base, pick, step)
      BY <1>2, <1>3
    <3>2. QED
      BY <3>1 DEF Recursive
  <2>3. Recursive(H(V), V, base, pick, step)
    BY <1>2, <2>1
  <2>4. \A W \in SUBSET V : W # {} => pick[W] \in W
    BY <2>1
  <2>5. QED
    BY <2>1, <2>2, <2>3, <2>4, RecursionUnique
<1> DEFINE h == [U \in SUBSET T |->
                   IF U = {} THEN base
                   ELSE step[<<pick[U], H(U \ {pick[U]})[U \ {pick[U]}]>>]]
<1>4. ASSUME NEW U \in SUBSET T, U # {}
      PROVE  /\ U \ {pick[U]} \in SUBSET T /\ U \ {pick[U]} # T /\ pick[U] \in S
             /\ H(U \ {pick[U]})[U \ {pick[U]}] \in Val
  <2>1. pick[U] \in U
    BY <1>4
  <2>2. U \ {pick[U]} \in SUBSET T /\ U \ {pick[U]} # T /\ pick[U] \in S
    BY <2>1
  <2>3. H(U \ {pick[U]}) \in [SUBSET (U \ {pick[U]}) -> Val]
    BY <2>2, <1>2
  <2>4. QED
    BY <2>2, <2>3
<1>5. h \in [SUBSET T -> Val]
  <2>1. QED
    BY <1>4
<1>6. ASSUME NEW U \in SUBSET T, U # T
      PROVE  h[U] = H(U)[U]
  <2>1. CASE U = {}
    <3>1. Recursive(H(U), U, base, pick, step)
      BY <1>2, <1>6
    <3>2. H(U)[U] = base
      BY <3>1, <2>1 DEF Recursive
    <3>3. QED
      BY <2>1, <3>2
  <2>2. CASE U # {}
    <3>1. U \ {pick[U]} \in SUBSET U
      OBVIOUS
    <3>2. H(U)[U] = step[<<pick[U], H(U)[U \ {pick[U]}]>>]
      BY <2>2, <1>6, <1>2 DEF Recursive
    <3>3. H(U)[U \ {pick[U]}] = H(U \ {pick[U]})[U \ {pick[U]}]
      BY <3>1, <1>3, <1>6
    <3>4. QED
      BY <2>2, <3>2, <3>3
  <2>3. QED
    BY <2>1, <2>2
<1>7. Recursive(h, T, base, pick, step)
  <2> SUFFICES ASSUME NEW U \in SUBSET T, U # {}
               PROVE  h[U] = step[<<pick[U], h[U \ {pick[U]}]>>]
    BY DEF Recursive
  <2>1. h[U \ {pick[U]}] = H(U \ {pick[U]})[U \ {pick[U]}]
    BY <1>4, <1>6
  <2>2. QED
    BY <2>1
<1>8. QED
  BY <1>5, <1>7
-----------------------------------------------------------------------------
Arbitrary(S) == [U \in SUBSET S |-> CHOOSE x \in U : TRUE]

Chosen(U) == CHOOSE x \in U : TRUE

Sums(g, f, S) ==
  /\ g[{}] = 0
  /\ \A U \in SUBSET S : U # {} => g[U] = f[Chosen(U)] + g[U \ {Chosen(U)}]

(* The sum of a function over a set is the value at that set of a function *)
(* recursive on its subsets.                                               *)
LEMMA SumIsRecursive ==
  ASSUME NEW f, NEW S, IsFiniteSet(S), \A x \in S : f[x] \in Int
  PROVE  \E g \in [SUBSET S -> Int] : Sums(g, f, S) /\ SumFunctionOnSet(f, S) = g[S]
<1> DEFINE G(i) == [s \in SUBSET S |->
                      IF s = {} THEN 0
                      ELSE f[CHOOSE x \in s : TRUE] + i[s \ {CHOOSE x \in s : TRUE}]]
           I == CHOOSE i : i = G(i)
           step == [z \in S \X Int |-> f[z[1]] + z[2]]
<1>1. \A U \in SUBSET S : U # {} => Arbitrary(S)[U] \in U
  BY DEF Arbitrary
<1>2. \A x \in S, v \in Int : step[<<x, v>>] = f[x] + v /\ step[<<x, v>>] \in Int
  OBVIOUS
<1>3. PICK g \in [SUBSET S -> Int] : Recursive(g, S, 0, Arbitrary(S), step)
  <2>1. \A x \in S, v \in Int : step[<<x, v>>] \in Int
    BY <1>2
  <2>2. 0 \in Int
    OBVIOUS
  <2> HIDE DEF step
  <2>3. QED
    BY <1>1, <2>1, <2>2, RecursionExists
<1>4. ASSUME NEW U \in SUBSET S, U # {}
      PROVE  /\ (CHOOSE x \in U : TRUE) \in U
             /\ g[U] = f[CHOOSE x \in U : TRUE] + g[U \ {CHOOSE x \in U : TRUE}]
  <2>1. Arbitrary(S)[U] = CHOOSE x \in U : TRUE
    BY DEF Arbitrary
  <2>2. (CHOOSE x \in U : TRUE) \in U
    BY <1>4
  <2>3. g[U] = step[<<CHOOSE x \in U : TRUE, g[U \ {CHOOSE x \in U : TRUE}]>>]
    BY <1>3, <1>4, <2>1 DEF Recursive
  <2> HIDE DEF step
  <2>4. QED
    BY <1>2, <2>2, <2>3
<1>5. g[{}] = 0
  BY <1>3 DEF Recursive
<1>6. g = G(g)
  BY <1>4, <1>5
<1>7. I = G(I)
  <2> HIDE DEF G
  <2>1. QED
    BY <1>6
<1>8. SumFunctionOnSet(f, S) = I[S]
  BY DEF SumFunctionOnSet, FoldFunctionOnSet, MapThenFoldSet
<1> HIDE DEF I
<1>9. I[{}] = 0
  BY <1>7
<1>10. ASSUME NEW U \in SUBSET S, U # {}
       PROVE  I[U] = f[CHOOSE y \in U : TRUE] + I[U \ {CHOOSE y \in U : TRUE}]
  BY <1>7, <1>10
<1> DEFINE Differ == {U \in SUBSET S : I[U] # g[U]}
<1>11. Differ = {}
  <2> SUFFICES ASSUME Differ # {}
               PROVE  FALSE
    OBVIOUS
  <2>1. PICK T \in Differ : \A U \in Differ : U \subseteq T => U = T
    <3>1. Differ \in SUBSET (SUBSET S)
      OBVIOUS
    <3> HIDE DEF Differ
    <3>2. QED
      BY <3>1, MinimalSubset
  <2>2. T # {}
    BY <1>5, <1>9
  <2> DEFINE x == CHOOSE y \in T : TRUE
  <2>3. x \in T
    BY <2>2
  <2>4. I[T] = f[x] + I[T \ {x}] /\ g[T] = f[x] + g[T \ {x}]
    BY <1>4, <1>10, <2>2
  <2> HIDE DEF x
  <2>5. I[T \ {x}] = g[T \ {x}]
    BY <2>1, <2>3
  <2>6. QED
    BY <2>4, <2>5
<1>12. QED
  BY <1>4, <1>5, <1>8, <1>11 DEF Sums, Chosen

LEMMA SumEmpty == ASSUME NEW f PROVE SumFunctionOnSet(f, {}) = 0
<1>1. IsFiniteSet({}) /\ \A x \in {} : f[x] \in Int
  BY FS_EmptySet
<1>2. PICK g \in [SUBSET {} -> Int] : Sums(g, f, {}) /\ SumFunctionOnSet(f, {}) = g[{}]
  BY <1>1, SumIsRecursive
<1>3. QED
  BY <1>2 DEF Sums

LEMMA SumInt ==
  ASSUME NEW f, NEW S, IsFiniteSet(S), \A x \in S : f[x] \in Int
  PROVE  SumFunctionOnSet(f, S) \in Int
<1>1. PICK g \in [SUBSET S -> Int] : Sums(g, f, S) /\ SumFunctionOnSet(f, S) = g[S]
  BY SumIsRecursive
<1>2. QED
  BY <1>1

(* The recursion of a sum: what is chosen, and the sum of the rest.        *)
LEMMA SumChosen ==
  ASSUME NEW f, NEW S, IsFiniteSet(S), \A x \in S : f[x] \in Int, S # {}
  PROVE  /\ Chosen(S) \in S
         /\ SumFunctionOnSet(f, S) = f[Chosen(S)] + SumFunctionOnSet(f, S \ {Chosen(S)})
<1> DEFINE R == S \ {Chosen(S)}
<1>1. PICK g \in [SUBSET S -> Int] : Sums(g, f, S) /\ SumFunctionOnSet(f, S) = g[S]
  BY SumIsRecursive
<1>2. IsFiniteSet(R) /\ (\A y \in R : f[y] \in Int) /\ R \in SUBSET S
  BY FS_Subset
<1> HIDE DEF R
<1>3. PICK h \in [SUBSET R -> Int] : Sums(h, f, R) /\ SumFunctionOnSet(f, R) = h[R]
  BY <1>2, SumIsRecursive
<1> DEFINE Differ == {U \in SUBSET R : g[U] # h[U]}
<1>4. Differ = {}
  <2> SUFFICES ASSUME Differ # {}
               PROVE  FALSE
    OBVIOUS
  <2>1. PICK T \in Differ : \A U \in Differ : U \subseteq T => U = T
    <3>1. Differ \in SUBSET (SUBSET R)
      OBVIOUS
    <3> HIDE DEF Differ
    <3>2. QED
      BY <3>1, <1>2, MinimalSubset
  <2>2. T # {}
    BY <1>1, <1>3 DEF Sums
  <2>3. Chosen(T) \in T
    BY <2>2 DEF Chosen
  <2>4. /\ g[T] = f[Chosen(T)] + g[T \ {Chosen(T)}]
        /\ h[T] = f[Chosen(T)] + h[T \ {Chosen(T)}]
    BY <1>1, <1>2, <1>3, <2>2 DEF Sums
  <2>5. g[T \ {Chosen(T)}] = h[T \ {Chosen(T)}]
    BY <2>1, <2>3
  <2>6. QED
    BY <2>4, <2>5
<1>5. g[R] = h[R]
  BY <1>4
<1>6. g[S] = f[Chosen(S)] + g[R]
  BY <1>1 DEF R, Sums
<1>7. Chosen(S) \in S
  BY DEF Chosen
<1>8. QED
  BY <1>1, <1>3, <1>5, <1>6, <1>7 DEF R

(* Any element can be taken out of a sum.                                  *)
LEMMA SumRemove ==
  ASSUME NEW f, NEW S, IsFiniteSet(S), \A x \in S : f[x] \in Int, NEW e \in S
  PROVE  SumFunctionOnSet(f, S) = f[e] + SumFunctionOnSet(f, S \ {e})
<1> DEFINE Sum(T) == SumFunctionOnSet(f, T)
           Wrong == {T \in SUBSET S : \E x \in T : Sum(T) # f[x] + Sum(T \ {x})}
<1>1. ASSUME NEW T \in SUBSET S
      PROVE  IsFiniteSet(T) /\ (\A x \in T : f[x] \in Int) /\ Sum(T) \in Int
  BY FS_Subset, SumInt
<1> HIDE DEF Sum
<1> SUFFICES ASSUME Wrong # {}
             PROVE  FALSE
  BY DEF Sum
<1>2. PICK T \in Wrong : \A U \in Wrong : U \subseteq T => U = T
  <2>1. Wrong \in SUBSET (SUBSET S)
    OBVIOUS
  <2> HIDE DEF Wrong
  <2>2. QED
    BY <2>1, MinimalSubset
<1>3. PICK x \in T : Sum(T) # f[x] + Sum(T \ {x})
  OBVIOUS
<1> DEFINE y == Chosen(T)
<1>4. y \in T /\ Sum(T) = f[y] + Sum(T \ {y})
  BY <1>1, <1>3, SumChosen DEF Sum
<1>5. Sum(T) = f[y] + Sum(T \ {y})
  BY <1>4
<1> HIDE DEF y
<1>6. x # y
  BY <1>3, <1>5
<1>7. /\ T \ {x} \notin Wrong /\ T \ {y} \notin Wrong
      /\ y \in T \ {x} /\ x \in T \ {y}
  BY <1>2, <1>4, <1>6
<1>8. Sum(T \ {x}) = f[y] + Sum((T \ {x}) \ {y})
  BY <1>7
<1>9. Sum(T \ {y}) = f[x] + Sum((T \ {y}) \ {x})
  BY <1>7
<1>10. (T \ {x}) \ {y} = (T \ {y}) \ {x}
  OBVIOUS
<1>11. PICK rest \in Int : Sum((T \ {x}) \ {y}) = rest
  BY <1>1
<1>12. f[x] \in Int /\ f[y] \in Int
  BY <1>4
<1>13. Sum(T) = f[y] + (f[x] + rest)
  BY <1>5, <1>9, <1>10, <1>11
<1>14. f[x] + Sum(T \ {x}) = f[x] + (f[y] + rest)
  BY <1>8, <1>11
<1>15. QED
  BY <1>3, <1>12, <1>13, <1>14

LEMMA SumAdd ==
  ASSUME NEW f, NEW S, IsFiniteSet(S), NEW e, e \notin S, \A x \in S \cup {e} : f[x] \in Int
  PROVE  SumFunctionOnSet(f, S \cup {e}) = f[e] + SumFunctionOnSet(f, S)
<1>1. IsFiniteSet(S \cup {e}) /\ (S \cup {e}) \ {e} = S /\ e \in S \cup {e}
  BY FS_AddElement
<1>2. QED
  BY <1>1, SumRemove

(* A sum depends on the function's values over the set only, and grows     *)
(* with them and with the set.                                             *)
LEMMA SumMonotone ==
  ASSUME NEW f, NEW g, NEW S, IsFiniteSet(S),
         \A x \in S : f[x] \in Int /\ g[x] \in Int /\ f[x] <= g[x]
  PROVE  SumFunctionOnSet(f, S) <= SumFunctionOnSet(g, S)
<1> DEFINE F(T) == SumFunctionOnSet(f, T)
           G(T) == SumFunctionOnSet(g, T)
           Wrong == {T \in SUBSET S : ~(F(T) <= G(T))}
<1>1. ASSUME NEW T \in SUBSET S
      PROVE  /\ F(T) \in Int /\ G(T) \in Int
             /\ \A x \in T : F(T) = f[x] + F(T \ {x}) /\ G(T) = g[x] + G(T \ {x})
  BY FS_Subset, SumInt, SumRemove
<1>2. F({}) = 0 /\ G({}) = 0
  BY SumEmpty
<1> HIDE DEF F, G
<1> SUFFICES ASSUME Wrong # {}
             PROVE  FALSE
  BY DEF F, G
<1>3. PICK T \in Wrong : \A U \in Wrong : U \subseteq T => U = T
  <2>1. Wrong \in SUBSET (SUBSET S)
    OBVIOUS
  <2> HIDE DEF Wrong
  <2>2. QED
    BY <2>1, MinimalSubset
<1>4. PICK x \in T : TRUE
  BY <1>2
<1>5. T \ {x} \notin Wrong
  BY <1>3, <1>4
<1>6. QED
  BY <1>1, <1>4, <1>5

LEMMA SumSame ==
  ASSUME NEW f, NEW g, NEW S, IsFiniteSet(S),
         \A x \in S : f[x] \in Int /\ f[x] = g[x]
  PROVE  SumFunctionOnSet(f, S) = SumFunctionOnSet(g, S)
<1>1. /\ SumFunctionOnSet(f, S) \in Int /\ SumFunctionOnSet(g, S) \in Int
      /\ SumFunctionOnSet(f, S) <= SumFunctionOnSet(g, S)
      /\ SumFunctionOnSet(g, S) <= SumFunctionOnSet(f, S)
  BY SumInt, SumMonotone
<1>2. QED
  BY <1>1

LEMMA SumZero ==
  ASSUME NEW f, NEW S, IsFiniteSet(S), \A x \in S : f[x] = 0
  PROVE  SumFunctionOnSet(f, S) = 0
<1> DEFINE F(T) == SumFunctionOnSet(f, T)
           Wrong == {T \in SUBSET S : F(T) # 0}
<1>1. ASSUME NEW T \in SUBSET S
      PROVE  F(T) \in Int /\ \A x \in T : F(T) = F(T \ {x})
  <2>1. F(T) \in Int /\ \A x \in T : F(T) = f[x] + F(T \ {x}) /\ F(T \ {x}) \in Int
    BY FS_Subset, SumInt, SumRemove
  <2> HIDE DEF F
  <2>2. QED
    BY <2>1
<1>2. F({}) = 0
  BY SumEmpty
<1> HIDE DEF F
<1> SUFFICES ASSUME Wrong # {}
             PROVE  FALSE
  BY DEF F
<1>3. PICK T \in Wrong : \A U \in Wrong : U \subseteq T => U = T
  <2>1. Wrong \in SUBSET (SUBSET S)
    OBVIOUS
  <2> HIDE DEF Wrong
  <2>2. QED
    BY <2>1, MinimalSubset
<1>4. PICK x \in T : TRUE
  BY <1>2
<1>5. T \ {x} \notin Wrong
  BY <1>3, <1>4
<1>6. QED
  BY <1>1, <1>4, <1>5

LEMMA SumNat ==
  ASSUME NEW f, NEW S, IsFiniteSet(S), \A x \in S : f[x] \in Nat
  PROVE  SumFunctionOnSet(f, S) \in Nat
<1> DEFINE zero == [x \in S |-> 0]
<1>1. SumFunctionOnSet(zero, S) = 0
  BY SumZero
<1>2. SumFunctionOnSet(zero, S) <= SumFunctionOnSet(f, S)
  BY SumMonotone
<1>3. SumFunctionOnSet(f, S) \in Int
  BY SumInt
<1>4. QED
  BY <1>1, <1>2, <1>3

LEMMA SumSubset ==
  ASSUME NEW f, NEW S, IsFiniteSet(S), \A x \in S : f[x] \in Nat, NEW R \in SUBSET S
  PROVE  SumFunctionOnSet(f, R) <= SumFunctionOnSet(f, S)
<1> DEFINE F(T) == SumFunctionOnSet(f, T)
           Wrong == {T \in SUBSET S : R \subseteq T /\ ~(F(R) <= F(T))}
<1>1. ASSUME NEW T \in SUBSET S
      PROVE  F(T) \in Int /\ \A x \in T : F(T) = f[x] + F(T \ {x})
  BY FS_Subset, SumInt, SumRemove
<1> HIDE DEF F
<1> SUFFICES ASSUME Wrong # {}
             PROVE  FALSE
  BY DEF F
<1>2. PICK T \in Wrong : \A U \in Wrong : U \subseteq T => U = T
  <2>1. Wrong \in SUBSET (SUBSET S)
    OBVIOUS
  <2> HIDE DEF Wrong
  <2>2. QED
    BY <2>1, MinimalSubset
<1>3. T # R
  BY <1>1
<1>4. PICK x \in T : x \notin R
  BY <1>3
<1>5. T \ {x} \notin Wrong
  BY <1>2, <1>4
<1>6. QED
  BY <1>1, <1>4, <1>5

(* One value changes.                                                      *)
LEMMA SumExcept ==
  ASSUME NEW f, NEW g, NEW S, IsFiniteSet(S), NEW e \in S,
         \A x \in S : f[x] \in Int /\ g[x] \in Int,
         \A x \in S \ {e} : f[x] = g[x]
  PROVE  SumFunctionOnSet(g, S) = SumFunctionOnSet(f, S) + g[e] - f[e]
<1>1. IsFiniteSet(S \ {e})
  BY FS_RemoveElement
<1>2. SumFunctionOnSet(g, S \ {e}) = SumFunctionOnSet(f, S \ {e})
  BY <1>1, SumSame
<1>3. /\ SumFunctionOnSet(g, S) = g[e] + SumFunctionOnSet(g, S \ {e})
      /\ SumFunctionOnSet(f, S) = f[e] + SumFunctionOnSet(f, S \ {e})
      /\ SumFunctionOnSet(f, S \ {e}) \in Int
  BY <1>1, SumRemove, SumInt
<1>4. QED
  BY <1>2, <1>3

(* How the sums over the subsets of a set hang together.                   *)
LEMMA SumStep ==
  ASSUME NEW f, NEW S, IsFiniteSet(S), \A x \in S : f[x] \in Int, NEW T \in SUBSET S
  PROVE  /\ SumFunctionOnSet(f, T) \in Int
         /\ \A x \in T : /\ SumFunctionOnSet(f, T) = f[x] + SumFunctionOnSet(f, T \ {x})
                         /\ SumFunctionOnSet(f, T \ {x}) \in Int
<1>1. IsFiniteSet(T) /\ \A x \in T : f[x] \in Int
  BY FS_Subset
<1>2. ASSUME NEW x \in T
      PROVE  /\ SumFunctionOnSet(f, T) = f[x] + SumFunctionOnSet(f, T \ {x})
             /\ SumFunctionOnSet(f, T \ {x}) \in Int
  <2>1. IsFiniteSet(T \ {x}) /\ \A y \in T \ {x} : f[y] \in Int
    BY <1>1, FS_RemoveElement
  <2>2. SumFunctionOnSet(f, T \ {x}) \in Int
    BY <2>1, SumInt
  <2>3. QED
    BY <1>1, <2>2, SumRemove
<1>3. QED
  BY <1>1, <1>2, SumInt

(* The sum of a function that is the sum of two.                           *)
LEMMA SumPlus ==
  ASSUME NEW f, NEW g, NEW h, NEW S, IsFiniteSet(S),
         \A x \in S : f[x] \in Int /\ g[x] \in Int /\ h[x] = f[x] + g[x]
  PROVE  SumFunctionOnSet(h, S) = SumFunctionOnSet(f, S) + SumFunctionOnSet(g, S)
<1> DEFINE F(T) == SumFunctionOnSet(f, T)
           G(T) == SumFunctionOnSet(g, T)
           H(T) == SumFunctionOnSet(h, T)
           Wrong == {T \in SUBSET S : H(T) # F(T) + G(T)}
<1>1. ASSUME NEW T \in SUBSET S
      PROVE  /\ F(T) \in Int /\ G(T) \in Int
             /\ \A x \in T : /\ F(T) = f[x] + F(T \ {x}) /\ F(T \ {x}) \in Int
                             /\ G(T) = g[x] + G(T \ {x}) /\ G(T \ {x}) \in Int
                             /\ H(T) = f[x] + g[x] + H(T \ {x})
  <2>1. \A x \in S : f[x] \in Int /\ g[x] \in Int /\ h[x] \in Int
    OBVIOUS
  <2>2. F(T) \in Int /\ \A x \in T : F(T) = f[x] + F(T \ {x}) /\ F(T \ {x}) \in Int
    BY <2>1, SumStep
  <2>3. G(T) \in Int /\ \A x \in T : G(T) = g[x] + G(T \ {x}) /\ G(T \ {x}) \in Int
    BY <2>1, SumStep
  <2>4. \A x \in T : H(T) = h[x] + H(T \ {x})
    BY <2>1, SumStep
  <2> HIDE DEF F, G, H
  <2>5. QED
    BY <2>2, <2>3, <2>4
<1>2. H({}) = F({}) + G({})
  <2>1. F({}) = 0 /\ G({}) = 0 /\ H({}) = 0
    BY SumEmpty
  <2> HIDE DEF F, G, H
  <2>2. QED
    BY <2>1
<1> HIDE DEF F, G, H
<1> SUFFICES ASSUME Wrong # {}
             PROVE  FALSE
  BY DEF F, G, H
<1>3. PICK T \in Wrong : \A U \in Wrong : U \subseteq T => U = T
  <2>1. Wrong \in SUBSET (SUBSET S)
    OBVIOUS
  <2> HIDE DEF Wrong
  <2>2. QED
    BY <2>1, MinimalSubset
<1>4. PICK x \in T : TRUE
  <2>1. T # {}
    BY <1>2
  <2>2. QED
    BY <2>1
<1>5. T \ {x} \notin Wrong
  BY <1>3, <1>4
<1>6. H(T \ {x}) = F(T \ {x}) + G(T \ {x}) /\ x \in S
  BY <1>4, <1>5
<1>7. H(T) = F(T) + G(T)
  BY <1>1, <1>4, <1>6
<1>8. QED
  BY <1>7

(* A sum of terms of at most b each.                                       *)
LEMMA SumBound ==
  ASSUME NEW f, NEW S, IsFiniteSet(S), NEW b \in Int,
         \A x \in S : f[x] \in Int /\ f[x] <= b
  PROVE  SumFunctionOnSet(f, S) <= b * Cardinality(S)
<1> DEFINE F(T) == SumFunctionOnSet(f, T)
           Wrong == {T \in SUBSET S : ~(F(T) <= b * Cardinality(T))}
<1>1. ASSUME NEW T \in SUBSET S
      PROVE  /\ F(T) \in Int
             /\ \A x \in T : /\ F(T) = f[x] + F(T \ {x}) /\ F(T \ {x}) \in Int
                             /\ Cardinality(T) = Cardinality(T \ {x}) + 1
                             /\ Cardinality(T \ {x}) \in Nat
  <2>1. IsFiniteSet(T)
    BY FS_Subset
  <2>2. F(T) \in Int /\ \A x \in T : F(T) = f[x] + F(T \ {x}) /\ F(T \ {x}) \in Int
    BY SumStep
  <2>3. ASSUME NEW x \in T
        PROVE  Cardinality(T) = Cardinality(T \ {x}) + 1 /\ Cardinality(T \ {x}) \in Nat
    <3>1. IsFiniteSet(T \ {x}) /\ Cardinality(T \ {x}) = Cardinality(T) - 1
      BY <2>1, FS_RemoveElement
    <3>2. Cardinality(T \ {x}) \in Nat /\ Cardinality(T) \in Nat
      BY <2>1, <3>1, FS_CardinalityType
    <3>3. QED
      BY <3>1, <3>2
  <2>4. QED
    BY <2>2, <2>3
<1>2. F({}) = 0 /\ Cardinality({}) = 0
  BY SumEmpty, FS_EmptySet
<1> HIDE DEF F
<1> SUFFICES ASSUME Wrong # {}
             PROVE  FALSE
  BY DEF F
<1>3. PICK T \in Wrong : \A U \in Wrong : U \subseteq T => U = T
  <2>1. Wrong \in SUBSET (SUBSET S)
    OBVIOUS
  <2> HIDE DEF Wrong
  <2>2. QED
    BY <2>1, MinimalSubset
<1>4. PICK x \in T : TRUE
  BY <1>2
<1>5. T \ {x} \notin Wrong
  BY <1>3, <1>4
<1> DEFINE n == Cardinality(T \ {x})
<1>6. n \in Nat /\ Cardinality(T) = n + 1 /\ F(T \ {x}) <= b * n
  BY <1>1, <1>4, <1>5
<1> HIDE DEF n
<1>7. b * (n + 1) = b * n + b /\ b * n \in Int
  BY <1>6
<1>8. F(T) <= b * Cardinality(T)
  BY <1>1, <1>4, <1>6, <1>7
<1>9. QED
  BY <1>8
-----------------------------------------------------------------------------
(* What folding a sequence from the left is made of: the last position of  *)
(* a set of positions, and the value of the others.                        *)
LEMMA LastPosition ==
  ASSUME NEW n \in Nat, NEW T \in SUBSET (1..n), T # {}
  PROVE  Max(T) \in T /\ Max(T) \in 1..n
<1>1. IsFiniteSet(T)
  <2>1. IsFiniteSet(1..n)
    BY FS_Interval
  <2> DEFINE P == 1..n
  <2>2. IsFiniteSet(P) /\ T \subseteq P
    BY <2>1
  <2> HIDE DEF P
  <2>3. QED
    BY <2>2, FS_Subset
<1>2. \A x \in T : x \in Int
  OBVIOUS
<1>3. PICK z \in T : \A y \in T : y <= z
  BY <1>1, <1>2, GreatestExists
<1>4. \A y \in T : z >= y
  BY <1>2, <1>3
<1>5. Max(T) \in T
  BY <1>4 DEF Max
<1>6. QED
  BY <1>5

Follows(h, T, base, step) ==
  \A U \in SUBSET T : h[U] = IF U = {} THEN base
                             ELSE step[<<Max(U), h[U \ {Max(U)}]>>]

(* A step that keeps to J has a function that folds it over positions.     *)
LEMMA FoldExists ==
  ASSUME NEW n \in Nat, NEW J, NEW base \in J, NEW step,
         \A i \in 1..n, s \in J : step[<<i, s>>] \in J
  PROVE  \E g \in [SUBSET (1..n) -> J] : Follows(g, 1..n, base, step)
<1> DEFINE pick == [T \in SUBSET (1..n) |-> Max(T)]
<1>1. IsFiniteSet(1..n)
  BY FS_Interval
<1>2. \A U \in SUBSET (1..n) : U # {} => pick[U] \in U /\ pick[U] = Max(U)
  BY LastPosition
<1> HIDE DEF pick
<1>3. PICK g \in [SUBSET (1..n) -> J] : Recursive(g, 1..n, base, pick, step)
  BY <1>1, <1>2, RecursionExists
<1>4. Follows(g, 1..n, base, step)
  BY <1>2, <1>3 DEF Recursive, Follows
<1>5. QED
  BY <1>4

(* Whatever folds such a step stays in J to the end.                       *)
LEMMA FoldStays ==
  ASSUME NEW n \in Nat, NEW J, NEW h, h[{}] \in J,
         \A T \in SUBSET (1..n) :
            T # {} /\ h[T \ {Max(T)}] \in J => h[T] \in J
  PROVE  h[1..n] \in J
<1> DEFINE Wrong == {T \in SUBSET (1..n) : h[T] \notin J}
<1>1. Wrong = {}
  <2> SUFFICES ASSUME Wrong # {}
               PROVE  FALSE
    OBVIOUS
  <2>1. PICK T \in Wrong : \A U \in Wrong : U \subseteq T => U = T
    <3>1. Wrong \in SUBSET (SUBSET (1..n))
      OBVIOUS
    <3>2. IsFiniteSet(1..n)
      BY FS_Interval
    <3> DEFINE P == 1..n
    <3>3. Wrong \in SUBSET (SUBSET P) /\ IsFiniteSet(P)
      BY <3>1, <3>2
    <3> HIDE DEF Wrong, P
    <3>4. QED
      BY <3>3, MinimalSubset
  <2>2. T # {} /\ T \in SUBSET (1..n) /\ h[T] \notin J
    OBVIOUS
  <2>3. Max(T) \in T
    BY <2>2, LastPosition
  <2>4. T \ {Max(T)} \in SUBSET (1..n) /\ T \ {Max(T)} # T
    <3> DEFINE P == 1..n
               m == Max(T)
    <3>1. T \in SUBSET P /\ m \in T
      BY <2>2, <2>3
    <3> HIDE DEF P, m
    <3>2. T \ {m} \in SUBSET P /\ T \ {m} # T
      BY <3>1
    <3>3. QED
      BY <3>2 DEF P, m
  <2>5. h[T \ {Max(T)}] \in J
    BY <2>1, <2>4
  <2>6. QED
    BY <2>2, <2>5
<1>2. 1..n \in SUBSET (1..n)
  OBVIOUS
<1>3. QED
  BY <1>1, <1>2
=============================================================================
