---------------------------- MODULE FoldTheorems ----------------------------
(***************************************************************************)
(* Facts about the folds of the library that the model's operators are     *)
(* built from.  SumFunctionOnSet is the sum of the values of a function    *)
(* over a finite set of indices: the library defines it by recursion on    *)
(* the set of indices, taking out an element that CHOOSE picks; what the   *)
(* rest of the project needs is that it does not matter which is taken     *)
(* out.  FoldLeft is the same recursion on the positions of a sequence,    *)
(* taking out the greatest; FlattenSeq and the project's own Filter go     *)
(* through the positions of a sequence from the first to the last, and of  *)
(* both it is also stated where each element of the result stood.  Last,   *)
(* that a function defined from 0 upwards by steps exists and stays in the *)
(* set its steps stay in.                                                  *)
(*                                                                         *)
(* The induction theorems of the library have an operator as a parameter.  *)
(* Here a predicate is represented by the set of numbers it holds for, so  *)
(* that induction is a first-order fact.                                   *)
(***************************************************************************)
EXTENDS Integers, Sequences, FiniteSets, Functions, SequencesExt, FiniteSetsExt,
        Filters, FiniteSetTheorems, WellFoundedInduction, TLAPS

\* Induction: a set of numbers that holds 0 and the successor of each of its
\* members holds every number.
LEMMA SetInduction ==
    ASSUME NEW T, 0 \in T, \A n \in Nat : n \in T => n + 1 \in T
    PROVE  \A n \in Nat : n \in T
<1> SUFFICES ASSUME NEW n \in Nat, n \notin T PROVE FALSE
  OBVIOUS
<1> DEFINE R == OpToRel(<, Nat)
           C == Nat \ T
<1>1. \A x, y \in Nat : x < y => <<x, y>> \in R
  BY DEF OpToRel
<1>2. IsWellFoundedOn(R, Nat)
  BY NatLessThanWellFounded
<1> HIDE DEF R
<1>3. PICK m \in C : \A y \in C : <<y, m>> \notin R
  BY <1>2, WFMin
<1>4. m \in Nat /\ m # 0
  OBVIOUS
<1>5. m - 1 \in C
  BY <1>4
<1>6. <<m - 1, m>> \in R
  BY <1>1, <1>4, <1>5
<1> QED
  BY <1>3, <1>5, <1>6

Pick(s) == CHOOSE x \in s : TRUE

\* The equation that the recursive function of the library solves, on the sets
\* of indices in D.
Solves(it, f, D) ==
    it = [s \in D |-> IF s = {} THEN 0 ELSE f[Pick(s)] + it[s \ {Pick(s)}]]

Iteration(f, S) == CHOOSE it : Solves(it, f, SUBSET S)

\* The library's definition of the sum, unfolded.
LEMMA SumIsIteration ==
    ASSUME NEW f, NEW S PROVE SumFunctionOnSet(f, S) = Iteration(f, S)[S]
  BY DEF SumFunctionOnSet, FoldFunctionOnSet, MapThenFoldSet, Iteration, Solves, Pick

\* Taking an element out of a finite set.
LEMMA TakeOut ==
    ASSUME NEW s, IsFiniteSet(s), NEW x \in s
    PROVE  /\ IsFiniteSet(s \ {x})
           /\ Cardinality(s) \in Nat /\ Cardinality(s \ {x}) \in Nat
           /\ Cardinality(s \ {x}) = Cardinality(s) - 1
  BY FS_RemoveElement, FS_CardinalityType

\* The equation has a solution on a finite set of indices.
LEMMA IterationExists ==
    ASSUME NEW f, NEW S, IsFiniteSet(S)
    PROVE  Solves(Iteration(f, S), f, SUBSET S)
<1> DEFINE D(n) == {s \in SUBSET S : Cardinality(s) <= n}
           T == {n \in Nat : \E it : Solves(it, f, D(n))}
<1>1. \A s \in SUBSET S : IsFiniteSet(s) /\ Cardinality(s) \in Nat
  BY FS_Subset, FS_CardinalityType
<1>2. 0 \in T
  <2>1. \A s \in D(0) : s = {}
    BY <1>1, FS_EmptySet
  <2>2. Solves([s \in D(0) |-> 0], f, D(0))
    BY <2>1 DEF Solves
  <2> QED
    BY <2>2
<1>3. ASSUME NEW n \in Nat, n \in T PROVE n + 1 \in T
  <2>1. PICK it : Solves(it, f, D(n))
    BY <1>3
  <2> DEFINE next == [s \in D(n + 1) |-> IF s = {} THEN 0 ELSE f[Pick(s)] + it[s \ {Pick(s)}]]
  <2>2. \A s \in D(n + 1) : s # {} => Pick(s) \in s /\ s \ {Pick(s)} \in D(n) /\ s \ {Pick(s)} \in D(n + 1)
    <3> TAKE s \in D(n + 1)
    <3> HAVE s # {}
    <3>1. Pick(s) \in s
      BY DEF Pick
    <3>2. /\ Cardinality(s) \in Nat /\ Cardinality(s) <= n + 1 /\ s \ {Pick(s)} \in SUBSET S
          /\ Cardinality(s \ {Pick(s)}) \in Nat
          /\ Cardinality(s \ {Pick(s)}) = Cardinality(s) - 1
      BY <1>1, <3>1, TakeOut
    <3> QED
      BY <3>1, <3>2
  <2>3. \A s \in D(n) : s \in D(n + 1)
    BY <1>1
  <2>4. \A s \in D(n) : next[s] = it[s]
    BY <2>1, <2>3 DEF Solves
  <2>5. Solves(next, f, D(n + 1))
    BY <2>2, <2>4 DEF Solves
  <2> QED
    BY <2>5
<1> HIDE DEF T
<1>4. \A n \in Nat : n \in T
  BY <1>2, <1>3, SetInduction
<1>5. Cardinality(S) \in Nat /\ \A s \in SUBSET S : Cardinality(s) <= Cardinality(S)
  BY FS_Subset, FS_CardinalityType
<1>6. D(Cardinality(S)) = SUBSET S
  BY <1>5
<1>7. \E it : Solves(it, f, D(Cardinality(S)))
  BY <1>4, <1>5 DEF T
<1> QED
  BY <1>6, <1>7 DEF Iteration

\* The recursion of the sum: nothing, or the element taken out and the rest.
LEMMA IterationStep ==
    ASSUME NEW f, NEW S, IsFiniteSet(S), NEW u \in SUBSET S
    PROVE  /\ u = {} => Iteration(f, S)[u] = 0
           /\ u # {} => Iteration(f, S)[u] = f[Pick(u)] + Iteration(f, S)[u \ {Pick(u)}]
<1> DEFINE it == Iteration(f, S)
<1>1. Solves(it, f, SUBSET S)
  BY IterationExists
<1> HIDE DEF it
<1>2. it = [s \in SUBSET S |-> IF s = {} THEN 0 ELSE f[Pick(s)] + it[s \ {Pick(s)}]]
  BY <1>1 DEF Solves
<1>3. it[u] = IF u = {} THEN 0 ELSE f[Pick(u)] + it[u \ {Pick(u)}]
  BY <1>2, Zenon
<1> QED
  BY <1>3 DEF it

\* The value at a set of indices depends on nothing but the function's values
\* there: not on the larger set that the recursion was started from.
LEMMA IterationAgrees ==
    ASSUME NEW f, NEW g, NEW S, NEW R, IsFiniteSet(S), IsFiniteSet(R),
           NEW U, U \subseteq S, U \subseteq R, \A x \in U : f[x] = g[x]
    PROVE  Iteration(f, S)[U] = Iteration(g, R)[U]
<1> DEFINE T == {n \in Nat : \A u \in SUBSET U :
                    Cardinality(u) <= n => Iteration(f, S)[u] = Iteration(g, R)[u]}
<1>1. \A u \in SUBSET U : IsFiniteSet(u) /\ Cardinality(u) \in Nat
  BY FS_Subset, FS_CardinalityType
<1>2. \A u \in SUBSET U :
         /\ u = {} => Iteration(f, S)[u] = 0 /\ Iteration(g, R)[u] = 0
         /\ u # {} => /\ Iteration(f, S)[u] = f[Pick(u)] + Iteration(f, S)[u \ {Pick(u)}]
                      /\ Iteration(g, R)[u] = g[Pick(u)] + Iteration(g, R)[u \ {Pick(u)}]
  <2> TAKE u \in SUBSET U
  <2>1. ASSUME NEW h, NEW V, IsFiniteSet(V), U \subseteq V
        PROVE  /\ u = {} => Iteration(h, V)[u] = 0
               /\ u # {} => Iteration(h, V)[u] = h[Pick(u)] + Iteration(h, V)[u \ {Pick(u)}]
    <3>1. u \in SUBSET V
      BY <2>1
    <3> QED
      BY <2>1, <3>1, IterationStep
  <2> QED
    BY <2>1
<1>3. 0 \in T
  <2>1. \A u \in SUBSET U : Cardinality(u) <= 0 => u = {}
    BY <1>1, FS_EmptySet
  <2> QED
    BY <1>2, <2>1
<1>4. ASSUME NEW n \in Nat, n \in T PROVE n + 1 \in T
  <2> SUFFICES ASSUME NEW u \in SUBSET U, Cardinality(u) <= n + 1, u # {}
               PROVE  Iteration(f, S)[u] = Iteration(g, R)[u]
    <3>1. Iteration(f, S)[{}] = Iteration(g, R)[{}]
      BY <1>2
    <3> QED
      BY <3>1
  <2>1. Pick(u) \in u /\ u \ {Pick(u)} \in SUBSET U /\ f[Pick(u)] = g[Pick(u)]
    BY DEF Pick
  <2>2. Cardinality(u \ {Pick(u)}) <= n
    BY <1>1, <2>1, TakeOut
  <2>3. Iteration(f, S)[u \ {Pick(u)}] = Iteration(g, R)[u \ {Pick(u)}]
    BY <1>4, <2>1, <2>2
  <2> QED
    BY <1>2, <2>1, <2>3
<1> HIDE DEF T
<1>5. \A n \in Nat : n \in T
  BY <1>3, <1>4, SetInduction
<1> QED
  BY <1>1, <1>5 DEF T

\* Two functions that agree on the indices have the same sum.
LEMMA SumAgrees ==
    ASSUME NEW f, NEW g, NEW S, IsFiniteSet(S), \A x \in S : f[x] = g[x]
    PROVE  SumFunctionOnSet(f, S) = SumFunctionOnSet(g, S)
  BY IterationAgrees, SumIsIteration

\* The sum over no indices.
LEMMA SumEmpty ==
    ASSUME NEW f PROVE SumFunctionOnSet(f, {}) = 0
<1>1. Solves(Iteration(f, {}), f, SUBSET {})
  BY IterationExists, FS_EmptySet
<1> QED
  BY <1>1, SumIsIteration DEF Solves

\* The recursion in terms of the sum.
LEMMA SumPick ==
    ASSUME NEW f, NEW S, IsFiniteSet(S), S # {}
    PROVE  /\ Pick(S) \in S
           /\ SumFunctionOnSet(f, S) = f[Pick(S)] + SumFunctionOnSet(f, S \ {Pick(S)})
<1>1. Pick(S) \in S
  BY DEF Pick
<1>2. IsFiniteSet(S \ {Pick(S)})
  BY <1>1, TakeOut
<1>3. Iteration(f, S)[S] = f[Pick(S)] + Iteration(f, S)[S \ {Pick(S)}]
  BY IterationStep
<1>4. Iteration(f, S)[S \ {Pick(S)}] = Iteration(f, S \ {Pick(S)})[S \ {Pick(S)}]
  BY <1>2, IterationAgrees
<1> QED
  BY <1>1, <1>3, <1>4, SumIsIteration

\* A sum of integers is an integer, and a sum of natural numbers a natural.
LEMMA SumType ==
    ASSUME NEW f, NEW S, IsFiniteSet(S), \A x \in S : f[x] \in Int
    PROVE  /\ SumFunctionOnSet(f, S) \in Int
           /\ (\A x \in S : f[x] >= 0) => SumFunctionOnSet(f, S) >= 0
           /\ (\A x \in S : f[x] <= 0) => SumFunctionOnSet(f, S) <= 0
<1> DEFINE P(u) == /\ SumFunctionOnSet(f, u) \in Int
                   /\ (\A x \in S : f[x] >= 0) => SumFunctionOnSet(f, u) >= 0
                   /\ (\A x \in S : f[x] <= 0) => SumFunctionOnSet(f, u) <= 0
           T == {n \in Nat : \A u \in SUBSET S : Cardinality(u) <= n => P(u)}
<1>1. \A u \in SUBSET S : IsFiniteSet(u) /\ Cardinality(u) \in Nat
  BY FS_Subset, FS_CardinalityType
<1>2. P({})
  BY SumEmpty
<1>3. 0 \in T
  <2>1. \A u \in SUBSET S : Cardinality(u) <= 0 => u = {}
    BY <1>1, FS_EmptySet
  <2> QED
    BY <1>2, <2>1
<1>4. ASSUME NEW n \in Nat, n \in T PROVE n + 1 \in T
  <2> SUFFICES ASSUME NEW u \in SUBSET S, Cardinality(u) <= n + 1, u # {} PROVE P(u)
    <3> HIDE DEF P
    <3> QED
      BY <1>2
  <2>1. /\ Pick(u) \in u /\ u \ {Pick(u)} \in SUBSET S
        /\ SumFunctionOnSet(f, u) = f[Pick(u)] + SumFunctionOnSet(f, u \ {Pick(u)})
    BY <1>1, SumPick
  <2>2. Cardinality(u \ {Pick(u)}) <= n
    BY <1>1, <2>1, TakeOut
  <2>3. P(u \ {Pick(u)})
    BY <1>4, <2>1, <2>2
  <2>4. /\ f[Pick(u)] \in Int /\ ((\A x \in S : f[x] >= 0) => f[Pick(u)] >= 0)
        /\ ((\A x \in S : f[x] <= 0) => f[Pick(u)] <= 0)
    BY <2>1
  <2> QED
    BY <2>1, <2>3, <2>4
<1> HIDE DEF T
<1>5. \A n \in Nat : n \in T
  BY <1>3, <1>4, SetInduction
<1> QED
  BY <1>1, <1>5 DEF T

\* It does not matter which index is taken out first.
LEMMA SumTakeOut ==
    ASSUME NEW f, NEW S, IsFiniteSet(S), \A x \in S : f[x] \in Int, NEW y \in S
    PROVE  SumFunctionOnSet(f, S) = f[y] + SumFunctionOnSet(f, S \ {y})
<1> DEFINE P(u) == \A x \in u : SumFunctionOnSet(f, u) = f[x] + SumFunctionOnSet(f, u \ {x})
           T == {n \in Nat : \A u \in SUBSET S : Cardinality(u) <= n => P(u)}
<1>1. \A u \in SUBSET S : IsFiniteSet(u) /\ Cardinality(u) \in Nat
  BY FS_Subset, FS_CardinalityType
<1>2. 0 \in T
  <2>1. \A u \in SUBSET S : Cardinality(u) <= 0 => u = {}
    BY <1>1, FS_EmptySet
  <2> QED
    BY <2>1
<1>3. ASSUME NEW n \in Nat, n \in T PROVE n + 1 \in T
  <2> SUFFICES ASSUME NEW u \in SUBSET S, Cardinality(u) <= n + 1, NEW x \in u
               PROVE  SumFunctionOnSet(f, u) = f[x] + SumFunctionOnSet(f, u \ {x})
    OBVIOUS
  <2> DEFINE p == Pick(u)
  <2>1. p \in u /\ SumFunctionOnSet(f, u) = f[p] + SumFunctionOnSet(f, u \ {p})
    BY <1>1, SumPick
  <2> HIDE DEF p
  <2>2. CASE p = x
    BY <2>1, <2>2
  <2>3. CASE p # x
    <3>1. /\ u \ {p} \in SUBSET S /\ x \in u \ {p}
          /\ u \ {x} \in SUBSET S /\ p \in u \ {x}
          /\ (u \ {p}) \ {x} = (u \ {x}) \ {p}
      BY <2>1, <2>3
    <3>2. Cardinality(u \ {p}) <= n /\ Cardinality(u \ {x}) <= n
      BY <1>1, <2>1, TakeOut
    <3>3. SumFunctionOnSet(f, u \ {p}) = f[x] + SumFunctionOnSet(f, (u \ {p}) \ {x})
      BY <1>3, <3>1, <3>2
    <3>4. SumFunctionOnSet(f, u \ {x}) = f[p] + SumFunctionOnSet(f, (u \ {x}) \ {p})
      BY <1>3, <3>1, <3>2
    <3>5. f[x] \in Int /\ f[p] \in Int /\ SumFunctionOnSet(f, (u \ {x}) \ {p}) \in Int
      <4>1. (u \ {x}) \ {p} \in SUBSET S
        OBVIOUS
      <4> QED
        BY <1>1, <2>1, <4>1, SumType
    <3> DEFINE rest == SumFunctionOnSet(f, (u \ {x}) \ {p})
    <3>6. /\ SumFunctionOnSet(f, u) = f[p] + (f[x] + rest)
          /\ SumFunctionOnSet(f, u \ {x}) = f[p] + rest
      BY <2>1, <3>1, <3>3, <3>4
    <3> HIDE DEF rest
    <3> QED
      BY <3>5, <3>6 DEF rest
  <2> QED
    BY <2>2, <2>3
<1> HIDE DEF T
<1>4. \A n \in Nat : n \in T
  BY <1>2, <1>3, SetInduction
<1>5. P(S)
  BY <1>1, <1>4 DEF T
<1> QED
  BY <1>5

\* Adding an index adds its value.
LEMMA SumAdd ==
    ASSUME NEW f, NEW S, IsFiniteSet(S), NEW y, y \notin S,
           \A x \in S \cup {y} : f[x] \in Int
    PROVE  /\ IsFiniteSet(S \cup {y})
           /\ SumFunctionOnSet(f, S \cup {y}) = f[y] + SumFunctionOnSet(f, S)
<1>1. IsFiniteSet(S \cup {y}) /\ (S \cup {y}) \ {y} = S /\ y \in S \cup {y}
  BY FS_AddElement
<1> HIDE DEF SumFunctionOnSet
<1>2. SumFunctionOnSet(f, S \cup {y}) = f[y] + SumFunctionOnSet(f, (S \cup {y}) \ {y})
  BY <1>1, SumTakeOut
<1> QED
  BY <1>1, <1>2

\* The sum of some of several non-negative values is at most the sum of all.
LEMMA SumMonotone ==
    ASSUME NEW f, NEW S, IsFiniteSet(S), \A x \in S : f[x] \in Nat, NEW R, R \subseteq S
    PROVE  SumFunctionOnSet(f, R) <= SumFunctionOnSet(f, S)
<1> DEFINE P(u) == SumFunctionOnSet(f, u \cap R) <= SumFunctionOnSet(f, u)
           T == {n \in Nat : \A u \in SUBSET S : Cardinality(u) <= n => P(u)}
<1>1. \A u \in SUBSET S : IsFiniteSet(u) /\ Cardinality(u) \in Nat
  BY FS_Subset, FS_CardinalityType
<1>a. \A u \in SUBSET S : /\ SumFunctionOnSet(f, u) \in Int
                          /\ SumFunctionOnSet(f, u \cap R) \in Int
  <2> TAKE u \in SUBSET S
  <2>1. IsFiniteSet(u) /\ IsFiniteSet(u \cap R) /\ Cardinality(u) \in Nat
    BY FS_Subset, FS_CardinalityType
  <2>2. (\A x \in u : f[x] \in Int) /\ (\A x \in u \cap R : f[x] \in Int)
    OBVIOUS
  <2> QED
    BY <2>1, <2>2, SumType
<1>2. P({})
  <2>1. {} \cap R = {}
    OBVIOUS
  <2> QED
    BY <2>1, SumEmpty
<1>3. 0 \in T
  <2>1. \A u \in SUBSET S : Cardinality(u) <= 0 => u = {}
    BY <1>1, FS_EmptySet
  <2> QED
    BY <1>2, <2>1
<1>4. ASSUME NEW n \in Nat, n \in T PROVE n + 1 \in T
  <2> SUFFICES ASSUME NEW u \in SUBSET S, Cardinality(u) <= n + 1, u # {} PROVE P(u)
    BY <1>2
  <2> DEFINE p == Pick(u)
  <2>1. p \in u /\ SumFunctionOnSet(f, u) = f[p] + SumFunctionOnSet(f, u \ {p})
    BY <1>1, SumPick
  <2> HIDE DEF p
  <2>2. u \ {p} \in SUBSET S /\ Cardinality(u \ {p}) <= n /\ f[p] \in Nat
    BY <1>1, <2>1, TakeOut
  <2>3. SumFunctionOnSet(f, (u \ {p}) \cap R) <= SumFunctionOnSet(f, u \ {p})
    BY <1>4, <2>2
  <2>4. /\ SumFunctionOnSet(f, (u \ {p}) \cap R) \in Int
        /\ SumFunctionOnSet(f, u \ {p}) \in Int
    BY <1>a, <2>2
  <2>5. CASE p \in R
    <3>1. p \in u \cap R /\ (u \cap R) \ {p} = (u \ {p}) \cap R
      BY <2>1, <2>5
    <3>2. IsFiniteSet(u \cap R) /\ \A x \in u \cap R : f[x] \in Int
      BY FS_Subset
    <3>3. SumFunctionOnSet(f, u \cap R) = f[p] + SumFunctionOnSet(f, (u \ {p}) \cap R)
      BY <3>1, <3>2, SumTakeOut
    <3> QED
      BY <2>1, <2>2, <2>3, <2>4, <3>3
  <2>6. CASE p \notin R
    <3>1. u \cap R = (u \ {p}) \cap R
      BY <2>6
    <3> QED
      BY <2>1, <2>2, <2>3, <2>4, <3>1
  <2> QED
    BY <2>5, <2>6
<1> HIDE DEF T
<1>5. \A n \in Nat : n \in T
  BY <1>3, <1>4, SetInduction
<1>6. P(S)
  BY <1>1, <1>5 DEF T
<1>7. S \cap R = R
  OBVIOUS
<1> QED
  BY <1>6, <1>7

\* What holds of every part, in proportion, holds of the sums.
LEMMA SumCompared ==
    ASSUME NEW f, NEW g, NEW S, IsFiniteSet(S), NEW k \in Int, NEW l \in Int,
           \A x \in S : f[x] \in Int /\ g[x] \in Int /\ f[x] * k <= g[x] * l
    PROVE  SumFunctionOnSet(f, S) * k <= SumFunctionOnSet(g, S) * l
<1> DEFINE P(u) == SumFunctionOnSet(f, u) * k <= SumFunctionOnSet(g, u) * l
           T == {n \in Nat : \A u \in SUBSET S : Cardinality(u) <= n => P(u)}
<1>1. \A u \in SUBSET S : IsFiniteSet(u) /\ Cardinality(u) \in Nat
  BY FS_Subset, FS_CardinalityType
<1>2. P({})
  BY SumEmpty
<1>3. 0 \in T
  <2>1. \A u \in SUBSET S : Cardinality(u) <= 0 => u = {}
    BY <1>1, FS_EmptySet
  <2> HIDE DEF P
  <2> QED
    BY <1>2, <2>1
<1>4. ASSUME NEW n \in Nat, n \in T PROVE n + 1 \in T
  <2> SUFFICES ASSUME NEW u \in SUBSET S, Cardinality(u) <= n + 1, u # {} PROVE P(u)
    <3> HIDE DEF P
    <3> QED
      BY <1>2
  <2>1. PICK x \in u : TRUE
    OBVIOUS
  <2>2. /\ u \ {x} \in SUBSET S /\ IsFiniteSet(u) /\ IsFiniteSet(u \ {x})
        /\ \A y \in u : f[y] \in Int /\ g[y] \in Int
    BY <1>1
  <2>3. Cardinality(u \ {x}) <= n
    BY <1>1, <2>1, TakeOut
  <2>4. P(u \ {x})
    BY <1>4, <2>2, <2>3
  <2>5. PICK a, b, c, d, p, q : /\ a = SumFunctionOnSet(f, u) /\ b = SumFunctionOnSet(g, u)
                                /\ c = SumFunctionOnSet(f, u \ {x}) /\ d = SumFunctionOnSet(g, u \ {x})
                                /\ p = f[x] /\ q = g[x]
    OBVIOUS
  <2>6. a = p + c /\ b = q + d
    BY <2>1, <2>2, <2>5, SumTakeOut
  <2>7. c \in Int /\ d \in Int
    BY <2>2, <2>5, SumType
  <2>8. c * k <= d * l /\ p * k <= q * l /\ p \in Int /\ q \in Int
    BY <2>1, <2>4, <2>5
  <2>9. (p + c) * k = p * k + c * k /\ (q + d) * l = q * l + d * l
    BY <2>7, <2>8
  <2>10. PICK w, x1, y, z : w = c * k /\ x1 = d * l /\ y = p * k /\ z = q * l
    OBVIOUS
  <2>11. w \in Int /\ x1 \in Int /\ y \in Int /\ z \in Int
    BY <2>7, <2>8, <2>10
  <2>12. y + w <= z + x1
    BY <2>8, <2>10, <2>11
  <2> QED
    BY <2>5, <2>6, <2>9, <2>10, <2>12
<1> HIDE DEF T
<1>5. \A n \in Nat : n \in T
  BY <1>3, <1>4, SetInduction
<1> QED
  BY <1>1, <1>5 DEF T

LEMMA SumBelow ==
    ASSUME NEW f, NEW g, NEW S, IsFiniteSet(S), \A x \in S : f[x] \in Int /\ g[x] \in Int /\ f[x] <= g[x]
    PROVE  SumFunctionOnSet(f, S) <= SumFunctionOnSet(g, S)
<1>1. \A x \in S : f[x] \in Int /\ g[x] \in Int /\ f[x] * 1 <= g[x] * 1
  OBVIOUS
<1>2. SumFunctionOnSet(f, S) * 1 <= SumFunctionOnSet(g, S) * 1
  BY <1>1, SumCompared
<1>3. SumFunctionOnSet(f, S) \in Int /\ SumFunctionOnSet(g, S) \in Int
  BY SumType
<1> QED
  BY <1>2, <1>3

\* Renaming the indices, one to one, keeps the sum.
LEMMA SumReindex ==
    ASSUME NEW f, NEW g, NEW h, NEW S, IsFiniteSet(S),
           \A x, y \in S : h[x] = h[y] => x = y,
           \A x \in S : g[x] = f[h[x]] /\ g[x] \in Int
    PROVE  SumFunctionOnSet(g, S) = SumFunctionOnSet(f, {h[x] : x \in S})
<1> DEFINE Image(u) == {h[x] : x \in u}
           P(u) == IsFiniteSet(Image(u)) /\ SumFunctionOnSet(g, u) = SumFunctionOnSet(f, Image(u))
           T == {n \in Nat : \A u \in SUBSET S : Cardinality(u) <= n => P(u)}
<1>1. \A u \in SUBSET S : IsFiniteSet(u) /\ Cardinality(u) \in Nat
  BY FS_Subset, FS_CardinalityType
<1>2. P({})
  <2>1. Image({}) = {}
    OBVIOUS
  <2> QED
    BY <2>1, SumEmpty, FS_EmptySet
<1>3. 0 \in T
  <2>1. \A u \in SUBSET S : Cardinality(u) <= 0 => u = {}
    BY <1>1, FS_EmptySet
  <2> HIDE DEF P
  <2> QED
    BY <1>2, <2>1
<1>4. ASSUME NEW n \in Nat, n \in T PROVE n + 1 \in T
  <2> SUFFICES ASSUME NEW u \in SUBSET S, Cardinality(u) <= n + 1, u # {} PROVE P(u)
    <3> HIDE DEF P
    <3> QED
      BY <1>2
  <2> DEFINE p == Pick(u)
  <2>1. p \in u /\ SumFunctionOnSet(g, u) = g[p] + SumFunctionOnSet(g, u \ {p})
    BY <1>1, SumPick
  <2> HIDE DEF p
  <2>2. u \ {p} \in SUBSET S /\ Cardinality(u \ {p}) <= n
    BY <1>1, <2>1, TakeOut
  <2>3. P(u \ {p})
    BY <1>4, <2>2
  <2>4. Image(u) = Image(u \ {p}) \cup {h[p]} /\ h[p] \notin Image(u \ {p})
    BY <2>1
  <2>5. \A y \in Image(u) : f[y] \in Int
    OBVIOUS
  <2> HIDE DEF Image
  <2>6. /\ IsFiniteSet(Image(u))
        /\ SumFunctionOnSet(f, Image(u)) = f[h[p]] + SumFunctionOnSet(f, Image(u \ {p}))
    <3> DEFINE V == Image(u \ {p})
    <3>1. IsFiniteSet(V) /\ h[p] \notin V /\ \A y \in V \cup {h[p]} : f[y] \in Int
      BY <2>3, <2>4, <2>5
    <3> HIDE DEF V
    <3>2. /\ IsFiniteSet(V \cup {h[p]})
          /\ SumFunctionOnSet(f, V \cup {h[p]}) = f[h[p]] + SumFunctionOnSet(f, V)
      BY <3>1, SumAdd
    <3> QED
      BY <2>4, <3>2 DEF V
  <2> QED
    BY <2>1, <2>3, <2>6
<1> HIDE DEF T
<1>5. \A n \in Nat : n \in T
  BY <1>3, <1>4, SetInduction
<1>6. P(S)
  <2> HIDE DEF P
  <2> QED
    BY <1>1, <1>5 DEF T
<1> QED
  BY <1>6

\* A sequence of naturals adds up to a natural, and an appended element is added.
LEMMA SumOfSequence ==
    ASSUME NEW s \in Seq(Nat)
    PROVE  /\ IsFiniteSet(DOMAIN s) /\ SumFunction(s) \in Nat
           /\ s = <<>> => SumFunction(s) = 0
           /\ \A a \in Nat : SumFunction(Append(s, a)) = SumFunction(s) + a
<1>1. DOMAIN s = 1 .. Len(s) /\ Len(s) \in Nat /\ \A i \in 1 .. Len(s) : s[i] \in Nat
  OBVIOUS
<1>2. IsFiniteSet(1 .. Len(s))
  BY <1>1, FS_Interval
<1>3. SumFunctionOnSet(s, 1 .. Len(s)) \in Int /\ SumFunctionOnSet(s, 1 .. Len(s)) >= 0
  <2>1. \A i \in 1 .. Len(s) : s[i] \in Int /\ s[i] >= 0
    BY <1>1
  <2> QED
    BY <1>2, <2>1, SumType
<1>4. SumFunction(s) = SumFunctionOnSet(s, 1 .. Len(s))
  BY <1>1 DEF SumFunction
<1>5. s = <<>> => SumFunctionOnSet(s, 1 .. Len(s)) = 0
  <2>1. s = <<>> => 1 .. Len(s) = {}
    BY <1>1
  <2> QED
    BY <2>1, SumEmpty
<1>6. ASSUME NEW a \in Nat PROVE SumFunction(Append(s, a)) = SumFunction(s) + a
  <2> DEFINE u == Append(s, a)
             n == Len(s) + 1
             S == 1 .. Len(s)
  <2>1. /\ DOMAIN u = S \cup {n} /\ n \notin S /\ u[n] = a
        /\ \A i \in S : u[i] = s[i]
    BY <1>1
  <2>2. \A i \in S \cup {n} : u[i] \in Int
    BY <1>1, <2>1
  <2>3. IsFiniteSet(S)
    BY <1>2
  <2> HIDE DEF u, S, n
  <2>4. SumFunctionOnSet(u, S \cup {n}) = u[n] + SumFunctionOnSet(u, S)
    BY <2>1, <2>2, <2>3, SumAdd
  <2>5. SumFunctionOnSet(u, S) = SumFunctionOnSet(s, S)
    BY <2>1, <2>3, SumAgrees
  <2>6. SumFunction(u) = SumFunctionOnSet(u, S \cup {n})
    BY <2>1 DEF SumFunction
  <2>7. SumFunction(s) = SumFunctionOnSet(s, S) /\ SumFunctionOnSet(s, S) \in Int
    BY <1>3, <1>4 DEF S
  <2>8. SumFunction(u) = SumFunction(s) + a
    <3> HIDE DEF SumFunction, SumFunctionOnSet
    <3> QED
      BY <2>1, <2>4, <2>5, <2>6, <2>7
  <2> QED
    BY <2>8 DEF u
<1> QED
  <2> HIDE DEF SumFunction, SumFunctionOnSet
  <2> QED
    BY <1>1, <1>2, <1>3, <1>4, <1>5, <1>6

-----------------------------------------------------------------------------
(* FoldLeft. *)

\* A set of positions that is not empty has a greatest one.
LEMMA MaxIsMember ==
    ASSUME NEW n \in Nat, NEW u \in SUBSET (1 .. n), u # {}
    PROVE  Max(u) \in u /\ \A y \in u : Max(u) >= y
<1> DEFINE T == {k \in Nat : \A v \in SUBSET (1 .. k) : v # {} => \E x \in v : \A y \in v : x >= y}
<1>1. 0 \in T
  <2>1. 1 .. 0 = {}
    OBVIOUS
  <2>2. \A v \in SUBSET (1 .. 0) : v = {}
    BY <2>1
  <2> QED
    BY <2>2
<1>2. ASSUME NEW k \in Nat, k \in T PROVE k + 1 \in T
  <2> SUFFICES ASSUME NEW v \in SUBSET (1 .. k + 1), v # {} PROVE \E x \in v : \A y \in v : x >= y
    OBVIOUS
  <2>1. CASE k + 1 \in v
    BY <2>1
  <2>2. CASE k + 1 \notin v
    <3>1. v \in SUBSET (1 .. k)
      BY <2>2
    <3> QED
      BY <1>2, <3>1
  <2> QED
    BY <2>1, <2>2
<1> HIDE DEF T
<1>3. n \in T
  BY <1>1, <1>2, SetInduction
<1>4. \E x \in u : \A y \in u : x >= y
  BY <1>3 DEF T
<1> QED
  BY <1>4 DEF Max

\* The equation a fold solves.  F[a][i] is the accumulator after position i when
\* it was a before.
FoldsTo(it, F, base, D) ==
    it = [u \in D |-> IF u = {} THEN base ELSE F[it[u \ {Max(u)}]][Max(u)]]

\* It has a solution, and the solution stays where the step stays.
LEMMA FoldExists ==
    ASSUME NEW n \in Nat, NEW A, NEW base \in A, NEW F,
           \A a \in A : \A i \in 1 .. n : F[a][i] \in A
    PROVE  \E it : /\ FoldsTo(it, F, base, SUBSET (1 .. n))
                   /\ \A u \in SUBSET (1 .. n) : it[u] \in A
<1> DEFINE S == 1 .. n
           D(k) == {s \in SUBSET S : Cardinality(s) <= k}
           T == {k \in Nat : \E it : FoldsTo(it, F, base, D(k)) /\ \A u \in D(k) : it[u] \in A}
<1>0. IsFiniteSet(S)
  BY FS_Interval
<1>1. \A s \in SUBSET S : IsFiniteSet(s) /\ Cardinality(s) \in Nat
  BY <1>0, FS_Subset, FS_CardinalityType
<1>2. 0 \in T
  <2>1. \A s \in D(0) : s = {}
    BY <1>1, FS_EmptySet
  <2> DEFINE first == [s \in D(0) |-> base]
  <2>2. first = [u \in D(0) |-> IF u = {} THEN base ELSE F[first[u \ {Max(u)}]][Max(u)]]
    <3> HIDE DEF Max, D
    <3> QED
      BY <2>1
  <2> HIDE DEF Max, D
  <2>3. FoldsTo(first, F, base, D(0)) /\ \A u \in D(0) : first[u] \in A
    BY <2>2 DEF FoldsTo
  <2> QED
    BY <2>3
<1>3. ASSUME NEW k \in Nat, k \in T PROVE k + 1 \in T
  <2>1. PICK it : FoldsTo(it, F, base, D(k)) /\ \A u \in D(k) : it[u] \in A
    BY <1>3
  <2> DEFINE next == [u \in D(k + 1) |-> IF u = {} THEN base ELSE F[it[u \ {Max(u)}]][Max(u)]]
  <2>2. \A u \in D(k + 1) : u # {} =>
           /\ Max(u) \in u /\ Max(u) \in S
           /\ u \ {Max(u)} \in D(k) /\ u \ {Max(u)} \in D(k + 1)
    <3> TAKE u \in D(k + 1)
    <3> HAVE u # {}
    <3>1. Max(u) \in u
      BY MaxIsMember
    <3> HIDE DEF Max
    <3>2. /\ Cardinality(u) \in Nat /\ Cardinality(u) <= k + 1 /\ u \ {Max(u)} \in SUBSET S
          /\ Cardinality(u \ {Max(u)}) \in Nat
          /\ Cardinality(u \ {Max(u)}) = Cardinality(u) - 1
      BY <1>1, <3>1, TakeOut
    <3>3. Max(u) \in S
      BY <3>1
    <3>4. Cardinality(u \ {Max(u)}) <= k /\ Cardinality(u \ {Max(u)}) <= k + 1
      BY <3>2
    <3> QED
      <4> HIDE DEF S
      <4> QED
        BY <3>1, <3>2, <3>3, <3>4
  <2>3. \A u \in D(k) : u \in D(k + 1)
    BY <1>1
  <2>4. \A u \in D(k) : next[u] = it[u]
    BY <2>1, <2>3 DEF FoldsTo
  <2>5. FoldsTo(next, F, base, D(k + 1))
    <3> HIDE DEF Max, D
    <3>1. \A u \in D(k + 1) : u # {} => next[u \ {Max(u)}] = it[u \ {Max(u)}]
      BY <2>2, <2>4
    <3>2. next = [u \in D(k + 1) |-> IF u = {} THEN base ELSE F[next[u \ {Max(u)}]][Max(u)]]
      BY <3>1
    <3> QED
      BY <3>2 DEF FoldsTo
  <2>6. \A u \in D(k + 1) : next[u] \in A
    BY <2>1, <2>2
  <2> HIDE DEF D, next
  <2> QED
    BY <2>5, <2>6
<1> HIDE DEF T
<1>4. \A k \in Nat : k \in T
  BY <1>2, <1>3, SetInduction
<1>5. Cardinality(S) \in Nat /\ \A s \in SUBSET S : Cardinality(s) <= Cardinality(S)
  BY <1>0, FS_Subset, FS_CardinalityType
<1>6. D(Cardinality(S)) = SUBSET S
  BY <1>5
<1> QED
  BY <1>4, <1>5, <1>6 DEF T

\* The greatest position of a prefix is its length.
LEMMA MaxOfPrefix ==
    ASSUME NEW k \in Nat PROVE Max(1 .. k + 1) = k + 1 /\ (1 .. k + 1) \ {k + 1} = 1 .. k
<1>1. Max(1 .. k + 1) \in 1 .. k + 1 /\ \A y \in 1 .. k + 1 : Max(1 .. k + 1) >= y
  <2>1. 1 .. k + 1 # {} /\ k + 1 \in Nat /\ 1 .. k + 1 \in SUBSET (1 .. k + 1)
    OBVIOUS
  <2> QED
    BY <2>1, MaxIsMember
<1>2. k + 1 \in 1 .. k + 1
  OBVIOUS
<1> HIDE DEF Max
<1>3. Max(1 .. k + 1) = k + 1
  BY <1>1, <1>2
<1> QED
  BY <1>3

-----------------------------------------------------------------------------
(* Filter. *)

\* h holds what is kept of each prefix of s.
StepsThrough(h, s, keep, n) ==
    /\ h[0] = <<>>
    /\ \A k \in 0 .. n - 1 :
          h[k + 1] = IF s[k + 1] \in keep THEN Append(h[k], s[k + 1]) ELSE h[k]
FilterRun(h, S, s, keep) ==
    /\ StepsThrough(h, s, keep, Len(s)) /\ h[Len(s)] = Filter(s, keep)
    /\ \A k \in 0 .. Len(s) : h[k] \in Seq(S)

\* Filtering passes through the prefixes of the sequence.
LEMMA FilterSteps ==
    ASSUME NEW S, NEW s \in Seq(S), NEW keep
    PROVE  \E h : FilterRun(h, S, s, keep)
<1> DEFINE n == Len(s)
           E(h, k) == [i \in 0 .. k |-> IF i = 0 THEN <<>>
                                        ELSE IF s[i] \in keep THEN Append(h[i - 1], s[i]) ELSE h[i - 1]]
           Good(h, k) == h = E(h, k) /\ \A i \in 0 .. k : h[i] \in Seq(S)
           T == {k \in Nat : k <= n => \E h : Good(h, k)}
<1>1. n \in Nat /\ <<>> \in Seq(S) /\ \A i \in 1 .. n : s[i] \in S
  OBVIOUS
<1> HIDE DEF n
<1>2. 0 \in T
  <2>1. Good([i \in 0 .. 0 |-> <<>>], 0)
    BY <1>1
  <2> HIDE DEF Good
  <2> QED
    BY <2>1
<1>3. ASSUME NEW k \in Nat, k \in T PROVE k + 1 \in T
  <2> SUFFICES ASSUME k + 1 <= n PROVE \E h : Good(h, k + 1)
    BY SMTT(30)
  <2>0. k <= n /\ k + 1 \in 1 .. n
    BY <1>1
  <2>1. PICK g : Good(g, k)
    BY <1>3, <2>0
  <2>2. g[k] \in Seq(S) /\ s[k + 1] \in S
    BY <1>1, <2>0, <2>1
  <2>3. PICK x : x = IF s[k + 1] \in keep THEN Append(g[k], s[k + 1]) ELSE g[k]
    OBVIOUS
  <2>4. x \in Seq(S)
    BY <2>2, <2>3
  <2> DEFINE h == [i \in 0 .. k + 1 |-> IF i = k + 1 THEN x ELSE g[i]]
  <2>5. \A i \in 0 .. k + 1 : h[i] \in Seq(S)
    BY <2>1, <2>4
  <2>6. ASSUME NEW i \in 0 .. k + 1
        PROVE  h[i] = IF i = 0 THEN <<>> ELSE IF s[i] \in keep THEN Append(h[i - 1], s[i]) ELSE h[i - 1]
    <3>1. CASE i = k + 1
      <4>1. h[i] = x /\ h[i - 1] = g[k] /\ i # 0
        BY <3>1
      <4> HIDE DEF h
      <4> QED
        BY <4>1, <2>3, <3>1
    <3>2. CASE i # k + 1 /\ i # 0
      <4>1. i \in 0 .. k /\ i - 1 \in 0 .. k + 1 /\ i - 1 # k + 1
        BY <3>2
      <4>2. h[i] = g[i] /\ h[i - 1] = g[i - 1]
        BY <3>2, <4>1
      <4>3. g[i] = IF s[i] \in keep THEN Append(g[i - 1], s[i]) ELSE g[i - 1]
        BY <2>1, <3>2, <4>1
      <4> HIDE DEF h
      <4> QED
        BY <4>2, <4>3, <3>2
    <3>3. CASE i = 0
      <4>1. h[i] = g[0] /\ 0 \in 0 .. k
        BY <3>3
      <4>2. g[0] = <<>>
        BY <2>1, <4>1
      <4> HIDE DEF h
      <4> QED
        BY <4>1, <4>2, <3>3
    <3> QED
      BY <3>1, <3>2, <3>3
  <2>7. h = E(h, k + 1)
    <3> DEFINE g2 == E(h, k + 1)
    <3>1. \A i \in 0 .. k + 1 : g2[i] = h[i]
      <4> HIDE DEF h
      <4> QED
        BY <2>6
    <3>2. g2 = [i \in 0 .. k + 1 |-> g2[i]]
      OBVIOUS
    <3>3. h = [i \in 0 .. k + 1 |-> h[i]]
      OBVIOUS
    <3> HIDE DEF h, g2
    <3>4. g2 = h
      BY <3>1, <3>2, <3>3
    <3> QED
      BY <3>4 DEF g2
  <2> HIDE DEF h
  <2>8. Good(h, k + 1)
    BY <2>5, <2>7
  <2> QED
    BY <2>8
<1> HIDE DEF T
<1>4. n \in T
  BY <1>1, <1>2, <1>3, SetInduction
<1>5. PICK g : Good(g, n)
  <2> HIDE DEF Good
  <2> QED
    BY <1>1, <1>4 DEF T
<1> DEFINE ch == CHOOSE h : h = E(h, n)
<1>6. ch = E(ch, n)
  <2>1. g = E(g, n)
    BY <1>5
  <2> HIDE DEF E
  <2> QED
    BY <2>1
<1>7. Filter(s, keep) = ch[n]
  BY DEF Filter, n
<1> HIDE DEF ch
<1>8. ch[0] = <<>> /\ \A k \in 0 .. n - 1 :
                        ch[k + 1] = IF s[k + 1] \in keep THEN Append(ch[k], s[k + 1]) ELSE ch[k]
  <2>1. ch[0] = <<>>
    BY <1>6, <1>1
  <2>2. ASSUME NEW k \in 0 .. n - 1
        PROVE  ch[k + 1] = IF s[k + 1] \in keep THEN Append(ch[k], s[k + 1]) ELSE ch[k]
    <3>1. k + 1 \in 0 .. n /\ k + 1 # 0 /\ (k + 1) - 1 = k
      BY <1>1
    <3>2. \A i \in 0 .. n : i # 0 => ch[i] = IF s[i] \in keep THEN Append(ch[i - 1], s[i]) ELSE ch[i - 1]
      BY <1>6
    <3>3. ch[k + 1] = IF s[k + 1] \in keep THEN Append(ch[(k + 1) - 1], s[k + 1]) ELSE ch[(k + 1) - 1]
      BY <3>1, <3>2
    <3> QED
      BY <3>1, <3>3
  <2> QED
    BY <2>1, <2>2
<1>9. StepsThrough(ch, s, keep, n)
  BY <1>8 DEF StepsThrough
<1>10. \A k \in 0 .. n : ch[k] \in Seq(S)
  <2> DEFINE U == {k \in Nat : k <= n => ch[k] \in Seq(S)}
  <2>1. 0 \in U
    BY <1>1, <1>8
  <2>2. ASSUME NEW k \in Nat, k \in U PROVE k + 1 \in U
    <3> SUFFICES ASSUME k + 1 <= n PROVE ch[k + 1] \in Seq(S)
      OBVIOUS
    <3>1. k \in 0 .. n - 1 /\ k + 1 \in 1 .. n /\ k <= n
      BY <1>1
    <3>2. ch[k] \in Seq(S) /\ s[k + 1] \in S
      BY <2>2, <3>1, <1>1
    <3>3. Append(ch[k], s[k + 1]) \in Seq(S)
      BY <3>2
    <3> QED
      BY <3>1, <3>2, <3>3, <1>8
  <2> HIDE DEF U
  <2>3. \A k \in Nat : k \in U
    BY <2>1, <2>2, SetInduction
  <2> QED
    BY <2>3, <1>1 DEF U
<1>11. FilterRun(ch, S, s, keep)
  BY <1>7, <1>9, <1>10 DEF FilterRun, n
<1> QED
  BY <1>11

\* Two filterings that agree up to a position have made the same steps.
LEMMA FilterStepsAgree ==
    ASSUME NEW n \in Nat, NEW g, NEW h, NEW s, NEW t, NEW keep, NEW keep2,
           StepsThrough(g, s, keep, n), StepsThrough(h, t, keep2, n),
           \A i \in 1 .. n : s[i] = t[i] /\ (s[i] \in keep <=> s[i] \in keep2)
    PROVE  g[n] = h[n]
<1> DEFINE T == {k \in Nat : k <= n => g[k] = h[k]}
<1>1. 0 \in T
  BY DEF StepsThrough
<1>2. ASSUME NEW k \in Nat, k \in T PROVE k + 1 \in T
  <2> SUFFICES ASSUME k + 1 <= n PROVE g[k + 1] = h[k + 1]
    OBVIOUS
  <2>1. k \in 0 .. n - 1 /\ k + 1 \in 1 .. n /\ k <= n
    OBVIOUS
  <2>2. g[k] = h[k]
    BY <1>2, <2>1
  <2>3. s[k + 1] = t[k + 1] /\ (s[k + 1] \in keep <=> s[k + 1] \in keep2)
    BY <2>1
  <2>4. g[k + 1] = IF s[k + 1] \in keep THEN Append(g[k], s[k + 1]) ELSE g[k]
    BY <2>1 DEF StepsThrough
  <2>5. h[k + 1] = IF t[k + 1] \in keep2 THEN Append(h[k], t[k + 1]) ELSE h[k]
    BY <2>1 DEF StepsThrough
  <2>6. CASE s[k + 1] \in keep
    <3>1. g[k + 1] = Append(g[k], s[k + 1]) /\ h[k + 1] = Append(h[k], t[k + 1])
      BY <2>3, <2>4, <2>5, <2>6
    <3> QED
      BY <2>2, <2>3, <3>1, Zenon
  <2>7. CASE s[k + 1] \notin keep
    <3>1. g[k + 1] = g[k] /\ h[k + 1] = h[k]
      BY <2>3, <2>4, <2>5, <2>7
    <3> QED
      BY <2>2, <3>1
  <2> QED
    BY <2>6, <2>7
<1> HIDE DEF T
<1>3. n \in T
  BY <1>1, <1>2, SetInduction
<1> QED
  BY <1>3 DEF T

\* Filtering keeps the type.
LEMMA FilterType ==
    ASSUME NEW S, NEW s \in Seq(S), NEW keep PROVE Filter(s, keep) \in Seq(S)
<1>1. PICK h : FilterRun(h, S, s, keep)
  BY FilterSteps
<1>2. Len(s) \in 0 .. Len(s)
  OBVIOUS
<1> QED
  BY <1>1, <1>2 DEF FilterRun

\* There is nothing to keep of nothing.
LEMMA FilterEmpty == ASSUME NEW keep PROVE Filter(<<>>, keep) = <<>>
<1>1. <<>> \in Seq({}) /\ Len(<<>>) = 0
  OBVIOUS
<1>2. PICK h : FilterRun(h, {}, <<>>, keep)
  BY <1>1, FilterSteps
<1>3. h[Len(<<>>)] = Filter(<<>>, keep) /\ h[0] = <<>>
  BY <1>2 DEF FilterRun
<1> QED
  BY <1>1, <1>3

\* An element more is an element more of the result, or none.
LEMMA FilterAppend ==
    ASSUME NEW S, NEW s \in Seq(S), NEW x \in S, NEW keep
    PROVE  Filter(Append(s, x), keep) = IF x \in keep THEN Append(Filter(s, keep), x) ELSE Filter(s, keep)
<1>g. PICK g : FilterRun(g, S, s, keep)
  BY FilterSteps
<1>1. StepsThrough(g, s, keep, Len(s)) /\ g[Len(s)] = Filter(s, keep)
  BY <1>g DEF FilterRun
<1>2. PICK t : t = Append(s, x)
  OBVIOUS
<1>3. /\ t \in Seq(S) /\ Len(t) = Len(s) + 1 /\ Len(s) \in Nat
      /\ t[Len(s) + 1] = x /\ \A i \in 1 .. Len(s) : t[i] = s[i]
  BY <1>2
<1>h. PICK h : FilterRun(h, S, t, keep)
  BY <1>3, FilterSteps
<1>4. /\ h[0] = <<>> /\ h[Len(t)] = Filter(t, keep)
      /\ \A k \in 0 .. Len(t) - 1 :
            h[k + 1] = IF t[k + 1] \in keep THEN Append(h[k], t[k + 1]) ELSE h[k]
  BY <1>h, Zenon DEF FilterRun, StepsThrough
<1>5. \A k \in 0 .. Len(s) - 1 : k \in 0 .. Len(t) - 1
  BY <1>3
<1>6. Len(s) \in 0 .. Len(t) - 1
  BY <1>3
<1>7. g[Len(s)] = h[Len(s)]
  <2>1. StepsThrough(h, t, keep, Len(s))
    BY <1>4, <1>5, Zenon DEF StepsThrough
  <2>2. \A i \in 1 .. Len(s) : s[i] = t[i] /\ (s[i] \in keep <=> s[i] \in keep)
    BY <1>3
  <2> QED
    BY <1>1, <1>3, <2>1, <2>2, FilterStepsAgree
<1>8. h[Len(s) + 1] = IF t[Len(s) + 1] \in keep THEN Append(h[Len(s)], t[Len(s) + 1]) ELSE h[Len(s)]
  BY <1>4, <1>6
<1> QED
  BY <1>1, <1>2, <1>3, <1>4, <1>7, <1>8, Zenon

\* Only what is asked about the elements there are matters.
LEMMA FilterAgrees ==
    ASSUME NEW S, NEW s \in Seq(S), NEW keep, NEW keep2,
           \A i \in 1 .. Len(s) : s[i] \in keep <=> s[i] \in keep2
    PROVE  Filter(s, keep) = Filter(s, keep2)
<1>g. PICK g : FilterRun(g, S, s, keep)
  BY FilterSteps
<1>1. StepsThrough(g, s, keep, Len(s)) /\ g[Len(s)] = Filter(s, keep)
  BY <1>g DEF FilterRun
<1>h. PICK h : FilterRun(h, S, s, keep2)
  BY FilterSteps
<1>2. StepsThrough(h, s, keep2, Len(s)) /\ h[Len(s)] = Filter(s, keep2)
  BY <1>h DEF FilterRun
<1>3. Len(s) \in Nat /\ \A i \in 1 .. Len(s) : s[i] = s[i] /\ (s[i] \in keep <=> s[i] \in keep2)
  OBVIOUS
<1>4. g[Len(s)] = h[Len(s)]
  BY <1>1, <1>2, <1>3, FilterStepsAgree
<1> QED
  BY <1>1, <1>2, <1>4

\* What is kept was there and passes; what was there and passes is kept; when
\* everything passes, everything stays.
LEMMA FilterKeeps ==
    ASSUME NEW S, NEW s \in Seq(S), NEW keep
    PROVE  /\ \A j \in 1 .. Len(Filter(s, keep)) :
                 \E i \in 1 .. Len(s) : Filter(s, keep)[j] = s[i] /\ s[i] \in keep
           /\ \A i \in 1 .. Len(s) : s[i] \in keep =>
                 \E j \in 1 .. Len(Filter(s, keep)) : Filter(s, keep)[j] = s[i]
           /\ (\A i \in 1 .. Len(s) : s[i] \in keep) => Filter(s, keep) = s
<1>h. PICK h : FilterRun(h, S, s, keep)
  BY FilterSteps
<1>1. /\ h[0] = <<>> /\ h[Len(s)] = Filter(s, keep)
      /\ \A k \in 0 .. Len(s) : h[k] \in Seq(S)
      /\ \A k \in 0 .. Len(s) - 1 :
            h[k + 1] = IF s[k + 1] \in keep THEN Append(h[k], s[k + 1]) ELSE h[k]
  BY <1>h, Zenon DEF FilterRun, StepsThrough
<1> DEFINE P(k) == /\ \A j \in 1 .. Len(h[k]) : \E i \in 1 .. k : h[k][j] = s[i] /\ s[i] \in keep
                   /\ \A i \in 1 .. k : s[i] \in keep => \E j \in 1 .. Len(h[k]) : h[k][j] = s[i]
                   /\ (\A i \in 1 .. k : s[i] \in keep) =>
                         Len(h[k]) = k /\ \A i \in 1 .. k : h[k][i] = s[i]
           T == {k \in Nat : k <= Len(s) => P(k)}
<1>2. Len(s) \in Nat /\ \A i \in 1 .. Len(s) : s[i] \in S
  OBVIOUS
<1>3. 0 \in T
  <2>1. Len(h[0]) = 0
    BY <1>1
  <2>2. P(0)
    BY <2>1
  <2> HIDE DEF P
  <2> QED
    BY <2>2
<1>4. ASSUME NEW k \in Nat, k \in T PROVE k + 1 \in T
  <2> HIDE DEF P
  <2> SUFFICES ASSUME k + 1 <= Len(s) PROVE P(k + 1)
    OBVIOUS
  <2>1. k \in 0 .. Len(s) - 1 /\ k + 1 \in 1 .. Len(s) /\ k <= Len(s) /\ k \in 0 .. Len(s)
    BY <1>2
  <2>2. P(k)
    BY <1>4, <2>1
  <2>3. PICK a, b, x : a = h[k] /\ b = h[k + 1] /\ x = s[k + 1]
    OBVIOUS
  <2>4. a \in Seq(S) /\ x \in S /\ b = IF x \in keep THEN Append(a, x) ELSE a
    BY <1>1, <1>2, <2>1, <2>3
  <2>5. /\ \A j \in 1 .. Len(a) : \E i \in 1 .. k : a[j] = s[i] /\ s[i] \in keep
        /\ \A i \in 1 .. k : s[i] \in keep => \E j \in 1 .. Len(a) : a[j] = s[i]
        /\ (\A i \in 1 .. k : s[i] \in keep) => Len(a) = k /\ \A i \in 1 .. k : a[i] = s[i]
    BY <2>2, <2>3, Zenon DEF P
  <2>6. Len(a) \in Nat /\ \A i \in 1 .. k + 1 : i \in 1 .. k \/ i = k + 1
    BY <2>4
  <2>i. \A i \in 1 .. k : i \in 1 .. k + 1
    OBVIOUS
  <2>j. k + 1 \in 1 .. k + 1
    OBVIOUS
  <2>7. /\ \A j \in 1 .. Len(b) : \E i \in 1 .. k + 1 : b[j] = s[i] /\ s[i] \in keep
        /\ \A i \in 1 .. k + 1 : s[i] \in keep => \E j \in 1 .. Len(b) : b[j] = s[i]
        /\ (\A i \in 1 .. k + 1 : s[i] \in keep) => Len(b) = k + 1 /\ \A i \in 1 .. k + 1 : b[i] = s[i]
    <3>1. CASE x \in keep
      <4>1. b = Append(a, x)
        BY <2>4, <3>1
      <4>2. /\ Len(b) = Len(a) + 1 /\ b[Len(a) + 1] = x
            /\ \A j \in 1 .. Len(a) : b[j] = a[j]
        BY <2>4, <4>1
      <4>3. /\ Len(a) + 1 \in 1 .. Len(b) /\ \A j \in 1 .. Len(a) : j \in 1 .. Len(b)
            /\ \A j \in 1 .. Len(b) : j \in 1 .. Len(a) \/ j = Len(a) + 1
        BY <4>2, <2>6
      <4>4. \A j \in 1 .. Len(b) : \E i \in 1 .. k + 1 : b[j] = s[i] /\ s[i] \in keep
        <5> TAKE j \in 1 .. Len(b)
        <5>1. CASE j = Len(a) + 1
          <6>1. b[j] = s[k + 1] /\ s[k + 1] \in keep
            BY <5>1, <3>1, <4>2, <2>3
          <6> QED
            BY <6>1, <2>j, Zenon
        <5>2. CASE j \in 1 .. Len(a)
          <6>1. PICK i \in 1 .. k : a[j] = s[i] /\ s[i] \in keep
            BY <5>2, <2>5, Zenon
          <6>2. b[j] = a[j] /\ i \in 1 .. k + 1
            BY <5>2, <4>2, <2>i
          <6> QED
            BY <6>1, <6>2, Zenon
        <5> QED
          BY <5>1, <5>2, <4>3
      <4>5. \A i \in 1 .. k + 1 : s[i] \in keep => \E j \in 1 .. Len(b) : b[j] = s[i]
        <5> TAKE i \in 1 .. k + 1
        <5> HAVE s[i] \in keep
        <5>1. CASE i = k + 1
          <6>1. b[Len(a) + 1] = s[i]
            BY <5>1, <4>2, <2>3
          <6> QED
            BY <6>1, <4>3, Zenon
        <5>2. CASE i \in 1 .. k
          <6>1. PICK j \in 1 .. Len(a) : a[j] = s[i]
            BY <5>2, <2>5, Zenon
          <6>2. b[j] = s[i] /\ j \in 1 .. Len(b)
            BY <6>1, <4>2, <4>3
          <6> QED
            BY <6>2, Zenon
        <5> QED
          BY <5>1, <5>2, <2>6
      <4>6. ASSUME \A i \in 1 .. k + 1 : s[i] \in keep
            PROVE  Len(b) = k + 1 /\ \A i \in 1 .. k + 1 : b[i] = s[i]
        <5>1. Len(a) = k /\ \A i \in 1 .. k : a[i] = s[i]
          BY <4>6, <2>5, <2>i, Zenon
        <5>2. Len(b) = k + 1
          BY <4>2, <5>1
        <5> QED
          BY <4>2, <5>1, <5>2, <2>3, <2>6, Zenon
      <4> QED
        BY <4>4, <4>5, <4>6
    <3>2. CASE x \notin keep
      <4>1. b = a
        BY <2>4, <3>2
      <4> QED
        <5>1. \A j \in 1 .. Len(b) : \E i \in 1 .. k + 1 : b[j] = s[i] /\ s[i] \in keep
          BY <4>1, <2>5, <2>i, Zenon
        <5>2. s[k + 1] \notin keep
          BY <3>2, <2>3
        <5>3. ASSUME NEW i \in 1 .. k + 1, s[i] \in keep PROVE \E j \in 1 .. Len(b) : b[j] = s[i]
          <6>1. i # k + 1
            BY <5>2, <5>3
          <6> QED
            BY <6>1, <5>3, <4>1, <2>5, <2>6, Zenon
        <5>4. ~\A i \in 1 .. k + 1 : s[i] \in keep
          BY <5>2, <2>j, Zenon
        <5> QED
          BY <5>1, <5>3, <5>4, Zenon
    <3> QED
      BY <3>1, <3>2
  <2> QED
    BY <2>3, <2>7, Zenon DEF P
<1>5. Len(s) \in T
  <2> HIDE DEF T
  <2> QED
    BY <1>2, <1>3, <1>4, SetInduction
<1>6. P(Len(s))
  <2> HIDE DEF P
  <2> QED
    BY <1>2, <1>5
<1>7. PICK f : f = Filter(s, keep)
  OBVIOUS
<1>8. /\ \A j \in 1 .. Len(f) : \E i \in 1 .. Len(s) : f[j] = s[i] /\ s[i] \in keep
      /\ \A i \in 1 .. Len(s) : s[i] \in keep => \E j \in 1 .. Len(f) : f[j] = s[i]
      /\ (\A i \in 1 .. Len(s) : s[i] \in keep) => Len(f) = Len(s) /\ \A i \in 1 .. Len(s) : f[i] = s[i]
  BY <1>1, <1>6, <1>7, ZenonT(40)
<1>9. f \in Seq(S)
  BY <1>7, FilterType
<1>10. ASSUME \A i \in 1 .. Len(s) : s[i] \in keep PROVE f = s
  <2>1. Len(f) = Len(s) /\ \A i \in 1 .. Len(s) : f[i] = s[i]
    BY <1>8, <1>10, Zenon
  <2> QED
    BY <2>1, <1>9
<1> QED
  BY <1>7, <1>8, <1>10, Zenon

\* Filtering a longer sequence whose members so far are kept or dropped as
\* before.
LEMMA FilterGrows ==
    ASSUME NEW S, NEW s \in Seq(S), NEW x \in S, NEW keep, NEW keep2,
           \A i \in 1 .. Len(s) : s[i] \in keep <=> s[i] \in keep2
    PROVE  Filter(Append(s, x), keep2) = IF x \in keep2 THEN Append(Filter(s, keep), x) ELSE Filter(s, keep)
<1>1. Filter(s, keep) = Filter(s, keep2)
  BY FilterAgrees
<1>2. Filter(Append(s, x), keep2) = IF x \in keep2 THEN Append(Filter(s, keep2), x) ELSE Filter(s, keep2)
  BY FilterAppend
<1> QED
  BY <1>1, <1>2, Zenon

\* Nothing is kept of a suffix without members of the set.
LEMMA FilterSkips ==
    ASSUME NEW S, NEW s \in Seq(S), NEW t \in Seq(S), NEW keep, NEW keep2,
           \A i \in 1 .. Len(s) : s[i] \in keep <=> s[i] \in keep2,
           \A i \in 1 .. Len(t) : t[i] \notin keep2
    PROVE  Filter(s \o t, keep2) = Filter(s, keep)
<1>1. PICK u : u = s \o t
  OBVIOUS
<1>2. /\ u \in Seq(S) /\ Len(s) \in Nat /\ Len(t) \in Nat /\ Len(u) = Len(s) + Len(t)
      /\ \A i \in 1 .. Len(s) : u[i] = s[i]
      /\ \A i \in 1 .. Len(t) : u[Len(s) + i] = t[i]
  BY <1>1
<1>3. PICK g : FilterRun(g, S, s, keep)
  BY FilterSteps
<1>4. PICK h : FilterRun(h, S, u, keep2)
  BY <1>2, FilterSteps
<1>5. StepsThrough(h, u, keep2, Len(u)) /\ h[Len(u)] = Filter(u, keep2)
  BY <1>4 DEF FilterRun
<1>6. StepsThrough(h, u, keep2, Len(s))
  BY <1>5, <1>2 DEF StepsThrough
<1>7. StepsThrough(g, s, keep, Len(s)) /\ g[Len(s)] = Filter(s, keep)
  BY <1>3 DEF FilterRun
<1>8. g[Len(s)] = h[Len(s)]
  <2>1. \A i \in 1 .. Len(s) : s[i] = u[i] /\ (s[i] \in keep <=> s[i] \in keep2)
    BY <1>2
  <2> QED
    BY <1>2, <1>6, <1>7, <2>1, FilterStepsAgree
<1> DEFINE T == {k \in Nat : k <= Len(t) => h[Len(s) + k] = h[Len(s)]}
<1>9. 0 \in T
  BY <1>2
<1>10. ASSUME NEW k \in Nat, k \in T PROVE k + 1 \in T
  <2> SUFFICES ASSUME k + 1 <= Len(t) PROVE h[Len(s) + (k + 1)] = h[Len(s)]
    OBVIOUS
  <2>1. Len(s) + k \in 0 .. Len(u) - 1 /\ k + 1 \in 1 .. Len(t) /\ (Len(s) + k) + 1 = Len(s) + (k + 1) /\ k <= Len(t)
    BY <1>2
  <2>2. u[Len(s) + (k + 1)] \notin keep2
    BY <1>2, <2>1
  <2>3. h[(Len(s) + k) + 1] = IF u[(Len(s) + k) + 1] \in keep2
                              THEN Append(h[Len(s) + k], u[(Len(s) + k) + 1]) ELSE h[Len(s) + k]
    BY <1>5, <2>1 DEF StepsThrough
  <2>4. h[Len(s) + (k + 1)] = h[Len(s) + k]
    BY <2>1, <2>2, <2>3
  <2> QED
    BY <1>10, <2>1, <2>4
<1> HIDE DEF T
<1>11. Len(t) \in T
  BY <1>2, <1>9, <1>10, SetInduction
<1>12. h[Len(u)] = h[Len(s)]
  BY <1>2, <1>11 DEF T
<1> QED
  BY <1>1, <1>5, <1>7, <1>8, <1>12

-----------------------------------------------------------------------------
(* FlattenSeq. *)

\* Flattening passes through the concatenations of the first sequences.
LEMMA FlattenSteps ==
    ASSUME NEW S, NEW ss \in Seq(Seq(S))
    PROVE  \E h : /\ h[0] = <<>> /\ h[Len(ss)] = FlattenSeq(ss)
                  /\ \A k \in 0 .. Len(ss) : h[k] \in Seq(S)
                  /\ \A k \in 0 .. Len(ss) - 1 : h[k + 1] = h[k] \o ss[k + 1]
<1> DEFINE n == Len(ss)
           E(h, k) == [i \in 1 .. k |-> IF i = 1 THEN ss[i] ELSE h[i - 1] \o ss[i]]
           Good(h, k) == h = E(h, k) /\ \A i \in 1 .. k : h[i] \in Seq(S)
           T == {k \in Nat : k <= n => \E h : Good(h, k)}
<1>1. n \in Nat /\ \A i \in 1 .. n : ss[i] \in Seq(S)
  OBVIOUS
<1> HIDE DEF n
<1>2. 0 \in T
  <2>1. Good([i \in 1 .. 0 |-> <<>>], 0)
    OBVIOUS
  <2> HIDE DEF Good
  <2> QED
    BY <2>1
<1>3. ASSUME NEW k \in Nat, k \in T PROVE k + 1 \in T
  <2> SUFFICES ASSUME k + 1 <= n PROVE \E h : Good(h, k + 1)
    <3> HIDE DEF Good
    <3> QED
      OBVIOUS
  <2>0. k <= n /\ k + 1 \in 1 .. n
    BY <1>1
  <2>1. PICK g : Good(g, k)
    BY <1>3, <2>0
  <2>2. PICK x : x = IF k + 1 = 1 THEN ss[k + 1] ELSE g[k] \o ss[k + 1]
    OBVIOUS
  <2>3. x \in Seq(S)
    <3>1. ss[k + 1] \in Seq(S)
      BY <1>1, <2>0
    <3>2. CASE k = 0
      BY <2>2, <3>1, <3>2
    <3>3. CASE k # 0
      <4>1. g[k] \in Seq(S)
        BY <2>1, <3>3
      <4>2. g[k] \o ss[k + 1] \in Seq(S)
        BY <3>1, <4>1
      <4> QED
        BY <2>2, <3>3, <4>2
    <3> QED
      BY <3>2, <3>3
  <2> DEFINE h == [i \in 1 .. k + 1 |-> IF i = k + 1 THEN x ELSE g[i]]
  <2>4. \A i \in 1 .. k + 1 : h[i] \in Seq(S)
    BY <2>1, <2>3
  <2>5. ASSUME NEW i \in 1 .. k + 1 PROVE h[i] = IF i = 1 THEN ss[i] ELSE h[i - 1] \o ss[i]
    <3>1. CASE i = k + 1
      <4>1. h[i] = x /\ (i # 1 => h[i - 1] = g[k])
        BY <3>1
      <4> HIDE DEF h
      <4> QED
        BY <4>1, <2>2, <3>1
    <3>2. CASE i # k + 1
      <4>1. i \in 1 .. k /\ (i # 1 => i - 1 \in 1 .. k)
        BY <3>2
      <4>2. h[i] = g[i] /\ (i # 1 => h[i - 1] = g[i - 1])
        BY <4>1
      <4>3. g[i] = IF i = 1 THEN ss[i] ELSE g[i - 1] \o ss[i]
        BY <2>1, <4>1
      <4> HIDE DEF h
      <4> QED
        BY <4>2, <4>3
    <3> QED
      BY <3>1, <3>2
  <2>6. h = E(h, k + 1)
    <3> DEFINE g2 == E(h, k + 1)
    <3>1. \A i \in 1 .. k + 1 : g2[i] = h[i]
      <4> HIDE DEF h
      <4> QED
        BY <2>5
    <3>2. g2 = [i \in 1 .. k + 1 |-> g2[i]]
      OBVIOUS
    <3>3. h = [i \in 1 .. k + 1 |-> h[i]]
      OBVIOUS
    <3> HIDE DEF h, g2
    <3>4. g2 = h
      BY <3>1, <3>2, <3>3
    <3> QED
      BY <3>4 DEF g2
  <2> HIDE DEF h
  <2>7. Good(h, k + 1)
    BY <2>4, <2>6
  <2> QED
    BY <2>7
<1> HIDE DEF T
<1>4. n \in T
  BY <1>1, <1>2, <1>3, SetInduction
<1>5. PICK g : Good(g, n)
  <2> HIDE DEF Good
  <2> QED
    BY <1>1, <1>4 DEF T
<1> DEFINE ch == CHOOSE h : h = E(h, n)
<1>6. ch = E(ch, n)
  <2>1. g = E(g, n)
    BY <1>5
  <2> HIDE DEF E
  <2> QED
    BY <2>1
<1>7. FlattenSeq(ss) = IF n = 0 THEN ss ELSE ch[n]
  BY DEF FlattenSeq, n
<1> HIDE DEF ch
<1>8. \A k \in 1 .. n : ch[k] \in Seq(S)
  <2> DEFINE U == {k \in Nat : k + 1 <= n => ch[k + 1] \in Seq(S)}
  <2>1. 0 \in U
    BY <1>1, <1>6
  <2>2. ASSUME NEW k \in Nat, k \in U PROVE k + 1 \in U
    <3> SUFFICES ASSUME (k + 1) + 1 <= n PROVE ch[(k + 1) + 1] \in Seq(S)
      OBVIOUS
    <3>1. k + 1 <= n /\ (k + 1) + 1 \in 1 .. n /\ (k + 1) + 1 # 1 /\ ((k + 1) + 1) - 1 = k + 1
      BY <1>1
    <3>2. ch[k + 1] \in Seq(S) /\ ss[(k + 1) + 1] \in Seq(S)
      BY <2>2, <3>1, <1>1
    <3>3. ch[(k + 1) + 1] = ch[k + 1] \o ss[(k + 1) + 1]
      BY <1>6, <3>1
    <3> QED
      BY <3>2, <3>3
  <2> HIDE DEF U
  <2>3. \A k \in Nat : k \in U
    BY <2>1, <2>2, SetInduction
  <2>4. ASSUME NEW k \in 1 .. n PROVE ch[k] \in Seq(S)
    <3>1. k - 1 \in Nat /\ (k - 1) + 1 = k /\ k <= n
      BY <1>1
    <3>2. k - 1 \in U
      BY <2>3, <3>1
    <3> QED
      BY <3>1, <3>2 DEF U
  <2> QED
    BY <2>4
<1>9. n = 0 => ss = <<>>
  BY DEF n
<1> DEFINE f == [k \in 0 .. n |-> IF k = 0 THEN <<>> ELSE ch[k]]
<1>10. f[0] = <<>> /\ f[n] = FlattenSeq(ss) /\ \A k \in 1 .. n : f[k] = ch[k]
  BY <1>1, <1>7, <1>9
<1>11. \A k \in 0 .. n : f[k] \in Seq(S)
  BY <1>1, <1>8
<1> HIDE DEF f
<1>12. ASSUME NEW k \in 0 .. n - 1 PROVE f[k + 1] = f[k] \o ss[k + 1]
  <2>0. k + 1 \in 1 .. n /\ ss[k + 1] \in Seq(S)
    BY <1>1
  <2>1. CASE k = 0
    <3>1. f[k + 1] = ss[k + 1]
      BY <1>6, <1>10, <2>0, <2>1
    <3>2. PICK x : x = ss[k + 1]
      OBVIOUS
    <3>3. <<>> \o x = x
      BY <2>0, <3>2
    <3> QED
      BY <1>10, <2>1, <3>1, <3>2, <3>3
  <2>2. CASE k # 0
    <3>1. k \in 1 .. n /\ k + 1 # 1 /\ (k + 1) - 1 = k
      BY <1>1, <2>2
    <3>2. ch[k + 1] = ch[(k + 1) - 1] \o ss[k + 1]
      BY <1>6, <2>0, <3>1
    <3> QED
      BY <1>10, <2>0, <3>1, <3>2
  <2> QED
    BY <2>1, <2>2
<1> QED
  BY <1>10, <1>11, <1>12 DEF n

\* Flattening sequences over a set gives a sequence over it.
LEMMA FlattenType ==
    ASSUME NEW S, NEW ss \in Seq(Seq(S)) PROVE FlattenSeq(ss) \in Seq(S)
<1>1. PICK h : h[Len(ss)] = FlattenSeq(ss) /\ \A k \in 0 .. Len(ss) : h[k] \in Seq(S)
  BY FlattenSteps
<1>2. Len(ss) \in 0 .. Len(ss)
  OBVIOUS
<1> QED
  BY <1>1, <1>2

-----------------------------------------------------------------------------
(* Increasing enumerations. *)

Increasing(a) == \A i, j \in DOMAIN a : i < j => a[i] < a[j]

\* A finite set of numbers that is not empty has a greatest one.
LEMMA FiniteMax ==
    ASSUME NEW P \in SUBSET Nat, IsFiniteSet(P), P # {}
    PROVE  \E x \in P : \A y \in P : y <= x
<1> DEFINE T == {n \in Nat : \A u \in SUBSET P : Cardinality(u) <= n /\ u # {} => \E x \in u : \A y \in u : y <= x}
<1>1. \A u \in SUBSET P : IsFiniteSet(u) /\ Cardinality(u) \in Nat
  BY FS_Subset, FS_CardinalityType
<1>2. 0 \in T
  <2>1. \A u \in SUBSET P : Cardinality(u) <= 0 => u = {}
    BY <1>1, FS_EmptySet
  <2> QED
    BY <2>1
<1>3. ASSUME NEW n \in Nat, n \in T PROVE n + 1 \in T
  <2> SUFFICES ASSUME NEW u \in SUBSET P, Cardinality(u) <= n + 1, u # {} PROVE \E x \in u : \A y \in u : y <= x
    OBVIOUS
  <2>1. PICK p : p \in u
    OBVIOUS
  <2>2. Cardinality(u \ {p}) <= n /\ u \ {p} \in SUBSET P
    BY <1>1, <2>1, TakeOut
  <2>3. CASE u \ {p} = {}
    <3>1. \A y \in u : y = p
      BY <2>3
    <3> QED
      BY <2>1, <3>1
  <2>4. CASE u \ {p} # {}
    <3>1. PICK x \in u \ {p} : \A y \in u \ {p} : y <= x
      BY <1>3, <2>2, <2>4
    <3>2. CASE p <= x
      <4>1. \A y \in u : y <= x
        BY <3>1, <3>2
      <4> QED
        BY <3>1, <4>1
    <3>3. CASE ~(p <= x)
      <4>1. \A y \in u : y <= p
        BY <2>1, <3>1, <3>3
      <4> QED
        BY <2>1, <4>1
    <3> QED
      BY <3>2, <3>3
  <2> QED
    BY <2>3, <2>4
<1> HIDE DEF T
<1>4. \A n \in Nat : n \in T
  BY <1>2, <1>3, SetInduction
<1> QED
  BY <1>1, <1>4 DEF T

\* A finite set of numbers can be listed from the least to the greatest.
LEMMA EnumerationExists ==
    ASSUME NEW P \in SUBSET Nat, IsFiniteSet(P)
    PROVE  \E a \in [1 .. Cardinality(P) -> P] : Increasing(a)
<1> DEFINE T == {n \in Nat : \A u \in SUBSET P : Cardinality(u) = n => \E a \in [1 .. n -> u] : Increasing(a)}
<1>1. \A u \in SUBSET P : IsFiniteSet(u) /\ Cardinality(u) \in Nat
  BY FS_Subset, FS_CardinalityType
<1>2. 0 \in T
  <2> SUFFICES ASSUME NEW u \in SUBSET P PROVE \E a \in [1 .. 0 -> u] : Increasing(a)
    OBVIOUS
  <2>1. [i \in 1 .. 0 |-> 0] \in [1 .. 0 -> u] /\ Increasing([i \in 1 .. 0 |-> 0])
    BY DEF Increasing
  <2> QED
    BY <2>1
<1>3. ASSUME NEW n \in Nat, n \in T PROVE n + 1 \in T
  <2> SUFFICES ASSUME NEW u \in SUBSET P, Cardinality(u) = n + 1 PROVE \E a \in [1 .. n + 1 -> u] : Increasing(a)
    OBVIOUS
  <2>1. u # {} /\ IsFiniteSet(u) /\ u \in SUBSET Nat
    BY <1>1, FS_EmptySet
  <2>2. PICK x \in u : \A y \in u : y <= x
    BY <2>1, FiniteMax
  <2>3. Cardinality(u \ {x}) = n /\ u \ {x} \in SUBSET P
    BY <1>1, <2>2, TakeOut
  <2>4. PICK b \in [1 .. n -> u \ {x}] : Increasing(b)
    BY <1>3, <2>3
  <2> DEFINE a == [i \in 1 .. n + 1 |-> IF i = n + 1 THEN x ELSE b[i]]
  <2>5. a \in [1 .. n + 1 -> u]
    BY <2>2, <2>4
  <2>6. ASSUME NEW i \in 1 .. n + 1, NEW j \in 1 .. n + 1, i < j PROVE a[i] < a[j]
    <3>1. i \in 1 .. n /\ a[i] = b[i] /\ b[i] \in u /\ b[i] # x
      BY <2>4, <2>6
    <3>2. CASE j = n + 1
      <4>1. a[j] = x /\ b[i] <= x /\ b[i] \in Nat /\ x \in Nat
        BY <2>1, <2>2, <3>1, <3>2
      <4> HIDE DEF a
      <4> QED
        BY <3>1, <4>1
    <3>3. CASE j # n + 1
      <4>1. j \in 1 .. n /\ a[j] = b[j]
        BY <3>3
      <4>2. b[i] < b[j]
        BY <2>4, <2>6, <3>1, <4>1 DEF Increasing
      <4> HIDE DEF a
      <4> QED
        BY <3>1, <4>1, <4>2
    <3> QED
      BY <3>2, <3>3
  <2>7. Increasing(a)
    <3>1. DOMAIN a = 1 .. n + 1
      OBVIOUS
    <3> HIDE DEF a
    <3> QED
      BY <2>6, <3>1 DEF Increasing
  <2> QED
    BY <2>5, <2>7
<1> HIDE DEF T
<1>4. \A n \in Nat : n \in T
  BY <1>2, <1>3, SetInduction
<1> QED
  BY <1>1, <1>4 DEF T

\* Such a list leaves nothing out.
LEMMA EnumerationIsComplete ==
    ASSUME NEW P \in SUBSET Nat, IsFiniteSet(P), NEW a \in [1 .. Cardinality(P) -> P], Increasing(a)
    PROVE  \A x \in P : \E i \in 1 .. Cardinality(P) : a[i] = x
<1> DEFINE n == Cardinality(P)
<1>1. n \in Nat
  BY FS_CardinalityType
<1>a. DOMAIN a = 1 .. n /\ \A i \in 1 .. n : a[i] \in P /\ i \in Int
  BY <1>1
<1>2. \A i, j \in 1 .. n : a[i] = a[j] => i = j
  <2> TAKE i, j \in 1 .. n
  <2>1. i < j => a[i] < a[j]
    BY <1>a DEF Increasing
  <2>2. j < i => a[j] < a[i]
    BY <1>a DEF Increasing
  <2>3. PICK x, y : x = a[i] /\ y = a[j]
    OBVIOUS
  <2>4. x \in Int /\ y \in Int /\ i \in Int /\ j \in Int
    <3>1. x \in P /\ y \in P
      BY <1>a, <2>3, Zenon
    <3> QED
      BY <1>a, <3>1
  <2>5. (i < j => x < y) /\ (j < i => y < x) /\ (a[i] = a[j] => x = y)
    BY <2>1, <2>2, <2>3, Zenon
  <2> QED
    BY <2>4, <2>5
<1>3. a \in Injection(1 .. n, P)
  BY <1>2 DEF Injection, IsInjective
<1>4. Cardinality(1 .. n) = n
  BY <1>1, FS_Interval
<1>5. a \in Surjection(1 .. n, P)
  BY <1>3, <1>4, FS_Injection
<1> QED
  BY <1>5 DEF Surjection

-----------------------------------------------------------------------------
(* Short sequences. *)

\* What a concatenation holds.
LEMMA ConcatFacts ==
    ASSUME NEW S, NEW s \in Seq(S), NEW t \in Seq(S)
    PROVE  /\ s \o t \in Seq(S) /\ Len(s) \in Nat /\ Len(t) \in Nat /\ Len(s \o t) = Len(s) + Len(t)
           /\ \A i \in 1 .. Len(s) : (s \o t)[i] = s[i]
           /\ \A i \in 1 .. Len(t) : (s \o t)[Len(s) + i] = t[i]
  OBVIOUS

\* Two sequences with the same elements are the same.
LEMMA SameElements ==
    ASSUME NEW S, NEW s \in Seq(S), NEW R, NEW t \in Seq(R), Len(s) = Len(t), \A i \in 1 .. Len(s) : s[i] = t[i]
    PROVE  s = t
  OBVIOUS

\* Concatenating one element is appending it; nothing more adds nothing.
LEMMA ConcatOne ==
    ASSUME NEW S, NEW s \in Seq(S), NEW x
    PROVE  s \o <<x>> = Append(s, x) /\ s \o <<>> = s
<1>1. PICK one, R : one = <<x>> /\ R = S \cup {x}
  OBVIOUS
<1>2. s \in Seq(R) /\ one \in Seq(R) /\ Len(one) = 1 /\ one[1] = x
  BY <1>1
<1>3. PICK c, u : c = s \o one /\ u = Append(s, x)
  OBVIOUS
<1>4. /\ c \in Seq(R) /\ Len(s) \in Nat /\ Len(c) = Len(s) + Len(one)
      /\ \A i \in 1 .. Len(s) : c[i] = s[i]
      /\ \A i \in 1 .. Len(one) : c[Len(s) + i] = one[i]
  <2>1. /\ s \o one \in Seq(R) /\ Len(s) \in Nat /\ Len(s \o one) = Len(s) + Len(one)
        /\ \A i \in 1 .. Len(s) : (s \o one)[i] = s[i]
        /\ \A i \in 1 .. Len(one) : (s \o one)[Len(s) + i] = one[i]
    BY <1>2, ConcatFacts
  <2> QED
    BY <1>3, <2>1, Zenon
<1>5. c[Len(s) + 1] = x
  <2>1. 1 \in 1 .. Len(one)
    BY <1>2
  <2> QED
    BY <1>2, <1>4, <2>1
<1>6. u \in Seq(R) /\ Len(u) = Len(s) + 1 /\ u[Len(s) + 1] = x /\ \A i \in 1 .. Len(s) : u[i] = s[i]
  BY <1>1, <1>2, <1>3
<1>7. \A i \in 1 .. Len(c) : c[i] = u[i]
  BY <1>2, <1>4, <1>5, <1>6
<1>8. c = u
  BY <1>2, <1>4, <1>6, <1>7, SameElements
<1>9. s \o <<>> = s
  OBVIOUS
<1> QED
  BY <1>1, <1>3, <1>8, <1>9, Zenon

\* Two elements.
LEMMA Pair ==
    ASSUME NEW a, NEW b
    PROVE  <<a>> \o <<b>> = <<a, b>> /\ Append(<<a>>, b) = <<a, b>> /\ <<a>> \o <<>> = <<a>>
<1>1. PICK one, two, u : one = <<a>> /\ two = <<a, b>> /\ u = Append(one, b)
  OBVIOUS
<1>2. /\ one \in Seq({a, b}) /\ Len(one) = 1 /\ one[1] = a
      /\ two \in Seq({a, b}) /\ Len(two) = 2 /\ two[1] = a /\ two[2] = b
  BY <1>1
<1>3. u \in Seq({a, b}) /\ Len(u) = 2 /\ u[1] = a /\ u[2] = b
  BY <1>1, <1>2
<1>4. \A i \in 1 .. Len(u) : u[i] = two[i]
  BY <1>2, <1>3
<1>5. u = two
  BY <1>2, <1>3, <1>4, SameElements
<1>6. one \o <<b>> = u /\ one \o <<>> = one
  BY <1>1, <1>2, ConcatOne
<1> QED
  BY <1>1, <1>5, <1>6, Zenon

-----------------------------------------------------------------------------
(* The positions a filter keeps. *)

\* p lists, in order, the m positions of s whose elements are in keep.
Selects(p, s, keep, m) ==
    /\ p \in [1 .. m -> 1 .. Len(s)] /\ Increasing(p)
    /\ \A i \in 1 .. Len(s) : s[i] \in keep <=> \E j \in 1 .. m : p[j] = i

\* What is kept stands at increasing positions of the sequence.
LEMMA FilterPositions ==
    ASSUME NEW S, NEW s \in Seq(S), NEW keep
    PROVE  \E p : /\ Selects(p, s, keep, Len(Filter(s, keep)))
                  /\ \A j \in 1 .. Len(Filter(s, keep)) : Filter(s, keep)[j] = s[p[j]]
<1>1. PICK h : FilterRun(h, S, s, keep)
  BY FilterSteps
<1>2. PICK n : n = Len(s)
  OBVIOUS
<1>3. /\ n \in Nat /\ h[0] = <<>> /\ h[n] = Filter(s, keep)
      /\ \A k \in 0 .. n : h[k] \in Seq(S)
      /\ \A k \in 0 .. n - 1 : h[k + 1] = IF s[k + 1] \in keep THEN Append(h[k], s[k + 1]) ELSE h[k]
      /\ \A i \in 1 .. n : s[i] \in S
  BY <1>1, <1>2 DEF FilterRun, StepsThrough
<1> DEFINE Good(p, k) ==
             /\ p \in [1 .. Len(h[k]) -> 1 .. k] /\ Increasing(p)
             /\ \A i \in 1 .. k : s[i] \in keep <=> \E j \in 1 .. Len(h[k]) : p[j] = i
             /\ \A j \in 1 .. Len(h[k]) : h[k][j] = s[p[j]]
           T == {k \in Nat : k <= n => \E p : Good(p, k)}
<1>4. 0 \in T
  <2>1. Good([j \in 1 .. 0 |-> 0], 0)
    BY <1>3 DEF Increasing
  <2> QED
    BY <2>1
<1>5. ASSUME NEW k \in Nat, k \in T PROVE k + 1 \in T
  <2> SUFFICES ASSUME k + 1 <= n PROVE \E p : Good(p, k + 1)
    OBVIOUS
  <2>1. PICK q : Good(q, k)
    <3>1. \E q : Good(q, k)
      <4> HIDE DEF Good
      <4>1. k <= n
        BY <1>3
      <4> QED
        BY <1>5, <4>1
    <3> HIDE DEF Good
    <3> QED
      BY <3>1
  <2>2. PICK m, x, f, g : m = Len(h[k]) /\ x = s[k + 1] /\ f = h[k] /\ g = h[k + 1]
    OBVIOUS
  <2>3. /\ m \in Nat /\ f \in Seq(S) /\ g \in Seq(S) /\ x \in S /\ m = Len(f)
        /\ g = IF x \in keep THEN Append(f, x) ELSE f
    BY <1>3, <2>2
  <2>4. /\ q \in [1 .. m -> 1 .. k] /\ \A i, j \in 1 .. m : i < j => q[i] < q[j]
        /\ \A i \in 1 .. k : s[i] \in keep <=> \E j \in 1 .. m : q[j] = i
        /\ \A j \in 1 .. m : f[j] = s[q[j]]
    BY <2>1, <2>2 DEF Increasing
  <2>5. CASE x \in keep
    <3> DEFINE p == [j \in 1 .. m + 1 |-> IF j = m + 1 THEN k + 1 ELSE q[j]]
    <3>1. Len(g) = m + 1 /\ g[m + 1] = x /\ \A j \in 1 .. m : g[j] = f[j]
      BY <2>3, <2>5
    <3>2. p \in [1 .. m + 1 -> 1 .. k + 1]
      BY <2>3, <2>4
    <3>3. p[m + 1] = k + 1 /\ \A j \in 1 .. m : p[j] = q[j] /\ q[j] \in 1 .. k
      BY <2>3, <2>4, SMTT(30)
    <3> HIDE DEF p
    <3>4. Increasing(p)
      <4> SUFFICES ASSUME NEW i \in 1 .. m + 1, NEW j \in 1 .. m + 1, i < j PROVE p[i] < p[j]
        BY <3>2 DEF Increasing
      <4>1. i \in 1 .. m /\ p[i] = q[i] /\ q[i] \in 1 .. k
        BY <2>3, <3>3
      <4>2. CASE j = m + 1
        BY <4>1, <4>2, <3>3
      <4>3. CASE j # m + 1
        <5>1. j \in 1 .. m
          BY <2>3, <4>3
        <5>2. p[j] = q[j]
          BY <3>3, <5>1
        <5> QED
          BY <2>4, <4>1, <5>1, <5>2
      <4> QED
        BY <4>2, <4>3
    <3>5. ASSUME NEW i \in 1 .. k + 1 PROVE s[i] \in keep <=> \E j \in 1 .. m + 1 : p[j] = i
      <4>1. CASE i = k + 1
        BY <2>2, <2>3, <2>5, <3>3, <4>1
      <4>2. CASE i # k + 1
        <5>1. i \in 1 .. k
          BY <4>2
        <5>2. \A j \in 1 .. m + 1 : p[j] = i => j \in 1 .. m /\ q[j] = i
          BY <2>3, <3>3, <5>1
        <5>3. \A j \in 1 .. m : q[j] = i => j \in 1 .. m + 1 /\ p[j] = i
          BY <2>3, <3>3
        <5> QED
          BY <2>4, <5>1, <5>2, <5>3
      <4> QED
        BY <4>1, <4>2
    <3>6. \A j \in 1 .. m + 1 : g[j] = s[p[j]]
      BY <2>2, <2>3, <2>4, <3>1, <3>3
    <3> QED
      BY <2>2, <3>1, <3>2, <3>4, <3>5, <3>6
  <2>6. CASE x \notin keep
    <3>1. g = f /\ q \in [1 .. m -> 1 .. k + 1]
      BY <2>3, <2>4, <2>6
    <3>2. ASSUME NEW i \in 1 .. k + 1 PROVE s[i] \in keep <=> \E j \in 1 .. m : q[j] = i
      <4>1. CASE i = k + 1
        <5>1. \A j \in 1 .. m : q[j] # k + 1
          BY <2>3, <2>4
        <5> QED
          BY <2>2, <2>6, <4>1, <5>1
      <4>2. CASE i # k + 1
        BY <2>4, <4>2
      <4> QED
        BY <4>1, <4>2
    <3> QED
      BY <2>1, <2>2, <2>4, <3>1, <3>2
  <2> QED
    BY <2>5, <2>6
<1> HIDE DEF T
<1>6. n \in T
  BY <1>3, <1>4, <1>5, SetInduction
<1> QED
  BY <1>2, <1>3, <1>6 DEF T, Selects

\* Two increasing lists of the same numbers are the same list.
LEMMA IncreasingIsUnique ==
    ASSUME NEW m \in Nat, NEW n \in Nat, NEW a \in [1 .. m -> Nat], NEW b \in [1 .. n -> Nat],
           Increasing(a), Increasing(b),
           \A i \in 1 .. m : \E j \in 1 .. n : a[i] = b[j],
           \A j \in 1 .. n : \E i \in 1 .. m : a[i] = b[j]
    PROVE  m = n /\ a = b
<1>0. /\ \A i, j \in 1 .. m : i < j => a[i] < a[j]
      /\ \A i, j \in 1 .. n : i < j => b[i] < b[j]
      /\ \A i \in 1 .. m : a[i] \in Nat
      /\ \A i \in 1 .. n : b[i] \in Nat
  BY DEF Increasing
<1> DEFINE T == {k \in Nat : (k <= m => k <= n) /\ (k <= n => k <= m) /\ (k <= m => \A j \in 1 .. k : a[j] = b[j])}
<1>1. 0 \in T
  OBVIOUS
<1>2. ASSUME NEW k \in Nat, k \in T PROVE k + 1 \in T
  <2>1. k + 1 <= m => k + 1 <= n
    <3> SUFFICES ASSUME k + 1 <= m PROVE k + 1 <= n
      OBVIOUS
    <3>1. PICK j \in 1 .. n : a[k + 1] = b[j]
      OBVIOUS
    <3>2. \A i \in 1 .. k : a[i] = b[i] /\ a[i] < a[k + 1]
      BY <1>0, <1>2
    <3>3. j \notin 1 .. k
      BY <1>0, <3>1, <3>2
    <3> QED
      BY <3>1, <3>3
  <2>2. k + 1 <= n => k + 1 <= m
    <3> SUFFICES ASSUME k + 1 <= n PROVE k + 1 <= m
      OBVIOUS
    <3>1. PICK j \in 1 .. m : a[j] = b[k + 1]
      OBVIOUS
    <3>2. \A i \in 1 .. k : a[i] = b[i] /\ b[i] < b[k + 1]
      BY <1>0, <1>2
    <3>3. j \notin 1 .. k
      BY <1>0, <3>1, <3>2
    <3> QED
      BY <3>1, <3>3
  <2>3. ASSUME k + 1 <= m PROVE a[k + 1] = b[k + 1]
    <3>0. k + 1 \in 1 .. m /\ k + 1 \in 1 .. n
      BY <2>1, <2>3
    <3>1. PICK j \in 1 .. n : a[k + 1] = b[j]
      BY <3>0
    <3>2. PICK i \in 1 .. m : a[i] = b[k + 1]
      BY <3>0
    <3>3. \A l \in 1 .. k : a[l] = b[l] /\ a[l] < a[k + 1] /\ b[l] < b[k + 1]
      BY <1>0, <1>2, <2>1, <2>3
    <3>4. a[k + 1] \in Nat /\ b[k + 1] \in Nat
      BY <1>0, <3>0
    <3>5. j \notin 1 .. k
      <4> SUFFICES ASSUME j \in 1 .. k PROVE FALSE
        OBVIOUS
      <4>1. a[j] = b[j] /\ a[j] < a[k + 1]
        BY <3>3
      <4> QED
        BY <3>1, <3>4, <4>1
    <3>6. i \notin 1 .. k
      <4> SUFFICES ASSUME i \in 1 .. k PROVE FALSE
        OBVIOUS
      <4>1. a[i] = b[i] /\ b[i] < b[k + 1]
        BY <3>3
      <4> QED
        BY <3>2, <3>4, <4>1
    <3>7. (j = k + 1 \/ b[k + 1] < b[j]) /\ (i = k + 1 \/ a[k + 1] < a[i])
      BY <1>0, <3>0, <3>5, <3>6
    <3>8. a[k + 1] <= b[k + 1] /\ b[k + 1] <= a[k + 1]
      <4>1. PICK u, v, x, y : u = b[k + 1] /\ v = a[k + 1] /\ x = b[j] /\ y = a[i]
        OBVIOUS
      <4>2. (u = x \/ u < x) /\ (v = y \/ v < y) /\ u \in Nat /\ v \in Nat
        BY <3>4, <3>7, <4>1, Zenon
      <4>3. v = x /\ y = u
        BY <4>1, <3>1, <3>2, Zenon
      <4>4. u <= v /\ v <= u
        BY <4>2, <4>3
      <4> QED
        BY <4>1, <4>4, Zenon
    <3> QED
      BY <3>4, <3>8
  <2>4. k + 1 <= m => \A j \in 1 .. k + 1 : a[j] = b[j]
    <3> SUFFICES ASSUME k + 1 <= m, NEW j \in 1 .. k + 1 PROVE a[j] = b[j]
      OBVIOUS
    <3>1. CASE j = k + 1
      BY <2>3, <3>1
    <3>2. CASE j # k + 1
      BY <1>2, <3>2
    <3> QED
      BY <3>1, <3>2
  <2> QED
    BY <2>1, <2>2, <2>4
<1> HIDE DEF T
<1>3. m \in T /\ n \in T
  BY <1>1, <1>2, SetInduction
<1>4. m = n /\ \A j \in 1 .. m : a[j] = b[j]
  BY <1>3 DEF T
<1> QED
  BY <1>4

\* The positions determine the result.
LEMMA FilterSelects ==
    ASSUME NEW S, NEW s \in Seq(S), NEW keep, NEW m \in Nat, NEW p, Selects(p, s, keep, m)
    PROVE  /\ Len(Filter(s, keep)) = m
           /\ \A j \in 1 .. m : Filter(s, keep)[j] = s[p[j]]
<1>1. PICK f, n : f = Filter(s, keep) /\ n = Len(f)
  OBVIOUS
<1>2. f \in Seq(S) /\ n \in Nat /\ Len(s) \in Nat
  BY <1>1, FilterType
<1>3. PICK q : Selects(q, s, keep, n) /\ \A j \in 1 .. n : f[j] = s[q[j]]
  BY <1>1, FilterPositions
<1>4. p \in [1 .. m -> Nat] /\ q \in [1 .. n -> Nat] /\ Increasing(p) /\ Increasing(q)
  BY <1>2, <1>3 DEF Selects
<1>5. /\ \A i \in 1 .. m : \E j \in 1 .. n : p[i] = q[j]
      /\ \A j \in 1 .. n : \E i \in 1 .. m : p[i] = q[j]
  BY <1>3 DEF Selects
<1>6. m = n /\ p = q
  BY <1>2, <1>4, <1>5, IncreasingIsUnique
<1> QED
  BY <1>1, <1>3, <1>6

\* The length of the result is the number of the elements that are kept.
LEMMA FilterCounts ==
    ASSUME NEW S, NEW s \in Seq(S), NEW keep
    PROVE  /\ IsFiniteSet({i \in 1 .. Len(s) : s[i] \in keep})
           /\ Len(Filter(s, keep)) = Cardinality({i \in 1 .. Len(s) : s[i] \in keep})
<1>1. PICK m : m = Len(Filter(s, keep))
  OBVIOUS
<1>2. PICK K : K = {i \in 1 .. Len(s) : s[i] \in keep}
  OBVIOUS
<1>3. m \in Nat /\ Len(s) \in Nat
  BY <1>1, FilterType
<1>4. PICK p : Selects(p, s, keep, m)
  BY <1>1, FilterPositions
<1>5. p \in [1 .. m -> K] /\ \A i \in K : \E j \in 1 .. m : p[j] = i
  BY <1>2, <1>4 DEF Selects
<1>6. \A i, j \in 1 .. m : p[i] = p[j] => i = j
  <2> SUFFICES ASSUME NEW i \in 1 .. m, NEW j \in 1 .. m, p[i] = p[j], i # j PROVE FALSE
    OBVIOUS
  <2>1. p[i] \in Nat /\ p[j] \in Nat /\ (i < j => p[i] < p[j]) /\ (j < i => p[j] < p[i])
    BY <1>3, <1>4 DEF Selects, Increasing
  <2> QED
    BY <1>3, <2>1
<1>7. p \in Bijection(1 .. m, K)
  BY <1>5, <1>6 DEF Bijection, Injection, Surjection, IsInjective
<1>8. IsFiniteSet(1 .. m) /\ Cardinality(1 .. m) = m
  BY <1>3, FS_Interval
<1>9. IsFiniteSet(K) /\ Cardinality(K) = m
  BY <1>7, <1>8, FS_Bijection DEF ExistsBijection
<1> QED
  BY <1>1, <1>2, <1>9

\* Filtering twice keeps what is in both sets.
LEMMA FilterTwice ==
    ASSUME NEW S, NEW s \in Seq(S), NEW keep, NEW keep2
    PROVE  Filter(Filter(s, keep), keep2) = Filter(s, keep \cap keep2)
<1>1. PICK g, n : FilterRun(g, S, s, keep) /\ n = Len(s)
  BY FilterSteps
<1>2. PICK h : FilterRun(h, S, s, keep \cap keep2)
  BY FilterSteps
<1>3. /\ n \in Nat /\ g[0] = <<>> /\ h[0] = <<>>
      /\ g[n] = Filter(s, keep) /\ h[n] = Filter(s, keep \cap keep2)
      /\ \A k \in 0 .. n : g[k] \in Seq(S) /\ h[k] \in Seq(S)
      /\ \A i \in 1 .. n : s[i] \in S
  BY <1>1, <1>2 DEF FilterRun, StepsThrough
<1>4. ASSUME NEW k \in 0 .. n - 1
      PROVE  /\ g[k + 1] = IF s[k + 1] \in keep THEN Append(g[k], s[k + 1]) ELSE g[k]
             /\ h[k + 1] = IF s[k + 1] \in keep \cap keep2 THEN Append(h[k], s[k + 1]) ELSE h[k]
  BY <1>1, <1>2, <1>4 DEF FilterRun, StepsThrough
<1> DEFINE T == {k \in Nat : k <= n => Filter(g[k], keep2) = h[k]}
<1>5. 0 \in T
  BY <1>3, FilterEmpty
<1>6. ASSUME NEW k \in Nat, k \in T PROVE k + 1 \in T
  <2> SUFFICES ASSUME k + 1 <= n PROVE Filter(g[k + 1], keep2) = h[k + 1]
    OBVIOUS
  <2>1. k \in 0 .. n - 1 /\ k \in 0 .. n /\ k + 1 \in 1 .. n
    BY <1>3
  <2>2. PICK x, a, b : x = s[k + 1] /\ a = g[k] /\ b = h[k]
    OBVIOUS
  <2>3. x \in S /\ a \in Seq(S) /\ Filter(a, keep2) = b
    BY <1>3, <1>6, <2>1, <2>2
  <2>4. /\ g[k + 1] = IF x \in keep THEN Append(a, x) ELSE a
        /\ h[k + 1] = IF x \in keep \cap keep2 THEN Append(b, x) ELSE b
    BY <1>4, <2>1, <2>2
  <2>5. Filter(Append(a, x), keep2) = IF x \in keep2 THEN Append(Filter(a, keep2), x) ELSE Filter(a, keep2)
    BY <2>3, FilterAppend
  <2> QED
    BY <2>3, <2>4, <2>5, Zenon
<1> HIDE DEF T
<1>7. n \in T
  BY <1>3, <1>5, <1>6, SetInduction
<1> QED
  BY <1>3, <1>7 DEF T

-----------------------------------------------------------------------------
(* Counting by parts. *)

\* The parts that a function divides a finite set into add up to it.
LEMMA SumOfParts ==
    ASSUME NEW P, IsFiniteSet(P), NEW D, IsFiniteSet(D), NEW f \in [P -> D], NEW c,
           \A d \in D : c[d] = Cardinality({x \in P : f[x] = d})
    PROVE  SumFunctionOnSet(c, D) = Cardinality(P)
<1> DEFINE Over(u) == {x \in P : f[x] \in u}
           T == {n \in Nat : \A u \in SUBSET D : Cardinality(u) = n => SumFunctionOnSet(c, u) = Cardinality(Over(u))}
<1>1. \A u \in SUBSET D : IsFiniteSet(u) /\ Cardinality(u) \in Nat
  BY FS_Subset, FS_CardinalityType
<1>2. \A Q \in SUBSET P : IsFiniteSet(Q) /\ Cardinality(Q) \in Nat
  BY FS_Subset, FS_CardinalityType
<1>3. 0 \in T
  <2> SUFFICES ASSUME NEW u \in SUBSET D, Cardinality(u) = 0 PROVE SumFunctionOnSet(c, u) = Cardinality(Over(u))
    OBVIOUS
  <2>1. u = {} /\ Over(u) = {}
    BY <1>1, FS_EmptySet
  <2> QED
    BY <2>1, SumEmpty, FS_EmptySet
<1>4. ASSUME NEW n \in Nat, n \in T PROVE n + 1 \in T
  <2> SUFFICES ASSUME NEW u \in SUBSET D, Cardinality(u) = n + 1 PROVE SumFunctionOnSet(c, u) = Cardinality(Over(u))
    OBVIOUS
  <2>1. u # {} /\ IsFiniteSet(u)
    BY <1>1, FS_EmptySet
  <2>2. PICK y : y \in u
    BY <2>1
  <2>3. Cardinality(u \ {y}) = n /\ u \ {y} \in SUBSET D
    <3>1. Cardinality(u \ {y}) = Cardinality(u) - 1
      BY <2>1, <2>2, TakeOut
    <3> HIDE DEF T
    <3> QED
      BY <3>1
  <2>4. SumFunctionOnSet(c, u \ {y}) = Cardinality(Over(u \ {y}))
    BY <1>4, <2>3
  <2>5. \A x \in u : c[x] \in Int
    <3> TAKE x \in u
    <3>1. PICK Q : Q = {z \in P : f[z] = x}
      OBVIOUS
    <3>2. Q \in SUBSET P /\ c[x] = Cardinality(Q)
      BY <3>1
    <3> QED
      BY <1>2, <3>2
  <2>6. SumFunctionOnSet(c, u) = c[y] + SumFunctionOnSet(c, u \ {y})
    BY <2>1, <2>2, <2>5, SumTakeOut
  <2>7. PICK A, B : A = {x \in P : f[x] = y} /\ B = Over(u \ {y})
    OBVIOUS
  <2>8. A \in SUBSET P /\ B \in SUBSET P /\ A \cap B = {} /\ Over(u) = A \cup B
    BY <2>2, <2>7
  <2>9. IsFiniteSet(A) /\ IsFiniteSet(B) /\ Cardinality(A) \in Nat /\ Cardinality(B) \in Nat
    BY <1>2, <2>8
  <2>10. Cardinality(A \cup B) = Cardinality(A) + Cardinality(B)
    <3>1. Cardinality(A \cup B) = Cardinality(A) + Cardinality(B) - Cardinality(A \cap B)
      BY <2>9, FS_Union
    <3>2. Cardinality(A \cap B) = 0
      BY <2>8, FS_EmptySet
    <3> QED
      BY <2>9, <3>1, <3>2
  <2>11. c[y] = Cardinality(A)
    BY <2>2, <2>7
  <2> HIDE DEF Over
  <2> QED
    BY <2>4, <2>6, <2>7, <2>8, <2>10, <2>11
<1> HIDE DEF T
<1>5. Cardinality(D) \in T
  BY <1>1, <1>3, <1>4, SetInduction
<1>6. SumFunctionOnSet(c, D) = Cardinality(Over(D))
  BY <1>5 DEF T
<1>7. Over(D) = P
  OBVIOUS
<1> QED
  BY <1>6, <1>7

-----------------------------------------------------------------------------
(* The blocks of a flattened sequence. *)

\* Each of the flattened sequences stands in the result after an offset, one
\* after the other, and there is nothing else in it.
Blocks(o, ss, flat) ==
    /\ \A k \in 1 .. Len(ss) : o[k] \in Nat /\ o[k] + Len(ss[k]) <= Len(flat)
    /\ \A k, l \in 1 .. Len(ss) : k < l => o[k] + Len(ss[k]) <= o[l]
    /\ \A k \in 1 .. Len(ss) : \A i \in 1 .. Len(ss[k]) : flat[o[k] + i] = ss[k][i]
    /\ \A x \in 1 .. Len(flat) : \E k \in 1 .. Len(ss) : \E i \in 1 .. Len(ss[k]) : x = o[k] + i

LEMMA FlattenBlocks ==
    ASSUME NEW S, NEW ss \in Seq(Seq(S)) PROVE \E o : Blocks(o, ss, FlattenSeq(ss))
<1>1. PICK h : /\ h[0] = <<>> /\ h[Len(ss)] = FlattenSeq(ss)
               /\ \A k \in 0 .. Len(ss) : h[k] \in Seq(S)
               /\ \A k \in 0 .. Len(ss) - 1 : h[k + 1] = h[k] \o ss[k + 1]
  BY FlattenSteps
<1>2. PICK n : n = Len(ss)
  OBVIOUS
<1>3. PICK o : o = [k \in 1 .. n |-> Len(h[k - 1])]
  OBVIOUS
<1>4. /\ n \in Nat /\ Len(h[0]) = 0
      /\ \A k \in 0 .. n : h[k] \in Seq(S) /\ Len(h[k]) \in Nat
      /\ \A k \in 1 .. n : ss[k] \in Seq(S) /\ Len(ss[k]) \in Nat /\ k - 1 \in 0 .. n
  BY <1>1, <1>2
<1>5. \A k \in 1 .. n : o[k] = Len(h[k - 1]) /\ o[k] \in Nat
  BY <1>3, <1>4
<1>6. ASSUME NEW k \in Nat, k + 1 <= n
      PROVE  /\ k + 1 \in 1 .. n /\ k \in 0 .. n
             /\ o[k + 1] = Len(h[k]) /\ Len(h[k + 1]) = Len(h[k]) + Len(ss[k + 1])
             /\ \A i \in 1 .. Len(h[k]) : h[k + 1][i] = h[k][i]
             /\ \A i \in 1 .. Len(ss[k + 1]) : h[k + 1][o[k + 1] + i] = ss[k + 1][i]
  <2>1. k + 1 \in 1 .. n /\ k \in 0 .. n /\ k \in 0 .. n - 1 /\ (k + 1) - 1 = k
    BY <1>4, <1>6
  <2>2. o[k + 1] = Len(h[k])
    BY <1>5, <2>1
  <2>3. PICK a, b : a = h[k] /\ b = ss[k + 1]
    OBVIOUS
  <2>4. a \in Seq(S) /\ b \in Seq(S)
    BY <1>4, <2>1, <2>3
  <2>5. h[k + 1] = a \o b
    BY <1>1, <1>2, <2>1, <2>3
  <2>6. /\ Len(a \o b) = Len(a) + Len(b)
        /\ \A i \in 1 .. Len(a) : (a \o b)[i] = a[i]
        /\ \A i \in 1 .. Len(b) : (a \o b)[Len(a) + i] = b[i]
    BY <2>4, ConcatFacts
  <2> QED
    BY <2>1, <2>2, <2>3, <2>5, <2>6
<1> DEFINE Good(k) ==
             /\ \A j \in 1 .. k : o[j] + Len(ss[j]) <= Len(h[k])
             /\ \A j \in 1 .. k : \A i \in 1 .. Len(ss[j]) : h[k][o[j] + i] = ss[j][i]
             /\ \A x \in 1 .. Len(h[k]) : \E j \in 1 .. k : \E i \in 1 .. Len(ss[j]) : x = o[j] + i
           T == {k \in Nat : k <= n => Good(k)}
<1>7. 0 \in T
  BY <1>4
<1>8. ASSUME NEW k \in Nat, k \in T PROVE k + 1 \in T
  <2> SUFFICES ASSUME k + 1 <= n PROVE Good(k + 1)
    <3> HIDE DEF Good
    <3> QED
      OBVIOUS
  <2>1. k <= n
    BY <1>4
  <2>2. Good(k)
    <3> HIDE DEF Good
    <3> QED
      BY <1>8, <2>1
  <2>3. PICK a, b, g, lb, w : a = Len(h[k]) /\ b = ss[k + 1] /\ g = h[k + 1] /\ lb = Len(b) /\ w = o[k + 1]
    OBVIOUS
  <2>4. /\ a \in Nat /\ lb \in Nat /\ w = a /\ Len(g) = a + lb
        /\ \A i \in 1 .. a : g[i] = h[k][i]
        /\ \A i \in 1 .. lb : g[w + i] = b[i]
    BY <1>4, <1>6, <2>3
  <2>5. \A j \in 1 .. k : Len(ss[j]) \in Nat /\ o[j] \in Nat
    BY <1>4, <1>5, <2>1
  <2>6. ASSUME NEW j \in 1 .. k + 1 PROVE o[j] + Len(ss[j]) <= a + lb
    <3>1. CASE j = k + 1
      <4>1. o[j] = w /\ Len(ss[j]) = lb
        BY <2>3, <3>1
      <4> QED
        BY <2>4, <4>1
    <3>2. CASE j # k + 1
      <4>1. j \in 1 .. k
        BY <3>2
      <4>2. o[j] + Len(ss[j]) <= a
        BY <2>2, <2>3, <4>1
      <4> QED
        BY <2>4, <2>5, <4>1, <4>2
    <3> QED
      BY <3>1, <3>2
  <2>7. ASSUME NEW j \in 1 .. k + 1, NEW i \in 1 .. Len(ss[j]) PROVE g[o[j] + i] = ss[j][i]
    <3>1. CASE j = k + 1
      <4>1. o[j] = w /\ ss[j] = b /\ i \in 1 .. lb
        BY <2>3, <3>1
      <4> QED
        BY <2>4, <4>1
    <3>2. CASE j # k + 1
      <4>1. j \in 1 .. k
        BY <3>2
      <4>2. o[j] + Len(ss[j]) <= a /\ h[k][o[j] + i] = ss[j][i]
        BY <2>2, <2>3, <4>1
      <4>3. o[j] + i \in 1 .. a
        BY <2>4, <2>5, <4>1, <4>2, SMTT(30)
      <4> QED
        BY <2>4, <4>2, <4>3
    <3> QED
      BY <3>1, <3>2
  <2>8. ASSUME NEW x \in 1 .. a + lb PROVE \E j \in 1 .. k + 1 : \E i \in 1 .. Len(ss[j]) : x = o[j] + i
    <3>1. CASE x <= a
      <4>1. x \in 1 .. a
        BY <2>4, <3>1
      <4>2. PICK j \in 1 .. k : \E i \in 1 .. Len(ss[j]) : x = o[j] + i
        BY <2>2, <2>3, <4>1
      <4>3. j \in 1 .. k + 1
        OBVIOUS
      <4> QED
        BY <4>2, <4>3
    <3>2. CASE x > a
      <4>1. x - a \in 1 .. lb /\ x = w + (x - a)
        BY <2>4, <3>2
      <4>2. k + 1 \in 1 .. k + 1 /\ Len(ss[k + 1]) = lb /\ o[k + 1] = w
        BY <2>3
      <4> QED
        BY <4>1, <4>2
    <3> QED
      BY <2>4, <3>1, <3>2
  <2>9. h[k + 1] = g /\ Len(h[k + 1]) = a + lb
    BY <2>3, <2>4, Zenon
  <2> QED
    BY <2>6, <2>7, <2>8, <2>9, Zenon
<1> HIDE DEF Good
<1>9. \A k \in 0 .. n : Good(k)
  <2> HIDE DEF T
  <2>1. \A k \in Nat : k \in T
    BY <1>7, <1>8, SetInduction
  <2> QED
    BY <2>1, <1>4 DEF T
<1>10. ASSUME NEW k \in 1 .. n, NEW l \in 1 .. n, k < l PROVE o[k] + Len(ss[k]) <= o[l]
  <2>1. l - 1 \in 0 .. n /\ k \in 1 .. l - 1
    BY <1>4, <1>10
  <2> QED
    BY <1>5, <1>9, <2>1 DEF Good
<1>11. PICK f : f = FlattenSeq(ss)
  OBVIOUS
<1>12. Good(n) /\ h[n] = f
  BY <1>1, <1>2, <1>4, <1>9, <1>11
<1>13. Blocks(o, ss, f)
  BY <1>2, <1>5, <1>10, <1>12 DEF Good, Blocks
<1> QED
  BY <1>11, <1>13

\* A recursive function over the positions of a sequence exists: F[a][i] is what
\* position i makes of a.
StepsFrom(h, base, F, n) ==
    h = [i \in 0 .. n |-> IF i = 0 THEN base ELSE F[h[i - 1]][i]]

LEMMA StepsExist ==
    ASSUME NEW n \in Nat, NEW base, NEW F
    PROVE  \E h : StepsFrom(h, base, F, n)
<1> DEFINE T == {k \in Nat : \E h : StepsFrom(h, base, F, k)}
<1>1. 0 \in T
  <2>1. PICK h : h = [i \in 0 .. 0 |-> base]
    OBVIOUS
  <2>2. h = [i \in 0 .. 0 |-> IF i = 0 THEN base ELSE F[h[i - 1]][i]]
    BY <2>1
  <2> QED
    BY <2>2 DEF StepsFrom
<1>2. ASSUME NEW k \in Nat, k \in T PROVE k + 1 \in T
  <2>1. PICK h : StepsFrom(h, base, F, k)
    BY <1>2
  <2>2. h = [i \in 0 .. k |-> IF i = 0 THEN base ELSE F[h[i - 1]][i]]
    BY <2>1 DEF StepsFrom
  <2>3. PICK g : g = [i \in 0 .. k + 1 |-> IF i = 0 THEN base ELSE F[h[i - 1]][i]]
    OBVIOUS
  <2>4. ASSUME NEW i \in 0 .. k PROVE g[i] = h[i]
    BY <2>2, <2>3
  <2>5. ASSUME NEW i \in 0 .. k + 1, i # 0 PROVE g[i - 1] = h[i - 1]
    BY <2>4, <2>5
  <2>6. g = [i \in 0 .. k + 1 |-> IF i = 0 THEN base ELSE F[g[i - 1]][i]]
    BY <2>3, <2>5
  <2> QED
    BY <2>6 DEF StepsFrom
<1> HIDE DEF T
<1>3. n \in T
  BY <1>1, <1>2, SetInduction
<1> QED
  BY <1>3 DEF T

\* It stays where the step stays.
LEMMA StepsStay ==
    ASSUME NEW n \in Nat, NEW A, NEW base \in A, NEW F,
           \A a \in A : \A i \in 1 .. n : F[a][i] \in A,
           NEW h, StepsFrom(h, base, F, n)
    PROVE  \A i \in 0 .. n : h[i] \in A
<1>1. h = [i \in 0 .. n |-> IF i = 0 THEN base ELSE F[h[i - 1]][i]]
  BY DEF StepsFrom
<1> DEFINE T == {k \in Nat : k \in 0 .. n => h[k] \in A}
<1>2. 0 \in T
  BY <1>1
<1>3. ASSUME NEW k \in Nat, k \in T PROVE k + 1 \in T
  <2> SUFFICES ASSUME k + 1 \in 0 .. n PROVE h[k + 1] \in A
    OBVIOUS
  <2>1. k \in 0 .. n /\ k + 1 \in 1 .. n /\ k + 1 # 0 /\ (k + 1) - 1 = k
    OBVIOUS
  <2>2. h[k] \in A
    BY <1>3, <2>1
  <2>3. h[k + 1] = F[h[k]][k + 1]
    BY <1>1, <2>1
  <2> QED
    BY <2>1, <2>2, <2>3
<1> HIDE DEF T
<1>4. \A k \in Nat : k \in T
  BY <1>2, <1>3, SetInduction
<1> QED
  BY <1>4 DEF T
=============================================================================
