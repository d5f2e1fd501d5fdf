----------------------------- MODULE FoldLemmas -----------------------------
(***************************************************************************)
(* Induction, recursion and sums over finite sets, stated with sets and    *)
(* functions in place of the operators of the library's theorems.          *)
(***************************************************************************)
EXTENDS Integers, Functions, FiniteSetTheorems, TLAPS

-----------------------------------------------------------------------------
(* Induction. *)

\* A set of numbers that has 0 and the successor of each of its members.
LEMMA NatSetInduction ==
    ASSUME NEW S \in SUBSET Nat, 0 \in S, \A n \in S : n + 1 \in S
    PROVE  S = Nat
<1> SUFFICES ASSUME Nat \ S # {} PROVE FALSE
  OBVIOUS
<1> DEFINE R == {p \in Nat \X Nat : p[1] < p[2]}
<1>1. IsWellFoundedOn(R, Nat)
  BY NatLessThanWellFounded DEF OpToRel
<1> HIDE DEF R
<1>2. PICK x \in Nat \ S : \A y \in Nat \ S : ~ (<<y, x>> \in R)
  BY <1>1, WFMin
<1>3. x - 1 \in Nat /\ x # 0
  OBVIOUS
<1>4. <<x - 1, x>> \in R
  BY <1>3 DEF R
<1>5. x - 1 \in S
  BY <1>2, <1>3, <1>4
<1> QED  BY <1>3, <1>5

\* A collection of subsets of a finite set that has {} and every set that is
\* one element larger than one of its members.
LEMMA SetInduction ==
    ASSUME NEW S, IsFiniteSet(S), NEW F \in SUBSET (SUBSET S), {} \in F,
           \A T \in F : \A x \in S \ T : T \cup {x} \in F
    PROVE  F = SUBSET S
<1> DEFINE N == {n \in Nat : \A T \in SUBSET S : Cardinality(T) = n => T \in F}
<1>1. 0 \in N
  BY FS_EmptySet, FS_Subset
<1>2. ASSUME NEW n \in N PROVE n + 1 \in N
  <2> SUFFICES ASSUME NEW T \in SUBSET S, Cardinality(T) = n + 1 PROVE T \in F
    OBVIOUS
  <2>1. IsFiniteSet(T) /\ T # {}
    BY FS_Subset, FS_EmptySet
  <2>2. PICK x \in T : TRUE
    BY <2>1
  <2>3. Cardinality(T \ {x}) = n /\ T \ {x} \in SUBSET S
    <3>1. Cardinality(T \ {x}) = Cardinality(T) - 1
      BY <2>1, FS_RemoveElement
    <3> QED  BY <3>1
  <2>4. T \ {x} \in F
    BY <2>3
  <2>5. (T \ {x}) \cup {x} = T /\ x \in S \ (T \ {x})
    OBVIOUS
  <2> QED  BY <2>4, <2>5
<1> HIDE DEF N
<1>3. N = Nat
  <2>1. N \in SUBSET Nat
    BY DEF N
  <2> QED  BY <1>1, <1>2, <2>1, NatSetInduction
<1>4. ASSUME NEW T \in SUBSET S PROVE T \in F
  <2>1. Cardinality(T) \in Nat
    BY FS_Subset, FS_CardinalityType
  <2> QED  BY <1>3, <2>1 DEF N
<1> QED  BY <1>4

-----------------------------------------------------------------------------
(* Recursion over the subsets of a finite set, one element at a time. *)

\* c picks the element that step is applied to last.
Picks(c, S) == \A s \in SUBSET S : s # {} => c[s] \in s

Computes(h, S, V, c, step) ==
    /\ h[{}] \in V
    /\ \A s \in SUBSET S : s # {} /\ h[s \ {c[s]}] \in V => h[s] = step[<<c[s], h[s \ {c[s]}]>>]

Recursion(g, S, base, c, step) ==
    \A s \in SUBSET S : g[s] = IF s = {} THEN base ELSE step[<<c[s], g[s \ {c[s]}]>>]

\* Such a function exists.
LEMMA RecursionExists ==
    ASSUME NEW S, IsFiniteSet(S), NEW V, NEW base \in V, NEW step \in [S \X V -> V],
           NEW c, Picks(c, S)
    PROVE  \E g \in [SUBSET S -> V] : Recursion(g, S, base, c, step)
<1> DEFINE Small(n) == {s \in SUBSET S : Cardinality(s) <= n}
           Upto(g, n) == \A s \in Small(n) :
                           g[s] = IF s = {} THEN base ELSE step[<<c[s], g[s \ {c[s]}]>>]
           N == {n \in Nat : \E g \in [Small(n) -> V] : Upto(g, n)}
<1> HIDE DEF N, Upto
<1>0. ASSUME NEW s \in SUBSET S
      PROVE  /\ Cardinality(s) \in Nat
             /\ Cardinality(s) <= Cardinality(S)
             /\ Cardinality(s) = 0 <=> s = {}
             /\ s # {} => Cardinality(s \ {c[s]}) = Cardinality(s) - 1
  BY FS_Subset, FS_CardinalityType, FS_EmptySet, FS_RemoveElement DEF Picks
<1>1. 0 \in N
  <2> DEFINE g == [s \in Small(0) |-> base]
  <2>1. ASSUME NEW s \in Small(0) PROVE s = {}
    <3>1. s \in SUBSET S /\ Cardinality(s) <= 0
      OBVIOUS
    <3>2. Cardinality(s) \in Nat /\ (Cardinality(s) = 0 <=> s = {})
      BY <1>0, <3>1
    <3>3. Cardinality(s) = 0
      BY <3>1, <3>2
    <3> QED  BY <3>2, <3>3
  <2>2. g \in [Small(0) -> V] /\ \A s \in Small(0) : g[s] = base
    OBVIOUS
  <2> HIDE DEF g, Small
  <2>3. Upto(g, 0)
    BY <2>1, <2>2 DEF Upto
  <2> QED  BY <2>2, <2>3 DEF N
<1>2. ASSUME NEW n \in N PROVE n + 1 \in N
  <2>0. n \in Nat
    BY DEF N
  <2>1. PICK g \in [Small(n) -> V] : Upto(g, n)
    BY DEF N
  <2> DEFINE h == [s \in Small(n + 1) |->
                     IF s \in Small(n) THEN g[s] ELSE step[<<c[s], g[s \ {c[s]}]>>]]
  <2>2. ASSUME NEW s \in Small(n + 1), s # {}
        PROVE  c[s] \in S /\ s \ {c[s]} \in Small(n) /\ s \ {c[s]} \in Small(n + 1)
    <3>1. s \in SUBSET S /\ Cardinality(s) <= n + 1 /\ Cardinality(s) \in Nat
      BY <1>0
    <3>2. c[s] \in S /\ s \ {c[s]} \in SUBSET S /\ Cardinality(s \ {c[s]}) = Cardinality(s) - 1
      BY <1>0, <2>2, <3>1 DEF Picks
    <3>3. Cardinality(s \ {c[s]}) <= n /\ Cardinality(s \ {c[s]}) <= n + 1
      BY <2>0, <3>1, <3>2
    <3> QED  BY <3>2, <3>3
  <2>3. {} \in Small(n)
    <3>1. Cardinality({}) = 0
      BY FS_EmptySet
    <3> QED  BY <2>0, <3>1
  <2> HIDE DEF Small
  <2>4. h \in [Small(n + 1) -> V]
    BY <2>2, <2>3
  <2>5. ASSUME NEW s \in Small(n + 1)
        PROVE  h[s] = IF s = {} THEN base ELSE step[<<c[s], h[s \ {c[s]}]>>]
    BY <2>1, <2>2, <2>3 DEF Upto
  <2> HIDE DEF h
  <2>6. Upto(h, n + 1)
    BY <2>5 DEF Upto
  <2> QED  BY <2>0, <2>4, <2>6 DEF N
<1>3. N = Nat
  <2>1. N \in SUBSET Nat
    BY DEF N
  <2> QED  BY <1>1, <1>2, <2>1, NatSetInduction
<1>4. Cardinality(S) \in Nat /\ Small(Cardinality(S)) = SUBSET S
  BY <1>0
<1> HIDE DEF Small
<1>5. PICK g \in [Small(Cardinality(S)) -> V] : Upto(g, Cardinality(S))
  BY <1>3, <1>4 DEF N
<1> QED  BY <1>4, <1>5 DEF Upto, Recursion

\* A collection of subsets that has {} and every set that it has without the
\* element c picks.
LEMMA RemovalInduction ==
    ASSUME NEW S, IsFiniteSet(S), NEW c, Picks(c, S), NEW F \in SUBSET (SUBSET S), {} \in F,
           \A s \in SUBSET S : s # {} /\ s \ {c[s]} \in F => s \in F
    PROVE  F = SUBSET S
<1> DEFINE N == {n \in Nat : \A s \in SUBSET S : Cardinality(s) = n => s \in F}
<1>0. ASSUME NEW s \in SUBSET S
      PROVE  /\ Cardinality(s) \in Nat
             /\ Cardinality(s) = 0 <=> s = {}
             /\ s # {} => Cardinality(s \ {c[s]}) = Cardinality(s) - 1
  BY FS_Subset, FS_CardinalityType, FS_EmptySet, FS_RemoveElement DEF Picks
<1>1. 0 \in N
  BY <1>0
<1>2. ASSUME NEW n \in N PROVE n + 1 \in N
  <2> SUFFICES ASSUME NEW s \in SUBSET S, Cardinality(s) = n + 1 PROVE s \in F
    OBVIOUS
  <2>1. s # {}
    BY <1>0
  <2>2. Cardinality(s \ {c[s]}) = n /\ s \ {c[s]} \in SUBSET S
    <3>1. Cardinality(s \ {c[s]}) = Cardinality(s) - 1
      BY <1>0, <2>1
    <3> QED  BY <3>1
  <2> QED  BY <2>1, <2>2
<1> HIDE DEF N
<1>3. N = Nat
  <2>1. N \in SUBSET Nat
    BY DEF N
  <2> QED  BY <1>1, <1>2, <2>1, NatSetInduction
<1> QED  BY <1>0, <1>3 DEF N

\* Whatever computes like it where the step applies is such a function.
LEMMA RecursionTyped ==
    ASSUME NEW S, IsFiniteSet(S), NEW V, NEW step \in [S \X V -> V],
           NEW c, Picks(c, S), NEW h, Computes(h, S, V, c, step)
    PROVE  \A s \in SUBSET S : h[s] \in V
<1> DEFINE F == {s \in SUBSET S : h[s] \in V}
<1>1. {} \in F
  BY DEF Computes
<1>2. ASSUME NEW s \in SUBSET S, s # {}, s \ {c[s]} \in F PROVE s \in F
  <2>1. h[s \ {c[s]}] \in V /\ c[s] \in S
    BY <1>2 DEF Picks
  <2>2. h[s] = step[<<c[s], h[s \ {c[s]}]>>]
    BY <1>2, <2>1 DEF Computes
  <2> QED  BY <2>1, <2>2
<1>3. F \in SUBSET (SUBSET S)
  OBVIOUS
<1> HIDE DEF F
<1>4. F = SUBSET S
  BY <1>1, <1>2, <1>3, RemovalInduction
<1> QED  BY <1>4 DEF F

\* The steps of a function from a start.
Iterates(h, n, a, step) == h[0] = a /\ \A k \in 0 .. n - 1 : h[k + 1] = step[h[k]]

LEMMA IteratesExist ==
    ASSUME NEW X, NEW a \in X, NEW step \in [X -> X], NEW m \in Nat
    PROVE  \E h \in [0 .. m -> X] : Iterates(h, m, a, step)
<1> DEFINE N == {n \in Nat : \E h \in [0 .. n -> X] : Iterates(h, n, a, step)}
<1>1. 0 \in N
  <2> DEFINE h == [i \in 0 .. 0 |-> a]
  <2>1. h \in [0 .. 0 -> X] /\ Iterates(h, 0, a, step)
    BY DEF Iterates
  <2> HIDE DEF h
  <2> QED  BY <2>1
<1>2. ASSUME NEW n \in N PROVE n + 1 \in N
  <2>1. n \in Nat
    OBVIOUS
  <2>2. PICK h \in [0 .. n -> X] : Iterates(h, n, a, step)
    OBVIOUS
  <2> DEFINE g == [i \in 0 .. n + 1 |-> IF i = n + 1 THEN step[h[n]] ELSE h[i]]
  <2>3. g \in [0 .. n + 1 -> X]
    BY <2>1
  <2>4. g[0] = a
    BY <2>1, <2>2 DEF Iterates
  <2>5. ASSUME NEW k \in 0 .. (n + 1) - 1 PROVE g[k + 1] = step[g[k]]
    <3>1. g[k] = h[k]
      BY <2>1
    <3>2. CASE k = n
      BY <2>1, <3>1, <3>2
    <3>3. CASE k # n
      <4>1. k \in 0 .. n - 1 /\ k + 1 \in 0 .. n + 1 /\ k + 1 # n + 1
        BY <2>1, <3>3
      <4> QED  BY <2>2, <3>1, <4>1 DEF Iterates
    <3> QED  BY <3>2, <3>3
  <2> HIDE DEF g
  <2>6. Iterates(g, n + 1, a, step)
    BY <2>4, <2>5 DEF Iterates
  <2> QED  BY <2>1, <2>3, <2>6
<1>3. N = Nat
  <2>1. N \in SUBSET Nat
    OBVIOUS
  <2> HIDE DEF N
  <2> QED  BY <1>1, <1>2, <2>1, NatSetInduction
<1> QED  BY <1>3

-----------------------------------------------------------------------------
(* Sums. *)

IntOn(f, S) == \A x \in S : f[x] \in Int

\* g[s] is the sum of f over s, taken in some order, for every part s of S.
SumsInOrder(g, f, S) ==
    /\ g \in [SUBSET S -> Int]
    /\ g[{}] = 0
    /\ \A s \in SUBSET S : s # {} => \E x \in s : g[s] = f[x] + g[s \ {x}]

\* What SumFunctionOnSet computes, one element after the other.
LEMMA SumRecursion ==
    ASSUME NEW S, IsFiniteSet(S), NEW f, IntOn(f, S)
    PROVE  \E g : SumsInOrder(g, f, S) /\ SumFunctionOnSet(f, S) = g[S]
<1> DEFINE Eq(h) == h = [s \in SUBSET S |->
                           IF s = {} THEN 0
                           ELSE f[CHOOSE x \in s : TRUE] + h[s \ {CHOOSE x \in s : TRUE}]]
           it == CHOOSE h : Eq(h)
           c == [s \in SUBSET S |-> CHOOSE x \in s : TRUE]
           V == Int
           step == [p \in S \X V |-> f[p[1]] + p[2]]
<1>1. SumFunctionOnSet(f, S) = it[S]
  BY DEF SumFunctionOnSet, FoldFunctionOnSet, MapThenFoldSet
<1>2. ASSUME NEW s \in SUBSET S, s # {}
      PROVE  (CHOOSE x \in s : TRUE) \in s /\ c[s] = CHOOSE x \in s : TRUE
  BY <1>2
<1>3. step \in [S \X V -> V] /\ 0 \in V
  BY DEF IntOn
<1>4. ASSUME NEW h \in [SUBSET S -> Int] PROVE Recursion(h, S, 0, c, step) => Eq(h)
  <2> SUFFICES ASSUME Recursion(h, S, 0, c, step) PROVE Eq(h)
    OBVIOUS
  <2>1. ASSUME NEW s \in SUBSET S
        PROVE  h[s] = IF s = {} THEN 0
                      ELSE f[CHOOSE x \in s : TRUE] + h[s \ {CHOOSE x \in s : TRUE}]
    BY <1>2 DEF Recursion
  <2> QED  BY <2>1
<1>5. PICK g \in [SUBSET S -> V] : Recursion(g, S, 0, c, step)
  <2>1. Picks(c, S)
    BY <1>2 DEF Picks
  <2> HIDE DEF c, step, V
  <2> QED  BY <1>3, <2>1, RecursionExists
<1>6. Eq(g)
  BY <1>4, <1>5
<1>7. Eq(it)
  BY <1>6
<1>8. \A s \in SUBSET S : it[s] \in Int
  <2>1. Picks(c, S)
    BY <1>2 DEF Picks
  <2>2. it[{}] \in V
    <3>1. it[{}] = 0
      BY <1>7
    <3> QED  BY <3>1
  <2>3. ASSUME NEW s \in SUBSET S, s # {}, it[s \ {c[s]}] \in V
        PROVE  it[s] = step[<<c[s], it[s \ {c[s]}]>>]
    <3>1. it[s] = f[c[s]] + it[s \ {c[s]}]
      BY <1>2, <1>7, <2>3
    <3>2. c[s] \in S
      BY <2>1, <2>3 DEF Picks
    <3>3. step[<<c[s], it[s \ {c[s]}]>>] = f[c[s]] + it[s \ {c[s]}]
      <4> HIDE DEF c, it
      <4> QED  BY <2>3, <3>2
    <3> QED  BY <3>1, <3>3
  <2> HIDE DEF c, step, it, V
  <2>4. Computes(it, S, V, c, step)
    BY <2>2, <2>3 DEF Computes
  <2>5. \A s \in SUBSET S : it[s] \in V
    BY <1>3, <2>1, <2>4, RecursionTyped
  <2> QED  BY <2>5 DEF V
<1>9. it \in [SUBSET S -> Int]
  BY <1>7, <1>8
<1>10. it[{}] = 0
  BY <1>7
<1>11. ASSUME NEW s \in SUBSET S, s # {} PROVE \E x \in s : it[s] = f[x] + it[s \ {x}]
  <2>1. it[s] = f[c[s]] + it[s \ {c[s]}]
    BY <1>2, <1>7, <1>11
  <2> HIDE DEF it, c
  <2> QED  BY <1>2, <1>11, <2>1
<1> HIDE DEF it
<1>12. SumsInOrder(it, f, S)
  BY <1>9, <1>10, <1>11 DEF SumsInOrder
<1> QED  BY <1>1, <1>12

\* The same, in any order.
Sums(g, f, S) ==
    /\ g \in [SUBSET S -> Int]
    /\ g[{}] = 0
    /\ \A s \in SUBSET S : \A x \in s : g[s] = f[x] + g[s \ {x}]

\* The order in which a sum is taken does not matter.
LEMMA SumAnyOrder ==
    ASSUME NEW S, IsFiniteSet(S), NEW f, IntOn(f, S)
    PROVE  \E g : Sums(g, f, S) /\ SumFunctionOnSet(f, S) = g[S]
<1>1. PICK g : SumsInOrder(g, f, S) /\ SumFunctionOnSet(f, S) = g[S]
  BY SumRecursion
<1> DEFINE N == {n \in Nat : \A s \in SUBSET S : Cardinality(s) = n =>
                               \A x \in s : g[s] = f[x] + g[s \ {x}]}
<1> HIDE DEF N
<1>3. ASSUME NEW s \in SUBSET S
      PROVE  /\ Cardinality(s) \in Nat
             /\ Cardinality(s) = 0 <=> s = {}
             /\ \A x \in s : Cardinality(s \ {x}) = Cardinality(s) - 1
  BY FS_Subset, FS_CardinalityType, FS_EmptySet, FS_RemoveElement
<1>4. 0 \in N
  BY <1>3 DEF N
<1>5. ASSUME NEW n \in N PROVE n + 1 \in N
  <2>0. n \in Nat
    BY DEF N
  <2>1. ASSUME NEW s \in SUBSET S, Cardinality(s) = n + 1, NEW x \in s
        PROVE  g[s] = f[x] + g[s \ {x}]
    <3>1. PICK c \in s : g[s] = f[c] + g[s \ {c}]
      BY <1>1 DEF SumsInOrder
    <3>2. CASE c = x
      BY <3>1, <3>2
    <3>3. CASE c # x
      <4>1. /\ s \ {c} \in SUBSET S /\ x \in s \ {c}
            /\ s \ {x} \in SUBSET S /\ c \in s \ {x}
            /\ (s \ {c}) \ {x} = (s \ {x}) \ {c} /\ (s \ {x}) \ {c} \in SUBSET S
        BY <3>3
      <4>2. Cardinality(s \ {c}) = n /\ Cardinality(s \ {x}) = n
        <5>1. Cardinality(s \ {c}) = Cardinality(s) - 1 /\ Cardinality(s \ {x}) = Cardinality(s) - 1
          BY <1>3
        <5> QED  BY <2>0, <2>1, <5>1
      <4>3. g[s \ {c}] = f[x] + g[(s \ {c}) \ {x}]
        BY <4>1, <4>2 DEF N
      <4>4. g[s \ {x}] = f[c] + g[(s \ {x}) \ {c}]
        BY <4>1, <4>2 DEF N
      <4>5. f[x] \in Int /\ f[c] \in Int /\ g[(s \ {x}) \ {c}] \in Int
        BY <1>1, <4>1 DEF IntOn, SumsInOrder
      <4>6. \A i, j, k \in Int : i + (j + k) = j + (i + k)
        OBVIOUS
      <4>7. g[s] = f[c] + (f[x] + g[(s \ {x}) \ {c}])
        BY <3>1, <4>1, <4>3
      <4> QED  BY <4>4, <4>5, <4>6, <4>7
    <3> QED  BY <3>2, <3>3
  <2> QED  BY <2>0, <2>1, SMTT(30) DEF N
<1>6. N = Nat
  <2>1. N \in SUBSET Nat
    BY DEF N
  <2> QED  BY <1>4, <1>5, <2>1, NatSetInduction
<1>7. \A s \in SUBSET S : \A x \in s : g[s] = f[x] + g[s \ {x}]
  BY <1>3, <1>6 DEF N
<1> QED  BY <1>1, <1>7 DEF Sums, SumsInOrder

\* A sum over a set is the sum over the set without one of its members, and
\* that member.
LEMMA SumOnSet ==
    ASSUME NEW S, IsFiniteSet(S), NEW f, IntOn(f, S)
    PROVE  /\ SumFunctionOnSet(f, S) \in Int
           /\ S = {} => SumFunctionOnSet(f, S) = 0
           /\ \A x \in S : SumFunctionOnSet(f, S) = f[x] + SumFunctionOnSet(f, S \ {x})
<1>1. PICK g : Sums(g, f, S) /\ SumFunctionOnSet(f, S) = g[S]
  BY SumAnyOrder
<1>2. ASSUME NEW x \in S PROVE SumFunctionOnSet(f, S) = f[x] + SumFunctionOnSet(f, S \ {x})
  <2> DEFINE T == S \ {x}
  <2>1. IsFiniteSet(T) /\ T \subseteq S /\ IntOn(f, T)
    BY FS_RemoveElement DEF IntOn
  <2> HIDE DEF T
  <2>2. PICK h : Sums(h, f, T) /\ SumFunctionOnSet(f, T) = h[T]
    BY <2>1, SumAnyOrder
  <2> DEFINE F == {s \in SUBSET T : g[s] = h[s]}
  <2>3. {} \in F
    BY <1>1, <2>2 DEF Sums
  <2>4. ASSUME NEW s \in F, NEW y \in T \ s PROVE s \cup {y} \in F
    <3>1. s \cup {y} \in SUBSET T /\ s \cup {y} \in SUBSET S /\ (s \cup {y}) \ {y} = s
      BY <2>1
    <3>2. g[s \cup {y}] = f[y] + g[s] /\ h[s \cup {y}] = f[y] + h[s]
      <4>1. \A z \in s \cup {y} : g[s \cup {y}] = f[z] + g[(s \cup {y}) \ {z}]
        BY <1>1, <3>1 DEF Sums
      <4>2. \A z \in s \cup {y} : h[s \cup {y}] = f[z] + h[(s \cup {y}) \ {z}]
        BY <2>2, <3>1 DEF Sums
      <4> QED  BY <3>1, <4>1, <4>2
    <3> QED  BY <3>1, <3>2
  <2>5. F = SUBSET T
    <3>1. F \in SUBSET (SUBSET T)
      OBVIOUS
    <3> HIDE DEF F
    <3> QED  BY <2>1, <2>3, <2>4, <3>1, SetInduction
  <2>6. g[T] = h[T]
    BY <2>5
  <2>7. g[S] = f[x] + g[T]
    BY <1>1 DEF Sums, T
  <2> QED  BY <1>1, <2>2, <2>6, <2>7 DEF T
<1> QED  BY <1>1, <1>2 DEF Sums

\* A sum has one more summand.
LEMMA SumAdd ==
    ASSUME NEW S, IsFiniteSet(S), NEW f, IntOn(f, S), NEW x \in S
    PROVE  /\ SumFunctionOnSet(f, S) \in Int /\ SumFunctionOnSet(f, S \ {x}) \in Int /\ f[x] \in Int
           /\ SumFunctionOnSet(f, S) = f[x] + SumFunctionOnSet(f, S \ {x})
<1>1. IsFiniteSet(S \ {x}) /\ IntOn(f, S \ {x})
  BY FS_RemoveElement DEF IntOn
<1>2. f[x] \in Int
  BY DEF IntOn
<1> QED  BY <1>1, <1>2, SumOnSet

LEMMA SumInsert ==
    ASSUME NEW T, IsFiniteSet(T), NEW x, x \notin T, NEW f, IntOn(f, T \cup {x})
    PROVE  /\ SumFunctionOnSet(f, T) \in Int /\ f[x] \in Int
           /\ SumFunctionOnSet(f, T \cup {x}) = f[x] + SumFunctionOnSet(f, T)
<1> DEFINE S == T \cup {x}
<1>1. IsFiniteSet(S) /\ x \in S /\ S \ {x} = T
  BY FS_AddElement
<1> HIDE DEF S
<1>2. IntOn(f, S)
  BY DEF S
<1>3. SumFunctionOnSet(f, S) = f[x] + SumFunctionOnSet(f, T) /\ SumFunctionOnSet(f, T) \in Int /\ f[x] \in Int
  BY <1>1, <1>2, SumAdd
<1> QED  BY <1>3 DEF S

\* Equal summands, equal sums.
LEMMA SumEqual ==
    ASSUME NEW S, IsFiniteSet(S), NEW f, IntOn(f, S), NEW g, \A x \in S : f[x] = g[x]
    PROVE  SumFunctionOnSet(f, S) = SumFunctionOnSet(g, S)
<1> DEFINE F == {T \in SUBSET S : SumFunctionOnSet(f, T) = SumFunctionOnSet(g, T)}
<1>0. ASSUME NEW T \in SUBSET S PROVE IsFiniteSet(T) /\ IntOn(f, T) /\ IntOn(g, T)
  BY FS_Subset DEF IntOn
<1>1. {} \in F
  <2>1. SumFunctionOnSet(f, {}) = 0
    BY <1>0, SumOnSet
  <2>2. SumFunctionOnSet(g, {}) = 0
    BY <1>0, SumOnSet
  <2> QED  BY <2>1, <2>2
<1>2. ASSUME NEW T \in F, NEW x \in S \ T PROVE T \cup {x} \in F
  <2>1. T \cup {x} \in SUBSET S /\ (T \cup {x}) \ {x} = T /\ x \in T \cup {x}
    OBVIOUS
  <2>2. SumFunctionOnSet(f, T \cup {x}) = f[x] + SumFunctionOnSet(f, T)
    BY <1>0, <2>1, SumInsert
  <2>3. SumFunctionOnSet(g, T \cup {x}) = g[x] + SumFunctionOnSet(g, T)
    BY <1>0, <2>1, SumInsert
  <2> QED  BY <2>1, <2>2, <2>3
<1>3. F \in SUBSET (SUBSET S)
  OBVIOUS
<1> HIDE DEF F
<1>4. F = SUBSET S
  BY <1>1, <1>2, <1>3, SetInduction
<1> QED  BY <1>4 DEF F

\* One summand changes.
ChangesAt(f, g, S, a) == g[a] \in Int /\ \A x \in S \ {a} : g[x] = f[x]

LEMMA SumChange ==
    ASSUME NEW S, IsFiniteSet(S), NEW f, IntOn(f, S), NEW g, NEW a \in S, ChangesAt(f, g, S, a)
    PROVE  /\ SumFunctionOnSet(f, S) \in Int /\ SumFunctionOnSet(g, S) \in Int /\ f[a] \in Int
           /\ SumFunctionOnSet(g, S) = SumFunctionOnSet(f, S) + (g[a] - f[a])
<1>1. IntOn(g, S)
  BY DEF IntOn, ChangesAt
<1>2. IsFiniteSet(S \ {a}) /\ IntOn(f, S \ {a})
  BY FS_RemoveElement DEF IntOn
<1>3. SumFunctionOnSet(f, S \ {a}) = SumFunctionOnSet(g, S \ {a})
  BY <1>2, SumEqual DEF ChangesAt
<1>4. /\ SumFunctionOnSet(f, S) \in Int /\ SumFunctionOnSet(f, S \ {a}) \in Int /\ f[a] \in Int
      /\ SumFunctionOnSet(f, S) = f[a] + SumFunctionOnSet(f, S \ {a})
  BY SumAdd
<1>5. /\ SumFunctionOnSet(g, S) \in Int /\ SumFunctionOnSet(g, S \ {a}) \in Int /\ g[a] \in Int
      /\ SumFunctionOnSet(g, S) = g[a] + SumFunctionOnSet(g, S \ {a})
  BY <1>1, SumAdd
<1> QED  BY <1>3, <1>4, <1>5

\* A sum of natural numbers is at least each of them.
LEMMA SumNat ==
    ASSUME NEW S, IsFiniteSet(S), NEW f, \A x \in S : f[x] \in Nat
    PROVE  /\ SumFunctionOnSet(f, S) \in Nat
           /\ \A x \in S : f[x] <= SumFunctionOnSet(f, S)
<1> DEFINE F == {T \in SUBSET S : SumFunctionOnSet(f, T) \in Nat}
<1>0. ASSUME NEW T \in SUBSET S PROVE IsFiniteSet(T) /\ IntOn(f, T)
  BY FS_Subset DEF IntOn
<1>1. {} \in F
  <2>1. SumFunctionOnSet(f, {}) = 0
    BY <1>0, SumOnSet
  <2> QED  BY <2>1
<1>2. ASSUME NEW T \in F, NEW x \in S \ T PROVE T \cup {x} \in F
  <2>1. T \cup {x} \in SUBSET S /\ (T \cup {x}) \ {x} = T /\ x \in T \cup {x}
    OBVIOUS
  <2>2. SumFunctionOnSet(f, T \cup {x}) = f[x] + SumFunctionOnSet(f, T)
    BY <1>0, <2>1, SumInsert
  <2>3. f[x] \in Nat
    OBVIOUS
  <2> QED  BY <2>1, <2>2, <2>3
<1>3. F \in SUBSET (SUBSET S)
  OBVIOUS
<1> HIDE DEF F
<1>4. F = SUBSET S
  BY <1>1, <1>2, <1>3, SetInduction
<1>5. ASSUME NEW x \in S PROVE f[x] <= SumFunctionOnSet(f, S)
  <2>1. SumFunctionOnSet(f, S) = f[x] + SumFunctionOnSet(f, S \ {x})
    BY <1>0, SumAdd
  <2>2. SumFunctionOnSet(f, S \ {x}) \in Nat
    BY <1>4 DEF F
  <2>3. f[x] \in Nat
    OBVIOUS
  <2> QED  BY <2>1, <2>2, <2>3
<1> QED  BY <1>4, <1>5 DEF F

\* The sum of the sums.
LEMMA SumPlus ==
    ASSUME NEW S, IsFiniteSet(S), NEW f, IntOn(f, S), NEW g, IntOn(g, S),
           NEW h, \A x \in S : h[x] = f[x] + g[x]
    PROVE  /\ SumFunctionOnSet(f, S) \in Int /\ SumFunctionOnSet(g, S) \in Int
           /\ SumFunctionOnSet(h, S) = SumFunctionOnSet(f, S) + SumFunctionOnSet(g, S)
<1> DEFINE F == {T \in SUBSET S : SumFunctionOnSet(h, T) = SumFunctionOnSet(f, T) + SumFunctionOnSet(g, T)}
<1>0. ASSUME NEW T \in SUBSET S
      PROVE  /\ IsFiniteSet(T) /\ IntOn(f, T) /\ IntOn(g, T) /\ IntOn(h, T)
             /\ SumFunctionOnSet(f, T) \in Int /\ SumFunctionOnSet(g, T) \in Int
  <2>1. IsFiniteSet(T) /\ IntOn(f, T) /\ IntOn(g, T) /\ IntOn(h, T)
    BY FS_Subset DEF IntOn
  <2> QED  BY <2>1, SumOnSet
<1>1. {} \in F
  <2>1. SumFunctionOnSet(f, {}) = 0 /\ SumFunctionOnSet(g, {}) = 0 /\ SumFunctionOnSet(h, {}) = 0
    BY <1>0, SumOnSet
  <2> QED  BY <2>1
<1>2. ASSUME NEW T \in F, NEW x \in S \ T PROVE T \cup {x} \in F
  <2>1. T \cup {x} \in SUBSET S /\ T \in SUBSET S /\ x \notin T
    OBVIOUS
  <2>2. SumFunctionOnSet(f, T \cup {x}) = f[x] + SumFunctionOnSet(f, T)
    BY <1>0, <2>1, SumInsert
  <2>3. SumFunctionOnSet(g, T \cup {x}) = g[x] + SumFunctionOnSet(g, T)
    BY <1>0, <2>1, SumInsert
  <2>4. SumFunctionOnSet(h, T \cup {x}) = h[x] + SumFunctionOnSet(h, T)
    BY <1>0, <2>1, SumInsert
  <2>5. f[x] \in Int /\ g[x] \in Int /\ h[x] = f[x] + g[x]
    BY DEF IntOn
  <2>6. SumFunctionOnSet(f, T) \in Int /\ SumFunctionOnSet(g, T) \in Int
    BY <1>0, <2>1
  <2>7. SumFunctionOnSet(h, T) = SumFunctionOnSet(f, T) + SumFunctionOnSet(g, T)
    OBVIOUS
  <2>8. SumFunctionOnSet(h, T \cup {x}) = SumFunctionOnSet(f, T \cup {x}) + SumFunctionOnSet(g, T \cup {x})
    BY ONLY <2>2, <2>3, <2>4, <2>5, <2>6, <2>7
  <2> QED  BY <2>1, <2>8
<1>3. F \in SUBSET (SUBSET S)
  OBVIOUS
<1> HIDE DEF F
<1>4. F = SUBSET S
  BY <1>1, <1>2, <1>3, SetInduction
<1> QED  BY <1>0, <1>4 DEF F

\* Sums compare as their summands do, also with a factor on each side.
LEMMA SumScaled ==
    ASSUME NEW S, IsFiniteSet(S), NEW f, IntOn(f, S), NEW g, IntOn(g, S),
           NEW m \in Int, NEW n \in Int, \A x \in S : m * f[x] <= n * g[x]
    PROVE  m * SumFunctionOnSet(f, S) <= n * SumFunctionOnSet(g, S)
<1> DEFINE F == {T \in SUBSET S : m * SumFunctionOnSet(f, T) <= n * SumFunctionOnSet(g, T)}
<1>0. ASSUME NEW T \in SUBSET S
      PROVE  /\ IsFiniteSet(T) /\ IntOn(f, T) /\ IntOn(g, T)
             /\ SumFunctionOnSet(f, T) \in Int /\ SumFunctionOnSet(g, T) \in Int
  <2>1. IsFiniteSet(T) /\ IntOn(f, T) /\ IntOn(g, T)
    BY FS_Subset DEF IntOn
  <2> QED  BY <2>1, SumOnSet
<1>1. {} \in F
  <2>1. SumFunctionOnSet(f, {}) = 0 /\ SumFunctionOnSet(g, {}) = 0
    BY <1>0, SumOnSet
  <2> QED  BY <2>1
<1>2. ASSUME NEW T \in F, NEW x \in S \ T PROVE T \cup {x} \in F
  <2>1. T \cup {x} \in SUBSET S /\ T \in SUBSET S /\ x \notin T
    OBVIOUS
  <2>2. SumFunctionOnSet(f, T \cup {x}) = f[x] + SumFunctionOnSet(f, T)
    BY <1>0, <2>1, SumInsert
  <2>3. SumFunctionOnSet(g, T \cup {x}) = g[x] + SumFunctionOnSet(g, T)
    BY <1>0, <2>1, SumInsert
  <2>4. PICK a \in Int, b \in Int, c \in Int, d \in Int :
           a = f[x] /\ b = g[x] /\ c = SumFunctionOnSet(f, T) /\ d = SumFunctionOnSet(g, T)
    <3>1. f[x] \in Int /\ g[x] \in Int
      BY DEF IntOn
    <3> QED  BY <1>0, <2>1, <3>1
  <2>5. m * a <= n * b /\ m * c <= n * d
    BY <2>4
  <2>6. m * (a + c) = m * a + m * c /\ n * (b + d) = n * b + n * d
    BY ONLY m \in Int, n \in Int, a \in Int, b \in Int, c \in Int, d \in Int
  <2>7. m * (a + c) <= n * (b + d)
    <3>1. m * a \in Int /\ m * c \in Int /\ n * b \in Int /\ n * d \in Int
      BY ONLY m \in Int, n \in Int, a \in Int, b \in Int, c \in Int, d \in Int
    <3> QED  BY ONLY <2>5, <2>6, <3>1
  <2> QED  BY <2>1, <2>2, <2>3, <2>4, <2>7
<1>3. F \in SUBSET (SUBSET S)
  OBVIOUS
<1> HIDE DEF F
<1>4. F = SUBSET S
  BY <1>1, <1>2, <1>3, SetInduction
<1> QED  BY <1>4 DEF F

\* What is zero need not be added.
LEMMA SumWithout ==
    ASSUME NEW S, IsFiniteSet(S), NEW f, IntOn(f, S), NEW R \in SUBSET S, \A x \in S \ R : f[x] = 0
    PROVE  SumFunctionOnSet(f, S) = SumFunctionOnSet(f, R)
<1> DEFINE F == {T \in SUBSET S : SumFunctionOnSet(f, T) = SumFunctionOnSet(f, T \cap R)}
<1>0. ASSUME NEW T \in SUBSET S PROVE IsFiniteSet(T) /\ IntOn(f, T) /\ SumFunctionOnSet(f, T) \in Int
  <2>1. IsFiniteSet(T) /\ IntOn(f, T)
    BY FS_Subset DEF IntOn
  <2> QED  BY <2>1, SumOnSet
<1>1. {} \in F
  <2>1. {} \cap R = {}
    OBVIOUS
  <2> QED  BY <2>1
<1>2. ASSUME NEW T \in F, NEW x \in S \ T PROVE T \cup {x} \in F
  <2>1. /\ T \cup {x} \in SUBSET S /\ T \in SUBSET S /\ x \notin T
        /\ T \cap R \in SUBSET S /\ x \notin T \cap R /\ (T \cap R) \cup {x} \in SUBSET S
    OBVIOUS
  <2>2. SumFunctionOnSet(f, T \cup {x}) = f[x] + SumFunctionOnSet(f, T)
    BY <1>0, <2>1, SumInsert
  <2>3. CASE x \in R
    <3>1. (T \cup {x}) \cap R = (T \cap R) \cup {x}
      BY <2>3
    <3>2. SumFunctionOnSet(f, (T \cap R) \cup {x}) = f[x] + SumFunctionOnSet(f, T \cap R)
      BY <1>0, <2>1, SumInsert
    <3>3. SumFunctionOnSet(f, T) = SumFunctionOnSet(f, T \cap R)
      OBVIOUS
    <3>4. SumFunctionOnSet(f, T \cup {x}) = SumFunctionOnSet(f, (T \cup {x}) \cap R)
      BY ONLY <2>2, <3>1, <3>2, <3>3
    <3> QED  BY <2>1, <3>4
  <2>4. CASE x \notin R
    <3>1. (T \cup {x}) \cap R = T \cap R
      BY <2>4
    <3>2. PICK k \in Int : k = SumFunctionOnSet(f, T)
      BY <1>0, <2>1
    <3>3. SumFunctionOnSet(f, T) = SumFunctionOnSet(f, T \cap R) /\ f[x] = 0
      BY <2>4
    <3>4. SumFunctionOnSet(f, T \cup {x}) = 0 + k
      BY ONLY <2>2, <3>2, <3>3
    <3>5. 0 + k = k
      BY ONLY k \in Int
    <3>6. SumFunctionOnSet(f, T \cup {x}) = SumFunctionOnSet(f, (T \cup {x}) \cap R)
      BY ONLY <3>1, <3>2, <3>3, <3>4, <3>5
    <3> QED  BY <2>1, <3>6
  <2> QED  BY <2>3, <2>4
<1>3. F \in SUBSET (SUBSET S)
  OBVIOUS
<1> HIDE DEF F
<1>4. F = SUBSET S
  BY <1>1, <1>2, <1>3, SetInduction
<1>5. S \cap R = R /\ S \in F
  BY <1>4
<1> QED  BY <1>5 DEF F

\* A sum over one element, and over none.
LEMMA SumSingle ==
    ASSUME NEW x, NEW f, f[x] \in Int
    PROVE  SumFunctionOnSet(f, {x}) = f[x] /\ SumFunctionOnSet(f, {}) = 0
<1>1. IsFiniteSet({}) /\ IntOn(f, {}) /\ IntOn(f, {x}) /\ x \notin {} /\ {} \cup {x} = {x}
  BY FS_EmptySet DEF IntOn
<1>2. SumFunctionOnSet(f, {}) = 0
  BY <1>1, SumOnSet
<1>3. SumFunctionOnSet(f, {} \cup {x}) = f[x] + SumFunctionOnSet(f, {})
  BY <1>1, SumInsert
<1>4. PICK k \in Int : k = f[x]
  OBVIOUS
<1>5. SumFunctionOnSet(f, {x}) = k + 0
  BY <1>1, <1>2, <1>3, <1>4
<1> QED  BY <1>2, <1>4, <1>5

\* A sum class by class: h is the sum of g over those that f maps to a place.
ClassSums(h, g, f, S, T) == \A t \in T : h[t] = SumFunctionOnSet(g, {s \in S : f[s] = t})

LEMMA SumByClass ==
    ASSUME NEW S, IsFiniteSet(S), NEW T, IsFiniteSet(T), NEW f \in [S -> T], NEW g, IntOn(g, S),
           NEW h, ClassSums(h, g, f, S, T)
    PROVE  SumFunctionOnSet(h, T) = SumFunctionOnSet(g, S)
<1> DEFINE Part(U, t) == {s \in U : f[s] = t}
           H(U) == [t \in T |-> SumFunctionOnSet(g, Part(U, t))]
           F == {U \in SUBSET S : SumFunctionOnSet(H(U), T) = SumFunctionOnSet(g, U)}
<1>0. ASSUME NEW U \in SUBSET S PROVE IsFiniteSet(U) /\ IntOn(g, U) /\ SumFunctionOnSet(g, U) \in Int
  <2>1. IsFiniteSet(U) /\ IntOn(g, U)
    BY FS_Subset DEF IntOn
  <2> QED  BY <2>1, SumOnSet
<1>1. ASSUME NEW U \in SUBSET S, NEW t PROVE Part(U, t) \in SUBSET S /\ SumFunctionOnSet(g, Part(U, t)) \in Int
  <2>1. Part(U, t) \in SUBSET S
    OBVIOUS
  <2> HIDE DEF Part
  <2> QED  BY <1>0, <2>1
<1>2. ASSUME NEW U \in SUBSET S PROVE IntOn(H(U), T) /\ \A t \in T : H(U)[t] = SumFunctionOnSet(g, Part(U, t))
  <2> HIDE DEF Part
  <2> QED  BY <1>1 DEF IntOn
<1>3. {} \in F
  <2>1. SumFunctionOnSet(g, {}) = 0
    BY <1>0, SumOnSet
  <2>2. \A t \in T : H({})[t] = 0
    <3>1. \A t \in T : Part({}, t) = {}
      OBVIOUS
    <3> HIDE DEF Part
    <3> QED  BY <2>1, <3>1
  <2>3. {} \in SUBSET T /\ IntOn(H({}), T)
    BY <1>2
  <2> HIDE DEF H
  <2>4. SumFunctionOnSet(H({}), T) = SumFunctionOnSet(H({}), {})
    BY <2>2, <2>3, SumWithout
  <2>5. IsFiniteSet({}) /\ IntOn(H({}), {})
    BY FS_EmptySet DEF IntOn
  <2>6. SumFunctionOnSet(H({}), {}) = 0
    BY <2>5, SumOnSet
  <2> QED  BY <2>1, <2>4, <2>6
<1>4. ASSUME NEW U \in F, NEW x \in S \ U PROVE U \cup {x} \in F
  <2> DEFINE W == U \cup {x}
  <2>1. U \in SUBSET S /\ W \in SUBSET S /\ x \notin U /\ f[x] \in T
    OBVIOUS
  <2>2. Part(W, f[x]) = Part(U, f[x]) \cup {x} /\ x \notin Part(U, f[x])
    OBVIOUS
  <2>3. \A t \in T \ {f[x]} : Part(W, t) = Part(U, t)
    OBVIOUS
  <2> HIDE DEF Part
  <2>4. SumFunctionOnSet(g, Part(W, f[x])) = g[x] + SumFunctionOnSet(g, Part(U, f[x]))
    <3>1. IsFiniteSet(Part(U, f[x])) /\ IntOn(g, Part(U, f[x]) \cup {x})
      BY <1>0, <1>1, <2>1, <2>2
    <3> QED  BY <2>2, <3>1, SumInsert, ZenonT(60)
  <2>5. IntOn(H(U), T) /\ IntOn(H(W), T)
    BY <1>2, <2>1
  <2>6. H(W)[f[x]] = g[x] + H(U)[f[x]] /\ \A t \in T \ {f[x]} : H(W)[t] = H(U)[t]
    BY <2>1, <2>3, <2>4
  <2>7. SumFunctionOnSet(g, W) = g[x] + SumFunctionOnSet(g, U)
    BY <1>0, <2>1, SumInsert
  <2>8. SumFunctionOnSet(H(U), T) = SumFunctionOnSet(g, U)
    OBVIOUS
  <2> HIDE DEF H, W
  <2>9. ChangesAt(H(U), H(W), T, f[x])
    BY <2>1, <2>5, <2>6 DEF ChangesAt, IntOn
  <2>10. /\ SumFunctionOnSet(H(U), T) \in Int /\ SumFunctionOnSet(H(W), T) \in Int /\ H(U)[f[x]] \in Int
         /\ SumFunctionOnSet(H(W), T) = SumFunctionOnSet(H(U), T) + (H(W)[f[x]] - H(U)[f[x]])
    BY <2>1, <2>5, <2>9, SumChange
  <2>11. PICK a \in Int, b \in Int, c \in Int : a = g[x] /\ b = H(U)[f[x]] /\ c = SumFunctionOnSet(H(U), T)
    BY <2>10 DEF IntOn
  <2>12. SumFunctionOnSet(H(W), T) = c + ((a + b) - b)
    BY <2>6, <2>10, <2>11
  <2>13. SumFunctionOnSet(g, W) = a + c
    BY <2>7, <2>8, <2>11
  <2>14. c + ((a + b) - b) = a + c
    BY ONLY a \in Int, b \in Int, c \in Int
  <2> QED  BY <2>1, <2>12, <2>13, <2>14 DEF W
<1>5. F \in SUBSET (SUBSET S)
  OBVIOUS
<1>6. S \in F
  <2> HIDE DEF F
  <2>1. F = SUBSET S
    BY <1>3, <1>4, <1>5, SetInduction
  <2> QED  BY <2>1
<1>7. \A t \in T : H(S)[t] = h[t]
  BY DEF ClassSums
<1>8. SumFunctionOnSet(H(S), T) = SumFunctionOnSet(h, T)
  <2>1. IntOn(H(S), T)
    BY <1>2
  <2> HIDE DEF H
  <2> QED  BY <1>7, <2>1, SumEqual
<1> QED  BY <1>6, <1>8

\* A sum over two sets without a common element.
LEMMA SumDisjoint ==
    ASSUME NEW A, IsFiniteSet(A), NEW B, IsFiniteSet(B), A \cap B = {}, NEW g, IntOn(g, A \cup B)
    PROVE  /\ SumFunctionOnSet(g, A) \in Int /\ SumFunctionOnSet(g, B) \in Int
           /\ SumFunctionOnSet(g, A \cup B) = SumFunctionOnSet(g, A) + SumFunctionOnSet(g, B)
<1> DEFINE F == {U \in SUBSET B : SumFunctionOnSet(g, A \cup U) = SumFunctionOnSet(g, A) + SumFunctionOnSet(g, U)}
<1>0. ASSUME NEW U \in SUBSET B
      PROVE  /\ IsFiniteSet(U) /\ IntOn(g, U) /\ SumFunctionOnSet(g, U) \in Int
             /\ IsFiniteSet(A \cup U) /\ IntOn(g, A \cup U) /\ SumFunctionOnSet(g, A \cup U) \in Int
  <2>1. IsFiniteSet(U)
    BY FS_Subset
  <2>2. IsFiniteSet(A \cup U) /\ IntOn(g, A \cup U) /\ IntOn(g, U)
    BY <2>1, FS_Union DEF IntOn
  <2> QED  BY <2>1, <2>2, SumOnSet
<1>1. SumFunctionOnSet(g, A) \in Int /\ SumFunctionOnSet(g, B) \in Int
  <2>1. A \cup {} = A
    OBVIOUS
  <2> QED  BY <1>0, <2>1
<1>2. {} \in F
  <2>1. A \cup {} = A /\ SumFunctionOnSet(g, {}) = 0
    BY <1>0, SumOnSet
  <2>2. PICK k \in Int : k = SumFunctionOnSet(g, A)
    BY <1>1
  <2>3. k = k + 0
    OBVIOUS
  <2> QED  BY <2>1, <2>2, <2>3
<1>3. ASSUME NEW U \in F, NEW x \in B \ U PROVE U \cup {x} \in F
  <2>1. U \in SUBSET B /\ U \cup {x} \in SUBSET B /\ x \notin U /\ x \notin A \cup U /\ (A \cup U) \cup {x} = A \cup (U \cup {x})
    OBVIOUS
  <2>2. SumFunctionOnSet(g, U \cup {x}) = g[x] + SumFunctionOnSet(g, U)
    BY <1>0, <2>1, SumInsert
  <2>3. SumFunctionOnSet(g, A \cup (U \cup {x})) = g[x] + SumFunctionOnSet(g, A \cup U)
    BY <1>0, <2>1, SumInsert
  <2>4. PICK a \in Int, b \in Int, c \in Int : a = g[x] /\ b = SumFunctionOnSet(g, U) /\ c = SumFunctionOnSet(g, A)
    BY <1>0, <1>1, <2>1 DEF IntOn
  <2>5. SumFunctionOnSet(g, A \cup U) = c + b
    BY <2>4
  <2>6. a + (c + b) = c + (a + b)
    BY ONLY a \in Int, b \in Int, c \in Int
  <2>7. SumFunctionOnSet(g, A \cup (U \cup {x})) = SumFunctionOnSet(g, A) + SumFunctionOnSet(g, U \cup {x})
    BY <2>2, <2>3, <2>4, <2>5, <2>6
  <2> QED  BY <2>1, <2>7
<1>4. F \in SUBSET (SUBSET B)
  OBVIOUS
<1>5. B \in F
  <2> HIDE DEF F
  <2>1. F = SUBSET B
    BY <1>2, <1>3, <1>4, SetInduction
  <2> QED  BY <2>1
<1> QED  BY <1>1, <1>5

\* The same summands in other places.
LEMMA SumMoved ==
    ASSUME NEW S, IsFiniteSet(S), NEW T, IsFiniteSet(T), NEW f \in [S -> T],
           \A t \in T : \E s \in S : f[s] = t, \A x, y \in S : f[x] = f[y] => x = y,
           NEW g, IntOn(g, S), NEW h, \A s \in S : h[f[s]] = g[s]
    PROVE  SumFunctionOnSet(h, T) = SumFunctionOnSet(g, S)
<1>1. ASSUME NEW t \in T PROVE h[t] = SumFunctionOnSet(g, {s \in S : f[s] = t})
  <2>1. PICK s \in S : f[s] = t
    OBVIOUS
  <2>2. {x \in S : f[x] = t} = {s}
    BY <2>1
  <2>3. SumFunctionOnSet(g, {s}) = g[s]
    BY SumSingle DEF IntOn
  <2> QED  BY <2>1, <2>2, <2>3
<1> QED  BY <1>1, SumByClass DEF ClassSums

\* A sum over an interval, and over the same interval s further on.
LEMMA SumShifted ==
    ASSUME NEW lo \in Int, NEW hi \in Int, NEW s \in Int, NEW g, IntOn(g, lo .. hi),
           NEW h, \A i \in lo .. hi : h[i + s] = g[i]
    PROVE  SumFunctionOnSet(h, (lo + s) .. (hi + s)) = SumFunctionOnSet(g, lo .. hi)
<1> DEFINE S == lo .. hi
           T == (lo + s) .. (hi + s)
           f == [i \in S |-> i + s]
<1>1. IsFiniteSet(S) /\ IsFiniteSet(T)
  <2>1. lo + s \in Int /\ hi + s \in Int
    OBVIOUS
  <2> QED  BY <2>1, FS_Interval
<1>2. f \in [S -> T]
  OBVIOUS
<1>3. ASSUME NEW t \in T PROVE \E i \in S : f[i] = t
  <2>1. t - s \in S /\ (t - s) + s = t
    OBVIOUS
  <2> QED  BY <2>1
<1>4. \A x, y \in S : f[x] = f[y] => x = y
  OBVIOUS
<1>5. \A i \in S : h[f[i]] = g[i]
  OBVIOUS
<1> HIDE DEF S, T, f
<1>6. IntOn(g, S)
  BY DEF S
<1>7. SumFunctionOnSet(h, T) = SumFunctionOnSet(g, S)
  BY <1>1, <1>2, <1>3, <1>4, <1>5, <1>6, SumMoved
<1> QED  BY <1>7 DEF S, T

-----------------------------------------------------------------------------
(* Positions. *)

\* Among more than k numbers there is one at position k in ascending order.
AtPosition(f, W, v, k) ==
    /\ \E w \in W : f[w] = v
    /\ Cardinality({w \in W : f[w] < v}) <= k
    /\ Cardinality({w \in W : f[w] <= v}) > k

LEMMA OrderStatistic ==
    ASSUME NEW W, IsFiniteSet(W), NEW N \in Nat, NEW f \in [W -> 0 .. N],
           NEW k \in Nat, k < Cardinality(W)
    PROVE  \E v \in 0 .. N : AtPosition(f, W, v, k)
<1> DEFINE Upto(v) == {w \in W : f[w] <= v}
           Below(v) == {w \in W : f[w] < v}
           B == {v \in 0 .. N : Cardinality(Upto(v)) > k}
           R == {p \in Nat \X Nat : p[1] < p[2]}
<1>0. ASSUME NEW v
      PROVE  IsFiniteSet(Upto(v)) /\ Cardinality(Upto(v)) \in Nat /\ IsFiniteSet(Below(v)) /\ Cardinality(Below(v)) \in Nat
  <2>1. Upto(v) \in SUBSET W /\ Below(v) \in SUBSET W
    OBVIOUS
  <2> HIDE DEF Upto, Below
  <2>2. IsFiniteSet(Upto(v)) /\ IsFiniteSet(Below(v))
    BY <2>1, FS_Subset
  <2> QED  BY <2>2, FS_CardinalityType
<1>1. N \in B
  <2>1. Upto(N) = W
    OBVIOUS
  <2> HIDE DEF Upto
  <2> QED  BY <2>1
<1>2. IsWellFoundedOn(R, Nat)
  BY NatLessThanWellFounded DEF OpToRel
<1>3. B \subseteq Nat /\ B # {}
  <2> HIDE DEF Upto
  <2> QED  BY <1>1
<1> HIDE DEF R, B
<1>4. PICK v \in B : \A y \in B : ~ (<<y, v>> \in R)
  BY <1>2, <1>3, WFMin
<1>5. v \in Nat /\ v \in 0 .. N /\ Cardinality(Upto(v)) > k
  BY <1>4 DEF B
<1>6. Cardinality(Below(v)) <= k
  <2>1. CASE v = 0
    <3>1. Below(0) = {}
      OBVIOUS
    <3>2. Cardinality(Below(0)) = 0
      BY <3>1, FS_EmptySet
    <3> HIDE DEF Below
    <3> QED  BY <2>1, <3>2
  <2>2. CASE v # 0
    <3>1. Below(v) = Upto(v - 1)
      BY <1>5
    <3>2. v - 1 \in 0 .. N /\ v - 1 \in Nat
      BY <1>5, <2>2
    <3>3. <<v - 1, v>> \in R
      BY <1>5, <3>2 DEF R
    <3>4. v - 1 \notin B
      BY <1>4, <3>3
    <3> HIDE DEF Below, Upto
    <3>5. ~ (Cardinality(Upto(v - 1)) > k)
      BY <3>2, <3>4 DEF B
    <3>6. Cardinality(Below(v)) \in Nat
      BY <1>0
    <3> QED  BY <3>1, <3>5, <3>6
  <2> QED  BY <2>1, <2>2
<1>7. \E w \in W : f[w] = v
  <2> SUFFICES ASSUME \A w \in W : f[w] # v PROVE FALSE
    OBVIOUS
  <2>1. Upto(v) = Below(v)
    BY <1>5
  <2>2. Cardinality(Below(v)) \in Nat
    BY <1>0
  <2> HIDE DEF Upto, Below
  <2> QED  BY <1>5, <1>6, <2>1, <2>2
<1> QED  BY <1>5, <1>6, <1>7 DEF AtPosition

\* In a finite set with a strict total order at most k members have fewer
\* than k others before them.
StrictOrder(R, S) ==
    /\ \A x \in S : <<x, x>> \notin R
    /\ \A x, y, z \in S : <<x, y>> \in R /\ <<y, z>> \in R => <<x, z>> \in R
    /\ \A x, y \in S : x # y => <<x, y>> \in R \/ <<y, x>> \in R

Preceding(R, S, w) == {x \in S : <<x, w>> \in R}

LEMMA FewerBefore ==
    ASSUME NEW S, IsFiniteSet(S), NEW R, StrictOrder(R, S), NEW u \in S, NEW v \in S, <<u, v>> \in R
    PROVE  Cardinality(Preceding(R, S, u)) # Cardinality(Preceding(R, S, v))
<1> DEFINE U == Preceding(R, S, u)
           V == Preceding(R, S, v)
<1>1. U \subseteq V /\ u \in V /\ u \notin U /\ V \in SUBSET S
  BY DEF Preceding, StrictOrder
<1> HIDE DEF U, V
<1>2. IsFiniteSet(V) /\ U \in SUBSET V
  BY <1>1, FS_Subset
<1>3. Cardinality(V) = Cardinality(U) => V = U
  BY <1>2, FS_Subset
<1> QED  BY <1>1, <1>3 DEF U, V

LEMMA FirstMembers ==
    ASSUME NEW S, IsFiniteSet(S), NEW R, StrictOrder(R, S), NEW k \in Nat
    PROVE  Cardinality({w \in S : Cardinality(Preceding(R, S, w)) < k}) <= k
<1> DEFINE T == {w \in S : Cardinality(Preceding(R, S, w)) < k}
           f == [w \in T |-> Cardinality(Preceding(R, S, w))]
<1>0. ASSUME NEW w \in S PROVE Cardinality(Preceding(R, S, w)) \in Nat
  <2>1. Preceding(R, S, w) \in SUBSET S
    BY DEF Preceding
  <2> QED  BY <2>1, FS_Subset, FS_CardinalityType
<1>1. f \in [T -> 0 .. k - 1]
  <2> SUFFICES ASSUME NEW w \in T PROVE Cardinality(Preceding(R, S, w)) \in 0 .. k - 1
    OBVIOUS
  <2>1. PICK c : c = Cardinality(Preceding(R, S, w))
    OBVIOUS
  <2>2. c \in Nat /\ c < k
    BY <1>0, <2>1
  <2>3. c \in 0 .. k - 1
    BY ONLY <2>2, k \in Nat
  <2> QED  BY <2>1, <2>3
<1>2. ASSUME NEW x \in T, NEW y \in T, f[x] = f[y] PROVE x = y
  <2>1. x \in S /\ y \in S /\ Cardinality(Preceding(R, S, x)) = Cardinality(Preceding(R, S, y))
    BY <1>2
  <2>2. ~ (<<x, y>> \in R) /\ ~ (<<y, x>> \in R)
    BY <2>1, FewerBefore
  <2> QED  BY <2>1, <2>2 DEF StrictOrder
<1>3. f \in Injection(T, 0 .. k - 1)
  <2>1. DOMAIN f = T
    OBVIOUS
  <2> HIDE DEF f, T
  <2> QED  BY <1>1, <1>2, <2>1 DEF Injection, IsInjective
<1>4. IsFiniteSet(0 .. k - 1) /\ Cardinality(0 .. k - 1) = k
  BY FS_Interval
<1> HIDE DEF f, T
<1> QED  BY <1>3, <1>4, FS_Injection DEF T

\* A set of numbers has a least one.
LEMMA LeastNumber ==
    ASSUME NEW S \in SUBSET Nat, S # {}
    PROVE  \E x \in S : \A y \in S : x <= y
<1> DEFINE R == {p \in Nat \X Nat : p[1] < p[2]}
<1>1. IsWellFoundedOn(R, Nat)
  BY NatLessThanWellFounded DEF OpToRel
<1> HIDE DEF R
<1>2. PICK x \in S : \A y \in S : ~ (<<y, x>> \in R)
  BY <1>1, WFMin
<1> SUFFICES ASSUME NEW y \in S PROVE x <= y
  BY <1>2
<1>3. x \in Nat /\ y \in Nat
  OBVIOUS
<1>4. y < x => <<y, x>> \in R
  BY <1>3 DEF R
<1>5. ~ (y < x)
  BY <1>2, <1>4
<1> QED  BY <1>3, <1>5

\* In a finite set with a strict total order one is the first.
LEMMA FirstExists ==
    ASSUME NEW S, IsFiniteSet(S), S # {}, NEW R, StrictOrder(R, S)
    PROVE  \E w \in S : Preceding(R, S, w) = {}
<1> DEFINE C == {Cardinality(Preceding(R, S, w)) : w \in S}
<1>1. ASSUME NEW w \in S PROVE IsFiniteSet(Preceding(R, S, w)) /\ Cardinality(Preceding(R, S, w)) \in Nat
  <2>1. Preceding(R, S, w) \in SUBSET S
    BY DEF Preceding
  <2> QED  BY <2>1, FS_Subset, FS_CardinalityType
<1>2. C \in SUBSET Nat /\ C # {}
  BY <1>1
<1>3. PICK c \in C : \A d \in C : c <= d
  BY <1>2, LeastNumber
<1>4. PICK w \in S : c = Cardinality(Preceding(R, S, w))
  BY <1>3
<1>5. ASSUME NEW x \in Preceding(R, S, w) PROVE FALSE
  <2> DEFINE X == Preceding(R, S, x)
             W == Preceding(R, S, w)
  <2>1. x \in S /\ X \in SUBSET W /\ x \in W /\ x \notin X
    BY <1>5 DEF Preceding, StrictOrder
  <2>2. IsFiniteSet(W) /\ Cardinality(W) \in Nat /\ Cardinality(X) \in Nat
    BY <1>1, <2>1
  <2>3. Cardinality(W) <= Cardinality(X)
    BY <1>3, <1>4, <2>1
  <2> HIDE DEF X, W
  <2>4. Cardinality(X) <= Cardinality(W) /\ (Cardinality(W) = Cardinality(X) => W = X)
    BY <2>1, <2>2, FS_Subset
  <2>5. Cardinality(W) = Cardinality(X)
    BY <2>2, <2>3, <2>4
  <2> QED  BY <2>1, <2>4, <2>5
<1> QED  BY <1>4, <1>5

=============================================================================
