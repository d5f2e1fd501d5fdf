--------------------------- MODULE SequenceFolds ---------------------------
(***************************************************************************)
(* What FoldLeft computes, for every operator: this module is instantiated *)
(* with the operator a proof is about, because the provers cannot put one  *)
(* in the place of a theorem's operator parameter.  It extends as little   *)
(* as it can, since every instance brings all of that along.               *)
(***************************************************************************)
EXTENDS Integers, Sequences, Folds, WellFoundedInduction, TLAPS

CONSTANT Op(_, _)

\* Max of FiniteSetsExt and FoldLeft of SequencesExt, for operator Op.
Largest(s) == CHOOSE x \in s : \A y \in s : x >= y

Fold(base, seq) ==
    MapThenFoldSet(LAMBDA x, y : Op(y, x), base, LAMBDA i : seq[i], LAMBDA s : Largest(s), DOMAIN seq)

\* Op stays within V for elements of E.
Closed(V, E) == \A x \in V, e \in E : Op(x, e) \in V

\* The values a fold goes through.
FoldsTo(g, base, seq) ==
    /\ g[0] = base
    /\ \A i \in 1 .. Len(seq) : g[i] = Op(g[i - 1], seq[i])

\* A set of numbers that has 0 and the successor of each of its members.
LEMMA NumbersReached ==
    ASSUME NEW S \in SUBSET Nat, 0 \in S, \A n \in S : n + 1 \in S
    PROVE  S = Nat
<1> SUFFICES ASSUME Nat \ S # {} PROVE FALSE
  OBVIOUS
<1> DEFINE R == {p \in Nat \X Nat : p[1] < p[2]}
<1>1. IsWellFoundedOn(R, Nat)
  BY NatLessThanWellFounded DEF OpToRel
<1> HIDE DEF R
<1>2. PICK x \in Nat \ S : \A y \in Nat \ S : ~ (<<y, x>> \in R)
  BY <1>1, WFMin
<1>3. x - 1 \in Nat /\ x # 0
  OBVIOUS
<1>4. <<x - 1, x>> \in R
  BY <1>3 DEF R
<1>5. x - 1 \in S
  BY <1>2, <1>3, <1>4
<1> QED  BY <1>3, <1>5

\* A set of numbers has a largest one.
LEMMA LargestPicked ==
    ASSUME NEW n \in Nat, NEW s \in SUBSET (0 .. n), s # {}
    PROVE  Largest(s) \in s /\ \A y \in s : y <= Largest(s)
<1> DEFINE B == {b \in 0 .. n : \A y \in s : y <= b}
           C == {n - b : b \in B}
<1>1. n \in B
  OBVIOUS
<1> DEFINE R == {p \in Nat \X Nat : p[1] < p[2]}
<1>2. IsWellFoundedOn(R, Nat)
  BY NatLessThanWellFounded DEF OpToRel
<1>3. B \subseteq Nat /\ B # {}
  BY <1>1
<1> HIDE DEF R, B
<1>4. PICK x \in B : \A y \in B : ~ (<<y, x>> \in R)
  BY <1>2, <1>3, WFMin
<1>5. x \in Nat /\ x <= n /\ \A y \in s : y <= x
  BY <1>4 DEF B
<1>6. x \in s
  <2> SUFFICES ASSUME x \notin s PROVE FALSE
    OBVIOUS
  <2>1. \A y \in s : y \in Nat /\ y < x
    BY <1>5
  <2>2. x - 1 \in 0 .. n /\ \A y \in s : y <= x - 1
    <3>1. PICK z \in s : TRUE
      OBVIOUS
    <3>2. x >= 1
      BY <1>5, <2>1, <3>1
    <3> QED  BY <1>5, <2>1, <3>2
  <2>3. x - 1 \in B
    BY <2>2 DEF B
  <2>4. <<x - 1, x>> \in R
    BY <1>5, <2>2 DEF R
  <2> QED  BY <1>4, <2>3, <2>4
<1>7. \E m \in s : \A y \in s : m >= y
  BY <1>5, <1>6
<1>8. Largest(s) \in s /\ \A y \in s : Largest(s) >= y
  BY <1>7 DEF Largest
<1> QED  BY <1>8

\* The function behind a fold: its values for the sets of positions up to n.
Iterates(h, base, seq, n) ==
    \A s \in SUBSET (1 .. n) :
        h[s] = IF s = {} THEN base ELSE Op(h[s \ {Largest(s)}], seq[Largest(s)])

\* The largest position, and what is below it.
LEMMA LargestBelow ==
    ASSUME NEW n \in Nat, NEW s \in SUBSET (1 .. n + 1), s # {}
    PROVE  /\ Largest(s) \in s /\ Largest(s) \in 1 .. n + 1 /\ s \ {Largest(s)} \in SUBSET (1 .. n)
           /\ n + 1 \in s => Largest(s) = n + 1
<1>1. PICK m \in Nat : m = n + 1
  OBVIOUS
<1>2. s \in SUBSET (0 .. m)
  BY <1>1
<1>3. PICK x : x = Largest(s) /\ x \in s /\ \A y \in s : y <= x
  BY <1>2, LargestPicked
<1>4. x \in 1 .. n + 1 /\ (n + 1 \in s => x = n + 1)
  BY <1>3
<1>5. ASSUME NEW y \in s \ {x} PROVE y \in 1 .. n
  BY <1>3, <1>4
<1> QED  BY <1>3, <1>4, <1>5

Iterable(V, base, seq, n) == \E h \in [SUBSET (1 .. n) -> V] : Iterates(h, base, seq, n)

LEMMA IteratesExists ==
    ASSUME NEW V, NEW E, NEW seq \in Seq(E), NEW base \in V, Closed(V, E)
    PROVE  Iterable(V, base, seq, Len(seq))
<1> DEFINE N == {n \in Nat : n <= Len(seq) => Iterable(V, base, seq, n)}
<1>1. 0 \in N
  <2>1. PICK h \in [SUBSET (1 .. 0) -> V] : h = [s \in SUBSET (1 .. 0) |-> base]
    OBVIOUS
  <2>2. \A s \in SUBSET (1 .. 0) : s = {} /\ h[s] = base
    BY <2>1
  <2>3. Iterates(h, base, seq, 0)
    BY <2>2 DEF Iterates
  <2>4. Iterable(V, base, seq, 0)
    BY <2>3 DEF Iterable
  <2> QED  BY <2>4
<1>2. ASSUME NEW n \in N PROVE n + 1 \in N
  <2> SUFFICES ASSUME n + 1 <= Len(seq)
               PROVE  Iterable(V, base, seq, n + 1)
    OBVIOUS
  <2>1. n \in Nat /\ n <= Len(seq) /\ seq[n + 1] \in E
    OBVIOUS
  <2>2. PICK h \in [SUBSET (1 .. n) -> V] : Iterates(h, base, seq, n)
    BY <2>1 DEF Iterable
  <2> DEFINE g == [s \in SUBSET (1 .. n + 1) |->
                      IF n + 1 \in s THEN Op(h[s \ {n + 1}], seq[n + 1]) ELSE h[s]]
  <2>3. ASSUME NEW s \in SUBSET (1 .. n + 1), n + 1 \notin s
        PROVE  s \in SUBSET (1 .. n) /\ g[s] = h[s] /\ g[s] \in V
    <3>1. s \in SUBSET (1 .. n)
      BY <2>1, <2>3
    <3> QED  BY <2>3, <3>1
  <2>4. ASSUME NEW s \in SUBSET (1 .. n + 1), n + 1 \in s
        PROVE  /\ s \ {n + 1} \in SUBSET (1 .. n) /\ g[s] = Op(h[s \ {n + 1}], seq[n + 1])
               /\ g[s] \in V
    <3>1. s \ {n + 1} \in SUBSET (1 .. n)
      BY <2>1
    <3>2. h[s \ {n + 1}] \in V
      BY <3>1
    <3>3. g[s] = Op(h[s \ {n + 1}], seq[n + 1])
      BY <2>4
    <3>4. Op(h[s \ {n + 1}], seq[n + 1]) \in V
      BY <2>1, <3>2 DEF Closed
    <3> QED  BY <3>1, <3>3, <3>4
  <2>5. g \in [SUBSET (1 .. n + 1) -> V]
    BY <2>3, <2>4
  <2> HIDE DEF g
  <2>6. ASSUME NEW s \in SUBSET (1 .. n + 1)
        PROVE  g[s] = IF s = {} THEN base ELSE Op(g[s \ {Largest(s)}], seq[Largest(s)])
    <3>1. CASE n + 1 \in s
      <4>1. Largest(s) = n + 1
        BY <2>1, <3>1, LargestBelow
      <4>2. n + 1 \notin s \ {n + 1} /\ s \ {n + 1} \in SUBSET (1 .. n + 1)
        OBVIOUS
      <4>3. g[s \ {n + 1}] = h[s \ {n + 1}]
        BY <2>3, <4>2
      <4> QED  BY <2>4, <3>1, <4>1, <4>3
    <3>2. CASE n + 1 \notin s
      <4>1. s \in SUBSET (1 .. n) /\ g[s] = h[s]
        BY <2>3, <3>2
      <4>2. h[s] = IF s = {} THEN base ELSE Op(h[s \ {Largest(s)}], seq[Largest(s)])
        BY <2>2, <4>1 DEF Iterates
      <4>3. n + 1 \notin s \ {Largest(s)} /\ s \ {Largest(s)} \in SUBSET (1 .. n + 1)
        BY <3>2
      <4>4. g[s \ {Largest(s)}] = h[s \ {Largest(s)}]
        BY <2>3, <4>3
      <4> QED  BY <4>1, <4>2, <4>4
    <3> QED  BY <3>1, <3>2
  <2>7. Iterates(g, base, seq, n + 1)
    BY <2>6 DEF Iterates
  <2> QED  BY <2>5, <2>7 DEF Iterable
<1>3. N = Nat
  <2>1. N \in SUBSET Nat
    OBVIOUS
  <2> HIDE DEF N
  <2> QED  BY <1>1, <1>2, <2>1, NumbersReached
<1>4. Len(seq) \in N
  BY <1>3
<1> QED  BY <1>4

LEMMA IteratesTyped ==
    ASSUME NEW V, NEW E, NEW seq \in Seq(E), NEW base \in V, Closed(V, E),
           NEW h, Iterates(h, base, seq, Len(seq))
    PROVE  \A s \in SUBSET (1 .. Len(seq)) : h[s] \in V
<1> DEFINE N == {n \in Nat : n <= Len(seq) => \A s \in SUBSET (1 .. n) : h[s] \in V}
<1>0. PICK k \in Nat : k = Len(seq) /\ \A i \in 1 .. k : seq[i] \in E
  OBVIOUS
<1>1. 0 \in N
  <2> SUFFICES ASSUME NEW s \in SUBSET (1 .. 0) PROVE h[s] \in V
    OBVIOUS
  <2>1. s = {} /\ s \in SUBSET (1 .. k)
    OBVIOUS
  <2> QED  BY <1>0, <2>1 DEF Iterates
<1>2. ASSUME NEW n \in N PROVE n + 1 \in N
  <2> SUFFICES ASSUME n + 1 <= k, NEW s \in SUBSET (1 .. n + 1) PROVE h[s] \in V
    BY <1>0
  <2>1. n \in Nat /\ n <= k /\ s \in SUBSET (1 .. k)
    BY <1>0
  <2>2. h[s] = IF s = {} THEN base ELSE Op(h[s \ {Largest(s)}], seq[Largest(s)])
    BY <1>0, <2>1 DEF Iterates
  <2>3. CASE s = {}
    BY <2>2, <2>3
  <2>4. CASE s # {}
    <3>1. PICK x \in 1 .. n + 1 : x = Largest(s) /\ s \ {x} \in SUBSET (1 .. n)
      BY <2>1, <2>4, LargestBelow
    <3>2. h[s \ {x}] \in V
      BY <1>0, <2>1, <3>1
    <3>3. seq[x] \in E
      BY <1>0, <2>1, <3>1
    <3> QED  BY <2>2, <2>4, <3>1, <3>2, <3>3 DEF Closed
  <2> QED  BY <2>3, <2>4
<1>3. N = Nat
  <2>1. N \in SUBSET Nat
    OBVIOUS
  <2> HIDE DEF N
  <2> QED  BY <1>1, <1>2, <2>1, NumbersReached
<1>4. k \in N
  BY <1>3
<1> QED  BY <1>0, <1>4

LEMMA FoldSteps ==
    ASSUME NEW V, NEW E, NEW seq \in Seq(E), NEW base \in V, Closed(V, E)
    PROVE  \E g \in [0 .. Len(seq) -> V] :
              FoldsTo(g, base, seq) /\ Fold(base, seq) = g[Len(seq)]
<1> DEFINE S == 1 .. Len(seq)
           Eq(h) == h = [s \in SUBSET S |-> IF s = {} THEN base ELSE Op(h[s \ {Largest(s)}], seq[Largest(s)])]
           it == CHOOSE h : Eq(h)
<1>0. Len(seq) \in Nat /\ DOMAIN seq = S /\ \A i \in S : seq[i] \in E
  OBVIOUS
<1>1. Fold(base, seq) = it[S]
  BY <1>0 DEF Fold, MapThenFoldSet
<1> HIDE DEF S
<1>2. PICK f \in [SUBSET S -> V] : Iterates(f, base, seq, Len(seq))
  BY IteratesExists DEF S, Iterable
<1>3. Eq(f)
  <2>1. \A s \in SUBSET S : f[s] = IF s = {} THEN base ELSE Op(f[s \ {Largest(s)}], seq[Largest(s)])
    BY <1>2 DEF Iterates, S
  <2> QED  BY <2>1
<1>8. Eq(it)
  BY <1>3
<1>9. \A s \in SUBSET S : it[s] = IF s = {} THEN base ELSE Op(it[s \ {Largest(s)}], seq[Largest(s)])
  BY <1>8
<1> HIDE DEF it, Eq
<1>10. \A s \in SUBSET S : it[s] \in V
  <2>1. Iterates(it, base, seq, Len(seq))
    BY <1>9 DEF Iterates, S
  <2> QED  BY <2>1, IteratesTyped DEF S
<1> DEFINE r == [i \in 0 .. Len(seq) |-> it[1 .. i]]
<1>11. ASSUME NEW i \in 0 .. Len(seq) PROVE 1 .. i \in SUBSET S
  BY <1>0 DEF S
<1>12. r \in [0 .. Len(seq) -> V]
  BY <1>10, <1>11
<1>13. r[0] = base
  <2>1. 0 \in 0 .. Len(seq)
    BY <1>0
  <2>2. r[0] = it[1 .. 0]
    BY <2>1
  <2>3. 1 .. 0 = {}
    OBVIOUS
  <2>4. it[{}] = base
    BY <1>9
  <2> HIDE DEF r
  <2> QED  BY <2>2, <2>3, <2>4
<1>14. ASSUME NEW i \in 1 .. Len(seq) PROVE r[i] = Op(r[i - 1], seq[i])
  <2>1. i \in Nat /\ i >= 1 /\ i \in 0 .. Len(seq) /\ i - 1 \in 0 .. Len(seq)
    BY <1>0
  <2>2. 1 .. i \in SUBSET S
    BY <1>11, <2>1
  <2>3. i \in 1 .. i
    BY <2>1
  <2>4. Largest(1 .. i) = i
    <3>1. PICK k \in Nat : k = i /\ k >= 1
      BY <2>1
    <3>2. 1 .. k \in SUBSET (0 .. k) /\ k \in 1 .. k
      BY <3>1
    <3>3. Largest(1 .. k) \in 1 .. k /\ k <= Largest(1 .. k)
      BY <3>1, <3>2, LargestPicked
    <3>4. Largest(1 .. k) = k
      BY <3>1, <3>3
    <3> QED  BY <3>1, <3>4
  <2>5. (1 .. i) \ {i} = 1 .. (i - 1)
    BY <2>1
  <2>6. it[1 .. i] = Op(it[1 .. (i - 1)], seq[i])
    BY <1>9, <2>2, <2>3, <2>4, <2>5
  <2> QED  BY <2>1, <2>6
<1>15. r[Len(seq)] = it[S]
  BY <1>0 DEF S
<1> HIDE DEF r
<1> QED  BY <1>1, <1>12, <1>13, <1>14, <1>15 DEF FoldsTo

\* A fold of an operator that stays within a set stays within it.
LEMMA FoldIn ==
    ASSUME NEW V, NEW E, NEW seq \in Seq(E), NEW base \in V, Closed(V, E)
    PROVE  Fold(base, seq) \in V
<1>1. PICK g \in [0 .. Len(seq) -> V] :
        FoldsTo(g, base, seq) /\ Fold(base, seq) = g[Len(seq)]
  BY FoldSteps
<1>2. Len(seq) \in 0 .. Len(seq)
  OBVIOUS
<1> QED  BY <1>1, <1>2

\* t is what s has behind the first k elements.
Behind(t, s, k) == k + Len(t) <= Len(s) /\ \A i \in 1 .. Len(t) : t[i] = s[k + i]

\* A fold over a part of a sequence, begun with what the fold over the whole
\* sequence has come to there, goes through the same values.
LEMMA FoldPart ==
    ASSUME NEW E, NEW s \in Seq(E), NEW t \in Seq(E), NEW k \in Nat, Behind(t, s, k),
           NEW g, NEW base, FoldsTo(g, base, s), NEW h, FoldsTo(h, g[k], t)
    PROVE  h[Len(t)] = g[k + Len(t)]
<1> DEFINE N == {i \in Nat : i <= Len(t) => h[i] = g[k + i]}
<1>0. PICK m \in Nat, n \in Nat : m = Len(t) /\ n = Len(s) /\ k + m <= n
  BY DEF Behind
<1>1. 0 \in N
  BY DEF FoldsTo
<1>2. ASSUME NEW i \in N PROVE i + 1 \in N
  <2> SUFFICES ASSUME i + 1 <= m PROVE h[i + 1] = g[k + (i + 1)]
    BY <1>0
  <2>1. i + 1 \in 1 .. m /\ k + (i + 1) \in 1 .. n /\ (i + 1) - 1 = i /\ (k + (i + 1)) - 1 = k + i
    BY <1>0
  <2>2. h[i] = g[k + i]
    BY <1>0
  <2>3. h[i + 1] = Op(h[i], t[i + 1])
    BY <1>0, <2>1 DEF FoldsTo
  <2>4. g[k + (i + 1)] = Op(g[k + i], s[k + (i + 1)])
    BY <1>0, <2>1 DEF FoldsTo
  <2>5. t[i + 1] = s[k + (i + 1)]
    BY <1>0, <2>1 DEF Behind
  <2> QED  BY <2>2, <2>3, <2>4, <2>5
<1>3. N = Nat
  <2>1. N \in SUBSET Nat
    OBVIOUS
  <2> HIDE DEF N
  <2> QED  BY <1>1, <1>2, <2>1, NumbersReached
<1>4. m \in N
  BY <1>3
<1> QED  BY <1>0, <1>4

\* A fold over two sequences, one after the other.
LEMMA FoldConcat ==
    ASSUME NEW V, NEW E, NEW s \in Seq(E), NEW t \in Seq(E), NEW base \in V, Closed(V, E)
    PROVE  Fold(base, s \o t) = Fold(Fold(base, s), t)
<1> DEFINE u == s \o t
<1>1. u \in Seq(E) /\ Len(u) = Len(s) + Len(t) /\ Len(s) \in Nat /\ Len(t) \in Nat
  OBVIOUS
<1>2. Behind(s, u, 0) /\ Behind(t, u, Len(s))
  BY <1>1 DEF Behind
<1> HIDE DEF u
<1>3. PICK g \in [0 .. Len(u) -> V] : FoldsTo(g, base, u) /\ Fold(base, u) = g[Len(u)]
  BY <1>1, FoldSteps
<1>4. PICK f \in [0 .. Len(s) -> V] : FoldsTo(f, base, s) /\ Fold(base, s) = f[Len(s)]
  BY FoldSteps
<1>5. Fold(base, s) = g[Len(s)] /\ g[Len(s)] \in V
  <2>1. g[0] = base
    BY <1>3 DEF FoldsTo
  <2>2. f[Len(s)] = g[0 + Len(s)]
    BY <1>1, <1>2, <1>3, <1>4, <2>1, FoldPart
  <2>3. 0 + Len(s) = Len(s) /\ Len(s) \in 0 .. Len(u)
    BY <1>1
  <2> QED  BY <1>3, <1>4, <2>2, <2>3
<1>6. PICK v : v = Fold(base, s) /\ v = g[Len(s)] /\ v \in V
  BY <1>5
<1>7. PICK h \in [0 .. Len(t) -> V] : FoldsTo(h, v, t) /\ Fold(v, t) = h[Len(t)]
  <2>1. v \in V
    BY <1>6
  <2> QED  BY ONLY <2>1, t \in Seq(E), Closed(V, E), FoldSteps
<1>8. h[Len(t)] = g[Len(s) + Len(t)]
  <2>1. PICK k \in Nat : k = Len(s)
    BY <1>1
  <2>2. FoldsTo(h, g[k], t) /\ Behind(t, u, k)
    BY <1>2, <1>6, <1>7, <2>1
  <2>3. FoldsTo(g, base, u) /\ u \in Seq(E)
    BY <1>1, <1>3
  <2>4. h[Len(t)] = g[k + Len(t)]
    BY ONLY <2>2, <2>3, t \in Seq(E), k \in Nat, FoldPart
  <2> QED  BY <2>1, <2>4
<1>9. Fold(base, u) = Fold(v, t)
  BY <1>1, <1>3, <1>7, <1>8
<1> QED  BY <1>6, <1>9 DEF u

\* A fold over one more element.
LEMMA FoldAppend ==
    ASSUME NEW V, NEW E, NEW s \in Seq(E), NEW e \in E, NEW base \in V, Closed(V, E)
    PROVE  Fold(base, Append(s, e)) = Op(Fold(base, s), e)
<1> DEFINE u == Append(s, e)
<1>1. u \in Seq(E) /\ Len(u) = Len(s) + 1 /\ Len(s) \in Nat /\ u[Len(s) + 1] = e
  OBVIOUS
<1>2. Behind(s, u, 0)
  BY <1>1 DEF Behind
<1> HIDE DEF u
<1>3. PICK g \in [0 .. Len(u) -> V] : FoldsTo(g, base, u) /\ Fold(base, u) = g[Len(u)]
  BY <1>1, FoldSteps
<1>4. PICK f \in [0 .. Len(s) -> V] : FoldsTo(f, base, s) /\ Fold(base, s) = f[Len(s)]
  BY FoldSteps
<1>5. Fold(base, s) = g[Len(s)]
  <2>1. g[0] = base
    BY <1>3 DEF FoldsTo
  <2>2. f[Len(s)] = g[0 + Len(s)]
    BY <1>1, <1>2, <1>3, <1>4, <2>1, FoldPart
  <2>3. 0 + Len(s) = Len(s)
    BY <1>1
  <2> QED  BY <1>4, <2>2, <2>3
<1>6. g[Len(u)] = Op(g[Len(s)], e)
  <2>1. Len(s) + 1 \in 1 .. Len(u) /\ (Len(s) + 1) - 1 = Len(s)
    BY <1>1
  <2>2. g[Len(s) + 1] = Op(g[(Len(s) + 1) - 1], u[Len(s) + 1])
    BY <1>3, <2>1 DEF FoldsTo
  <2> QED  BY <1>1, <2>1, <2>2
<1> QED  BY <1>3, <1>5, <1>6 DEF u

=============================================================================
