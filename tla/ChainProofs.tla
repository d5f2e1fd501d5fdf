---------------------------- MODULE ChainProofs ----------------------------
(***************************************************************************)
(* The node always has a valid chain and a log that matches it, for every  *)
(* tree of blocks, every order in which they come, every switch of forks   *)
(* that fails half-way, and every crash: proofs about ChainDatabase.       *)
(*                                                                         *)
(* An operation is a sequence of steps on a record of the node.  Work is   *)
(* the set of nodes in the middle of an operation; every step of every     *)
(* operation stays within it.                                              *)
(***************************************************************************)
EXTENDS ChainDatabase, FoldLemmas, SequenceTheorems

-----------------------------------------------------------------------------
(* The inductive invariant. *)

Entries == [blk : Blocks, lib : Nat]
Chains == Seq(Entries)
TxSeqs == Seq(Txs)
BlockSeqs == Seq(Blocks)
Items == [blk : Blocks, own : BOOLEAN, linked : BOOLEAN]

\* A link leads to a block.
Forks == {f \in [index : SUBSET Blocks, linked : SUBSET Blocks, head : Items \cup {NoHead}, max_size : Nat] :
             /\ f.linked \subseteq f.index
             /\ \A c \in f.linked : Prev[c] \in Blocks
             /\ f.head # NoHead /\ f.head.linked => Prev[f.head.blk] \in Blocks}

Nodes == [chain : Chains, undo : Nat, undo_max : Nat \ {0}, fork : Forks,
          pending : TxSeqs, session : BOOLEAN, popped : TxSeqs, thrown : BOOLEAN,
          stored : BlockSeqs, up : BOOLEAN]

\* The first k blocks of a chain, and the irreversible block number below block k.
Part(c, k) == [j \in 1 .. k |-> c[j]]
LibBelow(c, k) == IF k = 1 THEN 0 ELSE c[k - 1].lib

\* Block k of a chain is valid on top of the k - 1 blocks below it.
ValidAt(c, k) ==
    /\ c[k].blk \in Good
    /\ Prev[c[k].blk] = IF k = 1 THEN Genesis ELSE c[k - 1].blk
    /\ Num(c[k].blk) = k
    /\ c[k].lib <= k
    /\ CanApplyTxs(TxsOf[c[k].blk], TxsIn(c, k - 1))
    /\ Num(c[k].blk) - LibBelow(c, k) < MaxUndoHistory
    /\ c[k].lib = update_last_irreversible_block(Part(c, k - 1), c[k].blk, LibBelow(c, k))

ValidChain(c) == \A k \in 1 .. Len(c) : ValidAt(c, k)

\* Block b has been the head of a valid chain.
Made(b) == \E c \in Chains : c # <<>> /\ ValidChain(c) /\ c[Len(c)].blk = b

\* Under each number lies a block with that number that was applied once,
\* without gaps.
Logs == {l \in [1 .. Max({Num(b) : b \in Blocks}) -> Blocks \cup {Genesis}] :
            /\ \A k \in DOMAIN l : l[k] # Genesis => Num(l[k]) = k /\ Made(l[k])
            /\ \A k \in DOMAIN l : k > 1 /\ l[k] # Genesis => l[k - 1] # Genesis}

Matches(l, c) == \A k \in 1 .. Len(c) : k \in DOMAIN l /\ l[k] = c[k].blk

\* What is pending fits on top of the chain.
Fits(n) ==
    /\ CanApplyTxs(n.pending, TxsIn(n.chain, Len(n.chain)))
    /\ n.pending # <<>> => n.session

\* The node has a valid chain, which the log matches once the blocks stored in
\* this operation are in it; the undo history does not reach below the first m
\* blocks, and nothing has been stored there.
Work(l, m) ==
    {n \in Nodes :
        /\ ValidChain(n.chain)
        /\ n.undo + m <= Len(n.chain)
        /\ Store(l, n.stored) \in Logs
        /\ Matches(Store(l, n.stored), n.chain)
        /\ \A k \in 1 .. m : Store(l, n.stored)[k] = l[k]
        /\ Fits(n)}

\* Between operations nothing is left to be stored or tried again, and the
\* chain on disk is valid and in the log too.
ChainInv ==
    /\ node \in Nodes /\ ValidChain(node.chain) /\ Fits(node)
    /\ node.stored = <<>> /\ node.popped = <<>>
    /\ log \in Logs /\ Matches(log, node.chain)
    /\ flushed \in Chains /\ ValidChain(flushed) /\ Matches(log, flushed)
    /\ node.undo + Len(flushed) <= Len(node.chain)

-----------------------------------------------------------------------------
(* Paths and numbers of blocks. *)

PathOn(p, S) == \A b \in S : p[b] = IF Prev[b] = Genesis THEN <<b>> ELSE <<b>> \o p[Prev[b]]

\* Every block has a path, because there are no loops.
LEMMA PathExists == \E p \in [Blocks -> BlockSeqs] : PathOn(p, Blocks)
<1> DEFINE C == {S \in SUBSET Blocks : /\ \A b \in S : Prev[b] \in S \cup {Genesis}
                                       /\ \E p \in [S -> BlockSeqs] : PathOn(p, S)}
           N == {Cardinality(Blocks \ S) : S \in C}
<1>1. {} \in C
  <2>1. [x \in {} |-> <<>>] \in [{} -> BlockSeqs] /\ PathOn([x \in {} |-> <<>>], {})
    BY DEF PathOn
  <2> QED  BY <2>1
<1>2. ASSUME NEW S \in C, S # Blocks PROVE \E b \in Blocks \ S : S \cup {b} \in C
  <2>1. PICK b \in Blocks \ S : Prev[b] \notin Blocks \ S
    <3>1. Blocks \ S \in SUBSET Blocks /\ Blocks \ S # {}
      BY <1>2
    <3> QED  BY <3>1, PrevAssumption
  <2>2. Prev[b] \in S \cup {Genesis}
    BY <2>1, PrevAssumption
  <2>3. PICK p \in [S -> BlockSeqs] : PathOn(p, S)
    OBVIOUS
  <2> DEFINE q == [x \in S \cup {b} |->
                     IF x = b THEN IF Prev[b] = Genesis THEN <<b>> ELSE <<b>> \o p[Prev[b]]
                     ELSE p[x]]
  <2>4. Genesis \notin S
    BY PrevAssumption
  <2>5. (IF Prev[b] = Genesis THEN <<b>> ELSE <<b>> \o p[Prev[b]]) \in BlockSeqs
    <3>1. <<b>> \in BlockSeqs
      BY DEF BlockSeqs
    <3>2. CASE Prev[b] = Genesis
      BY <3>1, <3>2
    <3>3. CASE Prev[b] # Genesis
      <4>1. p[Prev[b]] \in BlockSeqs
        BY <2>2, <3>3
      <4>2. <<b>> \o p[Prev[b]] \in BlockSeqs
        BY <3>1, <4>1, ConcatProperties DEF BlockSeqs
      <4> QED  BY <3>3, <4>2
    <3> QED  BY <3>2, <3>3
  <2>6. q \in [S \cup {b} -> BlockSeqs]
    BY <2>5
  <2>7. PathOn(q, S \cup {b})
    <3> SUFFICES ASSUME NEW x \in S \cup {b}
                 PROVE  q[x] = IF Prev[x] = Genesis THEN <<x>> ELSE <<x>> \o q[Prev[x]]
      BY DEF PathOn
    <3>1. CASE x = b
      BY <2>1, <2>2, <3>1
    <3>2. CASE x \in S
      <4>1. Prev[x] \in S \cup {Genesis} /\ x # b
        BY <2>1, <3>2
      <4>2. q[x] = p[x] /\ (Prev[x] # Genesis => q[Prev[x]] = p[Prev[x]])
        BY <2>1, <4>1, <3>2
      <4>3. p[x] = IF Prev[x] = Genesis THEN <<x>> ELSE <<x>> \o p[Prev[x]]
        BY <2>3, <3>2 DEF PathOn
      <4> HIDE DEF q
      <4> QED  BY <4>2, <4>3
    <3> QED  BY <3>1, <3>2
  <2>8. S \cup {b} \in SUBSET Blocks /\ \A x \in S \cup {b} : Prev[x] \in (S \cup {b}) \cup {Genesis}
    BY <2>2
  <2> HIDE DEF q
  <2> QED  BY <2>6, <2>7, <2>8
<1>3. ASSUME NEW S \in C
      PROVE  /\ Cardinality(Blocks \ S) \in Nat
             /\ \A b \in Blocks \ S : Cardinality(Blocks \ (S \cup {b})) = Cardinality(Blocks \ S) - 1
  <2>1. IsFiniteSet(Blocks \ S)
    BY PrevAssumption, FS_Subset
  <2>2. ASSUME NEW b \in Blocks \ S PROVE Cardinality(Blocks \ (S \cup {b})) = Cardinality(Blocks \ S) - 1
    <3>1. PICK T : T = Blocks \ S /\ IsFiniteSet(T) /\ b \in T
      BY <2>1
    <3>2. Cardinality(T \ {b}) = Cardinality(T) - 1
      BY ONLY <3>1, FS_RemoveElement
    <3>3. Blocks \ (S \cup {b}) = T \ {b}
      BY <3>1
    <3> QED  BY <3>1, <3>2, <3>3
  <2> QED  BY <2>1, <2>2, FS_CardinalityType
<1> DEFINE R == {p \in Nat \X Nat : p[1] < p[2]}
<1>4. PICK n \in N : \A m \in N : ~ (<<m, n>> \in R)
  <2>1. IsWellFoundedOn(R, Nat)
    BY NatLessThanWellFounded DEF OpToRel
  <2>2. N \in SUBSET Nat
    BY <1>3
  <2>3. Cardinality(Blocks \ {}) \in N
    BY <1>1
  <2> HIDE DEF R, N, C
  <2> QED  BY <2>1, <2>2, <2>3, WFMin
<1>5. PICK S \in C : n = Cardinality(Blocks \ S)
  BY <1>4
<1>6. S = Blocks
  <2> SUFFICES ASSUME S # Blocks PROVE FALSE
    OBVIOUS
  <2>1. PICK b \in Blocks \ S : S \cup {b} \in C
    BY <1>2
  <2>2. Cardinality(Blocks \ (S \cup {b})) = n - 1 /\ n \in Nat /\ Cardinality(Blocks \ (S \cup {b})) \in Nat
    BY <1>3, <1>5, <2>1
  <2>3. Cardinality(Blocks \ (S \cup {b})) \in N
    BY <2>1
  <2>4. <<Cardinality(Blocks \ (S \cup {b})), n>> \in R
    BY <2>2
  <2> QED  BY <1>4, <2>3, <2>4
<1> QED  BY <1>6

LEMMA PathDef == PathOn(Path, Blocks) /\ Path \in [Blocks -> BlockSeqs]
<1> DEFINE Eq(p) == p = [b \in Blocks |-> IF Prev[b] = Genesis THEN <<b>> ELSE <<b>> \o p[Prev[b]]]
<1>1. PICK p \in [Blocks -> BlockSeqs] : PathOn(p, Blocks)
  BY PathExists
<1>2. Eq(p)
  BY <1>1 DEF PathOn
<1>3. Eq(Path)
  <2>1. Path = CHOOSE q : Eq(q)
    BY DEF Path
  <2> QED  BY <1>2, <2>1
<1>4. PathOn(Path, Blocks)
  BY <1>3 DEF PathOn
<1> DEFINE Bad == {b \in Blocks : Path[b] \notin BlockSeqs}
<1>5. Bad = {}
  <2> SUFFICES ASSUME Bad # {} PROVE FALSE
    OBVIOUS
  <2>1. PICK b \in Bad : Prev[b] \notin Bad
    <3>1. Bad \in SUBSET Blocks
      OBVIOUS
    <3> HIDE DEF Bad
    <3> QED  BY <3>1, PrevAssumption
  <2>2. b \in Blocks /\ Path[b] \notin BlockSeqs /\ Prev[b] \in Blocks \cup {Genesis}
    BY PrevAssumption
  <2>3. <<b>> \in BlockSeqs
    BY <2>2 DEF BlockSeqs
  <2>4. Path[b] = IF Prev[b] = Genesis THEN <<b>> ELSE <<b>> \o Path[Prev[b]]
    BY <1>4, <2>2 DEF PathOn
  <2>5. CASE Prev[b] = Genesis
    BY <2>2, <2>3, <2>4, <2>5
  <2>6. CASE Prev[b] # Genesis
    <3>1. Path[Prev[b]] \in BlockSeqs
      BY <2>1, <2>2, <2>6
    <3>2. <<b>> \o Path[Prev[b]] \in BlockSeqs
      BY <2>3, <3>1, ConcatProperties DEF BlockSeqs
    <3> QED  BY <2>2, <2>4, <2>6, <3>2
  <2> QED  BY <2>5, <2>6
<1>6. DOMAIN Path = Blocks
  BY <1>3
<1>7. \A b \in Blocks : Path[b] \in BlockSeqs
  BY <1>5
<1>8. Path = [b \in Blocks |-> Path[b]]
  BY <1>3, <1>6
<1> QED  BY <1>4, <1>7, <1>8

-----------------------------------------------------------------------------
(* The folds. *)

PopStep(n, i) == PopBlock(n)
StoreStep(l, b) == [l EXCEPT ![Num(b)] = b]
RestoreStep(n, t) == IF t \in Applied(n) THEN n ELSE [DoPushTransaction(n, t) EXCEPT !.thrown = n.thrown]

RewindStep(n, i) ==
    LET p == PopBlock(n)
    IN  IF p.thrown THEN p ELSE [p EXCEPT !.fork = remove(@, head_block_id(n))]
PushStep(n, b) == IF n.thrown THEN n ELSE PushBlockOn(n, b)

Applies == INSTANCE SequenceFolds WITH Op <- ApplyBlock
Pops == INSTANCE SequenceFolds WITH Op <- PopStep
Stores == INSTANCE SequenceFolds WITH Op <- StoreStep
Removes == INSTANCE SequenceFolds WITH Op <- remove
Restores == INSTANCE SequenceFolds WITH Op <- RestoreStep
Replays == INSTANCE SequenceFolds WITH Op <- Replay
Rewinds == INSTANCE SequenceFolds WITH Op <- RewindStep
Pushes == INSTANCE SequenceFolds WITH Op <- PushStep

\* A set of numbers has a largest and a smallest one.
LEMMA MaxIn ==
    ASSUME NEW n \in Nat, NEW s \in SUBSET (0 .. n), s # {}
    PROVE  Max(s) \in s /\ \A y \in s : y <= Max(s)
<1>1. Max(s) = Applies!Largest(s)
  BY DEF Max, Applies!Largest
<1> QED  BY <1>1, Applies!LargestPicked

LEMMA MinOfTwo ==
    ASSUME NEW x \in Int, NEW y \in Int
    PROVE  Min({x, y}) = IF x <= y THEN x ELSE y
<1>1. \E m \in {x, y} : \A z \in {x, y} : m <= z
  OBVIOUS
<1>2. Min({x, y}) \in {x, y} /\ \A z \in {x, y} : Min({x, y}) <= z
  BY <1>1 DEF Min
<1> QED  BY <1>2

LEMMA MaxOfTwo ==
    ASSUME NEW x \in Int, NEW y \in Int
    PROVE  Max({x, y}) = IF x <= y THEN y ELSE x
<1>1. \E m \in {x, y} : \A z \in {x, y} : m >= z
  OBVIOUS
<1>2. Max({x, y}) \in {x, y} /\ \A z \in {x, y} : Max({x, y}) >= z
  BY <1>1 DEF Max
<1> QED  BY <1>2

\* One element, none, at least one.
LEMMA SeqOne ==
    ASSUME NEW S, NEW x \in S
    PROVE  <<x>> \in Seq(S) /\ Len(<<x>>) = 1 /\ <<x>>[1] = x
OBVIOUS

LEMMA SeqNone ==
    ASSUME NEW S, NEW s \in Seq(S)
    PROVE  /\ Len(s) \in Nat /\ <<>> \in Seq(S) /\ Len(<<>>) = 0
           /\ s = <<>> <=> Len(s) = 0
           /\ Len(s) > 0 => s[Len(s)] \in S
OBVIOUS

LEMMA SeqEmpty == ASSUME NEW S PROVE <<>> \in Seq(S) /\ Len(<<>>) = 0
OBVIOUS

\* A path is not empty and leads down to a first block.
LEMMA PathEnds ==
    ASSUME NEW b \in Blocks
    PROVE  /\ Path[b] \in BlockSeqs /\ Len(Path[b]) \in Nat \ {0}
           /\ Prev[b] # Genesis => Len(Path[b]) = Len(Path[Prev[b]]) + 1
           /\ Prev[b] = Genesis => Len(Path[b]) = 1
           /\ Path[b][Len(Path[b])] \in Blocks /\ Prev[Path[b][Len(Path[b])]] = Genesis
<1> DEFINE Ends(p) == Prev[p[Len(p)]] = Genesis
           Bad == {x \in Blocks : ~ Ends(Path[x])}
<1>1. ASSUME NEW x \in Blocks
      PROVE  /\ Path[x] \in Seq(Blocks) /\ Len(Path[x]) \in Nat
             /\ Prev[x] \in Blocks \cup {Genesis} /\ Genesis \notin Blocks
             /\ Prev[x] = Genesis => Path[x] = <<x>>
             /\ Prev[x] # Genesis => Path[x] = <<x>> \o Path[Prev[x]]
  <2>1. Path[x] \in Seq(Blocks)
    BY PathDef DEF BlockSeqs
  <2>2. Len(Path[x]) \in Nat
    BY <2>1
  <2> QED  BY <2>1, <2>2, PathDef, PrevAssumption DEF PathOn
<1>2. ASSUME NEW x \in Blocks, Prev[x] # Genesis
      PROVE  /\ Len(Path[x]) = Len(Path[Prev[x]]) + 1
             /\ Len(Path[Prev[x]]) > 0 => Path[x][Len(Path[x])] = Path[Prev[x]][Len(Path[Prev[x]])]
  <2>1. Prev[x] \in Blocks
    BY <1>1, <1>2
  <2>2. PICK p \in Seq(Blocks) : p = Path[Prev[x]]
    BY <1>1, <2>1
  <2>3. Path[x] = <<x>> \o p
    BY <1>1, <1>2, <2>2
  <2>4. /\ Len(<<x>> \o p) = Len(p) + 1
        /\ Len(p) > 0 => (<<x>> \o p)[Len(p) + 1] = p[Len(p)]
    <3>1. PICK k \in Nat : k = Len(p)
      OBVIOUS
    <3>2. PICK o \in Seq(Blocks) : o = <<x>> /\ Len(o) = 1
      BY SeqOne
    <3>3. Len(o \o p) = Len(o) + Len(p)
      BY ConcatProperties
    <3>4. \A i \in 1 .. Len(o) + Len(p) : (o \o p)[i] = IF i <= Len(o) THEN o[i] ELSE p[i - Len(o)]
      BY ConcatProperties
    <3>5. k > 0 => (o \o p)[k + 1] = p[k]
      <4> SUFFICES ASSUME k > 0 PROVE (o \o p)[k + 1] = p[k]
        OBVIOUS
      <4>1. k + 1 \in 1 .. Len(o) + Len(p) /\ ~ (k + 1 <= Len(o)) /\ (k + 1) - Len(o) = k
        BY <3>1, <3>2
      <4> QED  BY <3>4, <4>1
    <3> QED  BY <3>1, <3>2, <3>3, <3>5
  <2> QED  BY <2>2, <2>3, <2>4
<1>3. ASSUME NEW x \in Blocks PROVE Len(Path[x]) > 0
  <2>1. CASE Prev[x] = Genesis
    <3>1. Path[x] = <<x>>
      BY <1>1, <2>1
    <3>2. Len(<<x>>) = 1
      BY SeqOne
    <3> QED  BY ONLY <3>1, <3>2
  <2>2. CASE Prev[x] # Genesis
    <3>1. Prev[x] \in Blocks
      BY <1>1, <2>2
    <3>2. Len(Path[Prev[x]]) \in Nat
      BY <1>1, <3>1
    <3> QED  BY <1>2, <2>2, <3>2
  <2> QED  BY <2>1, <2>2
<1>4. Bad = {}
  <2> SUFFICES ASSUME Bad # {} PROVE FALSE
    OBVIOUS
  <2>1. PICK x \in Bad : Prev[x] \notin Bad
    <3>1. Bad \in SUBSET Blocks
      OBVIOUS
    <3> HIDE DEF Bad
    <3> QED  BY <3>1, PrevAssumption
  <2>2. x \in Blocks /\ ~ Ends(Path[x])
    OBVIOUS
  <2>3. CASE Prev[x] = Genesis
    <3>1. Path[x] = <<x>> /\ Len(<<x>>) = 1 /\ <<x>>[1] = x
      BY <1>1, <2>2, <2>3
    <3> QED  BY <2>2, <2>3, <3>1
  <2>4. CASE Prev[x] # Genesis
    <3>1. Prev[x] \in Blocks
      BY <1>1, <2>2, <2>4
    <3>2. Ends(Path[Prev[x]])
      BY <2>1, <3>1
    <3>3. Path[x][Len(Path[x])] = Path[Prev[x]][Len(Path[Prev[x]])]
      BY <1>2, <1>3, <2>2, <2>4, <3>1
    <3> QED  BY <2>2, <3>2, <3>3
  <2> QED  BY <2>3, <2>4
<1>5. Ends(Path[b])
  BY <1>4
<1>6. Path[b][Len(Path[b])] \in Blocks
  <2>1. PICK p \in Seq(Blocks) : p = Path[b] /\ Len(p) > 0
    BY <1>1, <1>3
  <2> QED  BY <2>1, SeqNone
<1>7. Prev[b] = Genesis => Len(Path[b]) = 1
  <2>1. Len(<<b>>) = 1
    OBVIOUS
  <2> QED  BY <1>1, <2>1
<1>8. Len(Path[b]) \in Nat \ {0}
  <2>1. PICK k \in Nat : k = Len(Path[b])
    BY <1>1
  <2>2. k > 0
    BY <1>3, <2>1
  <2> QED  BY <2>1, <2>2
<1> QED  BY <1>1, <1>2, <1>5, <1>6, <1>7, <1>8 DEF BlockSeqs

\* A block's number is one more than its previous one's.
LEMMA NumType ==
    /\ Num(Genesis) = 0
    /\ \A b \in Blocks : Num(b) \in Nat \ {0} /\ Num(b) = Num(Prev[b]) + 1 /\ Num(b) = Len(Path[b])
<1>1. ASSUME NEW b \in Blocks PROVE Num(b) = Len(Path[b])
  BY PrevAssumption DEF Num
<1>2. Num(Genesis) = 0
  BY DEF Num
<1>3. ASSUME NEW b \in Blocks PROVE Num(b) \in Nat \ {0} /\ Num(b) = Num(Prev[b]) + 1
  <2>1. Len(Path[b]) \in Nat \ {0}
    BY PathEnds
  <2>2. CASE Prev[b] = Genesis
    BY <1>1, <1>2, <2>1, <2>2, PathEnds
  <2>3. CASE Prev[b] # Genesis
    <3>1. Prev[b] \in Blocks
      BY <2>3, PrevAssumption
    <3> QED  BY <1>1, <2>1, <2>3, <3>1, PathEnds
  <2> QED  BY <2>2, <2>3
<1> QED  BY <1>1, <1>2, <1>3

\* The branches from two blocks down to where they meet are not empty.
LEMMA BranchType ==
    ASSUME NEW x \in Blocks, NEW y \in Blocks
    PROVE  LET e == BranchEnd(x, y)
           IN  /\ Branch(x, e) \in BlockSeqs /\ Branch(x, e) # <<>>
               /\ Branch(y, e) \in BlockSeqs /\ Branch(y, e) # <<>>
<1>1. PICK i \in Nat, j \in Nat : i = Num(x) /\ j = Num(y) /\ i > 0 /\ j > 0
  BY NumType
<1>2. PICK m \in Nat : m = Min({i, j}) /\ m <= i /\ m <= j /\ m > 0
  BY <1>1, MinOfTwo
<1> DEFINE D == {n \in 1 .. m : Prev[AtNum(x, n)] = Prev[AtNum(y, n)]}
<1>3. 1 \in D
  <2>1. AtNum(x, 1) = Path[x][i] /\ AtNum(y, 1) = Path[y][j]
    BY <1>1 DEF AtNum
  <2>2. Prev[AtNum(x, 1)] = Genesis /\ Prev[AtNum(y, 1)] = Genesis
    BY <1>1, <2>1, NumType, PathEnds
  <2> QED  BY <1>2, <2>2
<1>4. PICK e \in Nat : e = BranchEnd(x, y) /\ e \in 1 .. m
  <2>1. D \in SUBSET (0 .. m) /\ D # {}
    BY <1>3
  <2>2. BranchEnd(x, y) = Max(D)
    BY <1>1, <1>2 DEF BranchEnd
  <2> HIDE DEF D
  <2>3. Max(D) \in D
    BY <2>1, MaxIn
  <2> QED  BY <2>2, <2>3 DEF D
<1>5. ASSUME NEW b \in Blocks, NEW k \in Nat, k = Num(b), e <= k
      PROVE  Branch(b, e) \in BlockSeqs /\ Branch(b, e) # <<>>
  <2>1. PICK p \in Seq(Blocks) : p = Path[b] /\ Len(p) = k
    BY <1>5, NumType, PathEnds DEF BlockSeqs
  <2>2. PICK h \in 1 .. k : h = k - e + 1
    BY <1>4, <1>5
  <2>3. SubSeq(p, 1, h) \in Seq(Blocks) /\ Len(SubSeq(p, 1, h)) = h
    BY <2>1, <2>2, SubSeqProperties
  <2>4. Branch(b, e) = SubSeq(p, 1, h)
    BY <1>5, <2>1, <2>2 DEF Branch
  <2>5. PICK q \in Seq(Blocks) : q = SubSeq(p, 1, h) /\ Len(q) = h
    BY ONLY <2>3
  <2>6. q # <<>>
    <3>1. Len(q) # 0
      BY <2>2, <2>5
    <3> QED  BY ONLY <3>1, q \in Seq(Blocks), SeqNone
  <2> QED  BY <2>4, <2>5, <2>6 DEF BlockSeqs
<1>6. e <= i /\ e <= j
  BY <1>2, <1>4
<1> QED  BY <1>1, <1>4, <1>5, <1>6

-----------------------------------------------------------------------------
(* The fork database keeps its shape. *)

\* Before dead links are dropped.
Loose == {f \in [index : SUBSET Blocks, linked : SUBSET Blocks, head : Items \cup {NoHead}, max_size : Nat] :
             /\ \A c \in f.linked : Prev[c] \in Blocks
             /\ f.head # NoHead /\ f.head.linked => Prev[f.head.blk] \in Blocks}

LEMMA ForkLoose == Forks \subseteq Loose
BY DEF Forks, Loose

LEMMA ForkMade ==
    ASSUME NEW f \in Loose, NEW g \in [index : SUBSET Blocks, linked : SUBSET Blocks, head : Items \cup {NoHead}, max_size : Nat],
           \A c \in g.linked : c \in g.index /\ c \in f.linked,
           g.head # NoHead /\ g.head.linked => f.head # NoHead /\ f.head.linked /\ g.head.blk = f.head.blk
    PROVE  g \in Forks
BY DEF Forks, Loose

LEMMA SettleType ==
    ASSUME NEW f \in Loose
    PROVE  /\ Settle(f) \in Forks
           /\ f.head \in Items => Settle(f).head \in Items /\ Settle(f).head.blk = f.head.blk
           /\ Settle(f).index = f.index /\ (Settle(f).head = NoHead <=> f.head = NoHead)
<1> DEFINE alive == f.index \cup (IF f.head # NoHead /\ f.head.own THEN {f.head.blk} ELSE {})
           links == {c \in f.linked \cap f.index : Prev[c] \in alive}
           hd == IF f.head = NoHead THEN NoHead
                 ELSE [f.head EXCEPT !.linked = @ /\ Prev[f.head.blk] \in alive]
<1>1. Settle(f) = [f EXCEPT !.linked = links, !.head = hd]
  BY DEF Settle
<1>2. /\ f.index \in SUBSET Blocks /\ f.linked \in SUBSET Blocks /\ f.max_size \in Nat
      /\ f \in [index : SUBSET Blocks, linked : SUBSET Blocks, head : Items \cup {NoHead}, max_size : Nat]
  BY DEF Loose
<1>3. f.head \in Items \cup {NoHead}
  BY <1>2
<1>4. links \in SUBSET Blocks /\ \A c \in links : c \in f.index /\ c \in f.linked
  BY <1>2
<1> HIDE DEF links, alive
<1>5. ASSUME f.head # NoHead
      PROVE  hd \in Items /\ hd.blk = f.head.blk /\ (hd.linked => f.head.linked)
  BY <1>3, <1>5 DEF Items
<1>6. hd \in Items \cup {NoHead}
  BY <1>5
<1>7. hd # NoHead <=> f.head # NoHead
  BY <1>5, PrevAssumption DEF Items
<1>8. f.head \in Items => hd \in Items /\ hd.blk = f.head.blk
  <2>1. CASE f.head = NoHead
    BY <2>1
  <2>2. CASE f.head # NoHead
    BY <1>5, <2>2
  <2> QED  BY <2>1, <2>2
<1> HIDE DEF hd
<1> DEFINE g == [f EXCEPT !.linked = links, !.head = hd]
<1>9. /\ g.index = f.index /\ g.linked = links /\ g.head = hd
      /\ g \in [index : SUBSET Blocks, linked : SUBSET Blocks, head : Items \cup {NoHead}, max_size : Nat]
  BY <1>2, <1>4, <1>6
<1> HIDE DEF g
<1>10. g \in Forks
  <2>1. \A c \in g.linked : c \in g.index /\ c \in f.linked
    BY <1>4, <1>9
  <2>2. g.head # NoHead /\ g.head.linked => f.head # NoHead /\ f.head.linked /\ g.head.blk = f.head.blk
    BY <1>5, <1>7, <1>9
  <2> QED  BY <1>9, <2>1, <2>2, ForkMade
<1> QED  BY <1>1, <1>7, <1>8, <1>9, <1>10 DEF g

\* What the operations make of the parts of a fork database.
LEMMA LooseMade ==
    ASSUME NEW i \in SUBSET Blocks, NEW l \in SUBSET Blocks, NEW h \in Items \cup {NoHead}, NEW n \in Nat,
           \A c \in l : Prev[c] \in Blocks,
           h # NoHead /\ h.linked => Prev[h.blk] \in Blocks
    PROVE  [index |-> i, linked |-> l, head |-> h, max_size |-> n] \in Loose
<1> DEFINE g == [index |-> i, linked |-> l, head |-> h, max_size |-> n]
<1>1. g \in [index : SUBSET Blocks, linked : SUBSET Blocks, head : Items \cup {NoHead}, max_size : Nat]
  OBVIOUS
<1>2. g.linked = l /\ g.head = h
  OBVIOUS
<1> HIDE DEF g
<1>3. g \in Loose
  BY <1>1, <1>2 DEF Loose
<1> QED  BY <1>3 DEF g

LEMMA ForkParts ==
    ASSUME NEW f \in Forks
    PROVE  /\ f.index \in SUBSET Blocks /\ f.linked \in SUBSET Blocks /\ f.max_size \in Nat
           /\ f.linked \subseteq f.index
           /\ f.head \in Items \cup {NoHead}
           /\ \A c \in f.linked : Prev[c] \in Blocks
           /\ f.head # NoHead /\ f.head.linked => Prev[f.head.blk] \in Blocks
           /\ \A x : [f EXCEPT !.index = x] = [index |-> x, linked |-> f.linked, head |-> f.head, max_size |-> f.max_size]
           /\ \A x : [f EXCEPT !.max_size = x] = [index |-> f.index, linked |-> f.linked, head |-> f.head, max_size |-> x]
           /\ \A x : [f EXCEPT !.head = x] = [index |-> f.index, linked |-> f.linked, head |-> x, max_size |-> f.max_size]
           /\ \A x, y : [f EXCEPT !.index = x, !.head = y] = [index |-> x, linked |-> f.linked, head |-> y, max_size |-> f.max_size]
           /\ \A x, y : [f EXCEPT !.index = x, !.linked = y] = [index |-> x, linked |-> y, head |-> f.head, max_size |-> f.max_size]
<1>1. f \in [index : SUBSET Blocks, linked : SUBSET Blocks, head : Items \cup {NoHead}, max_size : Nat]
  BY DEF Forks
<1>2. f.linked \subseteq f.index /\ (\A c \in f.linked : Prev[c] \in Blocks)
      /\ (f.head # NoHead /\ f.head.linked => Prev[f.head.blk] \in Blocks)
  BY DEF Forks
<1>3. /\ f.index \in SUBSET Blocks /\ f.linked \in SUBSET Blocks /\ f.max_size \in Nat
      /\ f.head \in Items \cup {NoHead}
  BY <1>1
<1>4. f = [index |-> f.index, linked |-> f.linked, head |-> f.head, max_size |-> f.max_size]
  BY <1>1
<1>5. \A x : [f EXCEPT !.index = x] = [index |-> x, linked |-> f.linked, head |-> f.head, max_size |-> f.max_size]
  BY <1>4
<1>6. \A x : [f EXCEPT !.max_size = x] = [index |-> f.index, linked |-> f.linked, head |-> f.head, max_size |-> x]
  BY <1>4
<1>7. \A x : [f EXCEPT !.head = x] = [index |-> f.index, linked |-> f.linked, head |-> x, max_size |-> f.max_size]
  BY <1>4
<1>8. \A x, y : [f EXCEPT !.index = x, !.head = y] = [index |-> x, linked |-> f.linked, head |-> y, max_size |-> f.max_size]
  <2> TAKE x, y
  <2>1. PICK g : g = [index |-> x, linked |-> f.linked, head |-> f.head, max_size |-> f.max_size]
    OBVIOUS
  <2>2. [g EXCEPT !.head = y] = [index |-> x, linked |-> f.linked, head |-> y, max_size |-> f.max_size]
    BY <2>1
  <2>3. g = [f EXCEPT !.index = x]
    BY <1>5, <2>1
  <2>4. [f EXCEPT !.index = x, !.head = y] = [g EXCEPT !.head = y]
    BY ONLY <2>3
  <2> QED  BY ONLY <2>2, <2>4
<1>9. \A x, y : [f EXCEPT !.index = x, !.linked = y] = [index |-> x, linked |-> y, head |-> f.head, max_size |-> f.max_size]
  <2> TAKE x, y
  <2>1. PICK g : g = [index |-> x, linked |-> f.linked, head |-> f.head, max_size |-> f.max_size]
    OBVIOUS
  <2>2. [g EXCEPT !.linked = y] = [index |-> x, linked |-> y, head |-> f.head, max_size |-> f.max_size]
    BY <2>1
  <2>3. g = [f EXCEPT !.index = x]
    BY <1>5, <2>1
  <2>4. [f EXCEPT !.index = x, !.linked = y] = [g EXCEPT !.linked = y]
    BY ONLY <2>3
  <2> QED  BY ONLY <2>2, <2>4
<1> QED  BY ONLY <1>2, <1>3, <1>5, <1>6, <1>7, <1>8, <1>9

LEMMA ItemType ==
    ASSUME NEW b \in Blocks, NEW o \in BOOLEAN, NEW l \in BOOLEAN
    PROVE  Item(b, o, l) \in Items /\ Item(b, o, l).blk = b /\ Item(b, o, l).linked = l
BY DEF Item, Items


LEMMA PruneType ==
    ASSUME NEW f \in Forks, NEW n
    PROVE  /\ Prune(f, n) \in Forks
           /\ f.head \in Items => Prune(f, n).head \in Items /\ Prune(f, n).head.blk = f.head.blk
           /\ Prune(f, n).index = {c \in f.index : Num(c) >= n}
           /\ Prune(f, n).head = NoHead <=> f.head = NoHead
<1> DEFINE i == {c \in f.index : Num(c) >= n}
           g == [index |-> i, linked |-> f.linked, head |-> f.head, max_size |-> f.max_size]
<1>1. i \in SUBSET Blocks
  BY ForkParts
<1> HIDE DEF i
<1>2. g \in Loose
  BY <1>1, ForkParts, LooseMade
<1>3. Prune(f, n) = Settle(g)
  BY ForkParts DEF Prune, i
<1>4. g.head = f.head /\ g.index = i
  OBVIOUS
<1> HIDE DEF g
<1> QED  BY <1>2, <1>3, <1>4, SettleType DEF i

LEMMA RemoveType ==
    ASSUME NEW f \in Forks, NEW b
    PROVE  remove(f, b) \in Forks
<1> DEFINE g == [index |-> f.index \ {b}, linked |-> f.linked, head |-> f.head, max_size |-> f.max_size]
<1>1. f.index \ {b} \in SUBSET Blocks
  BY ForkParts
<1>2. g \in Loose
  BY <1>1, ForkParts, LooseMade
<1>3. remove(f, b) = Settle(g)
  BY ForkParts DEF remove
<1> HIDE DEF g
<1> QED  BY <1>2, <1>3, SettleType

LEMMA SetHeadType ==
    ASSUME NEW f \in Forks, NEW b \in Blocks, NEW o \in BOOLEAN, NEW l \in BOOLEAN, NEW i \in SUBSET Blocks,
           l => Prev[b] \in Blocks
    PROVE  /\ Settle([f EXCEPT !.head = Item(b, o, l)]) \in Forks
           /\ Settle([f EXCEPT !.index = i, !.head = Item(b, o, l)]) \in Forks
<1>1. PICK h \in Items : h = Item(b, o, l) /\ h.blk = b /\ h.linked = l
  BY ItemType
<1> DEFINE g == [index |-> f.index, linked |-> f.linked, head |-> h, max_size |-> f.max_size]
           k == [index |-> i, linked |-> f.linked, head |-> h, max_size |-> f.max_size]
<1>2. h # NoHead /\ h.linked => Prev[h.blk] \in Blocks
  BY <1>1
<1>3. g \in Loose /\ k \in Loose
  BY <1>1, <1>2, ForkParts, LooseMade
<1>4. [f EXCEPT !.head = h] = g
  BY ForkParts
<1>5. [f EXCEPT !.index = i, !.head = h] = k
  <2>1. \A x, y : [f EXCEPT !.index = x, !.head = y] = [index |-> x, linked |-> f.linked, head |-> y, max_size |-> f.max_size]
    BY ForkParts
  <2> QED  BY ONLY <2>1, Zenon
<1> HIDE DEF g, k
<1> QED  BY <1>1, <1>3, <1>4, <1>5, SettleType

LEMMA HeadOps ==
    ASSUME NEW f \in Forks, NEW b \in Blocks
    PROVE  /\ set_head(f, b) \in Forks
           /\ start_block(f, b) \in Forks
           /\ CanPop(f) => pop_block(f) \in Forks
<1>1. set_head(f, b) \in Forks
  <2> DEFINE l == b \in f.linked
  <2>1. l \in BOOLEAN
    OBVIOUS
  <2>2. l => Prev[b] \in Blocks
    BY <2>1, ForkParts
  <2>3. set_head(f, b) = Settle([f EXCEPT !.head = Item(b, TRUE, l)])
    BY DEF set_head
  <2> HIDE DEF l
  <2> QED  BY <2>1, <2>2, <2>3, SetHeadType
<1>2. start_block(f, b) \in Forks
  <2>1. PICK o \in BOOLEAN : o = (b \notin f.index)
    OBVIOUS
  <2>2. f.index \cup {b} \in SUBSET Blocks
    BY ForkParts
  <2> QED  BY <2>1, <2>2, SetHeadType DEF start_block
<1>3. ASSUME CanPop(f) PROVE pop_block(f) \in Forks
  <2>1. PICK p \in Blocks : p = Prev[f.head.blk]
    BY <1>3, ForkParts DEF CanPop
  <2> DEFINE l == p \in f.linked
  <2>2. l \in BOOLEAN
    OBVIOUS
  <2>3. l => Prev[p] \in Blocks
    BY <2>2, ForkParts
  <2>4. pop_block(f) = Settle([f EXCEPT !.head = Item(p, TRUE, l)])
    BY <2>1 DEF pop_block
  <2> HIDE DEF l
  <2> QED  BY <2>2, <2>3, <2>4, SetHeadType
<1> QED  BY <1>1, <1>2, <1>3

LEMMA MaxSizeType ==
    ASSUME NEW f \in Forks, NEW n \in Nat
    PROVE  /\ set_max_size(f, n) \in Forks
           /\ f.head = NoHead => set_max_size(f, n).head = NoHead /\ set_max_size(f, n).index = f.index
           /\ f.head # NoHead =>
                 /\ set_max_size(f, n).head # NoHead /\ set_max_size(f, n).head.blk = f.head.blk
                 /\ set_max_size(f, n).index = {c \in f.index : Num(c) >= Max({0, HeadNum(f) - n})}
<1> DEFINE g == [index |-> f.index, linked |-> f.linked, head |-> f.head, max_size |-> n]
<1>1. [f EXCEPT !.max_size = n] = g
  BY ForkParts
<1>2. g \in [index : SUBSET Blocks, linked : SUBSET Blocks, head : Items \cup {NoHead}, max_size : Nat]
  BY ForkParts
<1>3. g.linked = f.linked /\ g.index = f.index /\ g.head = f.head
  OBVIOUS
<1> HIDE DEF g
<1>4. g \in Forks
  BY <1>2, <1>3, ForkParts DEF Forks
<1>5. set_max_size(f, n) = IF f.head = NoHead THEN g ELSE Prune(g, Max({0, HeadNum(f) - n}))
  BY <1>1 DEF set_max_size
<1>6. CASE f.head = NoHead
  BY <1>3, <1>4, <1>5, <1>6
<1>7. CASE f.head # NoHead
  <2>1. g.head \in Items
    BY <1>3, <1>7, ForkParts
  <2> QED  BY <1>3, <1>4, <1>5, <1>7, <2>1, PruneType
<1> QED  BY <1>6, <1>7

\* push_block answers with a block.
LEMMA PushType ==
    ASSUME NEW f \in Forks, NEW b \in Blocks
    PROVE  /\ push_block(f, b) \in Forks /\ push_block(f, b).head.blk \in Blocks
           /\ Better(f, b) => /\ push_block(f, b).head # NoHead /\ push_block(f, b).head.blk = b
                              /\ b \in push_block(f, b).index
                              /\ push_block(f, b).index \subseteq f.index \cup {b}
           /\ ~ Better(f, b) => push_block(f, b).head = f.head
<1> DEFINE i == f.index \cup {b}
           own == b \notin f.index
           link == f.head # NoHead /\ Prev[b] # Genesis
           ls == IF own /\ link THEN f.linked \cup {b} ELSE f.linked
           g == [index |-> i, linked |-> ls, head |-> f.head, max_size |-> f.max_size]
           h == Settle([g EXCEPT !.head = Item(b, own, link)])
<1>1. i \in SUBSET Blocks /\ ls \in SUBSET Blocks /\ ls \subseteq i
  BY ForkParts
<1>2. link => Prev[b] \in Blocks
  BY PrevAssumption
<1>3. \A c \in ls : Prev[c] \in Blocks
  BY <1>2, ForkParts
<1>4. own \in BOOLEAN /\ link \in BOOLEAN
  OBVIOUS
<1>5. [f EXCEPT !.index = @ \cup {b}, !.linked = IF own /\ link THEN @ \cup {b} ELSE @] = g
  <2>1. [f EXCEPT !.index = i, !.linked = ls] = g
    <3>1. \A x, y : [f EXCEPT !.index = x, !.linked = y] = [index |-> x, linked |-> y, head |-> f.head, max_size |-> f.max_size]
      BY ForkParts
    <3> HIDE DEF i, ls
    <3> QED  BY ONLY <3>1, Zenon DEF g
  <2>2. [f EXCEPT !.index = @ \cup {b}, !.linked = IF own /\ link THEN @ \cup {b} ELSE @]
           = [f EXCEPT !.index = i, !.linked = ls]
    BY Zenon
  <2> HIDE DEF i, ls, own, link, g
  <2> QED  BY <2>1, <2>2
<1>6. push_block(f, b) = IF Better(f, b)
                         THEN IF f.head = NoHead THEN h ELSE Prune(h, Num(b) - Min({f.max_size, Num(b)}))
                         ELSE g
  <2> HIDE DEF g
  <2> QED  BY <1>5 DEF push_block
<1> HIDE DEF i, ls, own, link
<1>7. g \in Forks
  <2>1. g \in [index : SUBSET Blocks, linked : SUBSET Blocks, head : Items \cup {NoHead}, max_size : Nat]
    BY <1>1, ForkParts
  <2>2. g.linked = ls /\ g.index = i /\ g.head = f.head
    OBVIOUS
  <2> HIDE DEF g
  <2> QED  BY <1>1, <1>3, <2>1, <2>2, ForkParts DEF Forks
<1>8. h \in Forks /\ h.head \in Items /\ h.head.blk = b /\ h.index = i /\ h.head # NoHead
  <2>1. PICK k \in Items : k = Item(b, own, link) /\ k.blk = b /\ k.linked = link
    BY <1>4, ItemType
  <2> DEFINE z == [index |-> i, linked |-> ls, head |-> k, max_size |-> f.max_size]
  <2>2. [g EXCEPT !.head = k] = z
    OBVIOUS
  <2>3. z \in Loose
    <3>1. k # NoHead /\ k.linked => Prev[k.blk] \in Blocks
      BY <1>2, <2>1
    <3> QED  BY <1>1, <1>3, <2>1, <3>1, ForkParts, LooseMade
  <2>4. z.head = k /\ z.index = i
    OBVIOUS
  <2>5. k # NoHead
    BY PrevAssumption DEF Items
  <2> HIDE DEF z, g
  <2> QED  BY <2>1, <2>2, <2>3, <2>4, <2>5, SettleType
<1>9. g.head = f.head
  OBVIOUS
<1> HIDE DEF g, h
<1>10. CASE ~ Better(f, b)
  <2>1. f.head \in Items
    BY <1>10, ForkParts DEF Better
  <2>2. f.head.blk \in Blocks
    BY <2>1 DEF Items
  <2> QED  BY <1>6, <1>7, <1>9, <1>10, <2>2
<1>11. CASE Better(f, b)
  <2>1. PICK k \in Int : k = Num(b) - Min({f.max_size, Num(b)}) /\ Num(b) >= k
    <3>1. PICK x \in Nat, y \in Nat : x = f.max_size /\ y = Num(b)
      BY NumType, ForkParts
    <3>2. PICK z \in Nat : z = Min({x, y})
      <4>1. Min({x, y}) \in Nat
        BY MinOfTwo
      <4> QED  BY ONLY <4>1
    <3>3. y - z \in Int /\ y >= y - z
      OBVIOUS
    <3> QED  BY ONLY <3>1, <3>2, <3>3
  <2>2. i = f.index \cup {b} /\ b \in i
    BY DEF i
  <2>3. push_block(f, b) \in {h, Prune(h, k)}
    BY <1>6, <1>11, <2>1
  <2>4. /\ Prune(h, k) \in Forks /\ Prune(h, k).head.blk = b /\ Prune(h, k).head # NoHead
        /\ Prune(h, k).index = {c \in i : Num(c) >= k}
    BY <1>8, PruneType
  <2> QED  BY <1>8, <1>11, <2>1, <2>2, <2>3, <2>4
<1> QED  BY <1>10, <1>11


-----------------------------------------------------------------------------
(* Transactions. *)

LEMMA TxsNone == ASSUME NEW s PROVE CanApplyTxs(<<>>, s)
BY DEF CanApplyTxs

\* What applies on top of more applies on top of less.
LEMMA TxsLess ==
    ASSUME NEW ts, NEW s, NEW r \in SUBSET s, CanApplyTxs(ts, s)
    PROVE  CanApplyTxs(ts, r)
<1> SUFFICES ASSUME NEW i \in 1 .. Len(ts)
             PROVE  LET before == r \cup {ts[j] : j \in 1 .. i - 1}
                    IN  ts[i] \notin before /\ \A t \in before : {t, ts[i]} \notin Clash
  BY DEF CanApplyTxs
<1> DEFINE p == {ts[j] : j \in 1 .. i - 1}
<1>1. ts[i] \notin s \cup p /\ \A t \in s \cup p : {t, ts[i]} \notin Clash
  BY DEF CanApplyTxs
<1>2. r \cup p \subseteq s \cup p
  OBVIOUS
<1> HIDE DEF p
<1>3. ts[i] \notin r \cup p /\ \A t \in r \cup p : {t, ts[i]} \notin Clash
  BY <1>1, <1>2
<1> QED  BY <1>3 DEF p

\* One more transaction.
LEMMA TxsAppend ==
    ASSUME NEW p \in TxSeqs, NEW t \in Txs, NEW s,
           CanApplyTxs(p, s), CanApplyTxs(<<t>>, s \cup ToSet(p))
    PROVE  CanApplyTxs(Append(p, t), s)
<1> DEFINE q == Append(p, t)
<1>1. PICK n \in Nat : n = Len(p) /\ Len(q) = n + 1 /\ q[n + 1] = t /\ (\A i \in 1 .. n : q[i] = p[i]) /\ DOMAIN p = 1 .. n
  BY DEF TxSeqs
<1> HIDE DEF q
<1> SUFFICES ASSUME NEW i \in 1 .. n + 1
             PROVE  LET before == s \cup {q[j] : j \in 1 .. i - 1}
                    IN  q[i] \notin before /\ \A u \in before : {u, q[i]} \notin Clash
  BY <1>1 DEF CanApplyTxs, q
<1> DEFINE b == {q[j] : j \in 1 .. i - 1}
<1>2. b = {p[j] : j \in 1 .. i - 1}
  BY <1>1
<1>3. CASE i <= n
  <2>1. i \in 1 .. Len(p)
    BY <1>1, <1>3
  <2>2. p[i] \notin s \cup {p[j] : j \in 1 .. i - 1} /\ \A u \in s \cup {p[j] : j \in 1 .. i - 1} : {u, p[i]} \notin Clash
    BY <2>1 DEF CanApplyTxs
  <2>3. q[i] = p[i]
    BY <1>1, <1>3
  <2> HIDE DEF b
  <2>4. q[i] \notin s \cup b /\ \A u \in s \cup b : {u, q[i]} \notin Clash
    BY <1>2, <2>2, <2>3
  <2> QED  BY <2>4 DEF b
<1>4. CASE i = n + 1
  <2>1. i - 1 = n
    BY <1>4
  <2>2. b = ToSet(p)
    BY <1>1, <1>2, <2>1 DEF ToSet
  <2>3. 1 \in 1 .. Len(<<t>>) /\ <<t>>[1] = t
    OBVIOUS
  <2>4. \A x \in 1 .. Len(<<t>>) :
           LET before == (s \cup ToSet(p)) \cup {<<t>>[j] : j \in 1 .. x - 1}
           IN  <<t>>[x] \notin before /\ \A u \in before : {u, <<t>>[x]} \notin Clash
    BY DEF CanApplyTxs
  <2>5. t \notin s \cup ToSet(p) /\ \A u \in s \cup ToSet(p) : {u, t} \notin Clash
    BY <2>3, <2>4
  <2>6. q[i] = t
    BY <1>1, <1>4
  <2> HIDE DEF b
  <2>7. q[i] \notin s \cup b /\ \A u \in s \cup b : {u, q[i]} \notin Clash
    BY <2>2, <2>5, <2>6
  <2> QED  BY <2>7 DEF b
<1> QED  BY <1>3, <1>4

\* A transaction is in the state if it is in the chain or pending.
LEMMA AppliedIs ==
    ASSUME NEW n
    PROVE  Applied(n) = TxsIn(n.chain, Len(n.chain)) \cup ToSet(n.pending)
<1>1. UNION {ToSet(TxsOf[b]) : b \in ChainBlocks(n)} = TxsIn(n.chain, Len(n.chain))
  <2>1. {ToSet(TxsOf[b]) : b \in ChainBlocks(n)} = {ToSet(TxsOf[n.chain[k].blk]) : k \in 1 .. Len(n.chain)}
    BY DEF ChainBlocks
  <2> QED  BY ONLY <2>1 DEF TxsIn
<1> QED  BY ONLY <1>1 DEF Applied

LEMMA TxsInGrows ==
    ASSUME NEW c, NEW i \in Nat, NEW j \in Nat, i <= j
    PROVE  TxsIn(c, i) \subseteq TxsIn(c, j)
<1>1. \A k \in 1 .. i : k \in 1 .. j
  OBVIOUS
<1>2. {ToSet(TxsOf[c[k].blk]) : k \in 1 .. i} \subseteq {ToSet(TxsOf[c[k].blk]) : k \in 1 .. j}
  BY <1>1
<1> QED  BY <1>2 DEF TxsIn

-----------------------------------------------------------------------------
(* Chains. *)

Agree(c, d, k) == \A j \in 1 .. k : c[j] = d[j]

\* Whether a block is valid depends on the blocks below it only.
LEMMA ValidAgree ==
    ASSUME NEW c, NEW d, NEW k \in Nat \ {0}, Agree(c, d, k)
    PROVE  ValidAt(c, k) = ValidAt(d, k) /\ TxsIn(c, k) = TxsIn(d, k)
<1>1. c[k] = d[k] /\ (k # 1 => c[k - 1] = d[k - 1])
  BY DEF Agree
<1>2. \A j \in 1 .. k - 1 : c[j] = d[j]
  BY DEF Agree
<1>3. TxsIn(c, k - 1) = TxsIn(d, k - 1)
  BY <1>2 DEF TxsIn
<1>4. TxsIn(c, k) = TxsIn(d, k)
  BY DEF TxsIn, Agree
<1>5. Part(c, k - 1) = Part(d, k - 1)
  BY <1>2 DEF Part
<1>6. LibBelow(c, k) = LibBelow(d, k)
  BY <1>1 DEF LibBelow
<1>7. (IF k = 1 THEN Genesis ELSE c[k - 1].blk) = IF k = 1 THEN Genesis ELSE d[k - 1].blk
  BY <1>1
<1> QED  BY ONLY <1>1, <1>3, <1>4, <1>5, <1>6, <1>7 DEF ValidAt

LEMMA ValidPart ==
    ASSUME NEW c, NEW d, NEW k \in Nat, NEW j \in 1 .. k, Agree(c, d, k)
    PROVE  ValidAt(c, j) = ValidAt(d, j)
<1>1. Agree(c, d, j) /\ j \in Nat \ {0}
  BY DEF Agree
<1> QED  BY ONLY <1>1, ValidAgree

LEMMA AppendParts ==
    ASSUME NEW c \in Chains, NEW e \in Entries
    PROVE  /\ Append(c, e) \in Chains /\ Len(c) \in Nat /\ Len(Append(c, e)) = Len(c) + 1
           /\ Append(c, e)[Len(c) + 1] = e
           /\ Agree(Append(c, e), c, Len(c))
BY DEF Chains, Agree

\* A chain is its first blocks.
LEMMA PartIs ==
    ASSUME NEW c \in Chains, NEW d, NEW k \in Nat, k = Len(c), Agree(d, c, k)
    PROVE  Part(d, k) = c
<1>1. c = [j \in 1 .. k |-> c[j]]
  BY DEF Chains
<1>2. \A j \in 1 .. k : d[j] = c[j]
  BY DEF Agree
<1>3. [j \in 1 .. k |-> d[j]] = [j \in 1 .. k |-> c[j]]
  BY <1>2
<1> QED  BY ONLY <1>1, <1>3 DEF Part

LEMMA FrontParts ==
    ASSUME NEW c \in Chains, c # <<>>
    PROVE  /\ Front(c) \in Chains /\ Len(c) \in Nat \ {0} /\ Len(Front(c)) = Len(c) - 1
           /\ Agree(Front(c), c, Len(c) - 1)
           /\ Last(c) = c[Len(c)] /\ Last(c) \in Entries
<1>1. PICK n \in Nat : n = Len(c) /\ n > 0 /\ \A i \in 1 .. n : c[i] \in Entries
  BY DEF Chains
<1>2. \A i \in 1 .. n - 1 : c[i] \in Entries
  BY <1>1
<1>3. /\ SubSeq(c, 1, n - 1) \in Seq(Entries)
      /\ Len(SubSeq(c, 1, n - 1)) = IF 1 <= n - 1 THEN (n - 1) - 1 + 1 ELSE 0
      /\ \A i \in 1 .. (n - 1) - 1 + 1 : SubSeq(c, 1, n - 1)[i] = c[1 + i - 1]
  BY <1>1, <1>2, SubSeqProperties
<1>4. Front(c) = SubSeq(c, 1, n - 1) /\ Last(c) = c[n]
  BY <1>1 DEF Front, Last
<1>5. Len(SubSeq(c, 1, n - 1)) = n - 1
  BY <1>1, <1>3
<1>6. \A i \in 1 .. n - 1 : SubSeq(c, 1, n - 1)[i] = c[i]
  BY <1>1, <1>3
<1> QED  BY <1>1, <1>3, <1>4, <1>5, <1>6 DEF Chains, Agree

LEMMA ValidNone == <<>> \in Chains /\ ValidChain(<<>>)
BY DEF Chains, ValidChain

LEMMA ValidAppend ==
    ASSUME NEW c \in Chains, NEW e \in Entries, ValidChain(c), ValidAt(Append(c, e), Len(c) + 1)
    PROVE  ValidChain(Append(c, e))
<1>1. PICK n \in Nat : n = Len(c)
  BY AppendParts
<1> SUFFICES ASSUME NEW k \in 1 .. n + 1 PROVE ValidAt(Append(c, e), k)
  BY <1>1, AppendParts DEF ValidChain
<1>2. CASE k = n + 1
  BY <1>1, <1>2
<1>3. CASE k # n + 1
  <2>1. k \in 1 .. n
    BY <1>3
  <2>2. ValidAt(c, k)
    BY <1>1, <2>1 DEF ValidChain
  <2>3. Agree(Append(c, e), c, n)
    BY <1>1, AppendParts
  <2> QED  BY <2>1, <2>2, <2>3, ValidPart
<1> QED  BY <1>2, <1>3

LEMMA ValidFront ==
    ASSUME NEW c \in Chains, c # <<>>, ValidChain(c)
    PROVE  ValidChain(Front(c))
<1>1. PICK n \in Nat : n = Len(c) - 1 /\ Len(Front(c)) = n /\ Agree(Front(c), c, n)
  BY FrontParts
<1> SUFFICES ASSUME NEW k \in 1 .. n PROVE ValidAt(Front(c), k)
  BY <1>1 DEF ValidChain
<1>2. ValidAt(c, k)
  BY <1>1, FrontParts DEF ValidChain
<1> QED  BY <1>1, <1>2, ValidPart

\* The head of a valid chain.
LEMMA HeadIs ==
    ASSUME NEW n \in Nodes, ValidChain(n.chain)
    PROVE  /\ Len(n.chain) \in Nat
           /\ head_block_num(n) = Len(n.chain)
           /\ last_irreversible(n) \in 0 .. Len(n.chain)
           /\ head_block_id(n) \in Blocks \cup {Genesis}
           /\ n.chain = <<>> => head_block_id(n) = Genesis
           /\ n.chain # <<>> => head_block_id(n) = n.chain[Len(n.chain)].blk /\ head_block_id(n) \in Blocks
<1>1. n.chain \in Chains
  BY DEF Nodes
<1>2. CASE n.chain = <<>>
  <2>1. Len(n.chain) = 0
    BY <1>2
  <2> QED  BY <1>2, <2>1, NumType DEF head_block_num, head_block_id, last_irreversible
<1>3. CASE n.chain # <<>>
  <2>1. PICK c \in Chains : c = n.chain /\ c # <<>>
    BY <1>1, <1>3
  <2>2. PICK k \in Nat : k = Len(c) /\ k > 0 /\ Last(c) = c[k] /\ Last(c) \in Entries
    <3>1. Len(c) \in Nat \ {0} /\ Last(c) = c[Len(c)] /\ Last(c) \in Entries
      BY ONLY <2>1, c \in Chains, FrontParts
    <3> QED  BY ONLY <3>1
  <2>3. Num(c[k].blk) = k /\ c[k].lib <= k
    BY <2>1, <2>2 DEF ValidChain, ValidAt
  <2>4. c[k].blk \in Blocks /\ c[k].lib \in Nat
    BY <2>2 DEF Entries
  <2>5. head_block_id(n) = c[k].blk /\ last_irreversible(n) = c[k].lib
    BY <2>1, <2>2 DEF head_block_id, last_irreversible
  <2> QED  BY <2>1, <2>2, <2>3, <2>4, <2>5 DEF head_block_num
<1> QED  BY <1>2, <1>3


\* What is irreversible below the next block.
LEMMA LibBelowIs ==
    ASSUME NEW n \in Nodes, NEW k \in Nat, k = Len(n.chain), NEW d, Agree(d, n.chain, k)
    PROVE  LibBelow(d, k + 1) = last_irreversible(n)
<1>1. PICK c \in Chains : c = n.chain
  BY DEF Nodes
<1>2. CASE k = 0
  <2>1. c = <<>>
    BY <1>1, <1>2, SeqNone DEF Chains
  <2>2. k + 1 = 1
    BY <1>2
  <2> QED  BY <1>1, <2>1, <2>2 DEF LibBelow, last_irreversible
<1>3. CASE k # 0
  <2>1. c # <<>>
    BY <1>1, <1>3, SeqNone DEF Chains
  <2>2. Last(c) = c[k]
    BY <1>1, <2>1, FrontParts
  <2>3. k + 1 # 1 /\ (k + 1) - 1 = k /\ d[k] = c[k]
    BY <1>1, <1>3 DEF Agree
  <2> QED  BY <1>1, <2>1, <2>2, <2>3 DEF LibBelow, last_irreversible
<1> QED  BY <1>2, <1>3

-----------------------------------------------------------------------------
(* The irreversible block. *)

\* A witness confirmed one of the blocks, or none.
LEMMA LastConfirmedType ==
    ASSUME NEW c \in Chains, \A k \in 1 .. Len(c) : Num(c[k].blk) = k, NEW w
    PROVE  LastConfirmed(c, w) \in 0 .. Len(c)
<1>1. PICK n \in Nat : n = Len(c)
  BY DEF Chains
<1> DEFINE s == {0} \cup {Num(c[k].blk) : k \in {j \in 1 .. Len(c) : Witness[c[j].blk] = w}}
<1>2. s \in SUBSET (0 .. n) /\ s # {}
  BY <1>1
<1>3. LastConfirmed(c, w) = Max(s)
  BY DEF LastConfirmed
<1> HIDE DEF s
<1>4. Max(s) \in s
  BY <1>2, MaxIn
<1> QED  BY <1>1, <1>2, <1>3, <1>4

LEMMA NthConfirmedType ==
    ASSUME NEW c \in Chains, \A k \in 1 .. Len(c) : Num(c[k].blk) = k
    PROVE  NthConfirmed(c) \in 0 .. Len(c)
<1>1. PICK n \in Nat : n = Len(c)
  BY DEF Chains
<1> DEFINE f == [w \in Witnesses |-> LastConfirmed(c, w)]
<1>2. \A w \in Witnesses : LastConfirmed(c, w) \in 0 .. n
  BY <1>1, LastConfirmedType
<1>3. f \in [Witnesses -> 0 .. n]
  BY <1>2
<1>4. PICK m \in Nat : m = Cardinality(Witnesses)
  BY ChainAssumption, FS_CardinalityType
<1>5. IsFiniteSet(Witnesses) /\ Offset \in Nat /\ Offset < Cardinality(Witnesses)
  BY <1>4, ChainAssumption
<1>6. \A w \in Witnesses : f[w] = LastConfirmed(c, w)
  OBVIOUS
<1> HIDE DEF f
<1>7. PICK v \in 0 .. n : AtPosition(f, Witnesses, v, Offset)
  <2>1. PICK k \in Nat : k = Offset /\ k < Cardinality(Witnesses)
    BY <1>5
  <2>2. \E v \in 0 .. n : AtPosition(f, Witnesses, v, k)
    BY ONLY <1>3, <1>5, <2>1, n \in Nat, OrderStatistic
  <2> QED  BY ONLY <2>1, <2>2
<1> DEFINE conf == {LastConfirmed(c, w) : w \in Witnesses}
           Nth(x) == /\ Cardinality({w \in Witnesses : LastConfirmed(c, w) < x}) <= Offset
                     /\ Cardinality({w \in Witnesses : LastConfirmed(c, w) <= x}) > Offset
<1>8. {w \in Witnesses : f[w] < v} = {w \in Witnesses : LastConfirmed(c, w) < v}
  BY <1>6
<1>9. {w \in Witnesses : f[w] <= v} = {w \in Witnesses : LastConfirmed(c, w) <= v}
  BY <1>6
<1>10. v \in conf /\ Nth(v)
  BY <1>6, <1>7, <1>8, <1>9 DEF AtPosition
<1>11. NthConfirmed(c) = CHOOSE x \in conf : Nth(x)
  BY DEF NthConfirmed
<1>12. \A x \in conf : x \in 0 .. n
  BY <1>2
<1> HIDE DEF conf, Nth
<1>13. NthConfirmed(c) \in conf
  BY <1>10, <1>11
<1> QED  BY <1>1, <1>12, <1>13

\* The irreversible block is one of the chain, the new block included.
LEMMA IrreversibleType ==
    ASSUME NEW c \in Chains, ValidChain(c), NEW b \in Blocks, Num(b) = Len(c) + 1, NEW lib \in 0 .. Len(c)
    PROVE  update_last_irreversible_block(c, b, lib) \in 0 .. Len(c) + 1
<1>1. PICK n \in Nat : n = Len(c) /\ Num(b) = n + 1 /\ lib \in 0 .. n
  BY AppendParts DEF Chains
<1> DEFINE e == [blk |-> b, lib |-> lib]
           d == Append(c, e)
<1>2. e \in Entries /\ e.blk = b
  BY <1>1 DEF Entries
<1> HIDE DEF e
<1>3. d \in Chains /\ Len(d) = n + 1 /\ d[n + 1] = e /\ Agree(d, c, n)
  BY <1>1, <1>2, AppendParts
<1> HIDE DEF d
<1>4. \A k \in 1 .. Len(d) : Num(d[k].blk) = k
  <2> SUFFICES ASSUME NEW k \in 1 .. n + 1 PROVE Num(d[k].blk) = k
    BY <1>3
  <2>1. CASE k = n + 1
    BY <1>1, <1>2, <1>3, <2>1
  <2>2. CASE k # n + 1
    <3>1. k \in 1 .. n
      BY <2>2
    <3>2. d[k] = c[k]
      BY <1>3, <3>1 DEF Agree
    <3>3. Num(c[k].blk) = k
      BY <1>1, <3>1 DEF ValidChain, ValidAt
    <3> QED  BY <3>2, <3>3
  <2> QED  BY <2>1, <2>2
<1>5. PICK v \in 0 .. n + 1 : v = NthConfirmed(d)
  BY <1>3, <1>4, NthConfirmedType
<1>6. Max({lib, v}) = IF lib <= v THEN v ELSE lib
  BY <1>1, MaxOfTwo
<1>7. PICK i \in Nat : /\ i = n + 1
                       /\ update_last_irreversible_block(c, b, lib)
                            = IF i < StartVoting THEN IF i > MaxMiners THEN i - MaxMiners ELSE lib
                              ELSE Max({lib, v})
  <2>1. update_last_irreversible_block(c, b, lib)
          = IF Num(b) < StartVoting THEN IF Num(b) > MaxMiners THEN Num(b) - MaxMiners ELSE lib
            ELSE Max({lib, NthConfirmed(d)})
    BY DEF update_last_irreversible_block, d, e
  <2>2. PICK i \in Nat : i = Num(b) /\ i = n + 1
    BY <1>1
  <2>3. update_last_irreversible_block(c, b, lib)
          = IF i < StartVoting THEN IF i > MaxMiners THEN i - MaxMiners ELSE lib
            ELSE Max({lib, v})
    BY ONLY <1>5, <2>1, <2>2, Zenon
  <2> QED  BY ONLY <2>2, <2>3, Zenon
<1> QED  BY <1>1, <1>6, <1>7, ChainAssumption


-----------------------------------------------------------------------------
(* The block log. *)

Top == Max({Num(b) : b \in Blocks})
LogFuns == [1 .. Top -> Blocks \cup {Genesis}]

\* Every block's number has a place in the log.
LEMMA TopNum == Top \in Nat /\ \A b \in Blocks : Num(b) \in 1 .. Top
<1> DEFINE Bounded(S, n) == \A b \in S : Num(b) <= n
           F == {S \in SUBSET Blocks : \E n \in Nat : Bounded(S, n)}
<1>1. {} \in F
  OBVIOUS
<1>2. ASSUME NEW S \in F, NEW b \in Blocks \ S PROVE S \cup {b} \in F
  <2>1. PICK n \in Nat : Bounded(S, n)
    OBVIOUS
  <2>2. PICK k \in Nat : k = Num(b)
    BY NumType
  <2>3. PICK m \in Nat : n <= m /\ k <= m
    <3>1. n <= n + k /\ k <= n + k /\ n + k \in Nat
      OBVIOUS
    <3> QED  BY <3>1
  <2>4. Bounded(S \cup {b}, m)
    <3> SUFFICES ASSUME NEW x \in S \cup {b} PROVE Num(x) <= m
      OBVIOUS
    <3>1. PICK i \in Nat : i = Num(x)
      BY NumType
    <3>2. i <= m
      BY <2>1, <2>2, <2>3, <3>1
    <3> QED  BY <3>1, <3>2
  <2>5. S \cup {b} \in SUBSET Blocks
    OBVIOUS
  <2> HIDE DEF Bounded
  <2> QED  BY <2>4, <2>5
<1>3. F = SUBSET Blocks
  <2>1. F \in SUBSET (SUBSET Blocks)
    OBVIOUS
  <2>2. IsFiniteSet(Blocks)
    BY PrevAssumption
  <2> HIDE DEF F
  <2> QED  BY <1>1, <1>2, <2>1, <2>2, SetInduction
<1>4. PICK n \in Nat : Bounded(Blocks, n)
  BY <1>3
<1> DEFINE s == {Num(b) : b \in Blocks}
<1>5. s \in SUBSET (0 .. n) /\ s # {}
  BY <1>4, NumType, PrevAssumption
<1>6. PICK t \in Nat : t = Max(s) /\ \A y \in s : y <= t
  <2> HIDE DEF s
  <2>1. Max(s) \in s /\ \A y \in s : y <= Max(s)
    BY <1>5, MaxIn
  <2>2. Max(s) \in Nat
    <3>1. PICK m : m = Max(s) /\ m \in s
      BY ONLY <2>1
    <3>2. m \in Nat
      BY ONLY <1>5, <3>1, n \in Nat
    <3> QED  BY ONLY <3>1, <3>2
  <2> QED  BY ONLY <2>1, <2>2
<1>7. Top = t
  BY <1>6 DEF Top
<1>8. ASSUME NEW b \in Blocks PROVE Num(b) \in 1 .. t
  <2>1. PICK i \in Nat : i = Num(b) /\ i > 0
    BY NumType
  <2>2. i \in s
    BY <2>1
  <2>3. i <= t
    BY <1>6, <2>2
  <2> QED  BY <2>1, <2>3
<1> QED  BY <1>7, <1>8

LEMMA LogParts ==
    ASSUME NEW l \in Logs
    PROVE  /\ l \in LogFuns /\ DOMAIN l = 1 .. Top
           /\ \A k \in 1 .. Top : l[k] \in Blocks \cup {Genesis}
           /\ \A k \in 1 .. Top : l[k] # Genesis => Num(l[k]) = k /\ Made(l[k])
           /\ \A k \in 1 .. Top : k > 1 /\ l[k] # Genesis => l[k - 1] # Genesis
BY DEF Logs, LogFuns, Top

LEMMA LogMade ==
    ASSUME NEW l \in LogFuns,
           \A k \in 1 .. Top : l[k] # Genesis => Num(l[k]) = k /\ Made(l[k]),
           \A k \in 1 .. Top : k > 1 /\ l[k] # Genesis => l[k - 1] # Genesis
    PROVE  l \in Logs
BY DEF Logs, LogFuns, Top

LEMMA StoreIsFold == ASSUME NEW l, NEW s PROVE Store(l, s) = Stores!Fold(l, s)
BY DEF Store, StoreStep, Stores!Fold, FoldLeft, Stores!MapThenFoldSet, MapThenFoldSet, Max, Stores!Largest

LEMMA StoreClosed == Stores!Closed(LogFuns, Blocks)
<1> SUFFICES ASSUME NEW l \in LogFuns, NEW b \in Blocks PROVE StoreStep(l, b) \in LogFuns
  BY DEF Stores!Closed
<1> QED  BY DEF StoreStep, LogFuns

LEMMA StoreNone == ASSUME NEW l \in LogFuns PROVE Store(l, <<>>) = l
<1>1. PICK e \in Seq(Blocks) : e = <<>> /\ Len(e) = 0
  <2>1. <<>> \in Seq(Blocks) /\ Len(<<>>) = 0
    BY SeqEmpty
  <2> QED  BY ONLY <2>1
<1>2. PICK g \in [0 .. Len(e) -> LogFuns] : Stores!FoldsTo(g, l, e) /\ Stores!Fold(l, e) = g[Len(e)]
  <2>1. PICK V : V = LogFuns /\ l \in V /\ Stores!Closed(V, Blocks)
    BY StoreClosed
  <2>2. \E g \in [0 .. Len(e) -> V] : Stores!FoldsTo(g, l, e) /\ Stores!Fold(l, e) = g[Len(e)]
    BY ONLY <2>1, e \in Seq(Blocks), Stores!FoldSteps
  <2> QED  BY ONLY <2>1, <2>2
<1>3. Stores!Fold(l, e) = l
  BY <1>1, <1>2 DEF Stores!FoldsTo
<1> QED  BY <1>1, <1>3, StoreIsFold

\* One more block is stored under its number.
LEMMA StoreAppend ==
    ASSUME NEW l \in LogFuns, NEW s \in BlockSeqs, NEW b \in Blocks
    PROVE  Store(l, Append(s, b)) = [Store(l, s) EXCEPT ![Num(b)] = b]
<1>1. Stores!Fold(l, Append(s, b)) = StoreStep(Stores!Fold(l, s), b)
  BY StoreClosed, Stores!FoldAppend DEF BlockSeqs
<1>2. Store(l, s) = Stores!Fold(l, s)
  BY StoreIsFold
<1>3. Store(l, Append(s, b)) = Stores!Fold(l, Append(s, b))
  BY StoreIsFold
<1>4. Store(l, Append(s, b)) = StoreStep(Store(l, s), b)
  BY ONLY <1>1, <1>2, <1>3
<1> QED  BY ONLY <1>4 DEF StoreStep

\* Storing the next block of a chain leaves a log without gaps that matches
\* the longer chain.
LEMMA LogExtends ==
    ASSUME NEW l \in Logs, NEW c \in Chains, Matches(l, c), NEW e \in Entries,
           NEW b \in Blocks, e.blk = b, Num(b) = Len(c) + 1, Made(b)
    PROVE  /\ [l EXCEPT ![Num(b)] = b] \in Logs
           /\ Matches([l EXCEPT ![Num(b)] = b], Append(c, e))
           /\ \A k \in 1 .. Len(c) : [l EXCEPT ![Num(b)] = b][k] = l[k]
<1>1. PICK n \in Nat : n = Len(c) /\ Num(b) = n + 1
  BY DEF Chains
<1>2. PICK t \in Nat : t = Top /\ n + 1 \in 1 .. t
  BY <1>1, TopNum
<1> DEFINE r == [l EXCEPT ![n + 1] = b]
<1>3. l \in [1 .. t -> Blocks \cup {Genesis}] /\ Genesis \notin Blocks
  BY <1>2, LogParts, PrevAssumption DEF LogFuns
<1>4. r \in [1 .. t -> Blocks \cup {Genesis}] /\ r[n + 1] = b /\ \A k \in 1 .. t : k # n + 1 => r[k] = l[k]
  BY <1>2, <1>3
<1>5. \A k \in 1 .. n : l[k] = c[k].blk /\ c[k].blk \in Blocks
  <2> SUFFICES ASSUME NEW k \in 1 .. n PROVE l[k] = c[k].blk /\ c[k].blk \in Blocks
    OBVIOUS
  <2>1. c[k] \in Entries
    BY <1>1 DEF Chains
  <2> QED  BY <1>1, <2>1 DEF Matches, Entries
<1> HIDE DEF r
<1>6. \A k \in 1 .. t : r[k] # Genesis => Num(r[k]) = k /\ Made(r[k])
  <2> SUFFICES ASSUME NEW k \in 1 .. t, r[k] # Genesis PROVE Num(r[k]) = k /\ Made(r[k])
    OBVIOUS
  <2>1. CASE k = n + 1
    BY <1>1, <1>4, <2>1
  <2>2. CASE k # n + 1
    BY <1>2, <1>4, <2>2, LogParts
  <2> QED  BY <2>1, <2>2
<1>7. \A k \in 1 .. t : k > 1 /\ r[k] # Genesis => r[k - 1] # Genesis
  <2> SUFFICES ASSUME NEW k \in 1 .. t, k > 1, r[k] # Genesis PROVE r[k - 1] # Genesis
    OBVIOUS
  <2>0. k - 1 \in 1 .. t
    BY <1>2
  <2>1. CASE k = n + 1
    <3>1. k - 1 \in 1 .. n /\ k - 1 # n + 1
      BY <2>1
    <3> QED  BY <1>3, <1>4, <1>5, <2>0, <3>1
  <2>2. CASE k - 1 = n + 1
    BY <1>3, <1>4, <2>2
  <2>3. CASE k # n + 1 /\ k - 1 # n + 1
    <3>1. l[k] # Genesis
      BY <1>4, <2>3
    <3>2. l[k - 1] # Genesis
      BY <1>2, <3>1, LogParts
    <3> QED  BY <1>4, <2>0, <2>3, <3>2
  <2> QED  BY <2>1, <2>2, <2>3
<1>8. r \in Logs
  BY <1>2, <1>4, <1>6, <1>7, LogMade DEF LogFuns
<1>9. Matches(r, Append(c, e))
  <2>1. Len(Append(c, e)) = n + 1 /\ Append(c, e)[n + 1] = e /\ Agree(Append(c, e), c, n)
    BY <1>1, AppendParts
  <2> SUFFICES ASSUME NEW k \in 1 .. n + 1 PROVE k \in DOMAIN r /\ r[k] = Append(c, e)[k].blk
    BY <2>1 DEF Matches
  <2>2. k \in 1 .. t /\ DOMAIN r = 1 .. t
    BY <1>2, <1>4
  <2>3. CASE k = n + 1
    BY <1>4, <2>1, <2>2, <2>3
  <2>4. CASE k # n + 1
    <3>1. k \in 1 .. n
      BY <2>4
    <3>2. Append(c, e)[k] = c[k]
      BY <2>1, <3>1 DEF Agree
    <3> QED  BY <1>4, <1>5, <2>2, <2>4, <3>1, <3>2
  <2> QED  BY <2>3, <2>4
<1>10. \A k \in 1 .. n : r[k] = l[k]
  BY <1>2, <1>4
<1> QED  BY <1>1, <1>8, <1>9, <1>10 DEF r


-----------------------------------------------------------------------------
(* Steps of an operation. *)

LEMMA NodeParts ==
    ASSUME NEW n \in Nodes
    PROVE  /\ n.chain \in Chains /\ n.undo \in Nat /\ n.undo_max \in Nat \ {0} /\ n.fork \in Forks
           /\ n.pending \in TxSeqs /\ n.session \in BOOLEAN /\ n.popped \in TxSeqs
           /\ n.thrown \in BOOLEAN /\ n.stored \in BlockSeqs /\ n.up \in BOOLEAN
BY DEF Nodes

LEMMA WorkParts ==
    ASSUME NEW l, NEW m, NEW n \in Work(l, m)
    PROVE  /\ n \in Nodes /\ ValidChain(n.chain) /\ n.undo + m <= Len(n.chain)
           /\ Store(l, n.stored) \in Logs /\ Matches(Store(l, n.stored), n.chain)
           /\ \A k \in 1 .. m : Store(l, n.stored)[k] = l[k]
           /\ Fits(n)
BY DEF Work

\* A step that takes back no block and applies none.
LEMMA WorkKept ==
    ASSUME NEW l, NEW m \in Nat, NEW n \in Work(l, m), NEW r \in Nodes,
           r.chain = n.chain, r.stored = n.stored, r.undo <= n.undo,
           r.pending = <<>> \/ (r.pending = n.pending /\ (n.session => r.session))
    PROVE  r \in Work(l, m)
<1>1. /\ ValidChain(r.chain)
      /\ Store(l, r.stored) \in Logs /\ Matches(Store(l, r.stored), r.chain)
      /\ \A k \in 1 .. m : Store(l, r.stored)[k] = l[k]
  BY WorkParts
<1>2. r.undo + m <= Len(r.chain)
  <2>1. PICK u \in Nat, v \in Nat : u = r.undo /\ v = n.undo /\ u <= v
    BY WorkParts, NodeParts
  <2>2. v + m <= Len(n.chain)
    BY <2>1, WorkParts
  <2>3. PICK k \in Nat : k = Len(n.chain)
    BY WorkParts, NodeParts DEF Chains
  <2> QED  BY <2>1, <2>2, <2>3
<1>3. Fits(r)
  <2>1. CASE r.pending = <<>>
    BY <2>1, TxsNone DEF Fits
  <2>2. CASE r.pending = n.pending /\ (n.session => r.session)
    <3>1. Fits(n)
      BY WorkParts
    <3> QED  BY <2>2, <3>1 DEF Fits
  <2> QED  BY <2>1, <2>2
<1> QED  BY <1>1, <1>2, <1>3 DEF Work

\* With nothing pending.
Bare(l, m) == {n \in Work(l, m) : n.pending = <<>>}

LEMMA BareKept ==
    ASSUME NEW l, NEW m \in Nat, NEW n \in Bare(l, m), NEW r \in Nodes,
           r.chain = n.chain, r.stored = n.stored, r.undo <= n.undo, r.pending = n.pending
    PROVE  r \in Bare(l, m)
<1>1. n \in Work(l, m) /\ n.pending = <<>>
  BY DEF Bare
<1>2. r \in Work(l, m)
  BY <1>1, WorkKept
<1> QED  BY <1>1, <1>2 DEF Bare

LEMMA BareParts ==
    ASSUME NEW l, NEW m \in Nat, NEW n \in Bare(l, m)
    PROVE  /\ n \in Nodes /\ n \in Work(l, m) /\ n.pending = <<>> /\ n.undo <= n.undo
           /\ n.undo \in Nat /\ Len(n.chain) \in Nat /\ n.undo + m <= Len(n.chain)
<1>1. n \in Work(l, m) /\ n.pending = <<>>
  BY DEF Bare
<1>2. n \in Nodes /\ n.undo + m <= Len(n.chain)
  BY <1>1, WorkParts
<1>3. n.undo \in Nat /\ Len(n.chain) \in Nat
  BY <1>2, NodeParts DEF Chains
<1> QED  BY <1>1, <1>2, <1>3

LEMMA EmptyTxs == <<>> \in TxSeqs
BY DEF TxSeqs

\* A step that only touches the fork database and the flags.
LEMMA FlagsBare ==
    ASSUME NEW l, NEW m \in Nat, NEW n \in Bare(l, m), NEW f \in Forks
    PROVE  /\ Throw(n) \in Bare(l, m)
           /\ [n EXCEPT !.fork = f] \in Bare(l, m)
           /\ [n EXCEPT !.session = FALSE] \in Bare(l, m)
           /\ [n EXCEPT !.session = FALSE, !.fork = f] \in Bare(l, m)
           /\ [n EXCEPT !.thrown = FALSE, !.fork = f] \in Bare(l, m)
           /\ [n EXCEPT !.popped = <<>>] \in Bare(l, m)
<1>1. n \in Nodes /\ n.undo <= n.undo
  BY BareParts
<1>2. Throw(n) \in Bare(l, m)
  <2> DEFINE r == Throw(n)
  <2>1. r \in Nodes /\ r.chain = n.chain /\ r.stored = n.stored /\ r.undo = n.undo /\ r.pending = n.pending
    BY <1>1 DEF Nodes, Throw
  <2> HIDE DEF r
  <2>2. r \in Bare(l, m)
    BY <1>1, <2>1, BareKept
  <2> QED  BY <2>2 DEF r
<1>3. [n EXCEPT !.fork = f] \in Bare(l, m)
  <2> DEFINE r == [n EXCEPT !.fork = f]
  <2>1. r \in Nodes /\ r.chain = n.chain /\ r.stored = n.stored /\ r.undo = n.undo /\ r.pending = n.pending
    BY <1>1 DEF Nodes
  <2> HIDE DEF r
  <2>2. r \in Bare(l, m)
    BY <1>1, <2>1, BareKept
  <2> QED  BY <2>2 DEF r
<1>4. [n EXCEPT !.session = FALSE] \in Bare(l, m)
  <2> DEFINE r == [n EXCEPT !.session = FALSE]
  <2>1. r \in Nodes /\ r.chain = n.chain /\ r.stored = n.stored /\ r.undo = n.undo /\ r.pending = n.pending
    BY <1>1 DEF Nodes
  <2> HIDE DEF r
  <2>2. r \in Bare(l, m)
    BY <1>1, <2>1, BareKept
  <2> QED  BY <2>2 DEF r
<1>5. [n EXCEPT !.session = FALSE, !.fork = f] \in Bare(l, m)
  <2> DEFINE r == [n EXCEPT !.session = FALSE, !.fork = f]
  <2>1. r \in Nodes /\ r.chain = n.chain /\ r.stored = n.stored /\ r.undo = n.undo /\ r.pending = n.pending
    BY <1>1 DEF Nodes
  <2> HIDE DEF r
  <2>2. r \in Bare(l, m)
    BY <1>1, <2>1, BareKept
  <2> QED  BY <2>2 DEF r
<1>6. [n EXCEPT !.thrown = FALSE, !.fork = f] \in Bare(l, m)
  <2> DEFINE r == [n EXCEPT !.thrown = FALSE, !.fork = f]
  <2>1. r \in Nodes /\ r.chain = n.chain /\ r.stored = n.stored /\ r.undo = n.undo /\ r.pending = n.pending
    BY <1>1 DEF Nodes
  <2> HIDE DEF r
  <2>2. r \in Bare(l, m)
    BY <1>1, <2>1, BareKept
  <2> QED  BY <2>2 DEF r
<1>7. [n EXCEPT !.popped = <<>>] \in Bare(l, m)
  <2> DEFINE r == [n EXCEPT !.popped = <<>>]
  <2>1. r \in Nodes /\ r.chain = n.chain /\ r.stored = n.stored /\ r.undo = n.undo /\ r.pending = n.pending
    BY <1>1, EmptyTxs DEF Nodes
  <2> HIDE DEF r
  <2>2. r \in Bare(l, m)
    BY <1>1, <2>1, BareKept
  <2> QED  BY <2>2 DEF r
<1> QED  BY ONLY <1>2, <1>3, <1>4, <1>5, <1>6, <1>7

LEMMA ThrowBare ==
    ASSUME NEW l, NEW m \in Nat, NEW n \in Bare(l, m)
    PROVE  Throw(n) \in Bare(l, m)
<1>1. n.fork \in Forks
  BY BareParts, NodeParts
<1> QED  BY <1>1, FlagsBare

LEMMA DropBare ==
    ASSUME NEW l, NEW m \in Nat, NEW n \in Bare(l, m)
    PROVE  Drop(n) \in Bare(l, m) /\ Drop(n).chain = n.chain
<1>1. n \in Nodes
  BY BareParts
<1>2. PICK u \in Nat, x \in Nat : u = n.undo /\ x = n.undo_max
  BY <1>1, NodeParts
<1>3. PICK v \in Nat : v = Min({u, x}) /\ v <= u
  BY <1>2, MinOfTwo
<1> DEFINE r == [n EXCEPT !.undo = v]
<1>4. Drop(n) = r
  BY <1>2, <1>3 DEF Drop
<1>5. r \in Nodes /\ r.chain = n.chain /\ r.stored = n.stored /\ r.undo = v /\ r.pending = n.pending
  BY <1>1 DEF Nodes
<1> HIDE DEF r
<1>6. r.undo <= n.undo
  BY <1>2, <1>3, <1>5
<1> QED  BY <1>4, <1>5, <1>6, BareKept

\* The next block on the head.
LEMMA NextNum ==
    ASSUME NEW n \in Nodes, ValidChain(n.chain), NEW b \in Blocks, Prev[b] = head_block_id(n)
    PROVE  /\ Num(b) = Len(n.chain) + 1 /\ Len(n.chain) \in Nat
           /\ HistorySize(n, b) \in Nat \ {0}
<1>1. PICK k \in Nat : k = Len(n.chain) /\ head_block_num(n) = k
  BY HeadIs
<1>2. PICK i \in 0 .. k : i = last_irreversible(n)
  BY <1>1, HeadIs
<1>3. PICK j \in Nat : j = Num(b) /\ j = k + 1
  <2>1. Num(b) = Num(Prev[b]) + 1
    BY NumType
  <2>2. Num(Prev[b]) = k
    BY <1>1 DEF head_block_num
  <2>3. Num(b) = k + 1
    BY <2>1, <2>2
  <2> QED  BY <2>3
<1>4. HistorySize(n, b) = j - i + 1
  BY <1>2, <1>3 DEF HistorySize
<1> QED  BY <1>1, <1>3, <1>4

LEMMA ResizeBare ==
    ASSUME NEW l, NEW m \in Nat, NEW n \in Bare(l, m), NEW b \in Blocks, Prev[b] = head_block_id(n)
    PROVE  Resize(n, b) \in Bare(l, m) /\ Resize(n, b).chain = n.chain
<1>1. n \in Nodes /\ ValidChain(n.chain) /\ n.undo <= n.undo
  BY BareParts, WorkParts
<1>2. PICK h \in Nat \ {0} : h = HistorySize(n, b)
  BY <1>1, NextNum
<1>3. PICK f \in Forks : f = set_max_size(n.fork, h)
  BY <1>1, NodeParts, MaxSizeType
<1> DEFINE r == [n EXCEPT !.undo_max = h, !.fork = f]
<1>4. Resize(n, b) = r
  BY <1>2, <1>3 DEF Resize
<1>5. r \in Nodes /\ r.chain = n.chain /\ r.stored = n.stored /\ r.undo = n.undo /\ r.pending = n.pending
  BY <1>1 DEF Nodes
<1> HIDE DEF r
<1> QED  BY <1>1, <1>4, <1>5, BareKept

LEMMA ProposeBare ==
    ASSUME NEW l, NEW m \in Nat, NEW n \in Bare(l, m), NEW b
    PROVE  Propose(n, b) \in Bare(l, m) /\ Propose(n, b).chain = n.chain /\ Propose(n, b).thrown = n.thrown
<1>1. n \in Nodes /\ n.undo <= n.undo
  BY BareParts
<1>2. PICK u \in Nat \ {0} : u = n.undo + 1
  BY <1>1, NodeParts
<1> DEFINE r == [n EXCEPT !.undo_max = u]
<1>3. r \in Nodes /\ r.chain = n.chain /\ r.stored = n.stored /\ r.undo = n.undo /\ r.pending = n.pending /\ r.thrown = n.thrown
  BY <1>1 DEF Nodes
<1>4. Propose(n, b) = IF b \in Proposing /\ n.undo >= n.undo_max THEN r ELSE n
  BY <1>2 DEF Propose
<1> HIDE DEF r
<1>5. r \in Bare(l, m)
  BY <1>1, <1>3, BareKept
<1> QED  BY <1>3, <1>4, <1>5

\* A block that is applied is valid on top of the chain.
LEMMA AppendBare ==
    ASSUME NEW l \in Logs, NEW m \in Nat, NEW n \in Bare(l, m), NEW b \in Blocks,
           CanApply(n, b), NEW lib \in 0 .. Len(n.chain) + 1,
           lib = update_last_irreversible_block(n.chain, b, last_irreversible(n)),
           NEW r \in Bare(l, m), r.chain = n.chain
    PROVE  [r EXCEPT !.chain = Append(@, [blk |-> b, lib |-> lib]), !.undo = @ + 1, !.stored = Append(@, b)]
              \in Bare(l, m)
<1> DEFINE e == [blk |-> b, lib |-> lib]
<1>1. PICK c \in Chains, s \in BlockSeqs, u \in Nat : c = r.chain /\ s = r.stored /\ u = r.undo
  BY BareParts, NodeParts
<1>2. PICK k \in Nat : k = Len(c) /\ u + m <= k
  BY <1>1, BareParts
<1>3. ValidChain(c) /\ c = n.chain /\ n \in Nodes /\ r \in Nodes
  BY <1>1, BareParts, WorkParts
<1>4. /\ Prev[b] = head_block_id(n) /\ b \in Good
      /\ CanApplyTxs(TxsOf[b], Applied(n)) /\ Num(b) - last_irreversible(n) < MaxUndoHistory
  BY DEF CanApply
<1>5. Num(b) = k + 1
  BY <1>2, <1>3, <1>4, NextNum
<1>6. e \in Entries /\ e.blk = b /\ e.lib = lib /\ lib <= k + 1
  BY <1>2, <1>3 DEF Entries
<1> HIDE DEF e
<1>7. PICK d \in Chains : d = Append(c, e) /\ Len(d) = k + 1 /\ d[k + 1] = e /\ Agree(d, c, k)
  BY <1>2, <1>6, AppendParts
<1>8. TxsIn(d, k) = TxsIn(c, k)
  BY <1>7 DEF TxsIn, Agree
<1>9. CanApplyTxs(TxsOf[b], TxsIn(d, k))
  <2>1. Applied(n) = TxsIn(c, k) \cup ToSet(n.pending)
    BY <1>2, <1>3, AppliedIs
  <2>2. TxsIn(c, k) \in SUBSET Applied(n)
    BY <2>1
  <2> QED  BY <1>4, <1>8, <2>2, TxsLess
<1>10. ValidAt(d, k + 1)
  <2>1. Prev[b] = IF k + 1 = 1 THEN Genesis ELSE d[(k + 1) - 1].blk
    <3>1. CASE k = 0
      <4>1. n.chain = <<>>
        BY <1>2, <1>3, <3>1, SeqNone DEF Chains
      <4>2. Prev[b] = Genesis
        BY <1>3, <1>4, <4>1, HeadIs
      <4> QED  BY <3>1, <4>2
    <3>2. CASE k # 0
      <4>1. n.chain # <<>>
        BY <1>2, <1>3, <3>2, SeqNone DEF Chains
      <4>2. Prev[b] = c[k].blk
        BY <1>2, <1>3, <1>4, <4>1, HeadIs
      <4>3. d[k] = c[k] /\ (k + 1) - 1 = k /\ k + 1 # 1
        BY <1>7, <3>2 DEF Agree
      <4> QED  BY ONLY <4>2, <4>3
    <3> QED  BY <3>1, <3>2
  <2>2. (k + 1) - 1 = k
    OBVIOUS
  <2>3. Part(d, k) = c
    BY <1>2, <1>7, PartIs
  <2>4. LibBelow(d, k + 1) = last_irreversible(n)
    BY <1>2, <1>3, <1>7, LibBelowIs
  <2>5. d[k + 1].blk = b /\ d[k + 1].lib = update_last_irreversible_block(c, b, last_irreversible(n)) /\ d[k + 1].lib = lib
    BY <1>3, <1>6, <1>7
  <2> QED  BY ONLY <1>4, <1>5, <1>6, <1>9, <2>1, <2>2, <2>3, <2>4, <2>5 DEF ValidAt
<1>11. ValidChain(d)
  BY <1>2, <1>3, <1>6, <1>7, <1>10, ValidAppend
<1>12. PICK g \in Logs : g = Store(l, s) /\ Matches(g, c) /\ \A j \in 1 .. m : g[j] = l[j]
  BY <1>1, BareParts, WorkParts
<1>13. PICK h \in Logs : h = [g EXCEPT ![Num(b)] = b] /\ Matches(h, d) /\ \A j \in 1 .. k : h[j] = g[j]
  <2>0. Made(b)
    <3>1. d # <<>> /\ d[Len(d)].blk = b
      BY <1>2, <1>6, <1>7, SeqNone DEF Chains
    <3> QED  BY <1>11, <3>1 DEF Made
  <2>1. Num(b) = Len(c) + 1
    BY <1>2, <1>5
  <2>2. /\ [g EXCEPT ![Num(b)] = b] \in Logs
        /\ Matches([g EXCEPT ![Num(b)] = b], Append(c, e))
        /\ \A j \in 1 .. Len(c) : [g EXCEPT ![Num(b)] = b][j] = g[j]
    BY ONLY <1>6, <1>12, <2>0, <2>1, g \in Logs, c \in Chains, b \in Blocks, LogExtends
  <2>3. PICK h : h = [g EXCEPT ![Num(b)] = b]
    OBVIOUS
  <2>4. h \in Logs /\ Matches(h, Append(c, e)) /\ \A j \in 1 .. Len(c) : h[j] = g[j]
    BY ONLY <2>2, <2>3
  <2> QED  BY ONLY <1>2, <1>7, <2>3, <2>4
<1>14. PICK q \in BlockSeqs : q = Append(s, b)
  <2>1. Append(s, b) \in BlockSeqs
    BY DEF BlockSeqs
  <2> QED  BY ONLY <2>1
<1>15. Store(l, q) = h
  BY <1>12, <1>13, <1>14, LogParts, StoreAppend
<1>16. \A j \in 1 .. m : h[j] = l[j]
  <2> SUFFICES ASSUME NEW j \in 1 .. m PROVE h[j] = l[j]
    OBVIOUS
  <2>1. j \in 1 .. k
    BY <1>2
  <2> QED  BY <1>12, <1>13, <2>1
<1>0. PICK v \in Nat : v = u + 1
  OBVIOUS
<1> DEFINE z == [r EXCEPT !.chain = d, !.undo = v, !.stored = q]
<1>17. z \in Nodes /\ z.chain = d /\ z.undo = v /\ z.stored = q /\ z.pending = r.pending
  BY <1>3 DEF Nodes
<1>18. z = [r EXCEPT !.chain = Append(@, [blk |-> b, lib |-> lib]), !.undo = @ + 1, !.stored = Append(@, b)]
  BY <1>0, <1>1, <1>7, <1>14 DEF e
<1> HIDE DEF z
<1>19. z \in Bare(l, m)
  <2>1. z.pending = <<>>
    BY <1>17, BareParts
  <2>2. Fits(z)
    BY <2>1, TxsNone DEF Fits
  <2>3. z.undo + m <= Len(z.chain)
    BY <1>0, <1>2, <1>7, <1>17
  <2>4. /\ Store(l, z.stored) \in Logs /\ Matches(Store(l, z.stored), z.chain)
        /\ \A j \in 1 .. m : Store(l, z.stored)[j] = l[j]
    BY <1>13, <1>15, <1>16, <1>17
  <2>5. ValidChain(z.chain)
    BY <1>11, <1>17
  <2>6. z \in Work(l, m)
    BY <1>17, <2>2, <2>3, <2>4, <2>5 DEF Work
  <2> QED  BY <2>1, <2>6 DEF Bare
<1> QED  BY <1>18, <1>19


LEMMA ApplyBare ==
    ASSUME NEW l \in Logs, NEW m \in Nat, NEW n \in Bare(l, m), NEW b \in Blocks
    PROVE  ApplyBlock(n, b) \in Bare(l, m)
<1>1. PICK d \in Bare(l, m) : d = Drop(n) /\ d.chain = n.chain
  BY DropBare
<1>2. n \in Nodes /\ ValidChain(n.chain) /\ n.chain \in Chains /\ d \in Nodes
  BY BareParts, WorkParts, NodeParts
<1>3. head_block_id(d) = head_block_id(n)
  BY <1>1 DEF head_block_id
<1>4. CASE n.thrown
  BY <1>4 DEF ApplyBlock
<1>5. CASE ~ n.thrown /\ ~ CanApply(n, b)
  <2>1. ApplyBlock(n, b) = Throw(IF Prev[b] = head_block_id(n) /\ b \in Late THEN Resize(d, b) ELSE d)
    BY <1>1, <1>5 DEF ApplyBlock
  <2>2. PICK r \in Bare(l, m) : r = IF Prev[b] = head_block_id(n) /\ b \in Late THEN Resize(d, b) ELSE d
    BY <1>3, ResizeBare
  <2> QED  BY <2>1, <2>2, ThrowBare
<1>6. CASE ~ n.thrown /\ CanApply(n, b)
  <2>1. Prev[b] = head_block_id(n)
    BY <1>6 DEF CanApply
  <2>2. PICK r \in Bare(l, m) : r = Resize(d, b) /\ r.chain = n.chain
    BY <1>1, <1>3, <2>1, ResizeBare
  <2>3. Num(b) = Len(n.chain) + 1
    BY <1>2, <2>1, NextNum
  <2>4. PICK lib \in 0 .. Len(n.chain) + 1 : lib = update_last_irreversible_block(n.chain, b, last_irreversible(n))
    <3>1. last_irreversible(n) \in 0 .. Len(n.chain)
      BY <1>2, HeadIs
    <3> QED  BY <1>2, <2>3, <3>1, IrreversibleType
  <2> DEFINE z == [r EXCEPT !.chain = Append(@, [blk |-> b, lib |-> lib]), !.undo = @ + 1, !.stored = Append(@, b)]
  <2>5. ApplyBlock(n, b) = Propose(z, b)
    BY <1>1, <1>6, <2>2, <2>4 DEF ApplyBlock
  <2>6. z \in Bare(l, m)
    BY <1>6, <2>2, <2>4, AppendBare
  <2> HIDE DEF z
  <2> QED  BY <2>5, <2>6, ProposeBare
<1> QED  BY <1>4, <1>5, <1>6

LEMMA PopBare ==
    ASSUME NEW l \in Logs, NEW m \in Nat, NEW n \in Bare(l, m)
    PROVE  PopBlock(n) \in Bare(l, m)
<1>1. n \in Nodes /\ ValidChain(n.chain) /\ n.chain \in Chains /\ n.fork \in Forks /\ n.popped \in TxSeqs
  BY BareParts, WorkParts, NodeParts
<1>2. PICK u \in Nat, k \in Nat : u = n.undo /\ k = Len(n.chain) /\ u + m <= k
  BY BareParts
<1>3. CASE n.thrown
  BY <1>3 DEF PopBlock
<1>4. CASE ~ n.thrown /\ (n.chain = <<>> \/ ~CanPop(n.fork))
  <2>1. PopBlock(n) = Throw([n EXCEPT !.session = FALSE])
    BY <1>4 DEF PopBlock
  <2>2. PICK r \in Bare(l, m) : r = [n EXCEPT !.session = FALSE]
    BY <1>1, FlagsBare
  <2> QED  BY <2>1, <2>2, ThrowBare
<1>5. CASE ~ n.thrown /\ n.chain # <<>> /\ CanPop(n.fork)
  <2>1. head_block_id(n) \in Blocks
    BY <1>1, <1>5, HeadIs
  <2>2. PICK f \in Forks : f = pop_block(n.fork)
    BY <1>1, <1>5, <2>1, HeadOps
  <2>3. CASE n.undo = 0
    <3>1. PopBlock(n) = Throw([n EXCEPT !.session = FALSE, !.fork = f])
      BY <1>5, <2>2, <2>3 DEF PopBlock
    <3>2. PICK r \in Bare(l, m) : r = [n EXCEPT !.session = FALSE, !.fork = f]
      BY FlagsBare
    <3> QED  BY <3>1, <3>2, ThrowBare
  <2>4. CASE n.undo # 0
    <3>1. PICK p \in TxSeqs : p = TxsOf[head_block_id(n)] \o n.popped
      <4>1. TxsOf[head_block_id(n)] \in Seq(Txs) /\ n.popped \in Seq(Txs)
        BY <1>1, <2>1, ChainAssumption DEF TxSeqs
      <4>2. TxsOf[head_block_id(n)] \o n.popped \in TxSeqs
        BY <4>1, ConcatProperties DEF TxSeqs
      <4> QED  BY ONLY <4>2
    <3>2. PICK c \in Chains : c = Front(n.chain) /\ Len(c) = k - 1 /\ Agree(c, n.chain, k - 1) /\ ValidChain(c)
      BY <1>1, <1>2, <1>5, FrontParts, ValidFront
    <3>3. PICK v \in Nat : v = u - 1 /\ v + m <= k - 1
      BY <1>2, <2>4
    <3> DEFINE z == [n EXCEPT !.session = FALSE, !.fork = f, !.undo = v, !.chain = c, !.popped = p]
    <3>4. PopBlock(n) = z
      BY <1>2, <1>5, <2>2, <2>4, <3>1, <3>2, <3>3 DEF PopBlock
    <3>5. z \in Nodes /\ z.chain = c /\ z.undo = v /\ z.stored = n.stored /\ z.pending = n.pending
      BY <1>1 DEF Nodes
    <3> HIDE DEF z
    <3>6. Matches(Store(l, z.stored), z.chain)
      <4>1. Matches(Store(l, n.stored), n.chain)
        BY BareParts, WorkParts
      <4>2. ASSUME NEW j \in 1 .. k - 1 PROVE j \in DOMAIN Store(l, n.stored) /\ Store(l, n.stored)[j] = c[j].blk
        <5>1. c[j] = n.chain[j] /\ j \in 1 .. k
          BY <1>2, <3>2 DEF Agree
        <5> QED  BY <1>2, <4>1, <5>1 DEF Matches
      <4> QED  BY <3>2, <3>5, <4>2 DEF Matches
    <3>7. z.pending = <<>>
      BY <3>5, BareParts
    <3>8. Fits(z)
      BY <3>7, TxsNone DEF Fits
    <3>9. Store(l, z.stored) \in Logs /\ \A j \in 1 .. m : Store(l, z.stored)[j] = l[j]
      BY <3>5, BareParts, WorkParts
    <3>10. z.undo + m <= Len(z.chain) /\ ValidChain(z.chain)
      BY <3>2, <3>3, <3>5
    <3>11. z \in Work(l, m)
      BY <3>5, <3>6, <3>8, <3>9, <3>10 DEF Work
    <3> QED  BY <3>4, <3>7, <3>11 DEF Bare
  <2> QED  BY <2>3, <2>4
<1> QED  BY <1>3, <1>4, <1>5

-----------------------------------------------------------------------------
(* Sequences of steps. *)

LEMMA ApplyAll ==
    ASSUME NEW l \in Logs, NEW m \in Nat, NEW n \in Bare(l, m), NEW s \in BlockSeqs
    PROVE  FoldLeft(ApplyBlock, n, s) \in Bare(l, m)
<1>1. FoldLeft(ApplyBlock, n, s) = Applies!Fold(n, s)
  BY DEF Applies!Fold, FoldLeft, Applies!MapThenFoldSet, MapThenFoldSet, Max, Applies!Largest
<1>2. PICK V : V = Bare(l, m) /\ n \in V
  OBVIOUS
<1>3. Applies!Closed(V, Blocks)
  BY <1>2, ApplyBare DEF Applies!Closed
<1>4. s \in Seq(Blocks)
  BY DEF BlockSeqs
<1>5. Applies!Fold(n, s) \in V
  BY ONLY <1>2, <1>3, <1>4, Applies!FoldIn
<1> QED  BY ONLY <1>1, <1>2, <1>5

LEMMA PopAll ==
    ASSUME NEW l \in Logs, NEW m \in Nat, NEW n \in Bare(l, m), NEW k \in Nat
    PROVE  PopBlocks(n, k) \in Bare(l, m)
<1>1. PICK s \in Seq(Nat) : s = Steps(k)
  <2>1. Steps(k) \in Seq(Nat)
    BY DEF Steps
  <2> QED  BY ONLY <2>1
<1>2. PopBlocks(n, k) = Pops!Fold(n, s)
  <2>1. PopBlocks(n, k) = Pops!Fold(n, Steps(k))
    BY DEF PopBlocks, PopStep, Pops!Fold, FoldLeft, Pops!MapThenFoldSet, MapThenFoldSet, Max, Pops!Largest
  <2> QED  BY ONLY <1>1, <2>1
<1>3. PICK V : V = Bare(l, m) /\ n \in V
  OBVIOUS
<1>4. Pops!Closed(V, Nat)
  BY <1>3, PopBare DEF Pops!Closed, PopStep
<1>5. Pops!Fold(n, s) \in V
  BY ONLY <1>3, <1>4, s \in Seq(Nat), Pops!FoldIn
<1> QED  BY ONLY <1>2, <1>3, <1>5

LEMMA RemoveAll ==
    ASSUME NEW f \in Forks, NEW s \in BlockSeqs
    PROVE  FoldLeft(remove, f, s) \in Forks
<1>1. FoldLeft(remove, f, s) = Removes!Fold(f, s)
  BY DEF Removes!Fold, FoldLeft, Removes!MapThenFoldSet, MapThenFoldSet, Max, Removes!Largest
<1>2. Removes!Closed(Forks, Blocks)
  BY RemoveType DEF Removes!Closed
<1>3. s \in Seq(Blocks)
  BY DEF BlockSeqs
<1>4. Removes!Fold(f, s) \in Forks
  BY ONLY <1>2, <1>3, f \in Forks, Removes!FoldIn
<1> QED  BY ONLY <1>1, <1>4


\* Applying a block only makes the chain and the list of stored blocks longer.
LEMMA ApplyGrows ==
    ASSUME NEW l, NEW m \in Nat, NEW n \in Bare(l, m), NEW b \in Blocks, NEW h \in Nat, h <= Len(n.chain)
    PROVE  /\ h <= Len(ApplyBlock(n, b).chain)
           /\ ApplyBlock(n, b).stored \in {n.stored, Append(n.stored, b)}
           /\ ApplyBlock(n, b).popped = n.popped
<1> DEFINE Same(r) == r.chain = n.chain /\ r.stored = n.stored /\ r.popped = n.popped
<1>0. n \in Nodes /\ n.chain \in Chains
  BY BareParts, NodeParts
<1>1. PICK d \in Bare(l, m) : d = Drop(n) /\ d.chain = n.chain
  BY DropBare
<1>2. d \in Nodes /\ Same(d)
  <2>1. Same(Drop(n))
    BY <1>0 DEF Drop, Nodes
  <2> HIDE DEF Same
  <2> QED  BY <1>1, <2>1, BareParts
<1>3. ASSUME NEW r \in Nodes, Same(r) PROVE Same(Throw(r))
  BY <1>3 DEF Throw, Nodes
<1>4. ASSUME NEW r \in Nodes, Same(r) PROVE Same(Resize(r, b))
  BY <1>4 DEF Resize, Nodes
<1>5. CASE n.thrown
  BY <1>5 DEF ApplyBlock
<1>6. CASE ~ n.thrown /\ ~ CanApply(n, b)
  <2>1. ApplyBlock(n, b) = Throw(IF Prev[b] = head_block_id(n) /\ b \in Late THEN Resize(d, b) ELSE d)
    BY <1>1, <1>6 DEF ApplyBlock
  <2>2. head_block_id(d) = head_block_id(n)
    BY <1>1 DEF head_block_id
  <2>3. PICK r \in Nodes : Same(r) /\ r = IF Prev[b] = head_block_id(n) /\ b \in Late THEN Resize(d, b) ELSE d
    <3>1. CASE Prev[b] = head_block_id(n) /\ b \in Late
      <4>1. Resize(d, b) \in Bare(l, m)
        BY <2>2, <3>1, ResizeBare
      <4>2. Resize(d, b) \in Nodes
        BY <4>1, BareParts
      <4>3. Same(Resize(d, b))
        BY <1>2, <1>4
      <4> HIDE DEF Same
      <4> QED  BY <3>1, <4>2, <4>3
    <3>2. CASE ~ (Prev[b] = head_block_id(n) /\ b \in Late)
      <4> HIDE DEF Same
      <4> QED  BY <1>2, <3>2
    <3> HIDE DEF Same
    <3> QED  BY <3>1, <3>2
  <2>4. Same(ApplyBlock(n, b))
    <3> HIDE DEF Same
    <3> QED  BY <1>3, <2>1, <2>3
  <2> QED  BY <2>4
<1>7. CASE ~ n.thrown /\ CanApply(n, b)
  <2>1. Prev[b] = head_block_id(d)
    BY <1>1, <1>7 DEF CanApply, head_block_id
  <2>2. PICK r \in Nodes : r = Resize(d, b) /\ Same(r)
    <3>1. Same(Resize(d, b))
      BY <1>2, <1>4
    <3> HIDE DEF Same
    <3> QED  BY <2>1, <3>1, ResizeBare, BareParts
  <2> DEFINE e == [blk |-> b, lib |-> update_last_irreversible_block(n.chain, b, last_irreversible(n))]
             z == [r EXCEPT !.chain = Append(@, e), !.undo = @ + 1, !.stored = Append(@, b)]
  <2>3. ApplyBlock(n, b) = Propose(z, b)
    BY <1>1, <1>7, <2>2 DEF ApplyBlock
  <2> HIDE DEF e
  <2>4. z.chain = Append(n.chain, e) /\ z.stored = Append(n.stored, b) /\ z.popped = n.popped
    BY <2>2 DEF Nodes
  <2>5. Propose(z, b).chain = z.chain /\ Propose(z, b).stored = z.stored /\ Propose(z, b).popped = z.popped
    <3>1. "chain" \in DOMAIN z /\ "stored" \in DOMAIN z /\ "popped" \in DOMAIN z
      BY DEF Nodes
    <3> HIDE DEF z
    <3> QED  BY <3>1 DEF Propose
  <2>6. Len(Append(n.chain, e)) = Len(n.chain) + 1 /\ Len(n.chain) \in Nat
    BY <1>0 DEF Chains
  <2> HIDE DEF z
  <2> QED  BY <2>3, <2>4, <2>5, <2>6
<1> QED  BY <1>5, <1>6, <1>7

LEMMA ApplyAllGrows ==
    ASSUME NEW l \in Logs, NEW m \in Nat, NEW n \in Bare(l, m), NEW s \in BlockSeqs
    PROVE  Len(FoldLeft(ApplyBlock, n, s).chain) - Len(n.chain) \in Nat
<1>1. FoldLeft(ApplyBlock, n, s) = Applies!Fold(n, s)
  BY DEF Applies!Fold, FoldLeft, Applies!MapThenFoldSet, MapThenFoldSet, Max, Applies!Largest
<1>2. PICK h \in Nat : h = Len(n.chain)
  BY BareParts
<1>3. PICK V : V = {x \in Bare(l, m) : h <= Len(x.chain)} /\ n \in V
  <2>1. h <= Len(n.chain)
    BY <1>2
  <2>2. n \in {x \in Bare(l, m) : h <= Len(x.chain)}
    BY <2>1
  <2> QED  BY ONLY <2>2
<1>4. Applies!Closed(V, Blocks)
  BY <1>3, ApplyBare, ApplyGrows DEF Applies!Closed
<1>5. s \in Seq(Blocks)
  BY DEF BlockSeqs
<1>6. PICK x : x = Applies!Fold(n, s) /\ x \in V
  BY ONLY <1>3, <1>4, <1>5, Applies!FoldIn
<1>7. x \in Bare(l, m) /\ h <= Len(x.chain)
  BY <1>3, <1>6
<1>8. PICK j \in Nat : j = Len(x.chain)
  BY <1>7, BareParts
<1>9. j - h \in Nat
  BY <1>7, <1>8
<1> QED  BY ONLY <1>1, <1>2, <1>6, <1>8, <1>9

LEMMA ReverseType ==
    ASSUME NEW s \in BlockSeqs, s # <<>>
    PROVE  Reverse(s) \in BlockSeqs /\ Len(Reverse(s)) \in Nat /\ Last(Reverse(s)) \in Blocks
<1>1. PICK k \in Nat : k = Len(s) /\ k > 0 /\ \A i \in 1 .. k : s[i] \in Blocks
  <2>1. s \in Seq(Blocks)
    BY DEF BlockSeqs
  <2>2. Len(s) \in Nat /\ Len(s) # 0
    BY ONLY <2>1, s # <<>>, SeqNone
  <2>3. \A i \in 1 .. Len(s) : s[i] \in Blocks
    BY <2>1
  <2>4. PICK k \in Nat : k = Len(s)
    BY ONLY <2>2
  <2>5. k > 0
    BY <2>2, <2>4
  <2> QED  BY ONLY <2>3, <2>4, <2>5
<1>2. Reverse(s) = [i \in 1 .. k |-> s[(k - i) + 1]]
  BY <1>1 DEF Reverse
<1>3. PICK r \in Seq(Blocks) : r = Reverse(s) /\ Len(r) = k
  <2>1. \A i \in 1 .. k : s[(k - i) + 1] \in Blocks
    BY <1>1
  <2>2. [i \in 1 .. k |-> s[(k - i) + 1]] \in [1 .. k -> Blocks]
    BY <2>1
  <2>3. PICK f \in [1 .. k -> Blocks] : f = Reverse(s)
    BY ONLY <1>2, <2>2
  <2>4. f \in Seq(Blocks) /\ Len(f) = k
    OBVIOUS
  <2> QED  BY ONLY <2>3, <2>4
<1>4. r[Len(r)] \in Blocks
  BY <1>1, <1>3, SeqNone
<1> QED  BY <1>1, <1>3, <1>4 DEF BlockSeqs, Last

LEMMA RecoverBare ==
    ASSUME NEW l \in Logs, NEW m \in Nat, NEW n \in Bare(l, m), NEW k \in Nat,
           NEW first \in BlockSeqs, NEW second \in BlockSeqs, Last(second) \in Blocks
    PROVE  Recover(n, k, first, second) \in Bare(l, m)
<1>1. n.fork \in Forks
  BY BareParts, NodeParts
<1>2. PICK bad \in BlockSeqs : bad = SubSeq(first, k + 1, Len(first))
  <2>1. PICK j \in Nat : j = Len(first) /\ \A i \in 1 .. j : first[i] \in Blocks
    BY DEF BlockSeqs
  <2>2. PICK a \in Int : a = k + 1
    OBVIOUS
  <2>3. \A i \in a .. j : first[i] \in Blocks
    BY <2>1, <2>2
  <2>4. SubSeq(first, a, j) \in Seq(Blocks)
    BY ONLY <2>3, a \in Int, j \in Nat, SubSeqProperties
  <2>5. SubSeq(first, k + 1, Len(first)) \in BlockSeqs
    BY ONLY <2>1, <2>2, <2>4 DEF BlockSeqs
  <2> QED  BY ONLY <2>5
<1>3. PICK g \in Forks : g = FoldLeft(remove, n.fork, bad)
  BY <1>1, RemoveAll
<1>4. PICK f \in Forks : f = set_head(g, Last(second))
  BY HeadOps
<1>5. PICK x \in Bare(l, m) : x = [n EXCEPT !.thrown = FALSE, !.fork = f]
  BY FlagsBare
<1>6. Recover(n, k, first, second) = Throw(SwitchBack(x, k, second))
  BY <1>2, <1>3, <1>4, <1>5 DEF Recover
<1>7. PICK y \in Bare(l, m) : y = PopBlocks(x, k)
  BY PopAll
<1>8. PICK z \in Bare(l, m) : z = FoldLeft(ApplyBlock, y, second)
  BY ApplyAll
<1>9. SwitchBack(x, k, second) = z
  BY <1>7, <1>8 DEF SwitchBack
<1> QED  BY <1>6, <1>9, ThrowBare

LEMMA ApplyBranchBare ==
    ASSUME NEW l \in Logs, NEW m \in Nat, NEW n \in Bare(l, m),
           NEW first \in BlockSeqs, NEW second \in BlockSeqs, Last(second) \in Blocks
    PROVE  ApplyBranch(n, first, second) \in Bare(l, m)
<1>1. PICK x \in Bare(l, m) : x = FoldLeft(ApplyBlock, n, first)
  BY ApplyAll
<1>2. PICK k \in Nat : k = Len(x.chain) - Len(n.chain)
  BY <1>1, ApplyAllGrows
<1>3. ApplyBranch(n, first, second) = IF n.thrown THEN n ELSE IF ~ x.thrown THEN x ELSE Recover(x, k, first, second)
  BY <1>1, <1>2 DEF ApplyBranch, Switched
<1>4. Recover(x, k, first, second) \in Bare(l, m)
  BY RecoverBare
<1> QED  BY <1>3, <1>4

LEMMA SwitchForkBare ==
    ASSUME NEW l \in Logs, NEW m \in Nat, NEW n \in Bare(l, m), NEW new_head \in Blocks,
           head_block_id(n) \in Blocks
    PROVE  SwitchFork(n, new_head) \in Bare(l, m)
<1>1. PICK h \in Blocks : h = head_block_id(n)
  OBVIOUS
<1>2. PICK e : e = BranchEnd(new_head, h)
  OBVIOUS
<1>3. /\ Branch(new_head, e) \in BlockSeqs /\ Branch(new_head, e) # <<>>
      /\ Branch(h, e) \in BlockSeqs /\ Branch(h, e) # <<>>
  BY <1>2, BranchType
<1>4. PICK first \in BlockSeqs : first = Reverse(Branch(new_head, e))
  BY <1>3, ReverseType
<1>5. PICK second \in BlockSeqs : second = Reverse(Branch(h, e)) /\ Len(second) \in Nat /\ Last(second) \in Blocks
  BY <1>3, ReverseType
<1>6. PICK x \in Bare(l, m) : x = PopBlocks(n, Len(second))
  BY <1>5, PopAll
<1>7. SwitchFork(n, new_head) = ApplyBranch(x, first, second)
  BY <1>1, <1>2, <1>4, <1>5, <1>6 DEF SwitchFork
<1> QED  BY <1>5, <1>7, ApplyBranchBare

LEMMA PushBare ==
    ASSUME NEW l \in Logs, NEW m \in Nat, NEW n \in Bare(l, m), NEW b \in Blocks
    PROVE  DoPushBlock(n, b) \in Bare(l, m)
<1>1. n.fork \in Forks
  BY BareParts, NodeParts
<1>2. PICK f \in Forks : f = push_block(n.fork, b) /\ f.head.blk \in Blocks
  BY <1>1, PushType
<1>3. PICK new_head \in Blocks : new_head = f.head.blk
  BY <1>2
<1>4. PICK x \in Bare(l, m) : x = [n EXCEPT !.fork = f]
  BY FlagsBare
<1>5. DoPushBlock(n, b) = IF CanPush(n.fork, b) THEN FollowHead(x, b, new_head) ELSE Throw(n)
  BY <1>2, <1>3, <1>4 DEF DoPushBlock
<1>6. FollowHead(x, b, new_head) \in Bare(l, m)
  <2>1. PICK y \in Bare(l, m) : y = ApplyBlock(x, b)
    BY ApplyBare
  <2>2. Appended(y, b) \in Bare(l, m)
    <3>1. PICK g \in Forks : g = remove(y.fork, b)
      BY BareParts, NodeParts, RemoveType
    <3>2. [y EXCEPT !.fork = g] \in Bare(l, m)
      BY FlagsBare
    <3> QED  BY <3>1, <3>2 DEF Appended
  <2>3. ASSUME CanFetchBranch(x.fork, new_head, head_block_id(x)) PROVE SwitchFork(x, new_head) \in Bare(l, m)
    <3>1. x.fork \in Forks
      BY BareParts, NodeParts
    <3>2. head_block_id(x) \in x.fork.index
      BY <2>3 DEF CanFetchBranch
    <3>3. head_block_id(x) \in Blocks
      BY <3>1, <3>2, ForkParts
    <3> QED  BY <3>3, SwitchForkBare
  <2>4. Throw(x) \in Bare(l, m)
    BY ThrowBare
  <2>5. FollowHead(x, b, new_head) \in {Appended(y, b), x, Throw(x)}
           \/ (CanFetchBranch(x.fork, new_head, head_block_id(x)) /\ FollowHead(x, b, new_head) = SwitchFork(x, new_head))
    BY <2>1 DEF FollowHead
  <2> QED  BY <2>2, <2>3, <2>4, <2>5
<1>7. Throw(n) \in Bare(l, m)
  BY ThrowBare
<1> QED  BY <1>5, <1>6, <1>7


-----------------------------------------------------------------------------
(* Pending transactions. *)

\* With nothing left to be tried again.
Rest(l, m) == {n \in Work(l, m) : n.popped = <<>>}

LEMMA RestParts ==
    ASSUME NEW l, NEW m \in Nat, NEW n \in Rest(l, m)
    PROVE  n \in Nodes /\ n \in Work(l, m) /\ n.popped = <<>> /\ Fits(n)
BY WorkParts DEF Rest

LEMMA RestThrown ==
    ASSUME NEW l, NEW m \in Nat, NEW n \in Rest(l, m), NEW t \in BOOLEAN
    PROVE  [n EXCEPT !.thrown = t] \in Rest(l, m)
<1>1. n \in Nodes /\ n \in Work(l, m) /\ n.popped = <<>>
  BY RestParts
<1>2. PICK u \in Nat : u = n.undo
  BY <1>1, NodeParts
<1> DEFINE r == [n EXCEPT !.thrown = t]
<1>3. /\ r \in Nodes /\ r.chain = n.chain /\ r.stored = n.stored /\ r.undo = n.undo /\ r.pending = n.pending
      /\ r.session = n.session /\ r.popped = n.popped
  BY <1>1 DEF Nodes
<1> HIDE DEF r
<1>4. r.undo <= n.undo
  BY <1>2, <1>3
<1>5. r \in Work(l, m)
  BY <1>1, <1>3, <1>4, WorkKept
<1>6. r \in Rest(l, m)
  BY <1>1, <1>3, <1>5 DEF Rest
<1> QED  BY <1>6 DEF r

LEMMA TransactionRest ==
    ASSUME NEW l, NEW m \in Nat, NEW n \in Rest(l, m), NEW t \in Txs
    PROVE  DoPushTransaction(n, t) \in Rest(l, m)
<1>1. n \in Nodes /\ n \in Work(l, m) /\ n.popped = <<>> /\ Fits(n)
  BY RestParts
<1>2. PICK u \in Nat, x \in Nat : u = n.undo /\ x = n.undo_max - 1
  BY <1>1, NodeParts
<1>3. PICK v \in Nat : v = Min({u, x}) /\ v <= u
  BY <1>2, MinOfTwo
<1> DEFINE s == [n EXCEPT !.session = TRUE, !.undo = v]
<1>4. DoPushTransaction(n, t) = IF CanApplyTxs(<<t>>, Applied(n)) THEN [s EXCEPT !.pending = Append(@, t)] ELSE Throw(s)
  BY <1>2, <1>3 DEF DoPushTransaction
<1>5. /\ s \in Nodes /\ s.chain = n.chain /\ s.stored = n.stored /\ s.undo = v /\ s.pending = n.pending
      /\ s.session = TRUE /\ s.popped = n.popped
  BY <1>1 DEF Nodes
<1> HIDE DEF s
<1>6. s.undo <= n.undo
  BY <1>2, <1>3, <1>5
<1>7. s \in Work(l, m)
  BY <1>1, <1>5, <1>6, WorkKept
<1>8. s \in Rest(l, m)
  BY <1>1, <1>5, <1>7 DEF Rest
<1>9. CASE ~ CanApplyTxs(<<t>>, Applied(n))
  BY <1>4, <1>8, <1>9, RestThrown DEF Throw
<1>10. CASE CanApplyTxs(<<t>>, Applied(n))
  <2>1. PICK p \in TxSeqs : p = n.pending
    BY <1>1, NodeParts
  <2>2. PICK q \in TxSeqs : q = Append(p, t)
    <3>1. Append(p, t) \in TxSeqs
      BY DEF TxSeqs
    <3> QED  BY ONLY <3>1
  <2> DEFINE r == [s EXCEPT !.pending = q]
  <2>3. DoPushTransaction(n, t) = r
    BY <1>4, <1>5, <1>10, <2>1, <2>2
  <2>4. /\ r \in Nodes /\ r.chain = n.chain /\ r.stored = n.stored /\ r.undo = s.undo /\ r.pending = q
        /\ r.session = TRUE /\ r.popped = n.popped
    BY <1>5 DEF Nodes
  <2> HIDE DEF r
  <2>5. PICK T : T = TxsIn(n.chain, Len(n.chain))
    OBVIOUS
  <2>6. CanApplyTxs(p, T) /\ CanApplyTxs(<<t>>, T \cup ToSet(p))
    BY <1>1, <1>10, <2>1, <2>5, AppliedIs DEF Fits
  <2>7. CanApplyTxs(q, T)
    BY <2>2, <2>6, TxsAppend
  <2>8. Fits(r)
    BY <2>4, <2>5, <2>7 DEF Fits
  <2>9. r \in Work(l, m)
    <3>1. /\ ValidChain(s.chain) /\ s.undo + m <= Len(s.chain)
          /\ Store(l, s.stored) \in Logs /\ Matches(Store(l, s.stored), s.chain)
          /\ \A k \in 1 .. m : Store(l, s.stored)[k] = l[k]
      BY <1>7, WorkParts
    <3>2. r.chain = s.chain /\ r.stored = s.stored /\ r.undo = s.undo
      BY <1>5, <2>4
    <3>3. /\ ValidChain(r.chain) /\ r.undo + m <= Len(r.chain)
          /\ Store(l, r.stored) \in Logs /\ Matches(Store(l, r.stored), r.chain)
          /\ \A k \in 1 .. m : Store(l, r.stored)[k] = l[k]
      BY ONLY <3>1, <3>2
    <3> QED  BY <2>4, <2>8, <3>3 DEF Work
  <2> QED  BY <1>1, <2>3, <2>4, <2>9 DEF Rest
<1> QED  BY <1>9, <1>10

LEMMA RestoreRest ==
    ASSUME NEW l, NEW m \in Nat, NEW n \in Rest(l, m), NEW ts \in TxSeqs
    PROVE  Restore(n, ts) \in Rest(l, m)
<1>1. PICK V : V = Rest(l, m) /\ n \in V
  OBVIOUS
<1>2. ts \in Seq(Txs)
  BY DEF TxSeqs
<1>3. Restore(n, ts) = Restores!Fold(n, ts)
  BY DEF Restore, RestoreStep, Restores!Fold, FoldLeft, Restores!MapThenFoldSet, MapThenFoldSet, Max, Restores!Largest
<1>4. Restores!Closed(V, Txs)
  <2> SUFFICES ASSUME NEW x \in Rest(l, m), NEW t \in Txs PROVE RestoreStep(x, t) \in Rest(l, m)
    BY <1>1 DEF Restores!Closed
  <2>1. x.thrown \in BOOLEAN
    BY RestParts, NodeParts
  <2>2. PICK y \in Rest(l, m) : y = DoPushTransaction(x, t)
    BY TransactionRest
  <2>3. [y EXCEPT !.thrown = x.thrown] \in Rest(l, m)
    BY <2>1, RestThrown
  <2> QED  BY <2>2, <2>3 DEF RestoreStep
<1>5. Restores!Fold(n, ts) \in V
  BY ONLY <1>1, <1>2, <1>4, Restores!FoldIn
<1> QED  BY ONLY <1>1, <1>3, <1>5


\* database::push_block, whatever it does with what is pending before.
LEMMA PushOnRest ==
    ASSUME NEW l \in Logs, NEW m \in Nat, NEW n \in Nodes, NEW b \in Blocks,
           [n EXCEPT !.pending = <<>>, !.session = FALSE] \in Bare(l, m)
    PROVE  PushBlockOn(n, b) \in Rest(l, m)
<1>1. PICK x \in Bare(l, m) : x = [n EXCEPT !.pending = <<>>, !.session = FALSE]
  OBVIOUS
<1>2. PICK y \in Bare(l, m) : y = DoPushBlock(x, b)
  BY PushBare
<1>3. n.pending \in TxSeqs /\ y.popped \in TxSeqs /\ y.fork \in Forks
  BY BareParts, NodeParts
<1>4. PICK ts \in TxSeqs : ts = Waiting(y, n.pending)
  <2>1. y.popped \o n.pending \in TxSeqs
    BY <1>3, ConcatProperties DEF TxSeqs
  <2> QED  BY <2>1 DEF Waiting
<1>5. PICK z \in Bare(l, m) : z = [y EXCEPT !.popped = <<>>]
  BY <1>3, FlagsBare
<1>6. z.popped = <<>>
  <2>1. y \in Nodes
    BY BareParts
  <2> QED  BY <1>5, <2>1 DEF Nodes
<1>7. z \in Rest(l, m)
  BY <1>6, BareParts DEF Rest
<1>8. PushBlockOn(n, b) = Restore(z, ts)
  BY <1>1, <1>2, <1>4, <1>5 DEF PushBlockOn, Resume
<1> QED  BY <1>7, <1>8, RestoreRest

LEMMA CleanBare ==
    ASSUME NEW l, NEW m \in Nat, NEW n \in Work(l, m)
    PROVE  [n EXCEPT !.pending = <<>>, !.session = FALSE] \in Bare(l, m)
<1>1. n \in Nodes
  BY WorkParts
<1>2. PICK u \in Nat : u = n.undo
  BY <1>1, NodeParts
<1> DEFINE r == [n EXCEPT !.pending = <<>>, !.session = FALSE]
<1>3. r \in Nodes /\ r.chain = n.chain /\ r.stored = n.stored /\ r.undo = n.undo /\ r.pending = <<>>
  BY <1>1, EmptyTxs DEF Nodes
<1> HIDE DEF r
<1>4. r.undo <= n.undo
  BY <1>2, <1>3
<1>5. r \in Work(l, m)
  BY <1>3, <1>4, WorkKept
<1>6. r \in Bare(l, m)
  BY <1>3, <1>5 DEF Bare
<1> QED  BY <1>6 DEF r

-----------------------------------------------------------------------------
(* Every action preserves the invariant. *)

\* Between operations the node is at rest.
LEMMA RunningRest ==
    ASSUME ChainInv
    PROVE  /\ log \in Logs /\ Len(flushed) \in Nat
           /\ Running \in Rest(log, Len(flushed))
           /\ Running \in Nodes /\ Running.chain = node.chain /\ Running.pending = node.pending /\ Running.popped = <<>>
           /\ Running.fork = node.fork /\ Running.thrown = FALSE
<1>1. /\ node \in Nodes /\ ValidChain(node.chain) /\ Fits(node)
      /\ node.stored = <<>> /\ node.popped = <<>>
      /\ log \in Logs /\ Matches(log, node.chain)
      /\ flushed \in Chains
      /\ node.undo + Len(flushed) <= Len(node.chain)
  BY DEF ChainInv
<1>2. PICK m \in Nat : m = Len(flushed)
  BY <1>1 DEF Chains
<1>3. Store(log, node.stored) = log
  <2>1. Store(log, <<>>) = log
    BY <1>1, LogParts, StoreNone
  <2> QED  BY ONLY <1>1, <2>1
<1> DEFINE r == Running
<1>4. /\ r \in Nodes /\ r.chain = node.chain /\ r.stored = node.stored /\ r.undo = node.undo
      /\ r.pending = node.pending /\ r.session = node.session /\ r.popped = node.popped
      /\ r.fork = node.fork /\ r.thrown = FALSE
  BY <1>1 DEF Running, Nodes
<1> HIDE DEF r
<1>5. Fits(r)
  BY <1>1, <1>4 DEF Fits
<1>6. /\ ValidChain(r.chain) /\ r.undo + m <= Len(r.chain)
      /\ Store(log, r.stored) \in Logs /\ Matches(Store(log, r.stored), r.chain)
      /\ \A k \in 1 .. m : Store(log, r.stored)[k] = log[k]
  BY ONLY <1>1, <1>2, <1>3, <1>4
<1>7. r \in Work(log, m)
  BY <1>4, <1>5, <1>6 DEF Work
<1>8. r \in Rest(log, m)
  BY <1>1, <1>4, <1>7 DEF Rest
<1> QED  BY <1>1, <1>2, <1>4, <1>8 DEF r

\* An operation whose outcome is at rest preserves the invariant.
LEMMA BecomeInv ==
    ASSUME log \in Logs, NEW c \in Chains, ValidChain(c), Matches(log, c),
           NEW n \in Rest(log, Len(c)), Become(n), flushed' = c
    PROVE  ChainInv'
<1>1. PICK m \in Nat : m = Len(c)
  BY DEF Chains
<1>2. n \in Work(log, m) /\ n \in Nodes /\ n.popped = <<>> /\ Fits(n)
  BY <1>1, RestParts
<1>3. PICK r : r = [n EXCEPT !.stored = <<>>]
  OBVIOUS
<1>4. node' = r /\ log' = Store(log, n.stored)
  BY <1>3 DEF Become
<1>5. /\ r \in Nodes /\ r.chain = n.chain /\ r.stored = <<>> /\ r.undo = n.undo
      /\ r.pending = n.pending /\ r.session = n.session /\ r.popped = n.popped
  <2>1. <<>> \in BlockSeqs
    BY DEF BlockSeqs
  <2> QED  BY <1>2, <1>3, <2>1 DEF Nodes
<1>6. Fits(r)
  BY <1>2, <1>5 DEF Fits
<1>7. /\ ValidChain(n.chain) /\ n.undo + m <= Len(n.chain)
      /\ Store(log, n.stored) \in Logs /\ Matches(Store(log, n.stored), n.chain)
      /\ \A k \in 1 .. m : Store(log, n.stored)[k] = log[k]
  BY <1>2, WorkParts
<1>8. PICK g \in Logs : g = Store(log, n.stored)
  BY <1>7
<1>9. Matches(g, c)
  <2> SUFFICES ASSUME NEW k \in 1 .. m PROVE k \in DOMAIN g /\ g[k] = c[k].blk
    BY <1>1 DEF Matches
  <2>1. k \in DOMAIN log /\ log[k] = c[k].blk
    BY <1>1 DEF Matches
  <2>2. DOMAIN g = DOMAIN log
    BY LogParts
  <2> QED  BY <1>7, <1>8, <2>1, <2>2
<1>10. /\ r \in Nodes /\ ValidChain(r.chain) /\ Fits(r) /\ r.stored = <<>> /\ r.popped = <<>>
       /\ g \in Logs /\ Matches(g, r.chain) /\ c \in Chains /\ ValidChain(c) /\ Matches(g, c)
       /\ r.undo + Len(c) <= Len(r.chain)
  BY <1>1, <1>2, <1>5, <1>6, <1>7, <1>8, <1>9
<1>11. node' = r /\ log' = g /\ flushed' = c
  BY <1>4, <1>8
<1> QED  BY ONLY <1>10, <1>11 DEF ChainInv


LEMMA PushBlockInv ==
    ASSUME ChainInv, NEW b \in Blocks, PushBlock(b)
    PROVE  ChainInv'
<1>1. PICK m \in Nat : m = Len(flushed)
  BY RunningRest
<1>2. PICK n \in Nodes : n = Running /\ n \in Work(log, m)
  BY <1>1, RunningRest, RestParts
<1>3. log \in Logs /\ flushed \in Chains /\ ValidChain(flushed) /\ Matches(log, flushed)
  BY DEF ChainInv
<1>4. PICK r \in Rest(log, m) : r = PushBlockOn(n, b)
  BY <1>2, <1>3, CleanBare, PushOnRest
<1>5. Become(r) /\ flushed' = flushed
  BY <1>2, <1>4 DEF PushBlock
<1> QED  BY <1>1, <1>3, <1>4, <1>5, BecomeInv

LEMMA PushTransactionInv ==
    ASSUME ChainInv, NEW t \in Txs, PushTransaction(t)
    PROVE  ChainInv'
<1>1. PICK m \in Nat : m = Len(flushed)
  BY RunningRest
<1>2. PICK n \in Rest(log, m) : n = Running
  BY <1>1, RunningRest
<1>3. log \in Logs /\ flushed \in Chains /\ ValidChain(flushed) /\ Matches(log, flushed)
  BY DEF ChainInv
<1>4. PICK r \in Rest(log, m) : r = DoPushTransaction(n, t)
  BY <1>2, TransactionRest
<1>5. Become(r) /\ flushed' = flushed
  BY <1>2, <1>4 DEF PushTransaction
<1> QED  BY <1>1, <1>3, <1>4, <1>5, BecomeInv

\* _generate_block pushes its block on a node with the chain and the pending
\* transactions of this one.
LEMMA Generated ==
    ASSUME ChainInv, NEW b \in Blocks, GenerateBlock(b)
    PROVE  \E s \in Nodes :
              /\ s.chain = node.chain /\ s.pending = node.pending /\ s.thrown = FALSE
              /\ [s EXCEPT !.pending = <<>>, !.session = FALSE] \in Bare(log, Len(flushed))
              /\ Become(PushBlockOn(s, b)) /\ flushed' = flushed
<1>1. PICK m \in Nat : m = Len(flushed)
  BY RunningRest
<1>2. PICK n \in Nodes : n = Running /\ n \in Work(log, m) /\ n.thrown = FALSE
  BY <1>1, RunningRest, RestParts
<1>3. log \in Logs /\ flushed \in Chains /\ ValidChain(flushed) /\ Matches(log, flushed)
  BY DEF ChainInv
<1>4. PICK u \in Nat, x \in Nat : u = n.undo /\ x = n.undo_max /\ x > 0
  BY NodeParts
<1>5. PICK v \in Nat : v = Min({u, x}) /\ v <= u
  BY <1>4, MinOfTwo
<1>6. PICK w \in Nat : w = Min({v, x - 1}) /\ w <= u
  <2>1. Min({v, x - 1}) = IF v <= x - 1 THEN v ELSE x - 1
    BY <1>4, MinOfTwo
  <2>2. PICK y \in Nat : y = x - 1
    BY <1>4
  <2>3. (IF v <= y THEN v ELSE y) \in Nat /\ (IF v <= y THEN v ELSE y) <= u
    BY <1>5
  <2> QED  BY <2>1, <2>2, <2>3
<1> DEFINE d == Drop([Running EXCEPT !.session = FALSE])
           s == IF node.pending = <<>> THEN d ELSE [d EXCEPT !.undo = Min({@, d.undo_max - 1})]
<1>7. PICK k : k = [n EXCEPT !.session = FALSE]
  OBVIOUS
<1>8. /\ k \in Nodes /\ k.chain = n.chain /\ k.stored = n.stored /\ k.undo = u /\ k.undo_max = x
      /\ k.pending = n.pending /\ k.thrown = FALSE
  BY <1>2, <1>4, <1>7 DEF Nodes
<1>9. d = [k EXCEPT !.undo = v]
  BY <1>2, <1>5, <1>7, <1>8 DEF Drop
<1>10. /\ d \in Nodes /\ d.chain = n.chain /\ d.stored = n.stored /\ d.undo = v /\ d.undo_max = x
       /\ d.pending = n.pending /\ d.thrown = FALSE
  <2> HIDE DEF d
  <2> QED  BY <1>8, <1>9 DEF Nodes
<1>11. /\ s \in Nodes /\ s.chain = n.chain /\ s.stored = n.stored /\ s.undo \in {v, w} /\ s.pending = n.pending
       /\ s.thrown = FALSE
  <2> HIDE DEF d
  <2>1. PICK e : e = [d EXCEPT !.undo = w]
    OBVIOUS
  <2>2. s = IF node.pending = <<>> THEN d ELSE e
    BY <1>6, <1>10, <2>1
  <2>3. e \in Nodes /\ e.chain = n.chain /\ e.stored = n.stored /\ e.undo = w /\ e.pending = n.pending
        /\ e.thrown = FALSE
    BY <1>10, <2>1 DEF Nodes
  <2> HIDE DEF s
  <2> QED  BY <1>10, <2>2, <2>3
<1>12. Become(PushBlockOn(s, b)) /\ flushed' = flushed
  BY DEF GenerateBlock
<1> HIDE DEF d, s
<1>13. PICK z : z = [s EXCEPT !.pending = <<>>, !.session = FALSE]
  OBVIOUS
<1>14. z \in Nodes /\ z.chain = n.chain /\ z.stored = n.stored /\ z.undo = s.undo /\ z.pending = <<>>
  BY <1>11, <1>13, EmptyTxs DEF Nodes
<1>15. z.undo <= n.undo
  BY <1>4, <1>5, <1>6, <1>11, <1>14
<1>16. z \in Work(log, m)
  BY <1>2, <1>14, <1>15, WorkKept
<1>17. z \in Bare(log, m)
  BY <1>14, <1>16 DEF Bare
<1>18. n.chain = node.chain /\ n.pending = node.pending
  BY <1>2, RunningRest
<1> QED  BY <1>1, <1>11, <1>12, <1>13, <1>17, <1>18

LEMMA GenerateBlockInv ==
    ASSUME ChainInv, NEW b \in Blocks, GenerateBlock(b)
    PROVE  ChainInv'
<1>1. PICK m \in Nat : m = Len(flushed)
  BY RunningRest
<1>2. log \in Logs /\ flushed \in Chains /\ ValidChain(flushed) /\ Matches(log, flushed)
  BY DEF ChainInv
<1>3. PICK s \in Nodes :
        /\ [s EXCEPT !.pending = <<>>, !.session = FALSE] \in Bare(log, m)
        /\ Become(PushBlockOn(s, b)) /\ flushed' = flushed
  BY <1>1, Generated
<1>4. PICK r \in Rest(log, m) : r = PushBlockOn(s, b)
  BY <1>2, <1>3, PushOnRest
<1>5. Become(r)
  BY <1>3, <1>4
<1> QED  BY <1>1, <1>2, <1>3, <1>4, <1>5, BecomeInv


-----------------------------------------------------------------------------
(* Closing. *)

\* Taking back blocks stores nothing.
LEMMA PopStored ==
    ASSUME NEW n \in Nodes
    PROVE  PopBlock(n).stored = n.stored
BY DEF PopBlock, Throw, Nodes

\* What closing leaves in the object database is a chain that the log holds.
LEMMA RewindChain ==
    ASSUME ChainInv
    PROVE  LET c == Rewind(Running).chain
           IN  c \in Chains /\ ValidChain(c) /\ Matches(log, c)
<1>0. PICK l \in Logs : l = log
  BY RunningRest
<1>1. PICK m \in Nat : m = Len(flushed)
  BY RunningRest
<1>2. PICK n \in Nodes : n = Running /\ n \in Work(l, m) /\ n.stored = <<>>
  <2>1. Running \in Nodes /\ Running \in Work(log, m)
    BY <1>1, RunningRest, RestParts
  <2>2. Running.stored = <<>>
    BY DEF ChainInv, Running, Nodes
  <2> QED  BY <1>0, <2>1, <2>2
<1>3. PICK x \in Bare(l, m) : x = [n EXCEPT !.pending = <<>>, !.session = FALSE] /\ x.stored = <<>>
  <2>1. [n EXCEPT !.pending = <<>>, !.session = FALSE].stored = n.stored
    BY DEF Nodes
  <2> QED  BY <1>2, <2>1, CleanBare
<1>4. PICK k \in Nat : k = head_block_num(n) - last_irreversible(n)
  <2>1. ValidChain(n.chain)
    BY <1>2, WorkParts
  <2>2. PICK i \in Nat, j \in Nat : i = head_block_num(n) /\ j = last_irreversible(n) /\ j <= i
    BY <2>1, HeadIs
  <2>3. i - j \in Nat
    BY <2>2
  <2> QED  BY ONLY <2>2, <2>3
<1>5. Rewind(n) = Rewinds!Fold(x, Steps(k))
  BY <1>3, <1>4 DEF Rewind, RewindStep, Rewinds!Fold, FoldLeft, Rewinds!MapThenFoldSet, MapThenFoldSet, Max, Rewinds!Largest
<1>6. PICK s \in Seq(Nat) : s = Steps(k)
  <2>1. Steps(k) \in Seq(Nat)
    BY DEF Steps
  <2> QED  BY ONLY <2>1
<1>7. PICK V : V = {y \in Bare(l, m) : y.stored = <<>>} /\ x \in V
  BY <1>3
<1>8. Rewinds!Closed(V, Nat)
  <2> SUFFICES ASSUME NEW y \in Bare(l, m), y.stored = <<>>, NEW i \in Nat
               PROVE  RewindStep(y, i) \in Bare(l, m) /\ RewindStep(y, i).stored = <<>>
    BY <1>7 DEF Rewinds!Closed
  <2>1. PICK p \in Bare(l, m) : p = PopBlock(y) /\ p.stored = <<>>
    BY PopBare, BareParts, PopStored
  <2>2. PICK f \in Forks : f = remove(p.fork, head_block_id(y))
    BY BareParts, NodeParts, RemoveType
  <2>3. RewindStep(y, i) = IF p.thrown THEN p ELSE [p EXCEPT !.fork = f]
    BY <2>1, <2>2 DEF RewindStep
  <2>4. [p EXCEPT !.fork = f] \in Bare(l, m)
    BY FlagsBare
  <2>5. [p EXCEPT !.fork = f].stored = p.stored
    BY BareParts DEF Nodes
  <2> QED  BY <2>1, <2>3, <2>4, <2>5
<1>9. PICK z : z = Rewinds!Fold(x, s) /\ z \in V
  BY ONLY <1>7, <1>8, s \in Seq(Nat), Rewinds!FoldIn
<1>10. z \in Bare(l, m) /\ z.stored = <<>>
  BY <1>7, <1>9
<1>11. z \in Nodes /\ z \in Work(l, m)
  BY <1>10, BareParts
<1>12. ValidChain(z.chain) /\ z.chain \in Chains /\ Matches(Store(l, z.stored), z.chain)
  BY <1>11, WorkParts, NodeParts
<1>13. Store(l, <<>>) = l
  BY LogParts, StoreNone
<1>14. Matches(l, z.chain)
  BY ONLY <1>10, <1>12, <1>13
<1>15. Rewind(Running) = z
  BY ONLY <1>2, <1>5, <1>6, <1>9
<1> QED  BY ONLY <1>0, <1>12, <1>14, <1>15


-----------------------------------------------------------------------------
(* Opening. *)

\* The blocks in the log.
InLog == {b \in Blocks : log[Num(b)] = b}

\* The log holds every block up to the last one.
LEMMA NoGaps ==
    ASSUME log \in Logs
    PROVE  LastLogged \in 0 .. Top /\ \A i \in 1 .. LastLogged : log[i] \in InLog
<1>1. PICK t \in Nat : t = Top
  BY TopNum
<1>2. /\ DOMAIN log = 1 .. t
      /\ \A k \in 1 .. t : log[k] \in Blocks \cup {Genesis}
      /\ \A k \in 1 .. t : log[k] # Genesis => Num(log[k]) = k
      /\ \A k \in 1 .. t : k > 1 /\ log[k] # Genesis => log[k - 1] # Genesis
  BY <1>1, LogParts
<1> DEFINE s == {0} \cup {i \in DOMAIN log : log[i] # Genesis}
<1>3. s \in SUBSET (0 .. t) /\ s # {}
  BY <1>2
<1>4. PICK h : h = Max(s) /\ h \in s
  <2> HIDE DEF s
  <2>1. Max(s) \in s
    BY <1>3, MaxIn
  <2> QED  BY ONLY <2>1
<1>5. LastLogged = h
  BY <1>4 DEF LastLogged
<1>6. h \in 0 .. t /\ (h > 0 => log[h] # Genesis)
  BY <1>2, <1>3, <1>4
<1> HIDE DEF s
<1> DEFINE N == {d \in Nat : h - d >= 1 => log[h - d] # Genesis}
<1>7. 0 \in N
  <2>1. h - 0 = h
    BY <1>6
  <2> QED  BY <1>6, <2>1
<1>8. ASSUME NEW d \in N PROVE d + 1 \in N
  <2> SUFFICES ASSUME h - (d + 1) >= 1 PROVE log[h - (d + 1)] # Genesis
    OBVIOUS
  <2>1. PICK k \in 1 .. t : k = h - d /\ k > 1 /\ k - 1 = h - (d + 1)
    BY <1>6
  <2>2. log[k] # Genesis
    BY <2>1
  <2>3. log[k - 1] # Genesis
    BY <1>2, <2>1, <2>2
  <2> QED  BY <2>1, <2>3
<1>9. N = Nat
  <2>1. N \in SUBSET Nat
    OBVIOUS
  <2> HIDE DEF N
  <2> QED  BY <1>7, <1>8, <2>1, NatSetInduction
<1>10. ASSUME NEW i \in 1 .. h PROVE log[i] \in InLog
  <2>1. PICK d \in Nat : d = h - i /\ h - d = i
    BY <1>6
  <2>2. log[h - d] # Genesis
    BY <1>9, <2>1
  <2>3. log[i] # Genesis /\ i \in 1 .. t
    BY <1>6, <2>1, <2>2
  <2>4. log[i] \in Blocks /\ Num(log[i]) = i
    BY <1>2, <2>3
  <2> QED  BY <2>4 DEF InLog
<1> QED  BY <1>1, <1>5, <1>6, <1>10

LEMMA LoggedType ==
    ASSUME log \in Logs, NEW a \in Nat \ {0}, NEW t \in Int, t <= LastLogged
    PROVE  /\ Logged(a, t) \in Seq(InLog) /\ Logged(a, t) \in BlockSeqs
           /\ Len(Logged(a, t)) = IF a <= t THEN (t - a) + 1 ELSE 0
           /\ \A i \in 1 .. (t - a) + 1 : Logged(a, t)[i] = log[(a + i) - 1]
<1>1. PICK h \in Nat : h = LastLogged /\ t <= h
  BY NoGaps, TopNum
<1>2. \A i \in a .. t : log[i] \in InLog
  <2> SUFFICES ASSUME NEW i \in a .. t PROVE log[i] \in InLog
    OBVIOUS
  <2>1. i \in 1 .. h
    BY <1>1
  <2> QED  BY <1>1, <2>1, NoGaps
<1>3. a \in Int
  OBVIOUS
<1>4. /\ SubSeq(log, a, t) \in Seq(InLog)
      /\ Len(SubSeq(log, a, t)) = IF a <= t THEN (t - a) + 1 ELSE 0
      /\ \A i \in 1 .. (t - a) + 1 : SubSeq(log, a, t)[i] = log[(a + i) - 1]
  BY ONLY <1>2, <1>3, t \in Int, SubSeqProperties
<1>5. \A i \in a .. t : log[i] \in Blocks
  BY <1>2 DEF InLog
<1>6. SubSeq(log, a, t) \in Seq(Blocks)
  BY ONLY <1>3, <1>5, t \in Int, SubSeqProperties
<1> QED  BY ONLY <1>4, <1>6 DEF Logged, BlockSeqs

\* From a to t and from v to u are from a to u.
Cut(a, t, v, u) == a <= t /\ t <= u /\ u <= LastLogged /\ v = t + 1
Splits(a, t, v, u) == Logged(a, u) = Logged(a, t) \o Logged(v, u)

LEMMA LoggedConcat ==
    ASSUME log \in Logs, NEW a \in Nat \ {0}, NEW t \in Nat, NEW u \in Nat, NEW v \in Nat \ {0},
           Cut(a, t, v, u)
    PROVE  Splits(a, t, v, u)
<1>0. a <= t /\ t <= u /\ u <= LastLogged
  BY DEF Cut
<1>1. PICK h \in Nat : h = LastLogged /\ u <= h
  BY <1>0, NoGaps, TopNum
<1>2. v = t + 1
  BY DEF Cut
<1>3. PICK p \in Seq(InLog) : p = Logged(a, t) /\ Len(p) = (t - a) + 1 /\ \A i \in 1 .. (t - a) + 1 : p[i] = log[(a + i) - 1]
  <2>1. t <= LastLogged /\ t \in Int
    BY <1>0, <1>1
  <2>2. /\ Logged(a, t) \in Seq(InLog)
        /\ Len(Logged(a, t)) = IF a <= t THEN (t - a) + 1 ELSE 0
        /\ \A i \in 1 .. (t - a) + 1 : Logged(a, t)[i] = log[(a + i) - 1]
    BY <2>1, LoggedType
  <2>3. Len(Logged(a, t)) = (t - a) + 1
    BY <1>0, <2>2
  <2> QED  BY ONLY <2>2, <2>3
<1>4. PICK q \in Seq(InLog) : q = Logged(v, u) /\ Len(q) = u - t /\ \A i \in 1 .. u - t : q[i] = log[t + i]
  <2>1. u <= LastLogged /\ u \in Int
    BY <1>0, <1>1
  <2>2. /\ Logged(v, u) \in Seq(InLog)
        /\ Len(Logged(v, u)) = IF v <= u THEN (u - v) + 1 ELSE 0
        /\ \A i \in 1 .. (u - v) + 1 : Logged(v, u)[i] = log[(v + i) - 1]
    BY <2>1, LoggedType
  <2>3. Len(Logged(v, u)) = u - t
    <3>1. (IF v <= u THEN (u - v) + 1 ELSE 0) = u - t
      BY <1>0, <1>2
    <3> QED  BY ONLY <2>2, <3>1
  <2>4. \A i \in 1 .. u - t : Logged(v, u)[i] = log[t + i]
    <3> SUFFICES ASSUME NEW i \in 1 .. u - t PROVE Logged(v, u)[i] = log[t + i]
      OBVIOUS
    <3>1. i \in 1 .. (u - v) + 1 /\ (v + i) - 1 = t + i
      BY <1>2
    <3> QED  BY <2>2, <3>1
  <2> QED  BY ONLY <2>2, <2>3, <2>4
<1>5. PICK r \in Seq(InLog) : r = Logged(a, u) /\ Len(r) = (u - a) + 1 /\ \A i \in 1 .. (u - a) + 1 : r[i] = log[(a + i) - 1]
  <2>1. u <= LastLogged /\ u \in Int /\ a <= u
    BY <1>0, <1>1
  <2>2. /\ Logged(a, u) \in Seq(InLog)
        /\ Len(Logged(a, u)) = IF a <= u THEN (u - a) + 1 ELSE 0
        /\ \A i \in 1 .. (u - a) + 1 : Logged(a, u)[i] = log[(a + i) - 1]
    BY <2>1, LoggedType
  <2>3. Len(Logged(a, u)) = (u - a) + 1
    BY <2>1, <2>2
  <2> QED  BY ONLY <2>2, <2>3
<1>6. /\ p \o q \in Seq(InLog) /\ Len(p \o q) = Len(p) + Len(q)
      /\ \A i \in 1 .. Len(p) + Len(q) : (p \o q)[i] = IF i <= Len(p) THEN p[i] ELSE q[i - Len(p)]
  BY ConcatProperties
<1>7. PICK z \in Seq(InLog) : z = p \o q
  BY ONLY <1>6
<1>8. Len(z) = Len(r)
  <2>1. Len(z) = ((t - a) + 1) + (u - t)
    BY ONLY <1>3, <1>4, <1>6, <1>7
  <2>2. ((t - a) + 1) + (u - t) = (u - a) + 1
    OBVIOUS
  <2> QED  BY ONLY <1>5, <2>1, <2>2
<1>9. ASSUME NEW i \in 1 .. Len(r) PROVE z[i] = r[i]
  <2>1. i \in 1 .. Len(p) + Len(q) /\ i \in 1 .. (u - a) + 1
    BY <1>0, <1>3, <1>4, <1>5, SMTT(30)
  <2>2. z[i] = IF i <= Len(p) THEN p[i] ELSE q[i - Len(p)]
    BY ONLY <1>6, <1>7, <2>1
  <2>3. r[i] = log[(a + i) - 1]
    BY <1>5, <2>1
  <2>4. CASE i <= (t - a) + 1
    <3>1. z[i] = p[i]
      BY <1>3, <2>2, <2>4
    <3>2. p[i] = log[(a + i) - 1]
      BY <1>3, <2>1, <2>4
    <3> QED  BY <2>3, <3>1, <3>2
  <2>5. CASE ~ (i <= (t - a) + 1)
    <3>1. PICK j \in 1 .. u - t : j = i - ((t - a) + 1) /\ t + j = (a + i) - 1
      BY <2>1, <2>5
    <3>2. z[i] = q[j]
      BY <1>3, <2>2, <2>5, <3>1
    <3>3. q[j] = log[t + j]
      BY <1>4
    <3> QED  BY <2>3, <3>1, <3>2, <3>3
  <2> QED  BY <2>4, <2>5
<1>10. z = r
  BY ONLY <1>8, <1>9, z \in Seq(InLog), r \in Seq(InLog), SeqEqual
<1> QED  BY ONLY <1>3, <1>4, <1>5, <1>7, <1>10 DEF Splits


\* A node that is being opened, with a chain of at least h blocks.
Loading(l, h) ==
    {n \in Bare(l, 0) : n.undo = 0 /\ n.stored = <<>> /\ n.popped = <<>> /\ h <= Len(n.chain)}

LEMMA LoadingParts ==
    ASSUME NEW l \in Logs, NEW h \in Nat, NEW n \in Loading(l, h)
    PROVE  /\ n \in Bare(l, 0) /\ n \in Nodes /\ n.undo = 0 /\ n.stored = <<>> /\ n.popped = <<>>
           /\ n.pending = <<>> /\ h <= Len(n.chain) /\ Len(n.chain) \in Nat /\ n.chain \in Chains
           /\ ValidChain(n.chain) /\ Matches(l, n.chain)
<1>1. n \in Bare(l, 0) /\ n.undo = 0 /\ n.stored = <<>> /\ n.popped = <<>> /\ h <= Len(n.chain)
  BY DEF Loading
<1>2. n \in Nodes /\ n \in Work(l, 0) /\ n.pending = <<>> /\ Len(n.chain) \in Nat
  BY <1>1, BareParts
<1>3. n.chain \in Chains /\ ValidChain(n.chain) /\ Matches(Store(l, n.stored), n.chain)
  BY <1>2, NodeParts, WorkParts
<1>4. Store(l, <<>>) = l
  BY LogParts, StoreNone
<1>5. Matches(l, n.chain)
  BY ONLY <1>1, <1>3, <1>4
<1> QED  BY ONLY <1>1, <1>2, <1>3, <1>5

\* A node whose log and chain match, with neither undo history nor anything
\* pending, works on any part of the log below its head.
LEMMA LoadingMade ==
    ASSUME NEW l \in Logs, NEW h \in Nat, NEW n \in Nodes, n.undo = 0, n.stored = <<>>,
           n.pending = <<>>, h <= Len(n.chain), ValidChain(n.chain), Matches(l, n.chain)
    PROVE  n \in Bare(l, h) /\ (n.popped = <<>> => n \in Loading(l, h))
<1>1. Store(l, <<>>) = l
  BY LogParts, StoreNone
<1>2. Store(l, n.stored) \in Logs /\ Matches(Store(l, n.stored), n.chain)
      /\ \A k : Store(l, n.stored)[k] = l[k]
  BY ONLY <1>1, n.stored = <<>>, l \in Logs, Matches(l, n.chain)
<1>3. Fits(n)
  BY TxsNone DEF Fits
<1>4. PICK j \in Nat : j = Len(n.chain)
  BY NodeParts DEF Chains
<1>5. n.undo + h <= Len(n.chain) /\ n.undo + 0 <= Len(n.chain)
  BY <1>4
<1>6. n \in Work(l, h) /\ n \in Work(l, 0)
  BY <1>2, <1>3, <1>5 DEF Work
<1> QED  BY <1>6 DEF Bare, Loading

LEMMA ReplayLoads ==
    ASSUME log \in Logs, NEW h \in Nat, NEW n \in Loading(log, h), NEW b \in InLog
    PROVE  Replay(n, b) \in Loading(log, h)
<1>1. /\ n \in Bare(log, 0) /\ n \in Nodes /\ n.undo = 0 /\ n.stored = <<>> /\ n.popped = <<>>
      /\ n.pending = <<>> /\ h <= Len(n.chain)
  BY LoadingParts
<1>2. b \in Blocks /\ log[Num(b)] = b
  BY DEF InLog
<1>3. CASE n.thrown
  BY <1>3 DEF Replay
<1>4. CASE ~ n.thrown
  <2>1. PICK a \in Bare(log, 0) : a = ApplyBlock(n, b)
    BY <1>1, <1>2, ApplyBare
  <2>2. h <= Len(a.chain) /\ a.stored \in {n.stored, Append(n.stored, b)} /\ a.popped = n.popped
    <3>1. PICK z \in Nat : z = 0 /\ n \in Bare(log, z)
      BY <1>1
    <3>2. /\ h <= Len(ApplyBlock(n, b).chain)
          /\ ApplyBlock(n, b).stored \in {n.stored, Append(n.stored, b)}
          /\ ApplyBlock(n, b).popped = n.popped
      BY ONLY <1>1, <1>2, <3>1, h \in Nat, ApplyGrows, ZenonT(60)
    <3> QED  BY ONLY <2>1, <3>2
  <2>3. a \in Nodes /\ a.pending = <<>> /\ a \in Work(log, 0)
    BY BareParts
  <2>4. ValidChain(a.chain) /\ Matches(Store(log, a.stored), a.chain)
    BY <2>3, WorkParts
  <2>5. Store(log, a.stored) = log
    <3>1. Store(log, <<>>) = log
      BY LogParts, StoreNone
    <3>2. PICK e \in BlockSeqs : e = <<>>
      <4>1. <<>> \in BlockSeqs
        BY DEF BlockSeqs
      <4> QED  BY ONLY <4>1
    <3>3. Store(log, Append(e, b)) = [Store(log, e) EXCEPT ![Num(b)] = b]
      BY <1>2, LogParts, StoreAppend
    <3>4. Store(log, e) = log
      BY ONLY <3>1, <3>2
    <3>5. [log EXCEPT ![Num(b)] = b] = log
      <4>1. log \in [1 .. Top -> Blocks \cup {Genesis}]
        BY LogParts DEF LogFuns
      <4> QED  BY ONLY <1>2, <4>1
    <3>6. a.stored = e \/ a.stored = Append(e, b)
      BY ONLY <1>1, <2>2, <3>2
    <3>7. Store(log, Append(e, b)) = log
      BY ONLY <3>3, <3>4, <3>5
    <3> QED  BY ONLY <3>4, <3>6, <3>7
  <2>6. Matches(log, a.chain)
    BY ONLY <2>4, <2>5
  <2>7. PICK r : r = [a EXCEPT !.undo = 0, !.stored = <<>>]
    OBVIOUS
  <2>8. r \in Nodes /\ r.chain = a.chain /\ r.undo = 0 /\ r.stored = <<>> /\ r.popped = a.popped /\ r.pending = a.pending
    <3>1. <<>> \in BlockSeqs
      BY DEF BlockSeqs
    <3> QED  BY <2>3, <2>7, <3>1 DEF Nodes
  <2>9. r \in Loading(log, h)
    <3>1. /\ r \in Nodes /\ r.undo = 0 /\ r.stored = <<>> /\ r.pending = <<>> /\ r.popped = <<>>
          /\ h <= Len(r.chain) /\ ValidChain(r.chain) /\ Matches(log, r.chain)
      BY ONLY <1>1, <2>2, <2>3, <2>4, <2>6, <2>8
    <3>2. PICK l \in Logs : l = log
      OBVIOUS
    <3> QED  BY <3>1, <3>2, LoadingMade
  <2>10. Replay(n, b) = r
    BY <1>4, <2>1, <2>7 DEF Replay
  <2> QED  BY <2>9, <2>10
<1> QED  BY <1>3, <1>4

LEMMA ReplayFold ==
    ASSUME NEW n, NEW s
    PROVE  FoldLeft(Replay, n, s) = Replays!Fold(n, s)
BY DEF Replays!Fold, FoldLeft, Replays!MapThenFoldSet, MapThenFoldSet, Max, Replays!Largest

LEMMA ReplayClosed ==
    ASSUME log \in Logs, NEW h \in Nat
    PROVE  Replays!Closed(Loading(log, h), InLog)
BY ReplayLoads DEF Replays!Closed

LEMMA ReplayAll ==
    ASSUME log \in Logs, NEW h \in Nat, NEW n \in Loading(log, h), NEW s \in Seq(InLog)
    PROVE  Replays!Fold(n, s) \in Loading(log, h)
<1>1. PICK V : V = Loading(log, h) /\ n \in V /\ Replays!Closed(V, InLog)
  BY ReplayClosed
<1>2. Replays!Fold(n, s) \in V
  BY ONLY <1>1, s \in Seq(InLog), Replays!FoldIn
<1> QED  BY ONLY <1>1, <1>2

LEMMA ResetType == reset \in Forks
<1>1. reset \in [index : SUBSET Blocks, linked : SUBSET Blocks, head : Items \cup {NoHead}, max_size : Nat]
  BY DEF reset
<1>2. reset.index = {} /\ reset.linked = {} /\ reset.head = NoHead
  BY DEF reset
<1> QED  BY <1>1, <1>2 DEF Forks

LEMMA OpenNode == Open \in Nodes /\ Open.thrown = FALSE /\ Open.undo = 0 /\ Open.stored = <<>> /\ Open.popped = <<>> /\ Open.pending = <<>> /\ Open.chain = <<>> /\ Open.session = FALSE
<1>1. <<>> \in Chains /\ <<>> \in TxSeqs /\ <<>> \in BlockSeqs
  BY DEF Chains, TxSeqs, BlockSeqs
<1>2. MinUndoHistory \in Nat \ {0}
  BY ChainAssumption
<1>3. Open \in Nodes
  BY <1>1, <1>2, ResetType DEF Open, Nodes
<1> QED  BY <1>3 DEF Open

LEMMA OpenLoads ==
    ASSUME log \in Logs, NEW c \in Chains, ValidChain(c), Matches(log, c)
    PROVE  /\ [Open EXCEPT !.chain = c] \in Loading(log, Len(c))
           /\ [Open EXCEPT !.chain = c].chain = c
           /\ [Open EXCEPT !.chain = c].thrown = FALSE
           /\ Len(c) \in Nat
<1>1. PICK n : n = [Open EXCEPT !.chain = c]
  OBVIOUS
<1>2. /\ n \in Nodes /\ n.chain = c /\ n.thrown = FALSE /\ n.undo = 0 /\ n.stored = <<>> /\ n.popped = <<>> /\ n.pending = <<>>
  BY <1>1, OpenNode DEF Nodes
<1>3. PICK k \in Nat : k = Len(c)
  BY DEF Chains
<1>4. k <= Len(n.chain)
  BY <1>2, <1>3
<1>5. n \in Loading(log, k)
  BY <1>2, <1>4, LoadingMade
<1> QED  BY <1>1, <1>2, <1>3, <1>5


LEMMA ReplayToLoads ==
    ASSUME log \in Logs, NEW h \in Nat, NEW n \in Loading(log, h), NEW to \in Int, to <= LastLogged
    PROVE  ReplayTo(n, to) \in Loading(log, h)
<1>1. n \in Nodes /\ ValidChain(n.chain)
  BY LoadingParts
<1>2. PICK a \in Nat \ {0} : a = head_block_num(n) + 1
  BY <1>1, HeadIs
<1>3. PICK s \in Seq(InLog) : s = Logged(a, to)
  BY LoggedType
<1>4. ReplayTo(n, to) = IF a < to THEN Replays!Fold(n, s) ELSE n
  BY <1>2, <1>3, ReplayFold DEF ReplayTo
<1>5. Replays!Fold(n, s) \in Loading(log, h)
  BY ReplayAll
<1> QED  BY <1>4, <1>5

\* A node replays at least the chain that is flushed on the way.
LEMMA ReflushedChain ==
    ASSUME log \in Logs, NEW c \in Chains, ValidChain(c), Matches(log, c)
    PROVE  /\ Reflushed(c) \in Chains /\ ValidChain(Reflushed(c)) /\ Matches(log, Reflushed(c))
           /\ Len(Reflushed(c)) \in Nat
           /\ ReplayTo([Open EXCEPT !.chain = c], LastLogged - MaxUndoHistory) \in Loading(log, Len(Reflushed(c)))
           /\ LastLogged <= Len(c) => Reflushed(c) = c
<1>1. PICK n : n = [Open EXCEPT !.chain = c]
  OBVIOUS
<1>2. PICK h \in Nat : h = Len(c)
  BY OpenLoads
<1>3. n \in Loading(log, h) /\ n.chain = c /\ n.thrown = FALSE
  BY <1>1, <1>2, OpenLoads
<1>4. PICK e \in Nat, x \in Nat : e = LastLogged /\ x = MaxUndoHistory
  BY NoGaps, TopNum, ChainAssumption
<1>5. PICK t \in Int, u \in Int : t = e - 2 * x /\ u = e - x /\ t <= u /\ u <= e
  BY <1>4
<1>6. t <= LastLogged /\ u <= LastLogged
  BY <1>4, <1>5
<1>7. PICK y \in Loading(log, h) : y = ReplayTo(n, t)
  BY <1>3, <1>6, ReplayToLoads
<1>8. PICK z \in Loading(log, h) : z = ReplayTo(n, u)
  BY <1>3, <1>6, ReplayToLoads
<1>9. Reflushed(c) = IF y.thrown THEN c ELSE y.chain
  <2>1. LastLogged - 2 * MaxUndoHistory = t
    BY <1>4, <1>5
  <2>2. Reflushed(c) = LET k == ReplayTo(n, LastLogged - 2 * MaxUndoHistory) IN IF k.thrown THEN c ELSE k.chain
    BY ONLY <1>1 DEF Reflushed
  <2> QED  BY ONLY <1>7, <2>1, <2>2
<1>10. ReplayTo([Open EXCEPT !.chain = c], LastLogged - MaxUndoHistory) = z
  <2>1. LastLogged - MaxUndoHistory = u
    BY <1>4, <1>5
  <2> QED  BY ONLY <1>1, <1>8, <2>1
<1>11. y.chain \in Chains /\ ValidChain(y.chain) /\ Matches(log, y.chain)
  BY LoadingParts
<1>12. PICK f \in Chains : f = Reflushed(c) /\ ValidChain(f) /\ Matches(log, f) /\ f \in {c, y.chain}
  <2>1. CASE y.thrown
    BY <1>9, <2>1
  <2>2. CASE ~ y.thrown
    BY <1>9, <1>11, <2>2
  <2> QED  BY <2>1, <2>2
<1>13. PICK j \in Nat : j = Len(f)
  BY DEF Chains
<1>14. n \in Nodes
  BY <1>3, LoadingParts
<1>15. PICK a \in Nat \ {0} : a = head_block_num(n) + 1 /\ a = h + 1
  <2>1. head_block_num(n) = h
    BY <1>2, <1>3, <1>14, HeadIs
  <2>2. head_block_num(n) + 1 = h + 1
    BY ONLY <2>1
  <2>3. h + 1 \in Nat \ {0}
    OBVIOUS
  <2> QED  BY ONLY <2>2, <2>3
<1>16. ~ (a < t) => y = n
  BY <1>7, <1>15 DEF ReplayTo
<1>17. z \in Loading(log, j)
  <2>1. CASE f = c
    <3>1. j = h
      BY ONLY <1>2, <1>13, <2>1
    <3> QED  BY ONLY <1>8, <3>1, z \in Loading(log, h)
  <2>2. CASE f # c
    <3>1. f = y.chain /\ a < t
      BY <1>3, <1>12, <1>16, <2>2
    <3>2. PICK r \in Nat, s \in Nat : r = t /\ s = u /\ a <= r /\ r <= s /\ s <= LastLogged /\ a < s
      BY <1>4, <1>5, <3>1
    <3>3. PICK p \in Seq(InLog) : p = Logged(a, r)
      BY <1>6, <3>2, LoggedType
    <3>4. PICK v \in Nat \ {0} : v = r + 1
      OBVIOUS
    <3>5. PICK q \in Seq(InLog) : q = Logged(v, s)
      BY <3>2, LoggedType
    <3>6. Logged(a, s) = p \o q
      <4>0. Cut(a, r, v, s)
        BY <3>2, <3>4 DEF Cut
      <4>2. Splits(a, r, v, s)
        BY <4>0, LoggedConcat
      <4>1. Logged(a, s) = Logged(a, r) \o Logged(v, s)
        BY ONLY <4>2 DEF Splits
      <4> QED  BY ONLY <3>3, <3>5, <4>1
    <3>7. y = Replays!Fold(n, p)
      <4>1. ReplayTo(n, t) = FoldLeft(Replay, n, Logged(head_block_num(n) + 1, t))
        BY <1>15, <3>1 DEF ReplayTo
      <4>2. ReplayTo(n, t) = FoldLeft(Replay, n, p)
        BY ONLY <1>15, <3>2, <3>3, <4>1
      <4> QED  BY ONLY <1>7, <4>2, ReplayFold
    <3>8. z = Replays!Fold(n, p \o q)
      <4>1. ReplayTo(n, u) = FoldLeft(Replay, n, Logged(head_block_num(n) + 1, u))
        BY <1>15, <3>2 DEF ReplayTo
      <4>2. ReplayTo(n, u) = FoldLeft(Replay, n, p \o q)
        BY ONLY <1>15, <3>2, <3>6, <4>1
      <4> QED  BY ONLY <1>8, <4>2, ReplayFold
    <3>9. Replays!Fold(n, p \o q) = Replays!Fold(Replays!Fold(n, p), q)
      <4>1. PICK V : V = Loading(log, h) /\ n \in V /\ Replays!Closed(V, InLog)
        BY <1>3, ReplayClosed
      <4> QED  BY ONLY <4>1, p \in Seq(InLog), q \in Seq(InLog), Replays!FoldConcat
    <3>10. z = Replays!Fold(y, q)
      BY ONLY <3>7, <3>8, <3>9
    <3>11. y \in Loading(log, j)
      <4>1. /\ y \in Nodes /\ y.undo = 0 /\ y.stored = <<>> /\ y.popped = <<>> /\ y.pending = <<>>
            /\ ValidChain(y.chain) /\ Matches(log, y.chain)
        BY LoadingParts
      <4>2. j <= Len(y.chain)
        BY <1>13, <3>1
      <4>3. PICK g \in Logs : g = log
        OBVIOUS
      <4>4. Matches(g, y.chain)
        BY <4>1, <4>3
      <4>5. y \in Loading(g, j)
        BY ONLY <4>1, <4>2, <4>4, g \in Logs, j \in Nat, LoadingMade
      <4> QED  BY ONLY <4>3, <4>5
    <3> QED  BY <3>10, <3>11, ReplayAll
  <2> QED  BY <2>1, <2>2
<1>18. ASSUME LastLogged <= Len(c) PROVE f = c
  <2>1. ~ (a < t)
    BY <1>2, <1>4, <1>5, <1>15, <1>18
  <2> QED  BY <1>3, <1>12, <1>16, <2>1
<1>19. Reflushed(c) = f /\ Len(f) \in Nat /\ z \in Loading(log, Len(f))
  BY ONLY <1>12, <1>13, <1>17, j \in Nat
<1> QED  BY ONLY <1>10, <1>12, <1>18, <1>19, f \in Chains


LEMMA PushLoggedRest ==
    ASSUME log \in Logs, NEW h \in Nat, NEW n \in Loading(log, h)
    PROVE  PushLogged(n) \in Rest(log, h)
<1>0. PICK l \in Logs : l = log
  OBVIOUS
<1>1. /\ n \in Nodes /\ n.undo = 0 /\ n.stored = <<>> /\ n.popped = <<>> /\ n.pending = <<>>
      /\ h <= Len(n.chain) /\ ValidChain(n.chain) /\ n.chain \in Chains
  BY LoadingParts
<1>2. Matches(l, n.chain)
  BY <1>0, LoadingParts
<1>3. n \in Bare(l, h)
  BY <1>1, <1>2, LoadingMade
<1>4. PICK k \in Nat : k = head_block_num(n) /\ k = Len(n.chain)
  BY <1>1, HeadIs
<1>5. PICK start : /\ start = IF k > 0 THEN [n EXCEPT !.fork = start_block(@, log[k])] ELSE n
                   /\ start \in Rest(l, h)
  <2>1. n \in Rest(l, h)
    BY <1>1, <1>3, BareParts DEF Rest
  <2>2. ASSUME k > 0 PROVE [n EXCEPT !.fork = start_block(@, log[k])] \in Rest(l, h)
    <3>1. k \in 1 .. Len(n.chain)
      BY <1>4, <2>2
    <3>2. log[k] = n.chain[k].blk /\ n.chain[k] \in Entries
      BY <1>0, <1>1, <1>2, <3>1 DEF Matches, Chains
    <3>3. log[k] \in Blocks
      BY <3>2 DEF Entries
    <3>4. PICK f \in Forks : f = start_block(n.fork, log[k])
      BY <1>1, <3>3, NodeParts, HeadOps
    <3>5. [n EXCEPT !.fork = f] \in Bare(l, h)
      BY <1>3, FlagsBare
    <3>6. [n EXCEPT !.fork = f].popped = <<>>
      BY <1>1 DEF Nodes
    <3>7. [n EXCEPT !.fork = f] \in Rest(l, h)
      BY <3>5, <3>6, BareParts DEF Rest
    <3> QED  BY <3>4, <3>7
  <2> QED  BY <2>1, <2>2
<1>6. PICK s \in BlockSeqs : s = Logged(k + 1, LastLogged)
  <2>1. PICK a \in Nat \ {0} : a = k + 1
    OBVIOUS
  <2>2. PICK e \in Int : e = LastLogged /\ e <= LastLogged
    BY NoGaps, TopNum
  <2>3. Logged(a, e) \in BlockSeqs
    BY <2>2, LoggedType
  <2> QED  BY ONLY <2>1, <2>2, <2>3
<1>7. PushLogged(n) = Pushes!Fold(start, s)
  <2>1. PushLogged(n) = FoldLeft(PushStep, IF head_block_num(n) > 0 THEN [n EXCEPT !.fork = start_block(@, log[head_block_num(n)])] ELSE n,
                                 Logged(head_block_num(n) + 1, LastLogged))
    BY DEF PushLogged, PushStep
  <2>2. PushLogged(n) = FoldLeft(PushStep, start, s)
    BY ONLY <1>4, <1>5, <1>6, <2>1
  <2> QED  BY ONLY <2>2 DEF Pushes!Fold, FoldLeft, Pushes!MapThenFoldSet, MapThenFoldSet, Max, Pushes!Largest
<1>8. PICK V : V = Rest(l, h) /\ start \in V
  BY <1>5
<1>9. Pushes!Closed(V, Blocks)
  <2> SUFFICES ASSUME NEW x \in Rest(l, h), NEW b \in Blocks PROVE PushStep(x, b) \in Rest(l, h)
    BY <1>8 DEF Pushes!Closed
  <2>1. x \in Nodes /\ x \in Work(l, h)
    BY RestParts
  <2>2. PushBlockOn(x, b) \in Rest(l, h)
    BY <2>1, CleanBare, PushOnRest
  <2> QED  BY <2>2 DEF PushStep
<1>10. s \in Seq(Blocks)
  BY DEF BlockSeqs
<1>11. Pushes!Fold(start, s) \in V
  BY ONLY <1>8, <1>9, <1>10, Pushes!FoldIn
<1> QED  BY ONLY <1>0, <1>7, <1>8, <1>11

\* Whatever valid chain is found on disk, opening ends at rest.
LEMMA ReopenRest ==
    ASSUME log \in Logs, NEW c \in Chains, ValidChain(c), Matches(log, c)
    PROVE  Reopen(c) \in Rest(log, Len(Reflushed(c)))
<1>0. PICK l \in Logs : l = log
  OBVIOUS
<1>1. PICK n : n = [Open EXCEPT !.chain = c]
  OBVIOUS
<1>2. PICK h \in Nat : h = Len(Reflushed(c))
  BY ReflushedChain
<1>3. Reopen(c) = IF LastLogged <= Len(c) THEN n ELSE Opened(PushLogged(ReplayTo(n, LastLogged - MaxUndoHistory)))
  BY <1>1 DEF Reopen
<1>4. CASE LastLogged <= Len(c)
  <2>1. Reflushed(c) = c
    BY <1>4, ReflushedChain
  <2>2. n \in Loading(log, h)
    <3>1. h = Len(c)
      BY ONLY <1>2, <2>1
    <3>2. n \in Loading(log, Len(c))
      BY <1>1, OpenLoads
    <3> QED  BY ONLY <3>1, <3>2
  <2>3. /\ n \in Nodes /\ n.undo = 0 /\ n.stored = <<>> /\ n.popped = <<>> /\ n.pending = <<>>
        /\ h <= Len(n.chain) /\ ValidChain(n.chain)
    BY <2>2, LoadingParts
  <2>4. Matches(l, n.chain)
    BY <1>0, <2>2, LoadingParts
  <2>5. n \in Bare(l, h)
    BY <2>3, <2>4, LoadingMade
  <2>6. n \in Rest(l, h)
    BY <2>3, <2>5, BareParts DEF Rest
  <2> QED  BY ONLY <1>0, <1>2, <1>3, <1>4, <2>6
<1>5. CASE ~ (LastLogged <= Len(c))
  <2>1. PICK x \in Loading(log, h) : x = ReplayTo(n, LastLogged - MaxUndoHistory)
    <3>1. ReplayTo([Open EXCEPT !.chain = c], LastLogged - MaxUndoHistory) \in Loading(log, Len(Reflushed(c)))
      BY ReflushedChain
    <3> QED  BY ONLY <1>1, <1>2, <3>1
  <2>2. PICK y \in Rest(log, h) : y = PushLogged(x)
    BY PushLoggedRest
  <2>3. PICK r : r = Opened(y)
    OBVIOUS
  <2>4. y \in Nodes /\ y \in Work(log, h) /\ y.popped = <<>>
    BY RestParts
  <2>5. /\ r \in Nodes /\ r.chain = y.chain /\ r.stored = y.stored /\ r.undo = y.undo
        /\ r.pending = y.pending /\ r.session = y.session /\ r.popped = y.popped
    BY <2>3, <2>4 DEF Opened, Nodes
  <2>6. r.undo <= y.undo
    <3>1. PICK u \in Nat : u = y.undo
      BY <2>4, NodeParts
    <3> QED  BY <2>5, <3>1
  <2>7. r \in Work(log, h)
    BY <2>4, <2>5, <2>6, WorkKept
  <2>8. r \in Rest(log, h)
    BY <2>4, <2>5, <2>7 DEF Rest
  <2> QED  BY ONLY <1>2, <1>3, <1>5, <2>1, <2>2, <2>3, <2>8
<1> QED  BY <1>4, <1>5

\* Opening on chain c.
LEMMA ReopenInv ==
    ASSUME log \in Logs, NEW c \in Chains, ValidChain(c), Matches(log, c),
           flushed' = Reflushed(c), Become(Reopen(c))
    PROVE  ChainInv'
<1>1. PICK f \in Chains : f = Reflushed(c) /\ ValidChain(f) /\ Matches(log, f)
  BY ReflushedChain
<1>2. PICK r \in Rest(log, Len(f)) : r = Reopen(c)
  <2>1. Reopen(c) \in Rest(log, Len(Reflushed(c)))
    BY ReopenRest
  <2> QED  BY ONLY <1>1, <2>1
<1>3. Become(r) /\ flushed' = f
  BY <1>1, <1>2
<1> QED  BY <1>1, <1>3, BecomeInv

LEMMA RestartInv ==
    ASSUME ChainInv, Restart
    PROVE  ChainInv'
<1>1. PICK c \in Chains : c = Rewind(Running).chain /\ ValidChain(c) /\ Matches(log, c)
  BY RewindChain
<1>2. flushed' = Reflushed(c) /\ Become(Reopen(c))
  BY <1>1 DEF Restart
<1>3. log \in Logs
  BY DEF ChainInv
<1> QED  BY <1>1, <1>2, <1>3, ReopenInv

LEMMA CrashInv ==
    ASSUME ChainInv, Crash
    PROVE  ChainInv'
<1>1. PICK c \in Chains : c = flushed /\ ValidChain(c) /\ Matches(log, c)
  BY DEF ChainInv
<1>2. flushed' = Reflushed(c) /\ Become(Reopen(c))
  BY <1>1 DEF Crash
<1>3. log \in Logs
  BY DEF ChainInv
<1> QED  BY <1>1, <1>2, <1>3, ReopenInv

-----------------------------------------------------------------------------

LEMMA InitInv ==
    ASSUME Init
    PROVE  ChainInv
<1>1. /\ Open \in Nodes /\ Open.thrown = FALSE /\ Open.undo = 0 /\ Open.stored = <<>> /\ Open.popped = <<>>
      /\ Open.pending = <<>> /\ Open.chain = <<>>
  BY OpenNode
<1>2. log \in Logs
  <2>1. log = [i \in 1 .. Top |-> Genesis]
    BY DEF Init, Top
  <2>2. log \in LogFuns /\ \A k \in 1 .. Top : log[k] = Genesis
    BY <2>1 DEF LogFuns
  <2> QED  BY <2>2, LogMade
<1>3. PICK e \in Chains : e = <<>> /\ ValidChain(e) /\ Len(e) = 0
  <2>1. Len(<<>>) = 0
    BY SeqEmpty
  <2> QED  BY ONLY <2>1, ValidNone
<1>4. Matches(log, e)
  BY <1>3 DEF Matches
<1>5. Fits(Open)
  BY <1>1, TxsNone DEF Fits
<1>6. Open.undo + Len(e) <= Len(e)
  BY <1>1, <1>3
<1>7. node = Open /\ flushed = e /\ node.chain = e
  BY <1>1, <1>3 DEF Init
<1>8. /\ ValidChain(node.chain) /\ Matches(log, node.chain) /\ Matches(log, flushed) /\ ValidChain(flushed)
      /\ node.undo + Len(flushed) <= Len(node.chain) /\ flushed \in Chains /\ node \in Nodes
      /\ Fits(node) /\ node.stored = <<>> /\ node.popped = <<>>
  BY ONLY <1>1, <1>3, <1>4, <1>5, <1>6, <1>7
<1> QED  BY ONLY <1>2, <1>8 DEF ChainInv

LEMMA StepInv ==
    ASSUME ChainInv, [Next]_vars
    PROVE  ChainInv'
<1>1. CASE UNCHANGED vars
  BY <1>1 DEF vars, ChainInv
<1>2. ASSUME NEW b \in Blocks, PushBlock(b) PROVE ChainInv'
  BY <1>2, PushBlockInv
<1>3. ASSUME NEW b \in Blocks, GenerateBlock(b) PROVE ChainInv'
  BY <1>3, GenerateBlockInv
<1>4. ASSUME NEW t \in Txs, PushTransaction(t) PROVE ChainInv'
  BY <1>4, PushTransactionInv
<1>5. CASE Restart
  BY <1>5, RestartInv
<1>6. CASE Crash
  BY <1>6, CrashInv
<1> QED  BY <1>1, <1>2, <1>3, <1>4, <1>5, <1>6 DEF Next

LEMMA InvSound ==
    ASSUME ChainInv
    PROVE  ChainSound
<1>1. /\ node \in Nodes /\ ValidChain(node.chain) /\ Fits(node)
      /\ node.stored = <<>> /\ node.popped = <<>>
      /\ log \in Logs /\ Matches(log, node.chain)
      /\ flushed \in Chains /\ ValidChain(flushed)
      /\ node.undo + Len(flushed) <= Len(node.chain)
  BY DEF ChainInv
<1>2. /\ node.chain \in Chains /\ node.undo \in Nat /\ node.undo_max \in Nat \ {0} /\ node.fork \in Forks
      /\ node.pending \in TxSeqs /\ node.session \in BOOLEAN /\ node.thrown \in BOOLEAN /\ node.up \in BOOLEAN
  BY <1>1, NodeParts
<1>3. ASSUME NEW c \in Chains, ValidChain(c), NEW k \in 1 .. Len(c)
      PROVE  c[k].blk \in Blocks /\ c[k].lib \in 0 .. Len(c)
  <2>1. c[k] \in Entries
    BY DEF Chains
  <2>2. PICK n \in Nat : n = Len(c)
    BY DEF Chains
  <2>3. c[k].lib <= k
    BY <1>3 DEF ValidChain, ValidAt
  <2>4. c[k].blk \in Blocks /\ c[k].lib \in Nat
    BY <2>1 DEF Entries
  <2> QED  BY <2>2, <2>3, <2>4
<1>4. ChainTypeOK
  <2>1. \A c \in {node.chain, flushed} : \A k \in 1 .. Len(c) : c[k].blk \in Blocks /\ c[k].lib \in 0 .. Len(c)
    BY <1>1, <1>2, <1>3
  <2>2. node.undo \in 0 .. Len(node.chain)
    <3>1. PICK i \in Nat, j \in Nat, u \in Nat : i = Len(node.chain) /\ j = Len(flushed) /\ u = node.undo
      BY <1>1, <1>2 DEF Chains
    <3>2. u + j <= i
      BY <1>1, <3>1
    <3> QED  BY <3>1, <3>2
  <2>3. node.fork.index \subseteq Blocks /\ node.fork.linked \subseteq node.fork.index
    BY <1>2, ForkParts
  <2>4. node.fork.head = NoHead \/ node.fork.head.blk \in Blocks
    <3>1. node.fork.head \in Items \cup {NoHead}
      BY <1>2, ForkParts
    <3> QED  BY <3>1 DEF Items
  <2>5. ToSet(node.pending) \subseteq Txs
    BY <1>2 DEF TxSeqs, ToSet
  <2>6. log \in [DOMAIN log -> Blocks \cup {Genesis}]
    BY <1>1, LogParts DEF LogFuns
  <2> QED  BY <1>1, <1>2, <2>1, <2>2, <2>3, <2>4, <2>5, <2>6 DEF ChainTypeOK
<1>5. ChainIsValid
  <2>1. ASSUME NEW k \in 1 .. Len(node.chain)
        PROVE  /\ node.chain[k].blk \in Good
               /\ Prev[node.chain[k].blk] = IF k = 1 THEN Genesis ELSE node.chain[k - 1].blk
               /\ CanApplyTxs(TxsOf[node.chain[k].blk], TxsIn(node.chain, k - 1))
    BY <1>1 DEF ValidChain, ValidAt
  <2>2. ChainBlocks(node) \subseteq Good
    BY <2>1 DEF ChainBlocks
  <2> QED  BY <2>1, <2>2 DEF ChainIsValid
<1>6. LogMatchesChain
  BY <1>1 DEF Matches, LogMatchesChain
<1>7. PendingFits
  BY <1>1 DEF Fits, PendingFits
<1> QED  BY <1>4, <1>5, <1>6, <1>7 DEF ChainSound

\* Whatever blocks and transactions are pushed in whatever order, and whatever
\* fails, restarts or dies on the way: between operations the state has its
\* shape, the applied blocks are a valid chain in which no transaction is
\* twice, the log on disk holds exactly that chain, and what is pending fits on
\* top (_push_block, pop_block, apply_block, _push_transaction, close, reindex).
THEOREM ChainAlwaysSound == Spec => []ChainSound
<1>1. Init => ChainInv
  BY InitInv
<1>2. ChainInv /\ [Next]_vars => ChainInv'
  BY StepInv
<1>3. ChainInv => ChainSound
  BY InvSound
<1> QED  BY <1>1, <1>2, <1>3, PTL DEF Spec

-----------------------------------------------------------------------------
(* No transaction is lost: what is in the chain, popped from it or waiting   *)
(* is at every step of a push, and in the end it is applied or excluded.     *)

\* The transactions that an operation has in the chain or will try again.
Held(n) == TxsIn(n.chain, Len(n.chain)) \cup ToSet(n.popped)

\* The steps of a push that lose none of the transactions T.
Holding(l, m, T) == {n \in Bare(l, m) : T \subseteq Held(n)}

LEMMA HoldingParts ==
    ASSUME NEW l, NEW m \in Nat, NEW T, NEW n \in Holding(l, m, T)
    PROVE  n \in Bare(l, m) /\ n \in Nodes /\ T \subseteq Held(n)
BY BareParts DEF Holding

\* A step that leaves the chain and the popped transactions alone.
LEMMA HeldKept ==
    ASSUME NEW l, NEW m, NEW T, NEW n \in Holding(l, m, T), NEW r \in Bare(l, m),
           r.chain = n.chain, r.popped = n.popped
    PROVE  r \in Holding(l, m, T)
BY DEF Holding, Held

LEMMA SetOfConcat ==
    ASSUME NEW s \in TxSeqs, NEW t \in TxSeqs
    PROVE  ToSet(s \o t) = ToSet(s) \cup ToSet(t)
<1>1. PICK i \in Nat, j \in Nat : i = Len(s) /\ j = Len(t) /\ DOMAIN s = 1 .. i /\ DOMAIN t = 1 .. j
  BY DEF TxSeqs
<1>2. PICK u : u = s \o t /\ DOMAIN u = 1 .. i + j
         /\ (\A k \in 1 .. i : u[k] = s[k]) /\ (\A k \in i + 1 .. i + j : u[k] = t[k - i])
  <2>1. s \in Seq(Txs) /\ t \in Seq(Txs)
    BY DEF TxSeqs
  <2>2. /\ Len(s \o t) = Len(s) + Len(t) /\ s \o t \in Seq(Txs)
        /\ \A k \in 1 .. Len(s) + Len(t) : (s \o t)[k] = IF k <= Len(s) THEN s[k] ELSE t[k - Len(s)]
    BY ONLY <2>1, ConcatProperties
  <2>3. PICK u \in Seq(Txs) : u = s \o t /\ Len(u) = i + j /\ \A k \in 1 .. i + j : u[k] = IF k <= i THEN s[k] ELSE t[k - i]
    BY ONLY <1>1, <2>2
  <2>4. DOMAIN u = 1 .. i + j
    BY ONLY <2>3
  <2>5. (\A k \in 1 .. i : u[k] = s[k]) /\ (\A k \in i + 1 .. i + j : u[k] = t[k - i])
    BY ONLY <2>3, i \in Nat, j \in Nat
  <2> QED  BY ONLY <2>3, <2>4, <2>5
<1>3. ASSUME NEW x \in ToSet(u) PROVE x \in ToSet(s) \cup ToSet(t)
  <2>1. PICK k \in 1 .. i + j : x = u[k]
    BY <1>2 DEF ToSet
  <2>2. CASE k <= i
    BY <1>1, <1>2, <2>1, <2>2 DEF ToSet
  <2>3. CASE k > i
    <3>1. k - i \in 1 .. j /\ u[k] = t[k - i]
      BY <1>2, <2>3
    <3> QED  BY <1>1, <2>1, <3>1 DEF ToSet
  <2> QED  BY <2>2, <2>3
<1>4. ASSUME NEW x \in ToSet(s) PROVE x \in ToSet(u)
  <2>1. PICK k \in 1 .. i : x = s[k]
    BY <1>1 DEF ToSet
  <2>2. k \in 1 .. i + j /\ u[k] = s[k]
    BY <1>2
  <2> QED  BY <1>2, <2>1, <2>2 DEF ToSet
<1>5. ASSUME NEW x \in ToSet(t) PROVE x \in ToSet(u)
  <2>1. PICK k \in 1 .. j : x = t[k]
    BY <1>1 DEF ToSet
  <2>2. PICK h \in i + 1 .. i + j : h = k + i /\ h - i = k
    OBVIOUS
  <2>3. u[h] = t[k] /\ h \in 1 .. i + j
    BY <1>2, <2>2
  <2> QED  BY <1>2, <2>1, <2>3 DEF ToSet
<1> QED  BY <1>2, <1>3, <1>4, <1>5

LEMMA ApplyHolds ==
    ASSUME NEW l \in Logs, NEW m \in Nat, NEW T, NEW n \in Holding(l, m, T), NEW b \in Blocks
    PROVE  ApplyBlock(n, b) \in Holding(l, m, T)
<1>1. n \in Bare(l, m) /\ n \in Nodes /\ T \subseteq Held(n)
  BY HoldingParts
<1>2. ApplyBlock(n, b) \in Bare(l, m)
  BY <1>1, ApplyBare
<1>3. n.chain \in Chains /\ ValidChain(n.chain)
  BY <1>1, BareParts, WorkParts, NodeParts
<1>4. PICK d \in Nodes : d = Drop(n) /\ d.chain = n.chain /\ d.popped = n.popped /\ d \in Bare(l, m)
  <2>1. Drop(n) \in Bare(l, m) /\ Drop(n).chain = n.chain
    BY <1>1, DropBare
  <2>2. Drop(n).popped = n.popped
    BY <1>1 DEF Drop, Nodes
  <2> QED  BY <2>1, <2>2, BareParts
<1>5. PICK r : r = Resize(d, b) /\ r.popped = n.popped /\ r.chain = n.chain /\ r.thrown = d.thrown
  <2>1. Resize(d, b).popped = d.popped /\ Resize(d, b).chain = d.chain /\ Resize(d, b).thrown = d.thrown
    BY DEF Resize, Nodes
  <2> QED  BY <1>4, <2>1
<1>6. CASE n.thrown
  BY <1>6 DEF ApplyBlock
<1>7. CASE ~ n.thrown /\ ~ CanApply(n, b)
  <2>1. ApplyBlock(n, b) = Throw(IF Prev[b] = head_block_id(n) /\ b \in Late THEN r ELSE d)
    BY <1>4, <1>5, <1>7 DEF ApplyBlock
  <2>2. Throw(d).chain = d.chain /\ Throw(d).popped = d.popped
    BY DEF Throw, Nodes
  <2>3. CASE Prev[b] = head_block_id(n) /\ b \in Late
    <3>1. head_block_id(d) = head_block_id(n)
      BY <1>4 DEF head_block_id
    <3>2. r \in Nodes
      BY <1>4, <1>5, <2>3, <3>1, ResizeBare, BareParts
    <3>3. Throw(r).chain = r.chain /\ Throw(r).popped = r.popped
      BY <3>2 DEF Throw, Nodes
    <3> QED  BY <1>2, <1>5, <2>1, <2>3, <3>3, HeldKept
  <2>4. CASE ~ (Prev[b] = head_block_id(n) /\ b \in Late)
    BY <1>2, <1>4, <2>1, <2>2, <2>4, HeldKept
  <2> QED  BY <2>3, <2>4
<1>8. CASE ~ n.thrown /\ CanApply(n, b)
  <2>1. Prev[b] = head_block_id(n) /\ head_block_id(d) = head_block_id(n)
    BY <1>4, <1>8 DEF CanApply, head_block_id
  <2>2. r \in Nodes
    BY <1>4, <1>5, <2>1, ResizeBare, BareParts
  <2>3. PICK e : e = [blk |-> b, lib |-> update_last_irreversible_block(n.chain, b, last_irreversible(n))]
    OBVIOUS
  <2>4. PICK z : z = [r EXCEPT !.chain = Append(@, e), !.undo = @ + 1, !.stored = Append(@, b)]
    OBVIOUS
  <2>5. ApplyBlock(n, b) = Propose(z, b)
    BY <1>4, <1>5, <1>8, <2>3, <2>4 DEF ApplyBlock
  <2>6. z.chain = Append(n.chain, e) /\ z.popped = n.popped
    BY <1>5, <2>2, <2>4 DEF Nodes
  <2>7. Propose(z, b).chain = z.chain /\ Propose(z, b).popped = z.popped
    <3>1. [z EXCEPT !.undo_max = z.undo + 1].chain = z.chain /\ [z EXCEPT !.undo_max = z.undo + 1].popped = z.popped
      BY <2>2, <2>4 DEF Nodes
    <3> QED  BY <3>1 DEF Propose
  <2>8. PICK a : a = ApplyBlock(n, b) /\ a.chain = Append(n.chain, e) /\ a.popped = n.popped /\ a \in Bare(l, m)
    BY <1>2, <2>5, <2>6, <2>7
  <2>9. e \in Entries
    <3>1. PICK c \in Chains : c = n.chain
      BY <1>3
    <3>2. PICK k \in Nat : k = Len(c)
      BY DEF Chains
    <3>3. last_irreversible(n) \in 0 .. Len(n.chain) /\ Num(b) = Len(n.chain) + 1
      BY <1>1, <1>3, <2>1, HeadIs, NextNum
    <3>4. update_last_irreversible_block(n.chain, b, last_irreversible(n)) \in 0 .. Len(n.chain) + 1
      BY <1>3, <3>3, IrreversibleType
    <3>5. update_last_irreversible_block(n.chain, b, last_irreversible(n)) \in Nat
      BY <3>1, <3>2, <3>4
    <3> QED  BY <2>3, <3>5 DEF Entries
  <2>10. PICK k \in Nat : k = Len(n.chain) /\ Len(a.chain) = k + 1 /\ Agree(a.chain, n.chain, k)
    <3>1. Len(n.chain) \in Nat /\ Len(Append(n.chain, e)) = Len(n.chain) + 1 /\ Agree(Append(n.chain, e), n.chain, Len(n.chain))
      BY <1>3, <2>9, AppendParts
    <3> QED  BY <2>8, <3>1
  <2>11. TxsIn(n.chain, k) = TxsIn(a.chain, k) /\ TxsIn(a.chain, k) \subseteq TxsIn(a.chain, k + 1)
    <3>1. TxsIn(a.chain, k) = TxsIn(n.chain, k)
      BY <2>10, SMTT(30) DEF TxsIn, Agree
    <3> QED  BY <3>1, TxsInGrows
  <2>12. Held(n) \subseteq Held(a)
    BY <2>8, <2>10, <2>11 DEF Held
  <2> QED  BY <1>1, <2>8, <2>12 DEF Holding
<1> QED  BY <1>6, <1>7, <1>8


LEMMA PopHolds ==
    ASSUME NEW l \in Logs, NEW m \in Nat, NEW T, NEW n \in Holding(l, m, T)
    PROVE  PopBlock(n) \in Holding(l, m, T)
<1>1. n \in Bare(l, m) /\ n \in Nodes /\ T \subseteq Held(n)
  BY HoldingParts
<1>2. PopBlock(n) \in Bare(l, m)
  BY <1>1, PopBare
<1>3. n.chain \in Chains /\ ValidChain(n.chain) /\ n.popped \in TxSeqs
  BY <1>1, BareParts, WorkParts, NodeParts
<1>4. CASE n.thrown \/ n.chain = <<>> \/ ~ CanPop(n.fork) \/ n.undo = 0
  <2>1. PopBlock(n).chain = n.chain /\ PopBlock(n).popped = n.popped
    BY <1>1, <1>4 DEF PopBlock, Throw, Nodes
  <2> QED  BY <1>2, <2>1, HeldKept
<1>5. CASE ~ (n.thrown \/ n.chain = <<>> \/ ~ CanPop(n.fork) \/ n.undo = 0)
  <2>1. PICK h \in Blocks, k \in Nat : h = head_block_id(n) /\ k = Len(n.chain) /\ k > 0 /\ h = n.chain[k].blk
    BY <1>1, <1>3, <1>5, HeadIs, FrontParts
  <2>2. PICK s \in TxSeqs : s = TxsOf[h]
    BY ChainAssumption DEF TxSeqs
  <2>3. PICK a : a = PopBlock(n) /\ a \in Bare(l, m) /\ a.chain = Front(n.chain) /\ a.popped = s \o n.popped
    <3>1. PopBlock(n).chain = Front(n.chain) /\ PopBlock(n).popped = TxsOf[head_block_id(n)] \o n.popped
      BY <1>1, <1>5 DEF PopBlock, Nodes
    <3> QED  BY <1>2, <2>1, <2>2, <3>1
  <2>4. ToSet(a.popped) = ToSet(s) \cup ToSet(n.popped)
    BY <1>3, <2>3, SetOfConcat
  <2>5. Len(a.chain) = k - 1 /\ Agree(a.chain, n.chain, k - 1)
    BY <1>3, <1>5, <2>1, <2>3, FrontParts
  <2>6. TxsIn(a.chain, k - 1) = TxsIn(n.chain, k - 1)
    BY <2>5 DEF TxsIn, Agree
  <2>7. TxsIn(n.chain, k) \subseteq TxsIn(n.chain, k - 1) \cup ToSet(s)
    <3> SUFFICES ASSUME NEW t \in TxsIn(n.chain, k) PROVE t \in TxsIn(n.chain, k - 1) \cup ToSet(s)
      OBVIOUS
    <3>1. PICK j \in 1 .. k : t \in ToSet(TxsOf[n.chain[j].blk])
      BY DEF TxsIn
    <3>2. CASE j = k
      BY <2>1, <2>2, <3>1, <3>2
    <3>3. CASE j # k
      <4>1. j \in 1 .. k - 1
        BY <3>3
      <4> QED  BY <3>1, <4>1 DEF TxsIn
    <3> QED  BY <3>2, <3>3
  <2>8. Held(n) \subseteq Held(a)
    <3>1. Held(a) = TxsIn(a.chain, k - 1) \cup ToSet(a.popped) /\ Held(n) = TxsIn(n.chain, k) \cup ToSet(n.popped)
      BY <2>1, <2>5 DEF Held
    <3> QED  BY <2>4, <2>6, <2>7, <3>1
  <2> QED  BY <1>1, <2>3, <2>8 DEF Holding
<1> QED  BY <1>4, <1>5

LEMMA ApplyAllHolds ==
    ASSUME NEW l \in Logs, NEW m \in Nat, NEW T, NEW n \in Holding(l, m, T), NEW s \in BlockSeqs
    PROVE  FoldLeft(ApplyBlock, n, s) \in Holding(l, m, T)
<1>1. FoldLeft(ApplyBlock, n, s) = Applies!Fold(n, s)
  BY DEF Applies!Fold, FoldLeft, Applies!MapThenFoldSet, MapThenFoldSet, Max, Applies!Largest
<1>2. PICK V : V = Holding(l, m, T) /\ n \in V
  OBVIOUS
<1>3. Applies!Closed(V, Blocks)
  BY <1>2, ApplyHolds DEF Applies!Closed
<1>4. s \in Seq(Blocks)
  BY DEF BlockSeqs
<1>5. Applies!Fold(n, s) \in V
  BY ONLY <1>2, <1>3, <1>4, Applies!FoldIn
<1> QED  BY ONLY <1>1, <1>2, <1>5

LEMMA PopAllHolds ==
    ASSUME NEW l \in Logs, NEW m \in Nat, NEW T, NEW n \in Holding(l, m, T), NEW k \in Nat
    PROVE  PopBlocks(n, k) \in Holding(l, m, T)
<1>1. PICK s \in Seq(Nat) : s = Steps(k)
  <2>1. Steps(k) \in Seq(Nat)
    BY DEF Steps
  <2> QED  BY ONLY <2>1
<1>2. PopBlocks(n, k) = Pops!Fold(n, s)
  <2>1. PopBlocks(n, k) = Pops!Fold(n, Steps(k))
    BY DEF PopBlocks, PopStep, Pops!Fold, FoldLeft, Pops!MapThenFoldSet, MapThenFoldSet, Max, Pops!Largest
  <2> QED  BY ONLY <1>1, <2>1
<1>3. PICK V : V = Holding(l, m, T) /\ n \in V
  OBVIOUS
<1>4. Pops!Closed(V, Nat)
  BY <1>3, PopHolds DEF Pops!Closed, PopStep
<1>5. Pops!Fold(n, s) \in V
  BY ONLY <1>3, <1>4, s \in Seq(Nat), Pops!FoldIn
<1> QED  BY ONLY <1>2, <1>3, <1>5

\* The flags and the fork database hold no transactions.
LEMMA FlagsHold ==
    ASSUME NEW l, NEW m \in Nat, NEW T, NEW n \in Holding(l, m, T), NEW f \in Forks
    PROVE  /\ Throw(n) \in Holding(l, m, T)
           /\ [n EXCEPT !.fork = f] \in Holding(l, m, T)
           /\ [n EXCEPT !.thrown = FALSE, !.fork = f] \in Holding(l, m, T)
<1>1. n \in Bare(l, m) /\ n \in Nodes
  BY HoldingParts
<1>2. /\ Throw(n).chain = n.chain /\ Throw(n).popped = n.popped
      /\ [n EXCEPT !.fork = f].chain = n.chain /\ [n EXCEPT !.fork = f].popped = n.popped
      /\ [n EXCEPT !.thrown = FALSE, !.fork = f].chain = n.chain
      /\ [n EXCEPT !.thrown = FALSE, !.fork = f].popped = n.popped
  BY <1>1 DEF Throw, Nodes
<1> QED  BY <1>1, <1>2, FlagsBare, HeldKept

LEMMA SwitchForkHolds ==
    ASSUME NEW l \in Logs, NEW m \in Nat, NEW T, NEW n \in Holding(l, m, T), NEW new_head \in Blocks,
           head_block_id(n) \in Blocks
    PROVE  SwitchFork(n, new_head) \in Holding(l, m, T)
<1>1. PICK h \in Blocks : h = head_block_id(n)
  OBVIOUS
<1>2. PICK e : e = BranchEnd(new_head, h)
  OBVIOUS
<1>3. /\ Branch(new_head, e) \in BlockSeqs /\ Branch(new_head, e) # <<>>
      /\ Branch(h, e) \in BlockSeqs /\ Branch(h, e) # <<>>
  BY <1>2, BranchType
<1>4. PICK first \in BlockSeqs : first = Reverse(Branch(new_head, e))
  BY <1>3, ReverseType
<1>5. PICK second \in BlockSeqs : second = Reverse(Branch(h, e)) /\ Len(second) \in Nat /\ Last(second) \in Blocks
  BY <1>3, ReverseType
<1>6. PICK x \in Holding(l, m, T) : x = PopBlocks(n, Len(second))
  BY <1>5, PopAllHolds
<1>7. SwitchFork(n, new_head) = ApplyBranch(x, first, second)
  BY <1>1, <1>2, <1>4, <1>5, <1>6 DEF SwitchFork
<1>8. PICK y \in Holding(l, m, T) : y = FoldLeft(ApplyBlock, x, first)
  BY ApplyAllHolds
<1>9. PICK k \in Nat : k = Len(y.chain) - Len(x.chain)
  BY <1>8, HoldingParts, ApplyAllGrows
<1>10. ApplyBranch(x, first, second) = IF x.thrown THEN x ELSE IF ~ y.thrown THEN y ELSE Recover(y, k, first, second)
  BY <1>8, <1>9 DEF ApplyBranch, Switched
<1>11. Recover(y, k, first, second) \in Holding(l, m, T)
  <2>1. y.fork \in Forks
    BY HoldingParts, NodeParts
  <2>2. PICK bad \in BlockSeqs : bad = SubSeq(first, k + 1, Len(first))
    <3>1. PICK j \in Nat : j = Len(first) /\ \A i \in 1 .. j : first[i] \in Blocks
      BY DEF BlockSeqs
    <3>2. PICK a \in Int : a = k + 1
      OBVIOUS
    <3>3. \A i \in a .. j : first[i] \in Blocks
      BY <3>1, <3>2
    <3>4. SubSeq(first, a, j) \in Seq(Blocks)
      BY ONLY <3>3, a \in Int, j \in Nat, SubSeqProperties
    <3>5. SubSeq(first, k + 1, Len(first)) \in BlockSeqs
      BY ONLY <3>1, <3>2, <3>4 DEF BlockSeqs
    <3> QED  BY ONLY <3>5
  <2>3. PICK g \in Forks : g = FoldLeft(remove, y.fork, bad)
    BY <2>1, RemoveAll
  <2>4. PICK f \in Forks : f = set_head(g, Last(second))
    BY <1>5, HeadOps
  <2>5. PICK z \in Holding(l, m, T) : z = [y EXCEPT !.thrown = FALSE, !.fork = f]
    BY FlagsHold
  <2>6. PICK u \in Holding(l, m, T) : u = PopBlocks(z, k)
    BY PopAllHolds
  <2>7. PICK v \in Holding(l, m, T) : v = FoldLeft(ApplyBlock, u, second)
    BY ApplyAllHolds
  <2>8. Recover(y, k, first, second) = Throw(v)
    BY <2>2, <2>3, <2>4, <2>5, <2>6, <2>7 DEF Recover, SwitchBack
  <2> QED  BY <2>1, <2>8, FlagsHold
<1> QED  BY <1>7, <1>10, <1>11

LEMMA PushHolds ==
    ASSUME NEW l \in Logs, NEW m \in Nat, NEW T, NEW n \in Holding(l, m, T), NEW b \in Blocks
    PROVE  DoPushBlock(n, b) \in Holding(l, m, T)
<1>1. n.fork \in Forks
  BY HoldingParts, NodeParts
<1>2. PICK f \in Forks : f = push_block(n.fork, b) /\ f.head.blk \in Blocks
  BY <1>1, PushType
<1>3. PICK new_head \in Blocks : new_head = f.head.blk
  BY <1>2
<1>4. PICK x \in Holding(l, m, T) : x = [n EXCEPT !.fork = f]
  BY FlagsHold
<1>5. DoPushBlock(n, b) = IF CanPush(n.fork, b) THEN FollowHead(x, b, new_head) ELSE Throw(n)
  BY <1>2, <1>3, <1>4 DEF DoPushBlock
<1>6. FollowHead(x, b, new_head) \in Holding(l, m, T)
  <2>0. x.fork \in Forks
    BY HoldingParts, NodeParts
  <2>1. PICK y \in Holding(l, m, T) : y = ApplyBlock(x, b)
    BY ApplyHolds
  <2>2. Appended(y, b) \in Holding(l, m, T)
    <3>1. PICK g \in Forks : g = remove(y.fork, b)
      BY HoldingParts, NodeParts, RemoveType
    <3>2. [y EXCEPT !.fork = g] \in Holding(l, m, T)
      BY FlagsHold
    <3> QED  BY <3>1, <3>2 DEF Appended
  <2>3. ASSUME CanFetchBranch(x.fork, new_head, head_block_id(x)) PROVE SwitchFork(x, new_head) \in Holding(l, m, T)
    <3>1. head_block_id(x) \in x.fork.index
      BY <2>3 DEF CanFetchBranch
    <3>2. head_block_id(x) \in Blocks
      BY <2>0, <3>1, ForkParts
    <3> QED  BY <3>2, SwitchForkHolds
  <2>4. Throw(x) \in Holding(l, m, T)
    BY <2>0, FlagsHold
  <2>5. FollowHead(x, b, new_head) \in {Appended(y, b), x, Throw(x)}
           \/ (CanFetchBranch(x.fork, new_head, head_block_id(x)) /\ FollowHead(x, b, new_head) = SwitchFork(x, new_head))
    BY <2>1 DEF FollowHead
  <2> QED  BY <2>2, <2>3, <2>4, <2>5
<1>7. Throw(n) \in Holding(l, m, T)
  BY <1>1, FlagsHold
<1> QED  BY <1>5, <1>6, <1>7


\* Transaction t is among those of A, or one of them excludes it.
Covered(t, A) == t \in A \/ \E u \in A : {t, u} \in Clash

LEMMA CoveredMore ==
    ASSUME NEW t, NEW A, NEW B, A \subseteq B, Covered(t, A)
    PROVE  Covered(t, B)
BY DEF Covered

\* A transaction that cannot be applied is covered already.
LEMMA RefusedCovered ==
    ASSUME NEW t, NEW A, ~ CanApplyTxs(<<t>>, A)
    PROVE  Covered(t, A)
<1>1. PICK i \in 1 .. Len(<<t>>) :
        LET before == A \cup {<<t>>[j] : j \in 1 .. i - 1}
        IN  ~ (<<t>>[i] \notin before /\ \A u \in before : {u, <<t>>[i]} \notin Clash)
  BY DEF CanApplyTxs
<1>2. i = 1 /\ <<t>>[i] = t /\ {<<t>>[j] : j \in 1 .. i - 1} = {}
  <2>1. Len(<<t>>) = 1
    OBVIOUS
  <2>2. i = 1
    BY <2>1
  <2> QED  BY <2>2
<1>3. ~ (t \notin A /\ \A u \in A : {u, t} \notin Clash)
  BY <1>1, <1>2
<1>4. \A u : {u, t} = {t, u}
  OBVIOUS
<1> QED  BY <1>3, <1>4 DEF Covered

\* Trying a transaction again covers it and gives up none that is applied.
LEMMA RestoreCovers ==
    ASSUME NEW l, NEW m \in Nat, NEW n \in Rest(l, m), NEW t \in Txs
    PROVE  /\ Applied(n) \subseteq Applied(RestoreStep(n, t))
           /\ Covered(t, Applied(RestoreStep(n, t)))
<1>1. n \in Nodes /\ n.pending \in TxSeqs
  BY RestParts, NodeParts
<1>2. CASE t \in Applied(n)
  BY <1>2 DEF RestoreStep, Covered
<1>3. CASE t \notin Applied(n)
  <2>1. PICK s : s = [n EXCEPT !.session = TRUE, !.undo = Min({@, n.undo_max - 1})]
    OBVIOUS
  <2>2. CASE CanApplyTxs(<<t>>, Applied(n))
    <3>1. PICK y : y = RestoreStep(n, t) /\ y.chain = n.chain /\ y.pending = Append(n.pending, t)
      <4>1. RestoreStep(n, t) = [[s EXCEPT !.pending = Append(@, t)] EXCEPT !.thrown = n.thrown]
        BY <1>3, <2>1, <2>2 DEF RestoreStep, DoPushTransaction
      <4>2. s.chain = n.chain /\ s.pending = n.pending /\ "pending" \in DOMAIN s /\ "chain" \in DOMAIN s
        BY <1>1, <2>1 DEF Nodes
      <4>3. RestoreStep(n, t).chain = n.chain /\ RestoreStep(n, t).pending = Append(n.pending, t)
        BY <4>1, <4>2
      <4> QED  BY <4>3
    <3>2. ToSet(Append(n.pending, t)) = ToSet(n.pending) \cup {t}
      <4>1. PICK p \in Seq(Txs) : p = n.pending
        BY <1>1 DEF TxSeqs
      <4>2. PICK k \in Nat : k = Len(p) /\ DOMAIN p = 1 .. k /\ DOMAIN Append(p, t) = 1 .. k + 1
              /\ Append(p, t)[k + 1] = t /\ \A i \in 1 .. k : Append(p, t)[i] = p[i]
        OBVIOUS
      <4>3. \A i \in 1 .. k + 1 : i \in 1 .. k \/ i = k + 1
        OBVIOUS
      <4>4. 1 .. k \subseteq 1 .. k + 1 /\ k + 1 \in 1 .. k + 1
        OBVIOUS
      <4>5. PICK q : q = Append(p, t)
        OBVIOUS
      <4>6. {q[i] : i \in 1 .. k + 1} = {p[i] : i \in 1 .. k} \cup {t}
        BY ONLY <4>2, <4>3, <4>4, <4>5
      <4> QED  BY <4>1, <4>2, <4>5, <4>6 DEF ToSet
    <3>3. Applied(y) = Applied(n) \cup {t}
      BY <3>1, <3>2, AppliedIs
    <3> QED  BY <3>1, <3>3 DEF Covered
  <2>3. CASE ~ CanApplyTxs(<<t>>, Applied(n))
    <3>1. PICK y : y = RestoreStep(n, t) /\ y.chain = n.chain /\ y.pending = n.pending
      <4>1. RestoreStep(n, t) = [Throw(s) EXCEPT !.thrown = n.thrown]
        BY <1>3, <2>1, <2>3 DEF RestoreStep, DoPushTransaction
      <4>2. s.chain = n.chain /\ s.pending = n.pending /\ "pending" \in DOMAIN s /\ "chain" \in DOMAIN s
        BY <1>1, <2>1 DEF Nodes
      <4>3. RestoreStep(n, t).chain = n.chain /\ RestoreStep(n, t).pending = n.pending
        BY <4>1, <4>2 DEF Throw
      <4> QED  BY <4>3
    <3>2. Applied(y) = Applied(n)
      BY <3>1, AppliedIs
    <3> QED  BY <2>3, <3>1, <3>2, RefusedCovered
  <2> QED  BY <2>2, <2>3
<1> QED  BY <1>2, <1>3

\* So does trying all of them, one after the other.
LEMMA RestoreAllCovers ==
    ASSUME NEW l, NEW m \in Nat, NEW n \in Rest(l, m), NEW ts \in TxSeqs
    PROVE  /\ Applied(n) \subseteq Applied(Restore(n, ts))
           /\ \A t \in ToSet(ts) : Covered(t, Applied(Restore(n, ts)))
<1>1. PICK V : V = Rest(l, m) /\ n \in V
  OBVIOUS
<1>2. ts \in Seq(Txs)
  BY DEF TxSeqs
<1>3. Restore(n, ts) = Restores!Fold(n, ts)
  BY DEF Restore, RestoreStep, Restores!Fold, FoldLeft, Restores!MapThenFoldSet, MapThenFoldSet, Max, Restores!Largest
<1>4. Restores!Closed(V, Txs)
  <2> SUFFICES ASSUME NEW x \in Rest(l, m), NEW t \in Txs PROVE RestoreStep(x, t) \in Rest(l, m)
    BY <1>1 DEF Restores!Closed
  <2>1. x.thrown \in BOOLEAN
    BY RestParts, NodeParts
  <2>2. PICK y \in Rest(l, m) : y = DoPushTransaction(x, t)
    BY TransactionRest
  <2>3. [y EXCEPT !.thrown = x.thrown] \in Rest(l, m)
    BY <2>1, RestThrown
  <2> QED  BY <2>2, <2>3 DEF RestoreStep
<1>5. PICK g \in [0 .. Len(ts) -> V] : Restores!FoldsTo(g, n, ts) /\ Restores!Fold(n, ts) = g[Len(ts)]
  BY ONLY <1>1, <1>2, <1>4, Restores!FoldSteps
<1>6. PICK k \in Nat : k = Len(ts) /\ DOMAIN ts = 1 .. k /\ \A i \in 1 .. k : ts[i] \in Txs
  BY <1>2
<1>7. g[0] = n /\ \A i \in 1 .. k : g[i] = RestoreStep(g[i - 1], ts[i])
  BY <1>5, <1>6 DEF Restores!FoldsTo
<1> DEFINE Done(i) == Applied(n) \subseteq Applied(g[i]) /\ \A j \in 1 .. i : Covered(ts[j], Applied(g[i]))
           N == {i \in Nat : i <= k => Done(i)}
<1>8. 0 \in N
  BY <1>7
<1>9. ASSUME NEW i \in N PROVE i + 1 \in N
  <2> SUFFICES ASSUME i + 1 <= k PROVE Done(i + 1)
    OBVIOUS
  <2>1. i \in Nat /\ i \in 0 .. k /\ i + 1 \in 1 .. k /\ Done(i)
    OBVIOUS
  <2>2. g[i] \in Rest(l, m) /\ ts[i + 1] \in Txs /\ g[i + 1] = RestoreStep(g[i], ts[i + 1])
    BY <1>1, <1>5, <1>6, <1>7, <2>1
  <2>3. Applied(g[i]) \subseteq Applied(g[i + 1]) /\ Covered(ts[i + 1], Applied(g[i + 1]))
    BY <2>2, RestoreCovers
  <2>4. ASSUME NEW j \in 1 .. i + 1 PROVE Covered(ts[j], Applied(g[i + 1]))
    <3>1. CASE j = i + 1
      BY <2>3, <3>1
    <3>2. CASE j # i + 1
      <4>1. j \in 1 .. i
        BY <2>1, <3>2
      <4>2. Covered(ts[j], Applied(g[i]))
        BY <2>1, <4>1
      <4> QED  BY <2>3, <4>2, CoveredMore
    <3> QED  BY <3>1, <3>2
  <2> QED  BY <2>1, <2>3, <2>4
<1> HIDE DEF Done
<1>10. N = Nat
  <2>1. N \in SUBSET Nat
    OBVIOUS
  <2> HIDE DEF N
  <2> QED  BY <1>8, <1>9, <2>1, NatSetInduction
<1>11. Done(k)
  BY <1>10
<1>12. g[k] = Restore(n, ts)
  BY <1>3, <1>5, <1>6
<1>13. ToSet(ts) = {ts[j] : j \in 1 .. k}
  BY <1>6 DEF ToSet
<1> QED  BY <1>11, <1>12, <1>13 DEF Done

\* database::push_block covers everything that was applied before it.
LEMMA PushOnCovers ==
    ASSUME NEW l \in Logs, NEW m \in Nat, NEW n \in Nodes, NEW b \in Blocks,
           [n EXCEPT !.pending = <<>>, !.session = FALSE] \in Bare(l, m)
    PROVE  \A t \in Applied(n) : Covered(t, Applied(PushBlockOn(n, b)))
<1>1. PICK x \in Bare(l, m) : x = [n EXCEPT !.pending = <<>>, !.session = FALSE]
  OBVIOUS
<1>2. PICK T : T = TxsIn(n.chain, Len(n.chain))
  OBVIOUS
<1>3. x \in Holding(l, m, T)
  <2>1. x.chain = n.chain
    BY <1>1 DEF Nodes
  <2> QED  BY <1>2, <2>1 DEF Holding, Held
<1>4. PICK y \in Holding(l, m, T) : y = DoPushBlock(x, b)
  BY <1>3, PushHolds
<1>5. y \in Bare(l, m) /\ y \in Nodes /\ T \subseteq Held(y) /\ y.popped \in TxSeqs /\ n.pending \in TxSeqs /\ y.fork \in Forks
  BY HoldingParts, NodeParts
<1>6. PICK ts \in TxSeqs : ts = Waiting(y, n.pending) /\ ToSet(ts) = ToSet(y.popped) \cup ToSet(n.pending)
  <2>1. y.popped \o n.pending \in TxSeqs
    BY <1>5, ConcatProperties DEF TxSeqs
  <2>2. ToSet(y.popped \o n.pending) = ToSet(y.popped) \cup ToSet(n.pending)
    BY <1>5, SetOfConcat
  <2> QED  BY <2>1, <2>2 DEF Waiting
<1>7. PICK z \in Rest(l, m) : z = [y EXCEPT !.popped = <<>>] /\ z.chain = y.chain
  <2>1. [y EXCEPT !.popped = <<>>] \in Bare(l, m)
    BY <1>5, FlagsBare
  <2>2. [y EXCEPT !.popped = <<>>].popped = <<>> /\ [y EXCEPT !.popped = <<>>].chain = y.chain
    BY <1>5 DEF Nodes
  <2>3. [y EXCEPT !.popped = <<>>] \in Rest(l, m)
    BY <2>1, <2>2, BareParts DEF Rest
  <2> QED  BY <2>2, <2>3
<1>8. PushBlockOn(n, b) = Restore(z, ts)
  BY <1>1, <1>4, <1>6, <1>7 DEF PushBlockOn, Resume
<1>9. PICK A : A = Applied(Restore(z, ts)) /\ Applied(z) \subseteq A /\ \A t \in ToSet(ts) : Covered(t, A)
  BY RestoreAllCovers
<1>10. TxsIn(y.chain, Len(y.chain)) \subseteq A
  BY <1>7, <1>9, AppliedIs
<1>11. ASSUME NEW t \in Applied(n) PROVE Covered(t, A)
  <2>1. t \in T \cup ToSet(n.pending)
    BY <1>2, AppliedIs
  <2>2. t \in TxsIn(y.chain, Len(y.chain)) \cup ToSet(y.popped) \cup ToSet(n.pending)
    BY <1>5, <2>1 DEF Held
  <2>3. t \in A \/ t \in ToSet(ts)
    BY <1>6, <1>10, <2>2
  <2> QED  BY <1>9, <2>3 DEF Covered
<1> QED  BY <1>8, <1>9, <1>11

\* While the node runs no transaction is forgotten: one that was in the chain
\* or pending is still there after a push, a failed push or a switch of
\* forks, or another that is there excludes it (pending_transactions_restorer,
\* pop_block, _push_transaction).
THEOREM TransactionsKept == Spec => NoTxLost
<1> DEFINE Kept == \/ \A t \in Applied(node) : \E u \in Applied(node') : u = t \/ {t, u} \in Clash
                   \/ Restart
                   \/ Crash
<1>1. Init => ChainInv
  BY InitInv
<1>2. ChainInv /\ [Next]_vars => ChainInv'
  BY StepInv
<1>3. ChainInv /\ [Next]_vars => [Kept]_vars
  <2> SUFFICES ASSUME ChainInv, Next, ~ Restart, ~ Crash
               PROVE  \A t \in Applied(node) : \E u \in Applied(node') : u = t \/ {t, u} \in Clash
    OBVIOUS
  <2>1. PICK m \in Nat : m = Len(flushed)
    BY RunningRest
  <2>2. PICK n \in Nodes : n = Running /\ n \in Rest(log, m) /\ n \in Work(log, m) /\ n.chain = node.chain /\ n.pending = node.pending
    BY <2>1, RunningRest, RestParts
  <2>3. log \in Logs
    BY DEF ChainInv
  <2>4. ASSUME NEW s \in Nodes, s.chain = node.chain, s.pending = node.pending, NEW r \in Rest(log, m), Become(r),
               \A t \in Applied(s) : Covered(t, Applied(r))
        PROVE  \A t \in Applied(node) : \E u \in Applied(node') : u = t \/ {t, u} \in Clash
    <3>1. Applied(s) = Applied(node)
      BY <2>4, AppliedIs
    <3>2. PICK w : w = [r EXCEPT !.stored = <<>>] /\ w.chain = r.chain /\ w.pending = r.pending
      <4>1. [r EXCEPT !.stored = <<>>].chain = r.chain /\ [r EXCEPT !.stored = <<>>].pending = r.pending
        BY RestParts DEF Nodes
      <4> QED  BY <4>1
    <3>3. Applied(w) = Applied(r)
      BY <3>2, AppliedIs
    <3>4. node' = w
      BY <2>4, <3>2 DEF Become
    <3>5. \A t \in Applied(s) : \E u \in Applied(w) : u = t \/ {t, u} \in Clash
      BY <2>4, <3>3 DEF Covered
    <3> QED  BY ONLY <3>1, <3>4, <3>5
  <2>5. ASSUME NEW b \in Blocks, PushBlock(b)
        PROVE  \A t \in Applied(node) : \E u \in Applied(node') : u = t \/ {t, u} \in Clash
    <3>1. [n EXCEPT !.pending = <<>>, !.session = FALSE] \in Bare(log, m)
      BY <2>2, CleanBare
    <3>2. PICK r \in Rest(log, m) : r = PushBlockOn(n, b)
      BY <2>3, <3>1, PushOnRest
    <3>3. \A t \in Applied(n) : Covered(t, Applied(r))
      BY <2>3, <3>1, <3>2, PushOnCovers
    <3>4. Become(r)
      BY <2>2, <2>5, <3>2 DEF PushBlock
    <3> QED  BY <2>2, <2>4, <3>3, <3>4
  <2>6. ASSUME NEW b \in Blocks, GenerateBlock(b)
        PROVE  \A t \in Applied(node) : \E u \in Applied(node') : u = t \/ {t, u} \in Clash
    <3>1. PICK s \in Nodes :
            /\ s.chain = node.chain /\ s.pending = node.pending
            /\ [s EXCEPT !.pending = <<>>, !.session = FALSE] \in Bare(log, m)
            /\ Become(PushBlockOn(s, b))
      BY <2>1, <2>6, Generated
    <3>2. PICK r \in Rest(log, m) : r = PushBlockOn(s, b)
      BY <2>3, <3>1, PushOnRest
    <3>3. \A t \in Applied(s) : Covered(t, Applied(r))
      BY <2>3, <3>1, <3>2, PushOnCovers
    <3>4. Become(r)
      BY <3>1, <3>2
    <3> QED  BY <2>4, <3>1, <3>3, <3>4
  <2>7. ASSUME NEW t \in Txs, PushTransaction(t)
        PROVE  \A x \in Applied(node) : \E u \in Applied(node') : u = x \/ {x, u} \in Clash
    <3>1. PICK r \in Rest(log, m) : r = DoPushTransaction(n, t)
      BY <2>2, TransactionRest
    <3>2. Applied(n) \subseteq Applied(r)
      <4>1. PICK s : s = [n EXCEPT !.session = TRUE, !.undo = Min({@, n.undo_max - 1})]
        OBVIOUS
      <4>2. s.chain = n.chain /\ s.pending = n.pending /\ "pending" \in DOMAIN s /\ "chain" \in DOMAIN s
        BY <4>1 DEF Nodes
      <4>3. r = [s EXCEPT !.pending = Append(@, t)] \/ r = Throw(s)
        BY <3>1, <4>1 DEF DoPushTransaction
      <4>4. r.chain = n.chain /\ r.pending \in {n.pending, Append(n.pending, t)}
        BY <4>2, <4>3 DEF Throw
      <4>5. ToSet(n.pending) \subseteq ToSet(Append(n.pending, t))
        <5>1. PICK p \in Seq(Txs) : p = n.pending
          BY NodeParts DEF TxSeqs
        <5>2. \A i \in DOMAIN p : i \in DOMAIN Append(p, t) /\ Append(p, t)[i] = p[i]
          OBVIOUS
        <5> QED  BY <5>1, <5>2 DEF ToSet
      <4> QED  BY <4>4, <4>5, AppliedIs
    <3>3. \A x \in Applied(n) : Covered(x, Applied(r))
      BY <3>2 DEF Covered
    <3>4. Become(r)
      BY <2>2, <2>7, <3>1 DEF PushTransaction
    <3> QED  BY <2>2, <2>4, <3>3, <3>4
  <2> QED  BY <2>5, <2>6, <2>7 DEF Next
<1> QED  BY <1>1, <1>2, <1>3, PTL DEF Spec, NoTxLost

\* The first blocks of a valid chain are a valid chain.
LEMMA PartType ==
    ASSUME NEW c \in Chains, NEW k \in 0 .. Len(c)
    PROVE  /\ Part(c, k) \in Chains /\ Len(Part(c, k)) = k /\ Agree(Part(c, k), c, k)
           /\ ValidChain(c) => ValidChain(Part(c, k))
<1>1. PICK n \in Nat : n = Len(c) /\ k \in Nat /\ k <= n /\ \A j \in 1 .. n : c[j] \in Entries
  BY DEF Chains
<1>2. Part(c, k) = [j \in 1 .. k |-> c[j]]
  BY DEF Part
<1>3. PICK p \in [1 .. k -> Entries] : p = Part(c, k) /\ \A j \in 1 .. k : p[j] = c[j]
  <2>1. \A j \in 1 .. k : c[j] \in Entries
    BY <1>1
  <2>2. [j \in 1 .. k |-> c[j]] \in [1 .. k -> Entries]
    BY <2>1
  <2> QED  BY <1>2, <2>2
<1>4. p \in Chains /\ Len(p) = k
  BY <1>1 DEF Chains
<1>5. Agree(p, c, k)
  BY <1>3 DEF Agree
<1>6. ASSUME ValidChain(c) PROVE ValidChain(p)
  <2> SUFFICES ASSUME NEW j \in 1 .. k PROVE ValidAt(p, j)
    BY <1>4 DEF ValidChain
  <2>1. ValidAt(c, j)
    BY <1>1, <1>6 DEF ValidChain
  <2> QED  BY <1>1, <1>5, <2>1, ValidPart
<1> QED  BY <1>3, <1>4, <1>5, <1>6

\* A block determines the chain below it, with its irreversible blocks.
Determined(k) == \A c, d \in Chains :
              ValidChain(c) /\ ValidChain(d) /\ k <= Len(c) /\ k <= Len(d)
              /\ (k > 0 => c[k].blk = d[k].blk)
              => Agree(c, d, k)

LEMMA ChainUnique == \A k \in Nat : Determined(k)
<1> DEFINE N == {k \in Nat : Determined(k)}
<1>1. 0 \in N
  BY DEF Determined, Agree
<1>2. ASSUME NEW k \in N PROVE k + 1 \in N
  <2> SUFFICES ASSUME NEW c \in Chains, NEW d \in Chains, ValidChain(c), ValidChain(d),
                      k + 1 <= Len(c), k + 1 <= Len(d), c[k + 1].blk = d[k + 1].blk
               PROVE  Agree(c, d, k + 1)
    BY DEF Determined
  <2>1. Len(c) \in Nat /\ Len(d) \in Nat /\ k \in Nat
    BY DEF Chains
  <2>2. k + 1 \in 1 .. Len(c) /\ k + 1 \in 1 .. Len(d) /\ k <= Len(c) /\ k <= Len(d) /\ (k + 1) - 1 = k
    BY <2>1
  <2>3. ValidAt(c, k + 1) /\ ValidAt(d, k + 1)
    BY <2>2 DEF ValidChain
  <2>4. ASSUME k > 0 PROVE c[k].blk = d[k].blk
    <3>1. k + 1 # 1
      BY <2>1, <2>4
    <3> QED  BY <2>2, <2>3, <3>1 DEF ValidAt
  <2>5. Agree(c, d, k)
    <3>1. Determined(k)
      OBVIOUS
    <3> QED  BY ONLY <2>2, <2>4, <3>1, c \in Chains, d \in Chains, ValidChain(c), ValidChain(d) DEF Determined
  <2>6. Part(c, k) = Part(d, k)
    BY <2>5 DEF Part, Agree
  <2>7. LibBelow(c, k + 1) = LibBelow(d, k + 1)
    <3>1. CASE k = 0
      BY <3>1 DEF LibBelow
    <3>2. CASE k # 0
      <4>1. c[k] = d[k]
        BY <2>1, <2>5, <3>2 DEF Agree
      <4> QED  BY <2>2, <4>1 DEF LibBelow
    <3> QED  BY <3>1, <3>2
  <2>8. c[k + 1].lib = d[k + 1].lib
    <3>1. c[k + 1].lib = update_last_irreversible_block(Part(c, k), c[k + 1].blk, LibBelow(c, k + 1))
      BY ONLY <2>2, <2>3 DEF ValidAt
    <3>2. d[k + 1].lib = update_last_irreversible_block(Part(d, k), d[k + 1].blk, LibBelow(d, k + 1))
      BY ONLY <2>2, <2>3 DEF ValidAt
    <3> QED  BY ONLY <2>6, <2>7, <3>1, <3>2, c[k + 1].blk = d[k + 1].blk
  <2>9. c[k + 1] = d[k + 1]
    <3>1. c[k + 1] \in Entries /\ d[k + 1] \in Entries
      BY <2>2 DEF Chains
    <3>2. PICK x \in Entries, y \in Entries : x = c[k + 1] /\ y = d[k + 1] /\ x.blk = y.blk /\ x.lib = y.lib
      BY <2>8, <3>1
    <3>3. x = y
      BY <3>2 DEF Entries
    <3> QED  BY <3>2, <3>3
  <2>10. ASSUME NEW j \in 1 .. k + 1 PROVE c[j] = d[j]
    <3>1. CASE j = k + 1
      BY <2>9, <3>1
    <3>2. CASE j # k + 1
      <4>1. j \in 1 .. k
        BY <2>1, <3>2
      <4> QED  BY <2>5, <4>1 DEF Agree
    <3> QED  BY <3>1, <3>2
  <2> QED  BY <2>10 DEF Agree
<1>3. N = Nat
  <2>1. N \in SUBSET Nat
    OBVIOUS
  <2> HIDE DEF N
  <2> QED  BY <1>1, <1>2, <2>1, NatSetInduction
<1> QED  BY <1>3

\* Two valid chains in one log: the shorter one is the beginning of the other.
LEMMA SameLog ==
    ASSUME NEW l, NEW c \in Chains, NEW d \in Chains, ValidChain(c), ValidChain(d),
           Matches(l, c), Matches(l, d), Len(c) <= Len(d)
    PROVE  c = Part(d, Len(c)) /\ Agree(c, d, Len(c))
<1>1. PICK k \in Nat : k = Len(c) /\ k <= Len(d) /\ Len(d) \in Nat
  BY DEF Chains
<1>2. k > 0 => c[k].blk = d[k].blk
  BY <1>1 DEF Matches
<1>3. Agree(c, d, k)
  <2>1. Determined(k)
    BY ChainUnique
  <2>2. k <= Len(c)
    BY <1>1
  <2> QED  BY ONLY <1>1, <1>2, <2>1, <2>2, c \in Chains, d \in Chains, ValidChain(c), ValidChain(d) DEF Determined
<1>4. Agree(d, c, k)
  BY <1>3 DEF Agree
<1> QED  BY <1>1, <1>3, <1>4, PartIs

\* What such a chain is to IsPrefix.
LEMMA PartPrefix ==
    ASSUME NEW c \in Chains, NEW d \in Chains, Len(c) <= Len(d), Agree(c, d, Len(c))
    PROVE  IsPrefix(c, d)
<1>1. PICK k \in Nat, n \in Nat : k = Len(c) /\ n = Len(d) /\ k <= n
  BY DEF Chains
<1>2. \A i \in 1 .. k : c[i] \in Entries /\ d[i] \in Entries /\ c[i] = d[i]
  BY <1>1 DEF Chains, Agree
<1>3. /\ SubSeq(c, 1, k) \in Seq(Entries) /\ SubSeq(d, 1, k) \in Seq(Entries)
      /\ Len(SubSeq(c, 1, k)) = (IF 1 <= k THEN k - 1 + 1 ELSE 0)
      /\ Len(SubSeq(d, 1, k)) = (IF 1 <= k THEN k - 1 + 1 ELSE 0)
      /\ \A i \in 1 .. k - 1 + 1 : SubSeq(c, 1, k)[i] = c[1 + i - 1]
      /\ \A i \in 1 .. k - 1 + 1 : SubSeq(d, 1, k)[i] = d[1 + i - 1]
  BY <1>1, <1>2, SubSeqProperties
<1>4. PICK x \in Seq(Entries), y \in Seq(Entries) : x = SubSeq(c, 1, k) /\ y = SubSeq(d, 1, k)
  BY ONLY <1>3
<1>5. Len(x) = k /\ Len(y) = k
  BY <1>3, <1>4
<1>6. ASSUME NEW i \in 1 .. k PROVE x[i] = y[i]
  <2>1. i \in 1 .. k - 1 + 1 /\ 1 + i - 1 = i
    BY <1>1
  <2> QED  BY <1>2, <1>3, <1>4, <2>1
<1>7. x = y
  BY ONLY <1>5, <1>6, x \in Seq(Entries), y \in Seq(Entries), SeqEqual
<1> QED  BY <1>1, <1>4, <1>7 DEF IsPrefix

\* A block that can be applied is.
LEMMA ApplyDone ==
    ASSUME NEW l, NEW m \in Nat, NEW n \in Bare(l, m), NEW b \in Blocks, ~ n.thrown, CanApply(n, b)
    PROVE  LET r == ApplyBlock(n, b)
           IN  /\ r.chain = Append(n.chain, [blk |-> b, lib |-> update_last_irreversible_block(n.chain, b, last_irreversible(n))])
               /\ r.fork = set_max_size(n.fork, HistorySize(n, b))
               /\ r.thrown = n.thrown /\ r.popped = n.popped /\ r.pending = n.pending
<1>1. n \in Nodes
  BY BareParts
<1>2. PICK d : d = Drop(n)
  OBVIOUS
<1>3. d \in Nodes /\ d.chain = n.chain /\ d.fork = n.fork /\ d.thrown = n.thrown /\ d.popped = n.popped /\ d.pending = n.pending
  <2>1. d \in Nodes
    BY <1>2, DropBare, BareParts
  <2> QED  BY <1>1, <1>2, <2>1 DEF Drop, Nodes
<1>4. HistorySize(d, b) = HistorySize(n, b)
  BY <1>3 DEF HistorySize, last_irreversible
<1>5. PICK r : r = Resize(d, b)
  OBVIOUS
<1>6. /\ r.chain = n.chain /\ r.fork = set_max_size(n.fork, HistorySize(n, b)) /\ r.thrown = n.thrown
      /\ r.popped = n.popped /\ r.pending = n.pending
      /\ DOMAIN r = DOMAIN d
  BY <1>3, <1>4, <1>5 DEF Resize, Nodes
<1>7. DOMAIN d = {"chain", "undo", "undo_max", "fork", "pending", "session", "popped", "thrown", "stored", "up"}
  BY <1>3 DEF Nodes
<1> DEFINE e == [blk |-> b, lib |-> update_last_irreversible_block(n.chain, b, last_irreversible(n))]
           z == [r EXCEPT !.chain = Append(@, e), !.undo = @ + 1, !.stored = Append(@, b)]
<1>8. ApplyBlock(n, b) = Propose(z, b)
  BY <1>2, <1>5 DEF ApplyBlock
<1> HIDE DEF e
<1>9. /\ z.chain = Append(n.chain, e) /\ z.fork = r.fork /\ z.thrown = n.thrown /\ z.popped = n.popped /\ z.pending = n.pending
      /\ DOMAIN z = DOMAIN d
  BY <1>6, <1>7
<1> HIDE DEF z
<1>10. /\ Propose(z, b).chain = z.chain /\ Propose(z, b).fork = z.fork /\ Propose(z, b).thrown = z.thrown
       /\ Propose(z, b).popped = z.popped /\ Propose(z, b).pending = z.pending
  BY <1>7, <1>9 DEF Propose
<1> QED  BY <1>6, <1>8, <1>9, <1>10 DEF e

\* A block that cannot be applied leaves the chain alone.
LEMMA ApplyRefused ==
    ASSUME NEW l, NEW m \in Nat, NEW n \in Bare(l, m), NEW b \in Blocks, ~ n.thrown, ~ CanApply(n, b)
    PROVE  LET r == ApplyBlock(n, b)
           IN  r.chain = n.chain /\ r.thrown = TRUE /\ r.popped = n.popped
<1>1. n \in Nodes
  BY BareParts
<1>2. PICK d : d = Drop(n)
  OBVIOUS
<1>3. d \in Nodes /\ d.chain = n.chain /\ d.popped = n.popped
  <2>1. d \in Nodes
    BY <1>2, DropBare, BareParts
  <2> QED  BY <1>1, <1>2, <2>1 DEF Drop, Nodes
<1>4. DOMAIN d = {"chain", "undo", "undo_max", "fork", "pending", "session", "popped", "thrown", "stored", "up"}
  BY <1>3 DEF Nodes
<1>5. PICK r : r = IF Prev[b] = head_block_id(n) /\ b \in Late THEN Resize(d, b) ELSE d
  OBVIOUS
<1>6. r.chain = n.chain /\ r.popped = n.popped /\ DOMAIN r = DOMAIN d
  <2>1. Resize(d, b).chain = d.chain /\ Resize(d, b).popped = d.popped /\ DOMAIN Resize(d, b) = DOMAIN d
    BY <1>4 DEF Resize
  <2> QED  BY <1>3, <1>5, <2>1
<1>7. ApplyBlock(n, b) = Throw(r)
  BY <1>2, <1>5 DEF ApplyBlock
<1> QED  BY <1>4, <1>6, <1>7 DEF Throw

\* Once something has been thrown nothing happens.
LEMMA ApplyThrown ==
    ASSUME NEW n, NEW b, n.thrown
    PROVE  ApplyBlock(n, b) = n
BY DEF ApplyBlock

\* On the first blocks of a valid chain the next one can be applied, and what
\* comes of it is that chain's next part.
LEMMA ApplyExact ==
    ASSUME NEW l, NEW m \in Nat, NEW n \in Bare(l, m), ~ n.thrown,
           NEW d \in Chains, ValidChain(d), NEW i \in Nat, i < Len(d), n.chain = Part(d, i),
           NEW b, b = d[i + 1].blk
    PROVE  /\ b \in Blocks /\ CanApply(n, b) /\ Prev[b] = head_block_id(n) /\ Num(b) = i + 1
           /\ ApplyBlock(n, b).chain = Part(d, i + 1)
<1>1. n \in Nodes /\ n.pending = <<>> /\ ValidChain(n.chain)
  BY BareParts, WorkParts
<1>2. PICK k \in Nat : k = Len(d) /\ i + 1 \in 1 .. k /\ i \in 0 .. k /\ i + 1 \in 0 .. k
  BY DEF Chains
<1>3. PICK c \in Chains : c = n.chain /\ c = Part(d, i) /\ Len(c) = i /\ Agree(c, d, i)
  BY <1>2, PartType
<1>4. Agree(d, c, i)
  BY <1>3 DEF Agree
<1>5. d[i + 1] \in Entries /\ ValidAt(d, i + 1)
  BY <1>2 DEF Chains, ValidChain
<1>6. b \in Blocks
  BY <1>5 DEF Entries
<1>7. last_irreversible(n) = LibBelow(d, i + 1)
  BY <1>1, <1>3, <1>4, LibBelowIs
<1>8. (i + 1) - 1 = i /\ (i + 1 = 1 <=> i = 0)
  OBVIOUS
<1>9. Prev[b] = head_block_id(n)
  <2>1. CASE i = 0
    <3>1. c = <<>>
      BY <1>3, <2>1, SeqNone DEF Chains
    <3> QED  BY <1>1, <1>3, <1>5, <1>8, <2>1, <3>1, HeadIs DEF ValidAt
  <2>2. CASE i # 0
    <3>1. c # <<>> /\ i \in 1 .. i
      BY <1>3, <2>2, SeqNone DEF Chains
    <3>2. head_block_id(n) = c[i].blk
      BY <1>1, <1>3, <3>1, HeadIs
    <3>3. c[i] = d[i]
      BY <1>3, <3>1 DEF Agree
    <3> QED  BY <1>5, <1>8, <2>2, <3>2, <3>3 DEF ValidAt
  <2> QED  BY <2>1, <2>2
<1>10. CanApplyTxs(TxsOf[b], Applied(n))
  <2>1. TxsIn(c, i) = TxsIn(d, i)
    BY <1>3 DEF TxsIn, Agree
  <2>2. ToSet(<<>>) = {}
    BY DEF ToSet
  <2>3. Applied(n) = TxsIn(d, i)
    BY <1>1, <1>3, <2>1, <2>2, AppliedIs
  <2> QED  BY <1>5, <1>8, <2>3 DEF ValidAt
<1>11. CanApply(n, b) /\ Num(b) = i + 1
  BY <1>5, <1>7, <1>9, <1>10 DEF ValidAt, CanApply
<1>12. d[i + 1].lib = update_last_irreversible_block(c, b, last_irreversible(n))
  BY <1>3, <1>5, <1>7, <1>8 DEF ValidAt
<1>13. d[i + 1] = [blk |-> b, lib |-> update_last_irreversible_block(c, b, last_irreversible(n))]
  <2>1. PICK x \in Entries : x = d[i + 1]
    BY <1>5
  <2>2. x = [blk |-> x.blk, lib |-> x.lib]
    BY DEF Entries
  <2> QED  BY ONLY <1>12, <2>1, <2>2, b = d[i + 1].blk
<1>14. ApplyBlock(n, b).chain = Append(c, d[i + 1])
  BY <1>3, <1>6, <1>11, <1>13, ApplyDone
<1>15. Append(c, d[i + 1]) = Part(d, i + 1)
  <2>1. PICK e \in Chains : e = Append(c, d[i + 1]) /\ Len(e) = i + 1 /\ e[i + 1] = d[i + 1] /\ Agree(e, c, i)
    BY <1>3, <1>5, AppendParts
  <2>2. ASSUME NEW j \in 1 .. i + 1 PROVE d[j] = e[j]
    <3>1. CASE j = i + 1
      BY <2>1, <3>1
    <3>2. CASE j # i + 1
      <4>1. j \in 1 .. i
        BY <3>2
      <4> QED  BY <1>3, <2>1, <4>1 DEF Agree
    <3> QED  BY <3>1, <3>2
  <2>3. Agree(d, e, i + 1) /\ i + 1 \in Nat
    BY <2>2 DEF Agree
  <2> QED  BY <2>1, <2>3, PartIs
<1> QED  BY <1>6, <1>9, <1>11, <1>14, <1>15

\* The longest valid chain in the log.
Longest(d) ==
    /\ d \in Chains /\ ValidChain(d) /\ Matches(log, d)
    /\ \A c \in Chains : ValidChain(c) /\ Matches(log, c) => Len(c) <= Len(d)

\* A valid chain in the log ends where the log does, at the latest.
LEMMA WithinLog ==
    ASSUME log \in Logs, NEW c \in Chains, ValidChain(c), Matches(log, c)
    PROVE  Len(c) \in Nat /\ LastLogged \in Nat /\ Len(c) <= LastLogged /\ Len(c) \in 0 .. Top
<1>1. PICK k \in Nat, t \in Nat : k = Len(c) /\ t = Top
  BY TopNum DEF Chains
<1>2. DOMAIN log = 1 .. t
  BY <1>1, LogParts
<1>3. PICK h \in 0 .. t : h = LastLogged
  BY <1>1, NoGaps
<1> DEFINE s == {0} \cup {i \in DOMAIN log : log[i] # Genesis}
<1>4. s \in SUBSET (0 .. t) /\ s # {}
  BY <1>2
<1>5. ASSUME k > 0 PROVE k \in s
  <2>1. k \in 1 .. k
    BY <1>5
  <2>2. k \in DOMAIN log /\ log[k] = c[k].blk /\ c[k] \in Entries
    BY <1>1, <2>1 DEF Matches, Chains
  <2>3. log[k] \in Blocks
    BY <2>2 DEF Entries
  <2> QED  BY <2>2, <2>3, PrevAssumption
<1>6. Max(s) = h
  BY <1>3 DEF LastLogged
<1>7. k \in s
  BY <1>5
<1> HIDE DEF s
<1>8. \A y \in s : y <= h
  BY <1>4, <1>6, MaxIn
<1>9. k <= h
  BY <1>7, <1>8
<1> QED  BY <1>1, <1>3, <1>9

LEMMA LongestExists ==
    ASSUME log \in Logs
    PROVE  \E d \in Chains : Longest(d)
<1> DEFINE s == {k \in 0 .. Top : \E c \in Chains : ValidChain(c) /\ Matches(log, c) /\ Len(c) = k}
<1>1. PICK t \in Nat : t = Top
  BY TopNum
<1>2. ASSUME NEW c \in Chains, ValidChain(c), Matches(log, c) PROVE Len(c) \in s
  BY <1>2, WithinLog
<1>3. 0 \in s
  <2>1. PICK c \in Chains : c = <<>> /\ Len(c) = 0 /\ ValidChain(c)
    BY ValidNone, SeqEmpty
  <2>2. Matches(log, c)
    BY <2>1 DEF Matches
  <2> QED  BY <1>2, <2>1, <2>2
<1>4. s \in SUBSET (0 .. t) /\ s # {}
  BY <1>1, <1>3
<1>5. PICK k \in s : \A y \in s : y <= k
  <2> HIDE DEF s
  <2> QED  BY <1>4, MaxIn
<1>6. PICK d \in Chains : ValidChain(d) /\ Matches(log, d) /\ Len(d) = k
  OBVIOUS
<1>7. \A c \in Chains : ValidChain(c) /\ Matches(log, c) => Len(c) <= Len(d)
  <2> SUFFICES ASSUME NEW c \in Chains, ValidChain(c), Matches(log, c) PROVE Len(c) <= Len(d)
    OBVIOUS
  <2>1. Len(c) \in s
    BY <1>2
  <2> HIDE DEF s
  <2> QED  BY <1>5, <1>6, <2>1
<1> QED  BY <1>6, <1>7 DEF Longest

\* The block behind it does not build on it: every block of the log has been
\* the head of a valid chain, which would be longer.
LEMMA NoNext ==
    ASSUME log \in Logs, NEW d \in Chains, Longest(d), NEW k \in Nat, k = Len(d), k < LastLogged
    PROVE  /\ log[k + 1] \in Blocks /\ Num(log[k + 1]) = k + 1
           /\ Prev[log[k + 1]] # IF k = 0 THEN Genesis ELSE d[k].blk
           /\ k > 0
<1>1. ValidChain(d) /\ Matches(log, d)
  BY DEF Longest
<1>2. PICK h \in Nat, t \in Nat : h = LastLogged /\ t = Top /\ h <= t /\ k + 1 \in 1 .. h /\ k + 1 \in 1 .. t
  BY NoGaps, TopNum
<1>3. PICK b \in Blocks : b = log[k + 1] /\ b # Genesis
  <2>1. log[k + 1] \in InLog
    BY <1>2, NoGaps
  <2> QED  BY <2>1, PrevAssumption DEF InLog
<1>4. Num(b) = k + 1 /\ Made(b)
  BY <1>2, <1>3, LogParts
<1>5. ASSUME Prev[b] = IF k = 0 THEN Genesis ELSE d[k].blk PROVE FALSE
  <2>1. PICK c \in Chains : c # <<>> /\ ValidChain(c) /\ c[Len(c)].blk = b
    BY <1>4 DEF Made
  <2>2. PICK n \in Nat : n = Len(c) /\ n \in 1 .. n
    BY <2>1, SeqNone DEF Chains
  <2>3. ValidAt(c, n)
    BY <2>1, <2>2 DEF ValidChain
  <2>4. n = k + 1
    BY <1>4, <2>1, <2>2, <2>3 DEF ValidAt
  <2>5. k <= Len(c) /\ k <= Len(d) /\ (k + 1) - 1 = k
    BY <2>2, <2>4
  <2>6. k > 0 => c[k].blk = d[k].blk
    <3> SUFFICES ASSUME k > 0 PROVE c[k].blk = d[k].blk
      OBVIOUS
    <3>1. Prev[c[n].blk] = c[n - 1].blk
      BY <2>3, <2>4 DEF ValidAt
    <3> QED  BY <1>5, <2>1, <2>2, <2>4, <2>5, <3>1
  <2>7. Agree(c, d, k)
    <3>1. Determined(k)
      BY ChainUnique
    <3> QED  BY ONLY <1>1, <2>1, <2>5, <2>6, <3>1, c \in Chains, d \in Chains DEF Determined
  <2>8. Matches(log, c)
    <3> SUFFICES ASSUME NEW j \in 1 .. k + 1 PROVE j \in DOMAIN log /\ log[j] = c[j].blk
      BY <2>2, <2>4 DEF Matches
    <3>1. CASE j = k + 1
      <4>1. k + 1 \in DOMAIN log
        BY <1>2, LogParts
      <4> QED  BY <1>3, <2>1, <2>2, <2>4, <3>1, <4>1
    <3>2. CASE j # k + 1
      <4>1. j \in 1 .. k
        BY <3>2
      <4> QED  BY <1>1, <2>7, <4>1 DEF Agree, Matches
    <3> QED  BY <3>1, <3>2
  <2>9. Len(c) <= Len(d)
    BY <2>1, <2>8 DEF Longest
  <2> QED  BY <2>2, <2>4, <2>9
<1>6. ASSUME k = 0 PROVE FALSE
  <2>1. Num(b) = 1 /\ Num(b) = Num(Prev[b]) + 1 /\ Prev[b] \in Blocks \cup {Genesis}
    BY <1>4, <1>6, NumType, PrevAssumption
  <2>2. Prev[b] = Genesis
    <3> SUFFICES ASSUME Prev[b] \in Blocks PROVE FALSE
      BY <2>1
    <3>1. Num(Prev[b]) \in Nat \ {0}
      BY NumType
    <3> QED  BY <2>1, <3>1
  <2> QED  BY <1>5, <1>6, <2>2
<1> QED  BY <1>3, <1>4, <1>5, <1>6

\* Every valid chain in the log is the beginning of the longest one.
LEMMA LongestBegins ==
    ASSUME NEW d \in Chains, Longest(d), NEW c \in Chains, ValidChain(c), Matches(log, c)
    PROVE  Len(c) \in Nat /\ Len(d) \in Nat /\ Len(c) <= Len(d) /\ c = Part(d, Len(c)) /\ IsPrefix(c, d)
<1>1. ValidChain(d) /\ Matches(log, d) /\ Len(c) <= Len(d)
  BY DEF Longest
<1>2. Len(c) \in Nat /\ Len(d) \in Nat
  BY DEF Chains
<1>3. c = Part(d, Len(c)) /\ Agree(c, d, Len(c))
  BY <1>1, SameLog
<1> QED  BY <1>1, <1>2, <1>3, PartPrefix

\* Nothing to try again: the restorer leaves the node alone.
LEMMA RestoreNone ==
    ASSUME NEW n
    PROVE  Restore(n, <<>>) = n
<1>1. Restore(n, <<>>) = Restores!Fold(n, <<>>)
  BY DEF Restore, RestoreStep, Restores!Fold, FoldLeft, Restores!MapThenFoldSet, MapThenFoldSet, Max, Restores!Largest
<1>2. PICK V : V = {n}
  OBVIOUS
<1>3. PICK s \in Seq({}) : s = <<>>
  <2>1. <<>> \in Seq({})
    OBVIOUS
  <2> QED  BY ONLY <2>1
<1>4. Restores!Closed(V, {})
  BY DEF Restores!Closed
<1>5. n \in V
  BY <1>2
<1>6. Restores!Fold(n, s) \in V
  BY ONLY <1>4, <1>5, s \in Seq({}), Restores!FoldIn
<1> QED  BY <1>1, <1>2, <1>3, <1>6

-----------------------------------------------------------------------------
(* Opening replays the longest valid chain of the log, and stops behind it. *)

\* The node has come to block i of d, or stopped behind it.
Loaded(d, n, i) ==
    \/ i <= Len(d) /\ ~ n.thrown /\ n.chain = Part(d, i)
    \/ n.thrown /\ n.chain = d /\ Len(d) < LastLogged

Idle(f) == f.index = {} /\ f.head = NoHead

\* The next block of the log, on a node that has come to block i of d.
LEMMA NextLogged ==
    ASSUME log \in Logs, NEW d \in Chains, Longest(d), NEW n \in Nodes, ValidChain(n.chain),
           NEW i \in Nat, i <= Len(d), i < LastLogged, n.chain = Part(d, i), NEW b, b = log[i + 1]
    PROVE  /\ b \in Blocks /\ Num(b) = i + 1 /\ Len(n.chain) = i
           /\ i < Len(d) => b = d[i + 1].blk
           /\ i = Len(d) => n.chain = d /\ i > 0 /\ Prev[b] # head_block_id(n)
           /\ i > 0 => head_block_id(n) = d[i].blk
<1>1. PICK k \in Nat, h \in Nat : k = Len(d) /\ h = LastLogged /\ i <= k /\ i < h
  BY NoGaps, TopNum DEF Chains
<1>2. ValidChain(d) /\ Matches(log, d)
  BY DEF Longest
<1>3. n.chain \in Chains /\ Len(n.chain) = i /\ Agree(n.chain, d, i)
  BY <1>1, PartType
<1>4. b \in Blocks /\ Num(b) = i + 1
  <2>1. i + 1 \in 1 .. h /\ i + 1 \in 1 .. Top
    BY <1>1, NoGaps, TopNum
  <2>2. log[i + 1] \in InLog
    BY <1>1, <2>1, NoGaps
  <2>3. b \in Blocks /\ b # Genesis
    BY <2>2, PrevAssumption DEF InLog
  <2> QED  BY <2>1, <2>3, LogParts
<1>5. ASSUME i < k PROVE b = d[i + 1].blk
  <2>1. i + 1 \in 1 .. k
    BY <1>5
  <2> QED  BY <1>1, <1>2, <2>1 DEF Matches
<1>6. ASSUME i > 0 PROVE head_block_id(n) = d[i].blk
  <2>1. n.chain # <<>> /\ i \in 1 .. i
    BY <1>3, <1>6, SeqNone DEF Chains
  <2>2. head_block_id(n) = n.chain[i].blk
    BY <1>3, <2>1, HeadIs
  <2> QED  BY <1>3, <2>1, <2>2 DEF Agree
<1>7. ASSUME i = k PROVE n.chain = d /\ i > 0 /\ Prev[b] # head_block_id(n)
  <2>1. Agree(d, d, i)
    BY DEF Agree
  <2>2. Part(d, i) = d
    BY <1>1, <1>7, <2>1, PartIs
  <2>3. i > 0 /\ Prev[b] # d[i].blk
    <3>1. Prev[log[k + 1]] # (IF k = 0 THEN Genesis ELSE d[k].blk) /\ k > 0
      BY <1>1, <1>7, NoNext
    <3> QED  BY <1>7, <3>1
  <2> QED  BY <1>6, <2>2, <2>3
<1> QED  BY <1>1, <1>3, <1>4, <1>5, <1>6, <1>7

\* Replaying one more block of the log.
LEMMA ReplayExact ==
    ASSUME log \in Logs, NEW d \in Chains, Longest(d), NEW h \in Nat, NEW n \in Loading(log, h),
           NEW i \in Nat, i < LastLogged, Loaded(d, n, i), ~ n.thrown => Idle(n.fork)
    PROVE  LET r == Replay(n, log[i + 1])
           IN  Loaded(d, r, i + 1) /\ (~ r.thrown => Idle(r.fork))
<1>1. /\ n \in Bare(log, 0) /\ n \in Nodes /\ n.chain \in Chains /\ ValidChain(n.chain)
  BY LoadingParts
<1>2. CASE n.thrown
  BY <1>2 DEF Replay, Loaded
<1>3. CASE ~ n.thrown
  <2>1. i <= Len(d) /\ n.chain = Part(d, i) /\ Idle(n.fork)
    BY <1>3 DEF Loaded
  <2>2. PICK b \in Blocks : /\ b = log[i + 1] /\ Num(b) = i + 1
                            /\ i < Len(d) => b = d[i + 1].blk
                            /\ i = Len(d) => n.chain = d /\ i > 0 /\ Prev[b] # head_block_id(n)
    BY <1>1, <2>1, NextLogged
  <2>3. PICK a \in Nodes : a = ApplyBlock(n, b)
    BY <1>1, ApplyBare, BareParts
  <2>4. PICK r : r = [a EXCEPT !.undo = 0, !.stored = <<>>]
    OBVIOUS
  <2>5. Replay(n, log[i + 1]) = r
    BY <1>3, <2>2, <2>3, <2>4 DEF Replay
  <2>6. r.chain = a.chain /\ r.thrown = a.thrown /\ r.fork = a.fork
    BY <2>4 DEF Nodes
  <2>7. PICK z \in Nat : z = 0 /\ n \in Bare(log, z)
    BY <1>1
  <2>8. PICK k \in Nat : k = Len(d)
    BY DEF Chains
  <2>9. CASE i < k
    <3>1. b = d[i + 1].blk /\ ValidChain(d)
      BY <2>2, <2>8, <2>9 DEF Longest
    <3>2. CanApply(n, b) /\ ApplyBlock(n, b).chain = Part(d, i + 1)
      BY ONLY <1>3, <2>1, <2>7, <2>8, <2>9, <3>1, d \in Chains, i \in Nat, ApplyExact
    <3>3. a.fork = set_max_size(n.fork, HistorySize(n, b)) /\ ~ a.thrown
      <4>1. /\ ApplyBlock(n, b).fork = set_max_size(n.fork, HistorySize(n, b))
            /\ ApplyBlock(n, b).thrown = n.thrown
        BY ONLY <1>3, <2>7, <3>2, b \in Blocks, ApplyDone
      <4> QED  BY ONLY <1>3, <2>3, <4>1
    <3>4. Idle(a.fork)
      <4>1. n.fork \in Forks /\ HistorySize(n, b) \in Nat
        <5>1. Prev[b] = head_block_id(n)
          BY <3>2 DEF CanApply
        <5> QED  BY <1>1, <5>1, NextNum, NodeParts
      <4>2. PICK f \in Forks, x \in Nat : f = n.fork /\ x = HistorySize(n, b)
        BY ONLY <4>1
      <4>3. set_max_size(f, x).head = NoHead /\ set_max_size(f, x).index = f.index
        <5>1. f.head = NoHead
          BY <2>1, <4>2 DEF Idle
        <5> QED  BY <5>1, MaxSizeType
      <4> QED  BY ONLY <2>1, <3>3, <4>2, <4>3 DEF Idle
    <3>5. Loaded(d, r, i + 1)
      <4>1. i + 1 <= k
        BY <2>9
      <4> QED  BY <2>3, <2>6, <2>8, <3>2, <3>3, <4>1 DEF Loaded
    <3> QED  BY <2>5, <2>6, <3>4, <3>5
  <2>10. CASE i = k
    <3>1. n.chain = d /\ ~ CanApply(n, b)
      BY <2>2, <2>8, <2>10 DEF CanApply
    <3>2. a.chain = n.chain /\ a.thrown = TRUE
      BY ONLY <1>3, <2>3, <2>7, <3>1, b \in Blocks, ApplyRefused
    <3> QED  BY <2>5, <2>6, <2>8, <2>10, <3>1, <3>2 DEF Loaded
  <2> QED  BY <2>1, <2>8, <2>9, <2>10
<1> QED  BY <1>2, <1>3

\* Replaying up to block to, or not at all.
LEMMA ReplayToExact ==
    ASSUME log \in Logs, NEW d \in Chains, Longest(d), NEW h \in Nat, NEW n \in Loading(log, h),
           Loaded(d, n, Len(n.chain)), ~ n.thrown, Idle(n.fork), NEW to \in Int, to <= LastLogged
    PROVE  LET r == ReplayTo(n, to)
           IN  \E i \in 0 .. LastLogged : Loaded(d, r, i) /\ (~ r.thrown => Idle(r.fork))
<1>1. n \in Nodes /\ ValidChain(n.chain) /\ n.chain \in Chains /\ Matches(log, n.chain)
  BY LoadingParts
<1>2. PICK k \in Nat, e \in Nat : k = Len(n.chain) /\ e = LastLogged /\ k <= e
  BY <1>1, WithinLog
<1>3. PICK a \in Nat \ {0} : a = head_block_num(n) + 1 /\ a = k + 1
  <2>1. head_block_num(n) = k
    BY <1>1, <1>2, HeadIs
  <2> QED  BY <2>1
<1>4. PICK s \in Seq(InLog) : /\ s = Logged(a, to) /\ Len(s) = IF a <= to THEN (to - a) + 1 ELSE 0
                              /\ \A j \in 1 .. (to - a) + 1 : s[j] = log[(a + j) - 1]
  BY LoggedType
<1>5. ReplayTo(n, to) = IF a < to THEN Replays!Fold(n, s) ELSE n
  BY <1>3, <1>4, ReplayFold DEF ReplayTo
<1>6. CASE ~ (a < to)
  <2>1. k \in 0 .. LastLogged
    BY <1>2
  <2> QED  BY <1>2, <1>5, <1>6, <2>1
<1>7. CASE a < to
  <2>1. PICK V : V = Loading(log, h) /\ n \in V /\ Replays!Closed(V, InLog)
    BY ReplayClosed
  <2>2. PICK g \in [0 .. Len(s) -> V] : Replays!FoldsTo(g, n, s) /\ Replays!Fold(n, s) = g[Len(s)]
    BY ONLY <2>1, s \in Seq(InLog), Replays!FoldSteps
  <2>3. PICK q \in Nat : q = Len(s) /\ k + q = to /\ q = (to - a) + 1
    <3>1. PICK q \in Nat : q = (to - a) + 1
      <4>1. (to - a) + 1 \in Nat
        BY ONLY <1>7, a \in Nat \ {0}, to \in Int
      <4> QED  BY ONLY <4>1
    <3>2. a <= to /\ k + q = to
      BY ONLY <1>3, <1>7, <3>1, a \in Nat \ {0}, to \in Int, k \in Nat
    <3> QED  BY ONLY <1>4, <3>1, <3>2
  <2> DEFINE N == {j \in Nat : j <= q => Loaded(d, g[j], k + j) /\ (~ g[j].thrown => Idle(g[j].fork))}
  <2>4. 0 \in N
    <3>1. g[0] = n
      BY <2>2 DEF Replays!FoldsTo
    <3> QED  BY <1>2, <3>1
  <2>5. ASSUME NEW j \in N PROVE j + 1 \in N
    <3> SUFFICES ASSUME j + 1 <= q
                 PROVE  Loaded(d, g[j + 1], k + (j + 1)) /\ (~ g[j + 1].thrown => Idle(g[j + 1].fork))
      OBVIOUS
    <3>1. PICK i \in Nat : i = k + j /\ i < e /\ i + 1 = k + (j + 1) /\ j \in 0 .. q /\ j + 1 \in 1 .. q
      <4>1. j \in Nat /\ k + j \in Nat /\ to <= e
        BY <1>2
      <4> QED  BY ONLY <2>3, <4>1, j + 1 <= q, k \in Nat, q \in Nat, e \in Nat
    <3>2. PICK x \in Loading(log, h) : x = g[j] /\ Loaded(d, x, i) /\ (~ x.thrown => Idle(x.fork))
      BY <2>1, <2>3, <3>1
    <3>3. s[j + 1] = log[i + 1]
      <4>1. (a + (j + 1)) - 1 = i + 1 /\ j \in Nat
        BY ONLY <1>3, <3>1, j \in N, k \in Nat, a \in Nat, i \in Nat
      <4>2. j + 1 \in 1 .. (to - a) + 1
        BY ONLY <2>3, <3>1
      <4>3. s[j + 1] = log[(a + (j + 1)) - 1]
        BY ONLY <1>4, <4>2
      <4> QED  BY ONLY <4>1, <4>3
    <3>4. g[j + 1] = Replay(g[j], s[j + 1])
      <4>1. \A p \in 1 .. Len(s) : g[p] = Replay(g[p - 1], s[p])
        BY <2>2 DEF Replays!FoldsTo
      <4> QED  BY <2>3, <3>1, <4>1
    <3>5. PICK r : r = Replay(x, log[i + 1]) /\ Loaded(d, r, i + 1) /\ (~ r.thrown => Idle(r.fork))
      BY <1>2, <3>1, <3>2, ReplayExact
    <3> QED  BY <3>1, <3>2, <3>3, <3>4, <3>5
  <2>6. N = Nat
    <3>1. N \in SUBSET Nat
      OBVIOUS
    <3> HIDE DEF N
    <3> QED  BY <2>4, <2>5, <3>1, NatSetInduction
  <2>7. q \in N
    BY <2>6
  <2>8. k + q \in 0 .. LastLogged
    <3>1. k + q \in Nat /\ k + q <= LastLogged
      <4>1. k + q \in Nat
        BY ONLY k \in Nat, q \in Nat
      <4> QED  BY ONLY <2>3, <4>1, to <= LastLogged
    <3> QED  BY ONLY <1>2, <3>1, e \in Nat
  <2> QED  BY <1>5, <1>7, <2>2, <2>3, <2>7, <2>8
<1> QED  BY <1>6, <1>7

-----------------------------------------------------------------------------
(* The blocks near the head are pushed: the fork database follows.          *)

\* The fork database holds some of the first i blocks of d, the last of them
\* at its head.
Seated(d, f, i) ==
    /\ f.index \subseteq {d[j].blk : j \in 1 .. i}
    /\ i = 0 => f.head = NoHead
    /\ i > 0 => f.head # NoHead /\ f.head.blk = d[i].blk /\ d[i].blk \in f.index

\* The node has come to block i of d with nothing pending, or stopped behind d.
Going(d, n, i) ==
    \/ i <= Len(d) /\ ~ n.thrown /\ n.chain = Part(d, i) /\ n.pending = <<>> /\ Seated(d, n.fork, i)
    \/ n.thrown /\ n.chain = d /\ Len(d) < LastLogged

\* Taking the next block of d.
LEMMA NextSeated ==
    ASSUME NEW d \in Chains, ValidChain(d), NEW i \in Nat, i < Len(d), NEW f \in Forks, Seated(d, f, i),
           NEW b \in Blocks, b = d[i + 1].blk, NEW x \in Nat
    PROVE  /\ CanPush(f, b) /\ push_block(f, b) \in Forks /\ push_block(f, b).head.blk = b
           /\ Seated(d, set_max_size(push_block(f, b), x), i + 1)
<1>1. PICK k \in Nat : k = Len(d) /\ i < k /\ i + 1 \in 1 .. k
  BY DEF Chains
<1>2. Num(b) = i + 1 /\ Prev[b] = IF i + 1 = 1 THEN Genesis ELSE d[(i + 1) - 1].blk
  BY <1>1 DEF ValidChain, ValidAt
<1>3. (i + 1) - 1 = i /\ (i + 1 = 1 <=> i = 0)
  OBVIOUS
<1>4. Prev[b] = IF i = 0 THEN Genesis ELSE d[i].blk
  BY ONLY <1>2, <1>3
<1>5. ASSUME i > 0 PROVE f.head # NoHead /\ d[i].blk \in f.index /\ HeadNum(f) = i
  <2>1. i \in 1 .. k
    BY <1>1, <1>5
  <2>2. Num(d[i].blk) = i
    BY <1>1, <2>1 DEF ValidChain, ValidAt
  <2> QED  BY <1>5, <2>2 DEF Seated, HeadNum
<1>6. i = 0 => f.head = NoHead
  BY DEF Seated
<1>7. CanPush(f, b) /\ Better(f, b)
  <2>1. CASE i = 0
    BY <1>6, <2>1 DEF CanPush, TooOld, Unlinkable, Better
  <2>2. CASE i > 0
    <3>1. PICK z \in Nat : z = f.max_size
      BY ForkParts
    <3>2. i - z \in Int /\ i - z <= i
      OBVIOUS
    <3>3. Max({0, i - z}) = IF 0 <= i - z THEN i - z ELSE 0
      BY <3>2, MaxOfTwo
    <3>4. ~ (i + 1 <= Max({0, i - z}))
      BY <3>2, <3>3
    <3>5. ~ TooOld(f, b)
      BY <1>2, <1>5, <2>2, <3>1, <3>4 DEF TooOld
    <3>6. ~ Unlinkable(f, b)
      BY <1>4, <1>5, <2>2 DEF Unlinkable
    <3>7. i + 1 > i
      OBVIOUS
    <3> QED  BY <1>2, <1>5, <2>2, <3>5, <3>6, <3>7 DEF CanPush, Better
  <2> QED  BY <2>1, <2>2
<1>8. PICK g \in Forks : /\ g = push_block(f, b) /\ g.head # NoHead /\ g.head.blk = b
                         /\ b \in g.index /\ g.index \subseteq f.index \cup {b}
  BY <1>7, PushType
<1>9. PICK y \in Int : y = Max({0, HeadNum(g) - x}) /\ i + 1 >= y
  <2>1. HeadNum(g) = i + 1
    BY <1>2, <1>8 DEF HeadNum
  <2>2. PICK z \in Int : z = (i + 1) - x /\ z <= i + 1
    OBVIOUS
  <2>3. Max({0, z}) = IF 0 <= z THEN z ELSE 0
    BY MaxOfTwo
  <2>4. Max({0, z}) \in Int /\ i + 1 >= Max({0, z})
    BY <2>2, <2>3
  <2> QED  BY <2>1, <2>2, <2>4
<1>10. PICK h : h = set_max_size(g, x) /\ h.head # NoHead /\ h.head.blk = b /\ h.index = {c \in g.index : Num(c) >= y}
  BY <1>8, <1>9, MaxSizeType
<1>11. b \in h.index
  BY <1>2, <1>8, <1>9, <1>10
<1>12. h.index \subseteq {d[j].blk : j \in 1 .. i + 1}
  <2>1. f.index \subseteq {d[j].blk : j \in 1 .. i}
    BY DEF Seated
  <2>2. \A j \in 1 .. i : j \in 1 .. i + 1
    OBVIOUS
  <2>3. i + 1 \in 1 .. i + 1
    OBVIOUS
  <2> QED  BY <1>8, <1>10, <2>1, <2>2, <2>3
<1>13. Seated(d, h, i + 1)
  <2>1. i + 1 # 0
    OBVIOUS
  <2> QED  BY <1>10, <1>11, <1>12, <2>1 DEF Seated
<1> QED  BY <1>7, <1>8, <1>10, <1>13

\* The first block of the log that does not follow d.
LEMMA NextStray ==
    ASSUME NEW d \in Chains, ValidChain(d), NEW i \in Nat, i = Len(d), i > 0, NEW f, Seated(d, f, i),
           NEW b \in Blocks, Num(b) = i + 1, Prev[b] # d[i].blk
    PROVE  ~ CanPush(f, b)
<1>1. f.head # NoHead
  BY DEF Seated
<1>2. Num(Prev[b]) = i
  <2>1. PICK p : p = Num(Prev[b])
    OBVIOUS
  <2>2. Prev[b] \in Blocks \cup {Genesis}
    BY PrevAssumption
  <2>3. p \in Nat
    BY <2>1, <2>2, NumType
  <2>4. Num(b) = p + 1
    BY <2>1, NumType
  <2> QED  BY <2>1, <2>3, <2>4
<1>3. Prev[b] # Genesis
  BY <1>2, NumType
<1>4. ASSUME NEW j \in 1 .. i, Prev[b] = d[j].blk PROVE FALSE
  <2>1. Num(d[j].blk) = j
    BY DEF ValidChain, ValidAt
  <2>2. j = i
    BY <1>2, <1>4, <2>1
  <2> QED  BY <1>4, <2>2
<1>5. Prev[b] \notin f.index
  BY <1>4 DEF Seated
<1> QED  BY <1>1, <1>3, <1>5 DEF CanPush, Unlinkable

\* Pushing one more block of the log.
LEMMA PushExact ==
    ASSUME log \in Logs, NEW d \in Chains, Longest(d), NEW l \in Logs, NEW h \in Nat, NEW n \in Rest(l, h),
           NEW i \in Nat, i < LastLogged, Going(d, n, i)
    PROVE  Going(d, PushStep(n, log[i + 1]), i + 1)
<1>1. n \in Nodes /\ n \in Work(l, h) /\ n.popped = <<>> /\ ValidChain(n.chain)
  BY RestParts, WorkParts
<1>2. CASE n.thrown
  BY <1>2 DEF PushStep, Going
<1>3. CASE ~ n.thrown
  <2>1. i <= Len(d) /\ n.chain = Part(d, i) /\ n.pending = <<>> /\ Seated(d, n.fork, i) /\ ValidChain(d)
    BY <1>3 DEF Going, Longest
  <2>2. PICK b \in Blocks : /\ b = log[i + 1] /\ Num(b) = i + 1
                            /\ i < Len(d) => b = d[i + 1].blk
                            /\ i = Len(d) => n.chain = d /\ i > 0 /\ Prev[b] # head_block_id(n)
                            /\ i > 0 => head_block_id(n) = d[i].blk
    BY <1>1, <2>1, NextLogged
  <2>3. PICK x \in Bare(l, h) : x = [n EXCEPT !.pending = <<>>, !.session = FALSE]
    BY <1>1, CleanBare
  <2>4. /\ x \in Nodes /\ x.chain = n.chain /\ x.fork = n.fork /\ x.thrown = n.thrown /\ x.popped = <<>>
        /\ x.pending = <<>>
    BY <1>1, <2>3, BareParts DEF Nodes
  <2>5. PICK y \in Bare(l, h) : y = DoPushBlock(x, b)
    BY PushBare
  <2>6. y \in Nodes /\ y.pending = <<>>
    BY BareParts
  <2>7. PICK r : r = [y EXCEPT !.popped = <<>>]
    OBVIOUS
  <2>8. ASSUME y.popped = <<>> PROVE PushStep(n, log[i + 1]) = r
    <3>1. Waiting(y, n.pending) = <<>>
      BY <2>1, <2>8 DEF Waiting
    <3>2. PushBlockOn(n, b) = Restore(r, <<>>)
      BY <2>3, <2>5, <2>7, <3>1 DEF PushBlockOn, Resume
    <3> QED  BY <1>3, <2>2, <3>2, RestoreNone DEF PushStep
  <2>9. r.chain = y.chain /\ r.thrown = y.thrown /\ r.fork = y.fork /\ r.pending = <<>>
    BY <2>6, <2>7 DEF Nodes
  <2>10. PICK k \in Nat : k = Len(d)
    BY DEF Chains
  <2>11. x.fork \in Forks
    BY <2>4, NodeParts
  <2>12. CASE i < k
    <3>1. b = d[i + 1].blk
      BY <2>2, <2>10, <2>12
    <3>2. PICK f \in Forks : f = push_block(x.fork, b) /\ f.head.blk = b /\ CanPush(x.fork, b)
      <4>1. Seated(d, x.fork, i)
        BY <2>1, <2>4
      <4>2. PICK z \in Nat : z = 0
        OBVIOUS
      <4>3. /\ CanPush(x.fork, b) /\ push_block(x.fork, b) \in Forks /\ push_block(x.fork, b).head.blk = b
        BY <2>1, <2>10, <2>11, <2>12, <3>1, <4>1, <4>2, NextSeated
      <4> QED  BY ONLY <4>3
    <3>3. PICK w \in Bare(l, h) : w = [x EXCEPT !.fork = f]
      BY FlagsBare
    <3>4. w \in Nodes /\ w.chain = n.chain /\ w.fork = f /\ ~ w.thrown /\ w.popped = <<>> /\ ValidChain(w.chain)
      <4>1. w.chain = x.chain /\ w.fork = f /\ w.thrown = x.thrown /\ w.popped = x.popped
        BY <2>4, <3>3 DEF Nodes
      <4> QED  BY <1>1, <1>3, <2>4, <4>1, BareParts
    <3>5. y = FollowHead(w, b, b)
      BY <2>5, <3>2, <3>3 DEF DoPushBlock
    <3>6. CanApply(w, b) /\ Prev[b] = head_block_id(w) /\ ApplyBlock(w, b).chain = Part(d, i + 1)
      <4>1. w.chain = Part(d, i) /\ i < Len(d)
        BY <2>1, <2>10, <2>12, <3>4
      <4> QED  BY ONLY <2>1, <3>1, <3>4, <4>1, h \in Nat, w \in Bare(l, h), d \in Chains, i \in Nat, ApplyExact
    <3>7. PICK a : a = ApplyBlock(w, b)
      OBVIOUS
    <3>8. a.fork = set_max_size(f, HistorySize(w, b)) /\ ~ a.thrown /\ a.popped = <<>>
      <4>1. /\ ApplyBlock(w, b).fork = set_max_size(w.fork, HistorySize(w, b))
            /\ ApplyBlock(w, b).thrown = w.thrown /\ ApplyBlock(w, b).popped = w.popped
        BY ONLY <3>4, <3>6, h \in Nat, w \in Bare(l, h), b \in Blocks, ApplyDone
      <4> QED  BY ONLY <3>4, <3>7, <4>1
    <3>9. y = a
      BY <3>5, <3>6, <3>7, <3>8 DEF FollowHead, Appended
    <3>10. Seated(d, a.fork, i + 1)
      <4>1. PICK z \in Nat : z = HistorySize(w, b)
        <5>1. HistorySize(w, b) \in Nat
          BY <3>4, <3>6, NextNum
        <5> QED  BY ONLY <5>1
      <4>2. PICK g \in Forks : g = x.fork /\ Seated(d, g, i)
        BY <2>1, <2>4, <2>11
      <4>3. Seated(d, set_max_size(push_block(g, b), z), i + 1)
        BY <2>1, <2>10, <2>12, <3>1, <4>2, NextSeated
      <4> QED  BY ONLY <3>2, <3>8, <4>1, <4>2, <4>3
    <3>11. i + 1 <= Len(d)
      BY <2>10, <2>12
    <3>12. PushStep(n, log[i + 1]) = r
      BY <2>8, <3>8, <3>9
    <3>13. ~ r.thrown /\ r.chain = Part(d, i + 1) /\ r.pending = <<>> /\ Seated(d, r.fork, i + 1)
      BY <2>9, <3>6, <3>7, <3>8, <3>9, <3>10
    <3> QED  BY <3>11, <3>12, <3>13 DEF Going
  <2>13. CASE i = k
    <3>1. n.chain = d /\ i > 0 /\ Prev[b] # d[i].blk
      BY <2>2, <2>10, <2>13
    <3>2. ~ CanPush(x.fork, b)
      <4>1. Seated(d, x.fork, i) /\ i = Len(d)
        BY <2>1, <2>4, <2>10, <2>13
      <4> QED  BY <2>1, <2>2, <3>1, <4>1, NextStray
    <3>3. y = Throw(x)
      BY <2>5, <3>2 DEF DoPushBlock
    <3>4. y.thrown = TRUE /\ y.chain = d /\ y.popped = <<>>
      BY <2>4, <3>1, <3>3 DEF Throw, Nodes
    <3>5. Len(d) < LastLogged
      BY <2>10, <2>13
    <3>6. PushStep(n, log[i + 1]) = r
      BY <2>8, <3>4
    <3> QED  BY <2>9, <3>4, <3>5, <3>6 DEF Going
  <2> QED  BY <2>1, <2>10, <2>12, <2>13
<1> QED  BY <1>2, <1>3

\* start_block makes a fork database of one block out of an empty one.
LEMMA StartSeated ==
    ASSUME NEW d, NEW k \in Nat \ {0}, NEW f \in Forks, Idle(f), NEW b \in Blocks, b = d[k].blk
    PROVE  Seated(d, start_block(f, b), k)
<1>1. PICK t \in Items : t = Item(b, TRUE, FALSE) /\ t.blk = b /\ t.linked = FALSE
  BY ItemType
<1>2. PICK i \in SUBSET Blocks : i = f.index \cup {b} /\ i = {b}
  BY DEF Idle
<1> DEFINE g == [index |-> i, linked |-> f.linked, head |-> t, max_size |-> f.max_size]
<1>3. g \in Loose
  <2>1. t # NoHead /\ t.linked => Prev[t.blk] \in Blocks
    BY <1>1
  <2> QED  BY <1>2, <2>1, ForkParts, LooseMade
<1>4. start_block(f, b) = Settle(g)
  <2>1. Item(b, b \notin f.index, FALSE) = t
    BY <1>1 DEF Idle, Item
  <2>2. \A x, y : [f EXCEPT !.index = x, !.head = y] = [index |-> x, linked |-> f.linked, head |-> y, max_size |-> f.max_size]
    BY ForkParts
  <2>3. [f EXCEPT !.index = i, !.head = t] = g
    BY ONLY <2>2, Zenon
  <2>4. start_block(f, b) = Settle([f EXCEPT !.index = i, !.head = t])
    BY <1>2, <2>1 DEF start_block
  <2> QED  BY <2>3, <2>4
<1>5. g.head = t /\ g.index = i /\ t # NoHead
  BY PrevAssumption DEF Items
<1> HIDE DEF g
<1>6. PICK s : s = start_block(f, b) /\ s.index = {b} /\ s.head # NoHead /\ s.head.blk = b
  BY <1>1, <1>2, <1>3, <1>4, <1>5, SettleType
<1>7. k \in 1 .. k
  OBVIOUS
<1>8. s.index \subseteq {d[j].blk : j \in 1 .. k} /\ d[k].blk \in s.index
  BY <1>6, <1>7
<1>9. k # 0
  OBVIOUS
<1>10. Seated(d, s, k)
  BY <1>6, <1>8, <1>9 DEF Seated
<1> QED  BY ONLY <1>6, <1>10

\* The last phase of reindex, on what the replay left.
LEMMA PushLoggedExact ==
    ASSUME log \in Logs, NEW d \in Chains, Longest(d), NEW h \in Nat, NEW n \in Loading(log, h),
           NEW j \in 0 .. LastLogged, Loaded(d, n, j), ~ n.thrown => Idle(n.fork)
    PROVE  Going(d, PushLogged(n), LastLogged)
<1>0. PICK l \in Logs : l = log
  OBVIOUS
<1>1. /\ n \in Nodes /\ n.undo = 0 /\ n.stored = <<>> /\ n.popped = <<>> /\ n.pending = <<>>
      /\ h <= Len(n.chain) /\ ValidChain(n.chain) /\ n.chain \in Chains
  BY LoadingParts
<1>2. Matches(l, n.chain) /\ Matches(log, n.chain)
  BY <1>0, LoadingParts
<1>3. n \in Bare(l, h)
  BY <1>1, <1>2, LoadingMade
<1>4. PICK k \in Nat : k = head_block_num(n) /\ k = Len(n.chain)
  BY <1>1, HeadIs
<1>5. PICK e \in Nat : e = LastLogged /\ k <= e
  BY <1>1, <1>2, <1>4, WithinLog
<1>6. PICK start : /\ start = IF k > 0 THEN [n EXCEPT !.fork = start_block(@, log[k])] ELSE n
                   /\ start \in Rest(l, h) /\ Going(d, start, k)
  <2>1. CASE k = 0
    <3>1. n \in Rest(l, h)
      BY <1>1, <1>3, BareParts DEF Rest
    <3>2. Going(d, n, k)
      <4>1. CASE n.thrown
        BY <4>1 DEF Loaded, Going
      <4>2. CASE ~ n.thrown
        <5>1. j <= Len(d) /\ n.chain = Part(d, j) /\ Idle(n.fork)
          BY <4>2 DEF Loaded
        <5>2. j \in 0 .. Len(d) /\ Len(d) \in Nat
          BY <1>5, <5>1 DEF Chains
        <5>3. j = k
          BY <1>4, <5>1, <5>2, PartType
        <5>4. Seated(d, n.fork, k)
          BY <2>1, <5>1 DEF Seated, Idle
        <5> QED  BY <1>1, <4>2, <5>1, <5>3, <5>4 DEF Going
      <4> QED  BY <4>1, <4>2
    <3> QED  BY <2>1, <3>1, <3>2
  <2>2. CASE k > 0
    <3>1. k \in 1 .. Len(n.chain)
      BY <1>4, <2>2
    <3>2. log[k] = n.chain[k].blk /\ n.chain[k] \in Entries
      BY <1>1, <1>2, <3>1 DEF Matches, Chains
    <3>3. PICK b \in Blocks : b = log[k]
      BY <3>2 DEF Entries
    <3>4. PICK f \in Forks : f = start_block(n.fork, b)
      BY <1>1, NodeParts, HeadOps
    <3>5. PICK x \in Bare(l, h) : x = [n EXCEPT !.fork = f]
      BY <1>3, FlagsBare
    <3>6. x.popped = <<>> /\ x.chain = n.chain /\ x.thrown = n.thrown /\ x.fork = f /\ x.pending = <<>>
      BY <1>1, <3>5 DEF Nodes
    <3>7. x \in Rest(l, h)
      BY <3>6, BareParts DEF Rest
    <3>8. Going(d, x, k)
      <4>1. CASE n.thrown
        BY <3>6, <4>1 DEF Loaded, Going
      <4>2. CASE ~ n.thrown
        <5>1. j <= Len(d) /\ n.chain = Part(d, j) /\ Idle(n.fork)
          BY <4>2 DEF Loaded
        <5>2. j \in 0 .. Len(d) /\ Len(d) \in Nat
          BY <1>5, <5>1 DEF Chains
        <5>3. j = k /\ Agree(n.chain, d, j)
          BY <1>4, <5>1, <5>2, PartType
        <5>4. b = d[k].blk
          BY <1>4, <3>1, <3>2, <3>3, <5>3 DEF Agree
        <5>5. Seated(d, f, k)
          <6>1. k \in Nat \ {0} /\ n.fork \in Forks
            BY <1>1, <2>2, NodeParts
          <6> QED  BY <3>4, <5>1, <5>4, <6>1, StartSeated
        <5> QED  BY <3>6, <4>2, <5>1, <5>3, <5>5 DEF Going
      <4> QED  BY <4>1, <4>2
    <3> QED  BY <2>2, <3>3, <3>4, <3>5, <3>7, <3>8
  <2> QED  BY <2>1, <2>2
<1>7. PICK q \in Nat, s \in Seq(Blocks) : /\ s = Logged(k + 1, LastLogged) /\ q = Len(s) /\ k + q = e
                                          /\ \A p \in 1 .. q : s[p] = log[k + p]
  <2>1. PICK a \in Nat \ {0} : a = k + 1
    OBVIOUS
  <2>2. e \in Int /\ e <= LastLogged
    BY <1>5
  <2>3. PICK s : /\ s = Logged(a, e) /\ s \in BlockSeqs /\ Len(s) = (IF a <= e THEN (e - a) + 1 ELSE 0)
                 /\ \A p \in 1 .. (e - a) + 1 : s[p] = log[(a + p) - 1]
    BY <2>2, LoggedType
  <2>4. PICK q \in Nat : q = e - k /\ (e - a) + 1 = q /\ (IF a <= e THEN (e - a) + 1 ELSE 0) = q /\ k + q = e
    BY <1>5, <2>1
  <2>5. \A p \in 1 .. q : (a + p) - 1 = k + p
    BY <2>1
  <2>6. \A p \in 1 .. q : s[p] = log[k + p]
    BY <2>3, <2>4, <2>5
  <2>7. s \in Seq(Blocks) /\ Len(s) = q /\ s = Logged(k + 1, LastLogged)
    BY <1>5, <2>1, <2>3, <2>4 DEF BlockSeqs
  <2> QED  BY ONLY <2>4, <2>6, <2>7, q \in Nat
<1>8. PushLogged(n) = Pushes!Fold(start, s)
  <2>1. PushLogged(n) = FoldLeft(PushStep, IF head_block_num(n) > 0 THEN [n EXCEPT !.fork = start_block(@, log[head_block_num(n)])] ELSE n,
                                 Logged(head_block_num(n) + 1, LastLogged))
    BY DEF PushLogged, PushStep
  <2>2. PushLogged(n) = FoldLeft(PushStep, start, s)
    BY ONLY <1>4, <1>6, <1>7, <2>1
  <2> QED  BY ONLY <2>2 DEF Pushes!Fold, FoldLeft, Pushes!MapThenFoldSet, MapThenFoldSet, Max, Pushes!Largest
<1>9. PICK V : V = Rest(l, h) /\ start \in V
  BY <1>6
<1>10. Pushes!Closed(V, Blocks)
  <2> SUFFICES ASSUME NEW x \in Rest(l, h), NEW b \in Blocks PROVE PushStep(x, b) \in Rest(l, h)
    BY <1>9 DEF Pushes!Closed
  <2>1. x \in Nodes /\ x \in Work(l, h)
    BY RestParts
  <2>2. PushBlockOn(x, b) \in Rest(l, h)
    BY <2>1, CleanBare, PushOnRest
  <2> QED  BY <2>2 DEF PushStep
<1>11. PICK g \in [0 .. Len(s) -> V] : Pushes!FoldsTo(g, start, s) /\ Pushes!Fold(start, s) = g[Len(s)]
  BY ONLY <1>9, <1>10, s \in Seq(Blocks), Pushes!FoldSteps
<1> DEFINE N == {p \in Nat : p <= q => Going(d, g[p], k + p)}
<1>12. 0 \in N
  <2>1. g[0] = start /\ k + 0 = k
    BY <1>11 DEF Pushes!FoldsTo
  <2> QED  BY <1>6, <2>1
<1>13. ASSUME NEW p \in N PROVE p + 1 \in N
  <2> SUFFICES ASSUME p + 1 <= q PROVE Going(d, g[p + 1], k + (p + 1))
    OBVIOUS
  <2>1. PICK i \in Nat : i = k + p /\ i < e /\ i + 1 = k + (p + 1) /\ p \in 0 .. q /\ p + 1 \in 1 .. q /\ (p + 1) - 1 = p
    <3>1. p \in Nat /\ k + p \in Nat
      OBVIOUS
    <3> QED  BY ONLY <1>7, <3>1, p + 1 <= q, k \in Nat, q \in Nat, e \in Nat
  <2>2. PICK x \in Rest(l, h) : x = g[p] /\ Going(d, x, i)
    BY <1>7, <1>9, <2>1
  <2>3. g[p + 1] = PushStep(x, log[i + 1])
    <3>1. \A z \in 1 .. Len(s) : g[z] = PushStep(g[z - 1], s[z])
      BY <1>11 DEF Pushes!FoldsTo
    <3>2. g[p + 1] = PushStep(g[p], s[p + 1])
      BY <1>7, <2>1, <3>1
    <3>3. s[p + 1] = log[i + 1]
      BY <1>7, <2>1
    <3> QED  BY <2>2, <3>2, <3>3
  <2>4. Going(d, PushStep(x, log[i + 1]), i + 1)
    BY <1>5, <2>1, <2>2, PushExact
  <2> QED  BY <2>1, <2>3, <2>4
<1>14. N = Nat
  <2>1. N \in SUBSET Nat
    OBVIOUS
  <2> HIDE DEF N
  <2> QED  BY <1>12, <1>13, <2>1, NatSetInduction
<1>15. Going(d, g[q], k + q)
  BY <1>14
<1> QED  BY ONLY <1>5, <1>7, <1>8, <1>11, <1>15

\* Whatever valid chain is found on disk, opening ends with the longest valid
\* chain in the log, and fails only if the log goes beyond it.
LEMMA ReopenExact ==
    ASSUME log \in Logs, NEW d \in Chains, Longest(d), NEW c \in Chains, ValidChain(c), Matches(log, c)
    PROVE  Reopen(c).chain = d /\ (Len(d) = LastLogged => Reopen(c).up)
<1>1. PICK k \in Nat, i \in Nat, e \in Nat : k = Len(d) /\ i = Len(c) /\ e = LastLogged /\ i <= k /\ k <= e
  <2>1. ValidChain(d) /\ Matches(log, d)
    BY DEF Longest
  <2> QED  BY <2>1, LongestBegins, WithinLog
<1>2. c = Part(d, i)
  BY <1>1, LongestBegins
<1>3. Part(d, k) = d
  <2>1. Agree(d, d, k)
    BY DEF Agree
  <2> QED  BY <1>1, <2>1, PartIs
<1>4. PICK n : n = [Open EXCEPT !.chain = c]
  OBVIOUS
<1>5. n \in Loading(log, i) /\ n.chain = c /\ n.thrown = FALSE
  BY <1>1, <1>4, OpenLoads
<1>6. n.up = TRUE /\ Idle(n.fork)
  BY <1>4 DEF Open, reset, Idle
<1>7. Reopen(c) = IF LastLogged <= Len(c) THEN n ELSE Opened(PushLogged(ReplayTo(n, LastLogged - MaxUndoHistory)))
  BY <1>4 DEF Reopen
<1>8. CASE e <= i
  <2>1. i = k
    BY <1>1, <1>8
  <2> QED  BY <1>1, <1>2, <1>3, <1>5, <1>6, <1>7, <1>8, <2>1
<1>9. CASE ~ (e <= i)
  <2>1. PICK t \in Int : t = LastLogged - MaxUndoHistory /\ t <= LastLogged
    <3>1. PICK x \in Nat : x = MaxUndoHistory
      BY ChainAssumption
    <3>2. e - x \in Int /\ e - x <= e
      OBVIOUS
    <3> QED  BY ONLY <1>1, <3>1, <3>2
  <2>2. Loaded(d, n, Len(n.chain))
    BY <1>1, <1>2, <1>5 DEF Loaded
  <2>3. PICK r \in Loading(log, i) : r = ReplayTo(n, t)
    BY <1>5, <2>1, ReplayToLoads
  <2>4. PICK j \in 0 .. LastLogged : Loaded(d, r, j) /\ (~ r.thrown => Idle(r.fork))
    <3>1. \E z \in 0 .. LastLogged : Loaded(d, ReplayTo(n, t), z) /\ (~ ReplayTo(n, t).thrown => Idle(ReplayTo(n, t).fork))
      BY <1>5, <1>6, <2>1, <2>2, ReplayToExact
    <3> QED  BY ONLY <2>3, <3>1
  <2>5. PICK y \in Rest(log, i) : y = PushLogged(r)
    BY PushLoggedRest
  <2>6. Going(d, y, e)
    BY <1>1, <2>4, <2>5, PushLoggedExact
  <2>7. y.chain = d /\ (k = e => ~ y.thrown)
    BY <1>1, <1>3, <2>6 DEF Going
  <2>8. Reopen(c) = Opened(y)
    BY <1>1, <1>7, <1>9, <2>1, <2>3, <2>5
  <2>9. Opened(y).chain = y.chain /\ Opened(y).up = ~ y.thrown
    BY RestParts DEF Opened, Nodes
  <2> QED  BY <1>1, <2>7, <2>8, <2>9
<1> QED  BY <1>8, <1>9

\* A longest chain that the log goes beyond is one that the log does not follow.
LEMMA LogStops ==
    ASSUME log \in Logs, NEW d \in Chains, Longest(d), LogGoesOn, Len(node.chain) \in Nat, Len(node.chain) <= Len(d)
    PROVE  Len(d) = LastLogged
<1>1. ValidChain(d) /\ Matches(log, d)
  BY DEF Longest
<1>2. PICK k \in Nat, e \in Nat, m \in Nat : k = Len(d) /\ e = LastLogged /\ k <= e /\ m = Len(node.chain) /\ m <= k
  BY <1>1, WithinLog
<1>3. ASSUME k < e PROVE FALSE
  <2>1. Prev[log[k + 1]] # (IF k = 0 THEN Genesis ELSE d[k].blk) /\ k > 0
    BY <1>2, <1>3, NoNext
  <2>2. k + 1 \in m + 1 .. e /\ k + 1 # 1 /\ (k + 1) - 1 = k /\ k \in 1 .. k
    BY <1>2, <1>3, <2>1
  <2>3. Prev[log[k + 1]] = log[k]
    BY <1>2, <2>2 DEF LogGoesOn
  <2>4. log[k] = d[k].blk
    BY <1>1, <1>2, <2>2 DEF Matches
  <2> QED  BY <2>1, <2>3, <2>4
<1> QED  BY <1>2, <1>3

\* Whichever chain is on disk - that of the last flush, that of close(), none -
\* opening brings back at least the applied chain, and it works unless blocks of
\* a failed switch lie in the log behind it (close, open, reindex).
THEOREM RestartBringsBack == Spec => []RestartKeepsChain
<1>1. Init => ChainInv
  BY InitInv
<1>2. ChainInv /\ [Next]_vars => ChainInv'
  BY StepInv
<1>3. ChainInv => RestartKeepsChain
  <2> SUFFICES ASSUME ChainInv, NEW c \in OnDisk
               PROVE  IsPrefix(node.chain, Reopen(c).chain) /\ (Reopen(c).up \/ ~ LogGoesOn)
    BY DEF RestartKeepsChain
  <2>1. /\ node \in Nodes /\ ValidChain(node.chain) /\ log \in Logs /\ Matches(log, node.chain)
        /\ flushed \in Chains /\ ValidChain(flushed) /\ Matches(log, flushed)
    BY DEF ChainInv
  <2>2. node.chain \in Chains
    BY <2>1, NodeParts
  <2>3. c \in Chains /\ ValidChain(c) /\ Matches(log, c)
    <3>1. CASE c = flushed
      BY <2>1, <3>1
    <3>2. CASE c = Rewind(Running).chain
      BY <3>2, RewindChain
    <3>3. CASE c = <<>>
      <4>1. Matches(log, <<>>)
        BY DEF Matches
      <4> QED  BY <3>3, <4>1, ValidNone
    <3> QED  BY <3>1, <3>2, <3>3 DEF OnDisk
  <2>4. PICK d \in Chains : Longest(d)
    BY <2>1, LongestExists
  <2>5. IsPrefix(node.chain, d) /\ Len(node.chain) \in Nat /\ Len(node.chain) <= Len(d)
    BY <2>1, <2>2, <2>4, LongestBegins
  <2>6. Reopen(c).chain = d /\ (Len(d) = LastLogged => Reopen(c).up)
    BY <2>1, <2>3, <2>4, ReopenExact
  <2>7. LogGoesOn => Len(d) = LastLogged
    BY <2>1, <2>4, <2>5, LogStops
  <2> QED  BY <2>5, <2>6, <2>7
<1> QED  BY <1>1, <1>2, <1>3, PTL DEF Spec

\* Two branches meet at a number that both have.
LEMMA BranchEndType ==
    ASSUME NEW x \in Blocks, NEW y \in Blocks
    PROVE  BranchEnd(x, y) \in Nat \ {0} /\ BranchEnd(x, y) <= Num(x) /\ BranchEnd(x, y) <= Num(y)
<1>1. PICK i \in Nat, j \in Nat : i = Num(x) /\ j = Num(y) /\ i > 0 /\ j > 0
  BY NumType
<1>2. PICK m \in Nat : m = Min({i, j}) /\ m <= i /\ m <= j /\ m > 0
  BY <1>1, MinOfTwo
<1> DEFINE D == {n \in 1 .. m : Prev[AtNum(x, n)] = Prev[AtNum(y, n)]}
<1>3. 1 \in D
  <2>1. AtNum(x, 1) = Path[x][i] /\ AtNum(y, 1) = Path[y][j]
    BY <1>1 DEF AtNum
  <2>2. Prev[AtNum(x, 1)] = Genesis /\ Prev[AtNum(y, 1)] = Genesis
    BY <1>1, <2>1, NumType, PathEnds
  <2> QED  BY <1>2, <2>2
<1>4. D \in SUBSET (0 .. m) /\ D # {}
  BY <1>3
<1>5. BranchEnd(x, y) = Max(D)
  BY <1>1, <1>2 DEF BranchEnd
<1>6. Max(D) \in 1 .. m
  <2> HIDE DEF D
  <2>1. Max(D) \in D
    BY <1>4, MaxIn
  <2> QED  BY <2>1 DEF D
<1> QED  BY <1>1, <1>2, <1>5, <1>6

-----------------------------------------------------------------------------
(* A switch that fails applies the former branch again. *)

\* The path of a block in a valid chain is that chain, from there down.
LEMMA PathInChain ==
    ASSUME NEW c \in Chains, ValidChain(c)
    PROVE  \A k \in 1 .. Len(c) : \A i \in 1 .. k : Path[c[k].blk][i] = c[(k - i) + 1].blk
<1>1. PICK m \in Nat : m = Len(c) /\ \A k \in 1 .. m : c[k].blk \in Blocks
  <2>1. \A k \in 1 .. Len(c) : c[k] \in Entries
    BY DEF Chains
  <2>2. Len(c) \in Nat
    BY DEF Chains
  <2>3. \A k \in 1 .. Len(c) : c[k].blk \in Blocks
    BY <2>1 DEF Entries
  <2> QED  BY <2>2, <2>3
<1> DEFINE Down(k) == \A i \in 1 .. k : Path[c[k].blk][i] = c[(k - i) + 1].blk
           N == {k \in Nat : k <= m => Down(k)}
<1>2. 0 \in N
  BY Zenon, SMT
<1>3. ASSUME NEW k \in N PROVE k + 1 \in N
  <2> SUFFICES ASSUME k + 1 <= m PROVE Down(k + 1)
    OBVIOUS
  <2>1. PICK j \in 1 .. m : j = k + 1
    OBVIOUS
  <2>2. PICK b \in Blocks : b = c[j].blk
    BY <1>1
  <2>3. Prev[b] = IF j = 1 THEN Genesis ELSE c[j - 1].blk
    BY <1>1, <2>2 DEF ValidChain, ValidAt
  <2>4. PICK o \in Seq(Blocks) : o = <<b>> /\ Len(o) = 1 /\ o[1] = b
    BY SeqOne
  <2>5. CASE k = 0
    <3>1. Path[b] = o
      BY <2>1, <2>3, <2>4, <2>5, PathDef DEF PathOn
    <3> SUFFICES ASSUME NEW i \in 1 .. j PROVE Path[c[j].blk][i] = c[(j - i) + 1].blk
      BY <2>1
    <3>2. i = 1 /\ (j - i) + 1 = j
      BY <2>1, <2>5
    <3> QED  BY <2>2, <2>4, <3>1, <3>2
  <2>6. CASE k > 0
    <3>1. j # 1 /\ j - 1 = k /\ k \in 1 .. m /\ k <= m
      BY <2>1, <2>6
    <3>2. PICK a \in Blocks : a = c[k].blk /\ a = Prev[b] /\ a # Genesis
      BY <1>1, <2>3, <3>1, PrevAssumption
    <3>3. PICK p \in Seq(Blocks) : p = Path[a] /\ Len(p) = k
      <4>1. Num(a) = k
        BY <1>1, <3>1, <3>2 DEF ValidChain, ValidAt
      <4> QED  BY <4>1, NumType, PathDef DEF BlockSeqs
    <3>4. Path[b] = o \o p
      BY <2>4, <3>2, <3>3, PathDef DEF PathOn
    <3>5. \A i \in 1 .. k : p[i] = c[(k - i) + 1].blk
      BY <3>1, <3>2, <3>3
    <3>6. \A i \in 1 .. Len(o) + Len(p) : (o \o p)[i] = IF i <= Len(o) THEN o[i] ELSE p[i - Len(o)]
      BY ConcatProperties
    <3>7. \A i \in 1 .. 1 + k : (o \o p)[i] = IF i <= 1 THEN o[i] ELSE p[i - 1]
      BY ONLY <2>4, <3>3, <3>6
    <3> SUFFICES ASSUME NEW i \in 1 .. j PROVE (o \o p)[i] = c[(j - i) + 1].blk
      BY <2>1, <2>2, <3>4
    <3>8. i \in 1 .. 1 + k
      BY <2>1
    <3>9. CASE i = 1
      <4>1. (j - i) + 1 = j
        BY <3>9
      <4> QED  BY <2>2, <2>4, <3>7, <3>8, <3>9, <4>1
    <3>10. CASE i # 1
      <4>1. PICK r \in 1 .. k : r = i - 1 /\ ~ (i <= 1) /\ (k - r) + 1 = (j - i) + 1
        BY <2>1, <3>8, <3>10
      <4>2. p[r] = c[(j - i) + 1].blk
        BY <3>5, <4>1
      <4> QED  BY <3>7, <3>8, <4>1, <4>2
    <3> QED  BY <3>9, <3>10
  <2> QED  BY <2>5, <2>6
<1>4. N = Nat
  <2>1. N \in SUBSET Nat
    OBVIOUS
  <2> HIDE DEF N
  <2> QED  BY <1>2, <1>3, <2>1, NatSetInduction
<1> SUFFICES ASSUME NEW k \in 1 .. m PROVE Down(k)
  BY <1>1
<1>5. k \in N /\ k <= m
  BY <1>4
<1> QED  BY <1>5

\* A branch, oldest block first.
LEMMA BranchUp ==
    ASSUME NEW b \in Blocks, NEW e \in Nat \ {0}, e <= Num(b)
    PROVE  LET s == Reverse(Branch(b, e))
           IN  /\ s \in BlockSeqs /\ Len(s) = (Num(b) - e) + 1
               /\ \A i \in 1 .. Len(s) : s[i] = Path[b][(Len(s) - i) + 1]
<1>1. PICK p \in Seq(Blocks), k \in Nat : p = Path[b] /\ Len(p) = k /\ k = Num(b) /\ e <= k
  BY NumType, PathEnds DEF BlockSeqs
<1>2. PICK h \in 1 .. k : h = (k - e) + 1 /\ h = k - e + 1
  BY <1>1
<1>3. \A i \in 1 .. h : p[i] \in Blocks
  BY <1>1
<1>4. /\ SubSeq(p, 1, h) \in Seq(Blocks) /\ Len(SubSeq(p, 1, h)) = h
      /\ \A i \in 1 .. h : SubSeq(p, 1, h)[i] = p[i]
  BY <1>1, SubSeqProperties
<1>5. PICK q \in Seq(Blocks) : q = Branch(b, e) /\ Len(q) = h /\ \A i \in 1 .. h : q[i] = p[i]
  <2>1. Branch(b, e) = SubSeq(p, 1, h)
    BY <1>1, <1>2 DEF Branch
  <2> QED  BY ONLY <1>4, <2>1
<1>6. Reverse(q) = [i \in 1 .. h |-> q[(h - i) + 1]]
  BY <1>5 DEF Reverse
<1>7. \A i \in 1 .. h : (h - i) + 1 \in 1 .. h
  BY <1>2
<1>8. PICK f \in [1 .. h -> Blocks] : f = [i \in 1 .. h |-> q[(h - i) + 1]]
  BY <1>3, <1>5, <1>7
<1>9. f \in Seq(Blocks) /\ Len(f) = h
  BY <1>2
<1>10. \A i \in 1 .. h : f[i] = p[(h - i) + 1]
  BY <1>5, <1>7, <1>8
<1>11. Reverse(Branch(b, e)) = f
  BY ONLY <1>5, <1>6, <1>8
<1> QED  BY <1>1, <1>2, <1>9, <1>10, <1>11 DEF BlockSeqs

\* Taking back one block works, or nothing more can be taken back.
LEMMA PopExact ==
    ASSUME NEW l \in Logs, NEW m \in Nat, NEW n \in Bare(l, m), ~ n.thrown,
           NEW c \in Chains, NEW i \in Nat, i < Len(c), n.chain = Part(c, i + 1)
    PROVE  LET r == PopBlock(n)
           IN  \/ ~ r.thrown /\ r.chain = Part(c, i)
               \/ r.thrown /\ Stuck(r)
<1>1. n \in Nodes /\ n.chain \in Chains
  BY BareParts, NodeParts
<1>2. i + 1 \in 0 .. Len(c) /\ i \in 0 .. Len(c)
  BY DEF Chains
<1>3. Len(n.chain) = i + 1 /\ Agree(n.chain, c, i + 1)
  BY <1>2, PartType
<1>4. n.chain # <<>>
  BY <1>1, <1>3, SeqNone DEF Chains
<1>5. CASE ~ CanPop(n.fork)
  <2>1. PICK x : x = [n EXCEPT !.session = FALSE]
    OBVIOUS
  <2>2. x.fork = n.fork /\ DOMAIN x = DOMAIN n
    BY <1>1, <2>1 DEF Nodes
  <2>3. PopBlock(n) = Throw(x)
    BY <1>5, <2>1 DEF PopBlock
  <2>4. DOMAIN x = {"chain", "undo", "undo_max", "fork", "pending", "session", "popped", "thrown", "stored", "up"}
    BY <1>1, <2>2 DEF Nodes
  <2>5. Throw(x).thrown = TRUE /\ Throw(x).fork = n.fork
    BY <2>2, <2>4 DEF Throw
  <2> QED  BY <1>5, <2>3, <2>5 DEF Stuck
<1>6. CASE CanPop(n.fork) /\ n.undo = 0
  <2>1. PICK x : x = [n EXCEPT !.session = FALSE, !.fork = pop_block(@)]
    OBVIOUS
  <2>2. x.undo = 0 /\ DOMAIN x = DOMAIN n
    BY <1>1, <1>6, <2>1 DEF Nodes
  <2>3. PopBlock(n) = Throw(x)
    BY <1>4, <1>6, <2>1 DEF PopBlock
  <2>4. DOMAIN x = {"chain", "undo", "undo_max", "fork", "pending", "session", "popped", "thrown", "stored", "up"}
    BY <1>1, <2>2 DEF Nodes
  <2>5. Throw(x).thrown = TRUE /\ Throw(x).undo = 0
    BY <2>2, <2>4 DEF Throw
  <2> QED  BY <2>3, <2>5 DEF Stuck
<1>7. CASE CanPop(n.fork) /\ n.undo # 0
  <2>1. PopBlock(n) = [n EXCEPT !.session = FALSE, !.fork = pop_block(@), !.undo = @ - 1,
                                !.chain = Front(@), !.popped = TxsOf[head_block_id(n)] \o @]
    BY <1>4, <1>7 DEF PopBlock
  <2>2. PopBlock(n).thrown = n.thrown /\ PopBlock(n).chain = Front(n.chain)
    BY <1>1, <2>1 DEF Nodes
  <2>3. PICK f \in Chains : f = Front(n.chain) /\ Len(f) = i /\ Agree(f, n.chain, i)
    <3>1. (i + 1) - 1 = i
      OBVIOUS
    <3> QED  BY <1>1, <1>3, <1>4, <3>1, FrontParts
  <2>4. Agree(c, f, i)
    <3> SUFFICES ASSUME NEW j \in 1 .. i PROVE c[j] = f[j]
      BY DEF Agree
    <3>1. j \in 1 .. i + 1
      OBVIOUS
    <3> QED  BY <1>3, <2>3, <3>1 DEF Agree
  <2>5. Part(c, i) = f
    BY <2>3, <2>4, PartIs
  <2> QED  BY <2>2, <2>3, <2>5
<1> QED  BY <1>5, <1>6, <1>7

\* Taking back k blocks works, or stops where nothing more can be taken back.
LEMMA PopsExact ==
    ASSUME NEW l \in Logs, NEW m \in Nat, NEW n \in Bare(l, m), ~ n.thrown,
           NEW k \in Nat, k <= Len(n.chain)
    PROVE  LET r == PopBlocks(n, k)
           IN  \/ ~ r.thrown /\ r.chain = Part(n.chain, Len(n.chain) - k)
               \/ r.thrown /\ Stuck(r)
<1>1. PICK c \in Chains, h \in Nat : c = n.chain /\ h = Len(c) /\ k <= h
  BY BareParts, NodeParts DEF Chains
<1>2. PICK s \in Seq(Nat) : s = Steps(k) /\ Len(s) = k
  <2>1. Steps(k) \in Seq(Nat) /\ Len(Steps(k)) = k
    BY DEF Steps
  <2> QED  BY ONLY <2>1
<1>3. PopBlocks(n, k) = Pops!Fold(n, s)
  <2>1. PopBlocks(n, k) = Pops!Fold(n, Steps(k))
    BY DEF PopBlocks, PopStep, Pops!Fold, FoldLeft, Pops!MapThenFoldSet, MapThenFoldSet, Max, Pops!Largest
  <2> QED  BY ONLY <1>2, <2>1
<1>4. PICK V : V = Bare(l, m) /\ n \in V
  OBVIOUS
<1>5. Pops!Closed(V, Nat)
  BY <1>4, PopBare DEF Pops!Closed, PopStep
<1>6. PICK g \in [0 .. Len(s) -> V] : Pops!FoldsTo(g, n, s) /\ Pops!Fold(n, s) = g[Len(s)]
  BY ONLY <1>4, <1>5, s \in Seq(Nat), Pops!FoldSteps
<1> DEFINE Down(r, i) == \/ ~ r.thrown /\ r.chain = Part(c, h - i)
                         \/ r.thrown /\ Stuck(r)
           N == {i \in Nat : i <= k => Down(g[i], i)}
<1>7. 0 \in N
  <2>1. g[0] = n /\ h - 0 = h
    BY <1>6 DEF Pops!FoldsTo
  <2>2. Part(c, h) = c
    <3>1. Agree(c, c, h)
      BY DEF Agree
    <3> QED  BY <1>1, <3>1, PartIs
  <2> QED  BY <1>1, <2>1, <2>2
<1>8. ASSUME NEW i \in N PROVE i + 1 \in N
  <2> SUFFICES ASSUME i + 1 <= k PROVE Down(g[i + 1], i + 1)
    OBVIOUS
  <2>1. PICK j \in Nat : j = h - (i + 1) /\ j + 1 = h - i /\ j < h /\ i \in 0 .. k /\ i + 1 \in 1 .. k /\ (i + 1) - 1 = i
    <3>1. i \in Nat
      OBVIOUS
    <3>2. i + 1 <= h
      BY ONLY <1>1, <3>1, i + 1 <= k, k \in Nat, h \in Nat
    <3>3. h - (i + 1) \in Nat /\ (h - (i + 1)) + 1 = h - i /\ h - (i + 1) < h
      BY ONLY <3>1, <3>2, h \in Nat
    <3>4. i \in 0 .. k /\ i + 1 \in 1 .. k /\ (i + 1) - 1 = i
      BY ONLY <3>1, i + 1 <= k, k \in Nat
    <3> QED  BY ONLY <3>3, <3>4
  <2>2. PICK x \in Bare(l, m) : x = g[i] /\ Down(x, i)
    BY <1>2, <1>4, <2>1
  <2>3. g[i + 1] = PopBlock(x)
    <3>1. \A z \in 1 .. Len(s) : g[z] = PopStep(g[z - 1], s[z])
      BY <1>6 DEF Pops!FoldsTo
    <3> QED  BY <1>2, <2>1, <2>2, <3>1 DEF PopStep
  <2>4. CASE x.thrown
    BY <2>2, <2>3, <2>4 DEF PopBlock
  <2>5. CASE ~ x.thrown
    <3>1. x.chain = Part(c, j + 1) /\ j < Len(c)
      BY <1>1, <2>1, <2>2, <2>5
    <3>2. \/ ~ PopBlock(x).thrown /\ PopBlock(x).chain = Part(c, j)
          \/ PopBlock(x).thrown /\ Stuck(PopBlock(x))
      BY <2>5, <3>1, PopExact
    <3> QED  BY ONLY <2>1, <2>3, <3>2
  <2> QED  BY <2>4, <2>5
<1>9. N = Nat
  <2>1. N \in SUBSET Nat
    OBVIOUS
  <2> HIDE DEF N
  <2> QED  BY <1>7, <1>8, <2>1, NatSetInduction
<1>10. Down(g[k], k)
  BY <1>9
<1> QED  BY ONLY <1>1, <1>2, <1>3, <1>6, <1>10

\* Applying blocks keeps the chain below, and adds one block for each of them
\* unless one is refused.
LEMMA AppliesUp ==
    ASSUME NEW l \in Logs, NEW m \in Nat, NEW n \in Bare(l, m), ~ n.thrown, NEW s \in BlockSeqs
    PROVE  LET r == FoldLeft(ApplyBlock, n, s)
           IN  /\ Part(r.chain, Len(n.chain)) = n.chain /\ Len(r.chain) - Len(n.chain) \in Nat
               /\ ~ r.thrown => Len(r.chain) = Len(n.chain) + Len(s)
<1>1. PICK c \in Chains, h \in Nat : c = n.chain /\ h = Len(c)
  BY BareParts, NodeParts DEF Chains
<1>2. PICK k \in Nat : k = Len(s) /\ s \in Seq(Blocks)
  BY DEF BlockSeqs
<1>3. FoldLeft(ApplyBlock, n, s) = Applies!Fold(n, s)
  BY DEF Applies!Fold, FoldLeft, Applies!MapThenFoldSet, MapThenFoldSet, Max, Applies!Largest
<1>4. PICK V : V = Bare(l, m) /\ n \in V
  OBVIOUS
<1>5. Applies!Closed(V, Blocks)
  BY <1>4, ApplyBare DEF Applies!Closed
<1>6. PICK g \in [0 .. Len(s) -> V] : Applies!FoldsTo(g, n, s) /\ Applies!Fold(n, s) = g[Len(s)]
  BY ONLY <1>2, <1>4, <1>5, Applies!FoldSteps
<1> DEFINE Up(r, i) == Agree(r.chain, c, h) /\ h <= Len(r.chain) /\ (~ r.thrown => Len(r.chain) = h + i)
           N == {i \in Nat : i <= k => Up(g[i], i)}
<1>7. 0 \in N
  <2>1. g[0] = n /\ h + 0 = h /\ h <= h
    BY <1>6 DEF Applies!FoldsTo
  <2> QED  BY <1>1, <2>1 DEF Agree
<1>8. ASSUME NEW i \in N PROVE i + 1 \in N
  <2> SUFFICES ASSUME i + 1 <= k PROVE Up(g[i + 1], i + 1)
    OBVIOUS
  <2>1. i \in 0 .. k /\ i + 1 \in 1 .. k /\ (i + 1) - 1 = i
    OBVIOUS
  <2>2. PICK x \in Bare(l, m) : x = g[i] /\ Up(x, i)
    BY <1>2, <1>4, <2>1
  <2>3. PICK b \in Blocks : b = s[i + 1]
    BY <1>2, <2>1
  <2>4. g[i + 1] = ApplyBlock(x, b)
    <3>1. \A z \in 1 .. Len(s) : g[z] = ApplyBlock(g[z - 1], s[z])
      BY <1>6 DEF Applies!FoldsTo
    <3> QED  BY <1>2, <2>1, <2>2, <2>3, <3>1
  <2>5. CASE x.thrown
    BY <2>2, <2>4, <2>5, ApplyThrown
  <2>6. CASE ~ x.thrown /\ ~ CanApply(x, b)
    BY <2>2, <2>4, <2>6, ApplyRefused, SMTT(30)
  <2>7. CASE ~ x.thrown /\ CanApply(x, b)
    <3>1. PICK e : e = [blk |-> b, lib |-> update_last_irreversible_block(x.chain, b, last_irreversible(x))]
      OBVIOUS
    <3>2. PICK r : r = ApplyBlock(x, b) /\ r.chain = Append(x.chain, e)
      BY <2>7, <3>1, ApplyDone
    <3>3. PICK d \in Chains, q \in Nat : d = x.chain /\ q = Len(d) /\ q = h + i /\ Agree(d, c, h)
      BY <2>2, <2>7, BareParts, NodeParts DEF Chains
    <3>4. Len(Append(d, e)) = q + 1 /\ \A z \in 1 .. q : Append(d, e)[z] = d[z]
      <4>1. PICK S : S = Entries \cup {e}
        OBVIOUS
      <4>2. d \in Seq(S) /\ e \in S
        BY <4>1 DEF Chains
      <4>3. Len(Append(d, e)) = Len(d) + 1 /\ \A z \in 1 .. Len(d) : Append(d, e)[z] = d[z]
        BY ONLY <4>2, AppendProperties
      <4> QED  BY ONLY <3>3, <4>3
    <3>5. Agree(r.chain, c, h)
      <4> SUFFICES ASSUME NEW z \in 1 .. h PROVE r.chain[z] = c[z]
        BY DEF Agree
      <4>1. z \in 1 .. q
        BY <3>3
      <4> QED  BY <3>2, <3>3, <3>4, <4>1 DEF Agree
    <3>6. h <= Len(r.chain) /\ Len(r.chain) = h + (i + 1)
      BY <3>2, <3>3, <3>4
    <3> QED  BY <2>4, <3>2, <3>5, <3>6
  <2> QED  BY <2>5, <2>6, <2>7
<1>9. N = Nat
  <2>1. N \in SUBSET Nat
    OBVIOUS
  <2> HIDE DEF N
  <2> QED  BY <1>7, <1>8, <2>1, NatSetInduction
<1>10. PICK r \in Bare(l, m) : r = g[k] /\ Up(r, k)
  <2>1. k \in 0 .. Len(s)
    BY <1>2
  <2> QED  BY <1>4, <1>9, <2>1
<1>11. Part(r.chain, h) = c /\ Len(r.chain) - h \in Nat
  <2>1. Len(r.chain) \in Nat
    BY BareParts
  <2>2. Len(r.chain) - h \in Nat
    BY <1>10, <2>1
  <2> QED  BY <1>1, <1>10, <2>2, PartIs
<1> QED  BY ONLY <1>1, <1>2, <1>3, <1>6, <1>10, <1>11

\* Applying the rest of a valid chain brings that chain back.
LEMMA AppliesBack ==
    ASSUME NEW l \in Logs, NEW m \in Nat, NEW n \in Bare(l, m), ~ n.thrown, NEW d \in Chains, ValidChain(d),
           NEW h \in Nat, h <= Len(d), n.chain = Part(d, h),
           NEW s \in BlockSeqs, Len(s) = Len(d) - h, \A i \in 1 .. Len(s) : s[i] = d[h + i].blk
    PROVE  FoldLeft(ApplyBlock, n, s).chain = d
<1>1. PICK e \in Nat, k \in Nat : e = Len(d) /\ k = Len(s) /\ k = e - h /\ h + k = e /\ s \in Seq(Blocks)
  <2>1. Len(d) \in Nat /\ s \in Seq(Blocks) /\ Len(s) \in Nat
    BY DEF Chains, BlockSeqs
  <2> QED  BY <2>1
<1>2. FoldLeft(ApplyBlock, n, s) = Applies!Fold(n, s)
  BY DEF Applies!Fold, FoldLeft, Applies!MapThenFoldSet, MapThenFoldSet, Max, Applies!Largest
<1>3. PICK V : V = Bare(l, m) /\ n \in V
  OBVIOUS
<1>4. Applies!Closed(V, Blocks)
  BY <1>3, ApplyBare DEF Applies!Closed
<1>5. PICK g \in [0 .. Len(s) -> V] : Applies!FoldsTo(g, n, s) /\ Applies!Fold(n, s) = g[Len(s)]
  <2>1. s \in Seq(Blocks)
    BY DEF BlockSeqs
  <2> QED  BY ONLY <1>3, <1>4, <2>1, Applies!FoldSteps
<1> DEFINE Up(r, i) == ~ r.thrown /\ r.chain = Part(d, h + i)
           N == {i \in Nat : i <= k => Up(g[i], i)}
<1>6. 0 \in N
  <2>1. g[0] = n /\ h + 0 = h
    BY <1>5 DEF Applies!FoldsTo
  <2> QED  BY <2>1
<1>7. ASSUME NEW i \in N PROVE i + 1 \in N
  <2> SUFFICES ASSUME i + 1 <= k PROVE Up(g[i + 1], i + 1)
    OBVIOUS
  <2>1. i \in Nat /\ i \in 0 .. k /\ i + 1 \in 1 .. k /\ (i + 1) - 1 = i
    OBVIOUS
  <2>2. PICK j \in Nat : j = h + i /\ j + 1 = h + (i + 1) /\ j < e
    <3>1. h + i \in Nat /\ (h + i) + 1 = h + (i + 1) /\ h + i < e
      BY ONLY <1>1, <2>1, i + 1 <= k, h \in Nat, e \in Nat, k \in Nat
    <3> QED  BY ONLY <3>1
  <2>3. PICK x \in Bare(l, m) : x = g[i] /\ ~ x.thrown /\ x.chain = Part(d, j)
    <3>1. i <= k /\ i \in 0 .. Len(s)
      BY <1>1, <2>1
    <3>2. ~ g[i].thrown /\ g[i].chain = Part(d, h + i)
      BY <3>1
    <3>3. g[i] \in Bare(l, m)
      BY ONLY <1>3, <3>1, g \in [0 .. Len(s) -> V]
    <3> QED  BY ONLY <2>2, <3>2, <3>3
  <2>4. PICK b : b = s[i + 1] /\ b = d[j + 1].blk
    BY <1>1, <2>1, <2>2
  <2>5. g[i + 1] = ApplyBlock(x, b)
    <3>1. \A z \in 1 .. Len(s) : g[z] = ApplyBlock(g[z - 1], s[z])
      BY <1>5 DEF Applies!FoldsTo
    <3> QED  BY <1>1, <2>1, <2>3, <2>4, <3>1
  <2>6. b \in Blocks /\ CanApply(x, b) /\ ApplyBlock(x, b).chain = Part(d, j + 1)
    <3>1. j < Len(d)
      BY ONLY <1>1, <2>2
    <3> QED  BY ONLY <2>3, <2>4, <3>1, m \in Nat, x \in Bare(l, m), d \in Chains, ValidChain(d), j \in Nat, ApplyExact
  <2>7. ApplyBlock(x, b).thrown = x.thrown
    BY <2>3, <2>6, ApplyDone, ZenonT(60)
  <2> QED  BY <2>2, <2>3, <2>5, <2>6, <2>7
<1>8. N = Nat
  <2>1. N \in SUBSET Nat
    OBVIOUS
  <2> HIDE DEF N
  <2> QED  BY <1>6, <1>7, <2>1, NatSetInduction
<1>9. g[k].chain = Part(d, h + k)
  <2>1. Up(g[k], k)
    <3>1. k \in N /\ k <= k
      BY <1>8, SMTT(30)
    <3> QED  BY <3>1
  <2> QED  BY <2>1
<1>10. Part(d, e) = d
  <2>1. Agree(d, d, e)
    BY DEF Agree
  <2> QED  BY <1>1, <2>1, PartIs
<1> QED  BY ONLY <1>1, <1>2, <1>5, <1>9, <1>10

\* A node that has thrown applies nothing.
LEMMA AppliesNone ==
    ASSUME NEW n, n.thrown, NEW s \in BlockSeqs
    PROVE  FoldLeft(ApplyBlock, n, s) = n
<1>1. FoldLeft(ApplyBlock, n, s) = Applies!Fold(n, s)
  BY DEF Applies!Fold, FoldLeft, Applies!MapThenFoldSet, MapThenFoldSet, Max, Applies!Largest
<1>2. PICK V : V = {n} /\ n \in V
  OBVIOUS
<1>3. Applies!Closed(V, Blocks)
  BY <1>2, ApplyThrown DEF Applies!Closed
<1>4. s \in Seq(Blocks)
  BY DEF BlockSeqs
<1>5. Applies!Fold(n, s) \in V
  BY ONLY <1>2, <1>3, <1>4, Applies!FoldIn
<1> QED  BY <1>1, <1>2, <1>5

\* What a push may make of chain c.
Outcome(c, r) ==
    \/ r.chain = c
    \/ ~ r.thrown /\ Len(r.chain) > Len(c)
    \/ r.thrown /\ Stuck(r)

\* What Throw leaves.
LEMMA ThrowKeeps ==
    ASSUME NEW n \in Nodes
    PROVE  /\ Throw(n).thrown = TRUE /\ Throw(n).chain = n.chain
           /\ Stuck(Throw(n)) = Stuck(n)
<1>1. Throw(n).thrown = TRUE /\ Throw(n).chain = n.chain /\ Throw(n).undo = n.undo /\ Throw(n).fork = n.fork
  BY DEF Throw, Nodes
<1> QED  BY <1>1 DEF Stuck

\* The new branch was refused on the way: n stands on it, above block h of c.
LEMMA RecoverExact ==
    ASSUME NEW l \in Logs, NEW m \in Nat, NEW n \in Bare(l, m), NEW c \in Chains, ValidChain(c),
           NEW h \in Nat, h <= Len(c), NEW k \in Nat, Len(n.chain) = h + k, Part(n.chain, h) = Part(c, h),
           NEW first \in BlockSeqs, NEW second \in BlockSeqs, Last(second) \in Blocks,
           Len(second) = Len(c) - h, \A i \in 1 .. Len(second) : second[i] = c[h + i].blk
    PROVE  Outcome(c, Recover(n, k, first, second))
<1>1. n.fork \in Forks /\ n \in Nodes
  BY BareParts, NodeParts
<1>2. PICK bad \in BlockSeqs : bad = SubSeq(first, k + 1, Len(first))
  <2>1. PICK j \in Nat : j = Len(first) /\ \A i \in 1 .. j : first[i] \in Blocks
    BY DEF BlockSeqs
  <2>2. PICK a \in Int : a = k + 1
    OBVIOUS
  <2>3. \A i \in a .. j : first[i] \in Blocks
    BY <2>1, <2>2
  <2>4. SubSeq(first, a, j) \in Seq(Blocks)
    BY ONLY <2>3, a \in Int, j \in Nat, SubSeqProperties
  <2>5. SubSeq(first, k + 1, Len(first)) \in BlockSeqs
    BY ONLY <2>1, <2>2, <2>4 DEF BlockSeqs
  <2> QED  BY ONLY <2>5
<1>3. PICK g \in Forks : g = FoldLeft(remove, n.fork, bad)
  BY <1>1, RemoveAll
<1>4. PICK f \in Forks : f = set_head(g, Last(second))
  BY HeadOps
<1>5. PICK x \in Bare(l, m) : x = [n EXCEPT !.thrown = FALSE, !.fork = f]
  BY FlagsBare
<1>6. x.chain = n.chain /\ ~ x.thrown
  BY <1>1, <1>5 DEF Nodes
<1>7. PICK y \in Bare(l, m) : y = PopBlocks(x, k)
  BY PopAll
<1>8. PICK z \in Bare(l, m) : z = FoldLeft(ApplyBlock, y, second)
  BY ApplyAll
<1>9. Recover(n, k, first, second) = Throw(z)
  BY <1>2, <1>3, <1>4, <1>5, <1>7, <1>8 DEF Recover, SwitchBack
<1>10. \/ ~ y.thrown /\ y.chain = Part(c, h)
       \/ y.thrown /\ Stuck(y)
  <2>1. k <= Len(x.chain) /\ Len(x.chain) - k = h
    BY <1>6
  <2>2. \/ ~ y.thrown /\ y.chain = Part(x.chain, Len(x.chain) - k)
        \/ y.thrown /\ Stuck(y)
    BY <1>6, <1>7, <2>1, PopsExact
  <2> QED  BY <1>6, <2>1, <2>2
<1>11. CASE ~ y.thrown /\ y.chain = Part(c, h)
  <2>1. FoldLeft(ApplyBlock, y, second).chain = c
    BY ONLY <1>11, l \in Logs, m \in Nat, y \in Bare(l, m), c \in Chains, ValidChain(c), h \in Nat, h <= Len(c),
            second \in BlockSeqs, Len(second) = Len(c) - h, \A i \in 1 .. Len(second) : second[i] = c[h + i].blk,
            AppliesBack
  <2>2. z.chain = c
    BY ONLY <1>8, <2>1
  <2> QED  BY <1>9, <2>2, BareParts, ThrowKeeps DEF Outcome
<1>12. CASE y.thrown /\ Stuck(y)
  <2>1. z = y
    BY <1>8, <1>12, AppliesNone
  <2> QED  BY <1>9, <1>12, <2>1, BareParts, ThrowKeeps DEF Outcome
<1> QED  BY <1>10, <1>11, <1>12

\* A switch ends on the longer branch, on the former one, or stuck.
LEMMA SwitchExact ==
    ASSUME NEW l \in Logs, NEW m \in Nat, NEW n \in Bare(l, m), ~ n.thrown, NEW new_head \in Blocks,
           head_block_id(n) \in Blocks, Higher(n, new_head)
    PROVE  Outcome(n.chain, SwitchFork(n, new_head))
<1>1. PICK b \in Blocks : b = head_block_id(n)
  OBVIOUS
<1>2. n \in Nodes /\ ValidChain(n.chain)
  BY BareParts, WorkParts
<1>3. PICK c \in Chains, p \in Nat : c = n.chain /\ p = Len(c) /\ ValidChain(c)
  BY <1>2, NodeParts DEF Chains
<1>4. head_block_num(n) = p /\ Num(b) = p /\ p \in 1 .. p /\ b = c[p].blk
  <2>1. head_block_num(n) = p /\ (c = <<>> => head_block_id(n) = Genesis) /\ (c # <<>> => head_block_id(n) = c[p].blk)
    BY <1>2, <1>3, HeadIs
  <2>2. c # <<>>
    BY <1>1, <2>1, PrevAssumption
  <2>3. p # 0
    BY <1>3, <2>2, SeqNone DEF Chains
  <2>4. Num(b) = p
    BY <1>1, <2>1 DEF head_block_num
  <2> QED  BY <1>1, <2>1, <2>2, <2>3, <2>4
<1>5. PICK q \in Nat : q = Num(new_head) /\ q > p
  BY <1>4, NumType DEF Higher
<1>6. PICK e \in Nat \ {0} : e = BranchEnd(new_head, b) /\ e <= q /\ e <= p
  BY <1>4, <1>5, BranchEndType
<1>7. PICK first \in BlockSeqs : first = Reverse(Branch(new_head, e)) /\ Len(first) = (q - e) + 1
  BY <1>5, <1>6, BranchUp
<1>8. PICK second \in BlockSeqs : /\ second = Reverse(Branch(b, e)) /\ Len(second) = (p - e) + 1
                                  /\ \A i \in 1 .. Len(second) : second[i] = Path[b][(Len(second) - i) + 1]
  <2>1. e <= Num(b)
    BY <1>4, <1>6
  <2>2. /\ Reverse(Branch(b, e)) \in BlockSeqs /\ Len(Reverse(Branch(b, e))) = (Num(b) - e) + 1
        /\ \A i \in 1 .. Len(Reverse(Branch(b, e))) : Reverse(Branch(b, e))[i] = Path[b][(Len(Reverse(Branch(b, e))) - i) + 1]
    BY ONLY <2>1, b \in Blocks, e \in Nat \ {0}, BranchUp
  <2> QED  BY ONLY <1>4, <2>2
<1>9. PICK k \in Nat, h \in Nat : k = Len(second) /\ h = e - 1 /\ k = p - h /\ p - k = h /\ h <= p /\ k <= p /\ k > 0
  <2>1. (p - e) + 1 \in Nat /\ e - 1 \in Nat /\ (p - e) + 1 = p - (e - 1) /\ p - ((p - e) + 1) = e - 1
        /\ e - 1 <= p /\ (p - e) + 1 <= p /\ (p - e) + 1 > 0
    BY ONLY <1>6, e \in Nat \ {0}, p \in Nat
  <2> QED  BY ONLY <1>8, <2>1
<1>10. \A i \in 1 .. k : second[i] = c[h + i].blk
  <2> SUFFICES ASSUME NEW i \in 1 .. k PROVE second[i] = c[h + i].blk
    OBVIOUS
  <2>1. PICK j \in 1 .. p : j = (k - i) + 1 /\ (p - j) + 1 = h + i
    BY <1>9
  <2>2. Path[c[p].blk][j] = c[(p - j) + 1].blk
    BY <1>3, <1>4, <2>1, PathInChain
  <2> QED  BY <1>4, <1>8, <1>9, <2>1, <2>2
<1>11. Last(second) \in Blocks
  <2>1. second \in Seq(Blocks)
    BY DEF BlockSeqs
  <2> QED  BY <1>9, <2>1, SeqNone DEF Last
<1>12. PICK x \in Bare(l, m) : x = PopBlocks(n, k)
  BY PopAll
<1>13. \/ ~ x.thrown /\ x.chain = Part(c, h)
       \/ x.thrown /\ Stuck(x)
  <2>1. \/ ~ x.thrown /\ x.chain = Part(n.chain, Len(n.chain) - k)
        \/ x.thrown /\ Stuck(x)
    BY <1>3, <1>9, <1>12, PopsExact
  <2> QED  BY <1>3, <1>9, <2>1
<1>14. SwitchFork(n, new_head) = ApplyBranch(x, first, second)
  BY <1>1, <1>6, <1>7, <1>8, <1>9, <1>12 DEF SwitchFork
<1>15. CASE x.thrown
  BY <1>13, <1>14, <1>15 DEF ApplyBranch, Outcome
<1>16. CASE ~ x.thrown
  <2>1. x.chain = Part(c, h) /\ Len(x.chain) = h
    <3>1. h \in 0 .. Len(c)
      BY <1>3, <1>9
    <3> QED  BY <1>13, <1>16, <3>1, PartType
  <2>2. PICK z \in Bare(l, m) : z = FoldLeft(ApplyBlock, x, first)
    BY ApplyAll
  <2>3. PICK j \in Nat : /\ j = Len(z.chain) - h /\ Part(z.chain, h) = x.chain
                         /\ ~ z.thrown => Len(z.chain) = h + Len(first)
    BY <1>16, <2>1, <2>2, AppliesUp
  <2>4. SwitchFork(n, new_head) = IF ~ z.thrown THEN z ELSE Recover(z, j, first, second)
    BY <1>14, <1>16, <2>1, <2>2, <2>3 DEF ApplyBranch, Switched
  <2>5. CASE ~ z.thrown
    <3>1. h + ((q - e) + 1) > p
      BY <1>5, <1>6, <1>9
    <3>2. Len(z.chain) > Len(c)
      BY <1>3, <1>7, <2>3, <2>5, <3>1
    <3> QED  BY <1>3, <2>4, <2>5, <3>2 DEF Outcome
  <2>6. CASE z.thrown
    <3>1. Len(z.chain) = h + j
      <4>1. PICK r \in Nat : r = Len(z.chain)
        BY BareParts
      <4> QED  BY <2>3, <4>1
    <3>2. Part(z.chain, h) = Part(c, h)
      BY <2>1, <2>3
    <3>3. h <= Len(c) /\ Len(second) = Len(c) - h /\ \A i \in 1 .. Len(second) : second[i] = c[h + i].blk
      BY <1>3, <1>9, <1>10
    <3>4. Outcome(c, Recover(z, j, first, second))
      BY <1>3, <1>11, <3>1, <3>2, <3>3, RecoverExact
    <3> QED  BY <1>3, <2>4, <2>6, <3>4
  <2> QED  BY <2>5, <2>6
<1> QED  BY <1>15, <1>16

\* Pushing a block, apart from what is pending.
LEMMA PushEnds ==
    ASSUME NEW l \in Logs, NEW m \in Nat, NEW n \in Bare(l, m), ~ n.thrown, NEW b \in Blocks
    PROVE  Outcome(n.chain, DoPushBlock(n, b))
<1>1. n.fork \in Forks /\ n \in Nodes
  BY BareParts, NodeParts
<1>2. PICK f \in Forks : f = push_block(n.fork, b) /\ f.head.blk \in Blocks
  BY <1>1, PushType
<1>3. PICK new_head \in Blocks : new_head = f.head.blk
  BY <1>2
<1>4. PICK x \in Bare(l, m) : x = [n EXCEPT !.fork = f]
  BY FlagsBare
<1>5. x \in Nodes /\ x.chain = n.chain /\ ~ x.thrown /\ x.fork = f
  BY <1>1, <1>4, BareParts DEF Nodes
<1>6. DoPushBlock(n, b) = IF CanPush(n.fork, b) THEN FollowHead(x, b, new_head) ELSE Throw(n)
  BY <1>2, <1>3, <1>4 DEF DoPushBlock
<1>7. Outcome(n.chain, Throw(n)) /\ Outcome(n.chain, Throw(x)) /\ Outcome(n.chain, x)
  BY <1>1, <1>5, ThrowKeeps DEF Outcome
<1>8. PICK y \in Bare(l, m) : y = ApplyBlock(x, b)
  BY ApplyBare
<1>9. Outcome(n.chain, Appended(y, b))
  <2>1. CASE CanApply(x, b)
    <3>1. PICK e : e = [blk |-> b, lib |-> update_last_irreversible_block(x.chain, b, last_irreversible(x))]
      OBVIOUS
    <3>2. y.chain = Append(x.chain, e) /\ ~ y.thrown
      BY <1>5, <1>8, <2>1, <3>1, ApplyDone
    <3>3. PICK c \in Chains, k \in Nat : c = n.chain /\ k = Len(c)
      BY <1>1, NodeParts DEF Chains
    <3>4. Len(Append(c, e)) = Len(c) + 1
      <4>1. PICK S : S = Entries \cup {e}
        OBVIOUS
      <4>2. c \in Seq(S) /\ e \in S
        BY <4>1 DEF Chains
      <4> QED  BY ONLY <4>2, AppendProperties
    <3>5. Len(y.chain) > Len(c)
      BY <1>5, <3>2, <3>3, <3>4
    <3> QED  BY <3>2, <3>3, <3>5 DEF Appended, Outcome
  <2>2. CASE ~ CanApply(x, b)
    <3>1. y.chain = n.chain /\ y.thrown = TRUE
      BY <1>5, <1>8, <2>2, ApplyRefused
    <3>2. y \in Nodes
      BY BareParts
    <3>3. Appended(y, b).chain = y.chain
      BY <3>2 DEF Appended, Nodes
    <3> QED  BY <3>1, <3>3 DEF Outcome
  <2> QED  BY <2>1, <2>2
<1>10. ASSUME Higher(x, new_head), CanFetchBranch(x.fork, new_head, head_block_id(x))
       PROVE  Outcome(n.chain, SwitchFork(x, new_head))
  <2>1. head_block_id(x) \in x.fork.index
    BY <1>10 DEF CanFetchBranch
  <2>2. head_block_id(x) \in Blocks
    BY <1>5, <2>1, ForkParts
  <2> QED  BY <1>5, <1>10, <2>2, SwitchExact
<1>11. \/ FollowHead(x, b, new_head) \in {Appended(y, b), x, Throw(x)}
       \/ /\ Higher(x, new_head) /\ CanFetchBranch(x.fork, new_head, head_block_id(x))
          /\ FollowHead(x, b, new_head) = SwitchFork(x, new_head)
  BY <1>8 DEF FollowHead
<1> QED  BY <1>6, <1>7, <1>9, <1>10, <1>11

\* Trying transactions again takes back no block and throws nothing.
LEMMA RestoreKeeps ==
    ASSUME NEW l, NEW m \in Nat, NEW n \in Rest(l, m), NEW ts \in TxSeqs
    PROVE  LET r == Restore(n, ts)
           IN  r \in Rest(l, m) /\ r.chain = n.chain /\ r.thrown = n.thrown /\ (Stuck(n) => Stuck(r))
<1> DEFINE Like(x) == x.chain = n.chain /\ x.thrown = n.thrown /\ (Stuck(n) => Stuck(x))
<1>1. PICK V : V = {x \in Rest(l, m) : Like(x)} /\ n \in V
  OBVIOUS
<1>2. ts \in Seq(Txs)
  BY DEF TxSeqs
<1>3. Restore(n, ts) = Restores!Fold(n, ts)
  BY DEF Restore, RestoreStep, Restores!Fold, FoldLeft, Restores!MapThenFoldSet, MapThenFoldSet, Max, Restores!Largest
<1>4. Restores!Closed(V, Txs)
  <2> SUFFICES ASSUME NEW x \in Rest(l, m), Like(x), NEW t \in Txs, t \notin Applied(x)
               PROVE  RestoreStep(x, t) \in Rest(l, m) /\ Like(RestoreStep(x, t))
    BY <1>1 DEF Restores!Closed, RestoreStep
  <2>1. x \in Nodes /\ x.thrown \in BOOLEAN
    BY RestParts, NodeParts
  <2>2. PICK u \in Nat, k \in Nat : u = x.undo /\ k = x.undo_max - 1
    BY <2>1, NodeParts
  <2>3. PICK v : v = Min({u, k}) /\ (u = 0 => v = 0)
    BY MinOfTwo
  <2>4. PICK s : s = [x EXCEPT !.session = TRUE, !.undo = v]
    OBVIOUS
  <2>5. /\ s.chain = x.chain /\ s.undo = v /\ s.fork = x.fork
        /\ DOMAIN s = {"chain", "undo", "undo_max", "fork", "pending", "session", "popped", "thrown", "stored", "up"}
    BY <2>1, <2>4 DEF Nodes
  <2>6. PICK y \in Rest(l, m) : y = DoPushTransaction(x, t)
    BY TransactionRest
  <2>7. y = [s EXCEPT !.pending = Append(@, t)] \/ y = Throw(s)
    BY <2>2, <2>3, <2>4, <2>6 DEF DoPushTransaction
  <2>8. y.chain = x.chain /\ y.undo = v /\ y.fork = x.fork
    BY <2>5, <2>7 DEF Throw
  <2>9. PICK r \in Rest(l, m) : r = [y EXCEPT !.thrown = x.thrown]
    BY <2>1, RestThrown
  <2>10. r.chain = y.chain /\ r.undo = y.undo /\ r.fork = y.fork /\ r.thrown = x.thrown
    BY <2>9, RestParts DEF Nodes
  <2>11. RestoreStep(x, t) = r
    BY <2>6, <2>9 DEF RestoreStep
  <2>12. Stuck(x) => Stuck(r)
    BY <2>2, <2>3, <2>8, <2>10 DEF Stuck
  <2> QED  BY <2>8, <2>10, <2>11, <2>12
<1>5. Restores!Fold(n, ts) \in V
  BY ONLY <1>1, <1>2, <1>4, Restores!FoldIn
<1>6. Restore(n, ts) \in V
  BY ONLY <1>3, <1>5
<1> QED  BY <1>1, <1>6

\* database::push_block
LEMMA PushOnEnds ==
    ASSUME NEW l \in Logs, NEW m \in Nat, NEW n \in Nodes, NEW b \in Blocks, ~ n.thrown,
           [n EXCEPT !.pending = <<>>, !.session = FALSE] \in Bare(l, m)
    PROVE  LET r == PushBlockOn(n, b)
               x == [n EXCEPT !.pending = <<>>, !.session = FALSE]
           IN  r \in Rest(l, m) /\ Outcome(n.chain, r) /\ r.chain = DoPushBlock(x, b).chain
<1>1. PICK x \in Bare(l, m) : x = [n EXCEPT !.pending = <<>>, !.session = FALSE]
  OBVIOUS
<1>2. x.chain = n.chain /\ ~ x.thrown
  BY <1>1 DEF Nodes
<1>3. PICK y \in Bare(l, m) : y = DoPushBlock(x, b)
  BY PushBare
<1>4. Outcome(n.chain, y)
  BY <1>2, <1>3, PushEnds
<1>5. n.pending \in TxSeqs /\ y.popped \in TxSeqs /\ y.fork \in Forks /\ y \in Nodes
  BY BareParts, NodeParts
<1>6. PICK ts \in TxSeqs : ts = Waiting(y, n.pending)
  <2>1. y.popped \o n.pending \in TxSeqs
    BY <1>5, ConcatProperties DEF TxSeqs
  <2> QED  BY <2>1 DEF Waiting
<1>7. PICK z \in Bare(l, m) : z = [y EXCEPT !.popped = <<>>]
  BY <1>5, FlagsBare
<1>8. z.popped = <<>> /\ z.chain = y.chain /\ z.thrown = y.thrown /\ z.undo = y.undo /\ z.fork = y.fork
  BY <1>5, <1>7 DEF Nodes
<1>9. z \in Rest(l, m)
  BY <1>8, BareParts DEF Rest
<1>10. PushBlockOn(n, b) = Restore(z, ts)
  BY <1>1, <1>3, <1>6, <1>7 DEF PushBlockOn, Resume
<1>11. PICK r \in Rest(l, m) : r = Restore(z, ts) /\ r.chain = z.chain /\ r.thrown = z.thrown /\ (Stuck(z) => Stuck(r))
  BY <1>9, RestoreKeeps
<1>12. Stuck(y) => Stuck(z)
  BY <1>8 DEF Stuck
<1>13. Outcome(n.chain, r)
  BY <1>4, <1>8, <1>11, <1>12 DEF Outcome
<1> QED  BY <1>1, <1>3, <1>8, <1>10, <1>11, <1>13

\* What can be applied depends on the chain and on what is pending.
LEMMA CanApplyLike ==
    ASSUME NEW n, NEW r, n.chain = r.chain, n.pending = r.pending, NEW b
    PROVE  CanApply(n, b) = CanApply(r, b) /\ head_block_id(n) = head_block_id(r)
<1>1. head_block_id(n) = head_block_id(r) /\ last_irreversible(n) = last_irreversible(r)
  BY DEF head_block_id, last_irreversible
<1>2. Applied(n) = Applied(r)
  BY DEF Applied, ChainBlocks
<1> QED  BY <1>1, <1>2 DEF CanApply

\* A next block that can be applied, on a node whose fork database is ready.
LEMMA PushExtends ==
    ASSUME NEW l \in Logs, NEW m \in Nat, NEW n \in Bare(l, m), ~ n.thrown, NEW b \in Blocks, CanApply(n, b),
           n.fork.head # NoHead, ~ (HeadNum(n.fork) > head_block_num(n)), head_block_id(n) \in n.fork.index
    PROVE  DoPushBlock(n, b).chain # <<>> /\ Last(DoPushBlock(n, b).chain).blk = b
<1>1. n.fork \in Forks /\ n \in Nodes /\ ValidChain(n.chain)
  BY BareParts, NodeParts, WorkParts
<1>2. Prev[b] = head_block_id(n)
  BY DEF CanApply
<1>3. PICK k \in Nat : k = Len(n.chain) /\ Num(b) = k + 1 /\ head_block_num(n) = k
  BY <1>1, <1>2, NextNum, HeadIs
<1>4. PICK h \in Nat : h = HeadNum(n.fork) /\ h <= k
  <2>1. n.fork.head \in Items
    BY <1>1, ForkParts
  <2>2. HeadNum(n.fork) \in Nat
    BY <2>1, NumType DEF HeadNum, Items
  <2> QED  BY <1>3, <2>2
<1>5. CanPush(n.fork, b) /\ Better(n.fork, b)
  <2>1. PICK z \in Nat : z = n.fork.max_size
    BY <1>1, ForkParts
  <2>2. PICK w \in Int : w = h - z /\ w <= k
    BY <1>4
  <2>3. Max({0, w}) = IF 0 <= w THEN w ELSE 0
    BY MaxOfTwo
  <2>4. ~ (k + 1 <= Max({0, w}))
    BY <2>2, <2>3
  <2>5. ~ TooOld(n.fork, b)
    BY <1>3, <1>4, <2>1, <2>2, <2>4 DEF TooOld
  <2>6. ~ Unlinkable(n.fork, b)
    BY <1>2 DEF Unlinkable
  <2>7. k + 1 > h
    BY <1>4
  <2> QED  BY <1>3, <1>4, <2>5, <2>6, <2>7 DEF CanPush, Better
<1>6. PICK f \in Forks : f = push_block(n.fork, b) /\ f.head.blk = b
  BY <1>1, <1>5, PushType
<1>7. PICK x \in Bare(l, m) : x = [n EXCEPT !.fork = f]
  BY FlagsBare
<1>8. x.chain = n.chain /\ ~ x.thrown /\ x.pending = n.pending
  BY <1>1, <1>7 DEF Nodes
<1>9. CanApply(x, b) /\ Prev[b] = head_block_id(x)
  BY <1>2, <1>8, CanApplyLike
<1>10. PICK e : e = [blk |-> b, lib |-> update_last_irreversible_block(x.chain, b, last_irreversible(x))]
  OBVIOUS
<1>11. ApplyBlock(x, b).chain = Append(x.chain, e) /\ ~ ApplyBlock(x, b).thrown
  BY <1>8, <1>9, <1>10, ApplyDone
<1>12. DoPushBlock(n, b) = ApplyBlock(x, b)
  BY <1>5, <1>6, <1>7, <1>9, <1>11 DEF DoPushBlock, FollowHead, Appended
<1>13. PICK c \in Chains : c = n.chain
  BY <1>1, NodeParts
<1>14. Append(c, e) # <<>> /\ Last(Append(c, e)) = e
  <2>1. PICK S : S = Entries \cup {e}
    OBVIOUS
  <2>2. c \in Seq(S) /\ e \in S
    BY <2>1 DEF Chains
  <2>3. Append(c, e) # <<>> /\ Len(Append(c, e)) = Len(c) + 1 /\ Append(c, e)[Len(c) + 1] = e
    BY ONLY <2>2, AppendProperties
  <2> QED  BY ONLY <2>3 DEF Last
<1>15. e.blk = b
  BY <1>10
<1> QED  BY <1>8, <1>11, <1>12, <1>13, <1>14, <1>15

\* The node after an operation.
LEMMA BecomeEnds ==
    ASSUME NEW l, NEW m \in Nat, NEW r \in Rest(l, m), Become(r)
    PROVE  \E w \in Nodes : node' = w /\ w.chain = r.chain /\ w.thrown = r.thrown /\ (Stuck(r) => Stuck(w))
<1>1. PICK w : w = [r EXCEPT !.stored = <<>>]
  OBVIOUS
<1>2. r \in Nodes /\ <<>> \in BlockSeqs
  BY RestParts DEF BlockSeqs
<1>3. w \in Nodes /\ w.chain = r.chain /\ w.thrown = r.thrown /\ w.undo = r.undo /\ w.fork = r.fork
  BY <1>1, <1>2 DEF Nodes
<1>4. Stuck(r) => Stuck(w)
  BY <1>3 DEF Stuck
<1>5. node' = w
  BY <1>1 DEF Become
<1> QED  BY <1>3, <1>4, <1>5

\* Every operation of a running node.
LEMMA StepEnds ==
    ASSUME ChainInv, Next, ~ Restart, ~ Crash
    PROVE  Outcome(node.chain, node')
<1>1. PICK m \in Nat : m = Len(flushed)
  BY RunningRest
<1>2. PICK n \in Nodes : /\ n = Running /\ n \in Rest(log, m) /\ n \in Work(log, m) /\ n.chain = node.chain
                         /\ n.thrown = FALSE
  BY <1>1, RunningRest, RestParts
<1>3. log \in Logs
  BY DEF ChainInv
<1>4. ASSUME NEW r \in Rest(log, m), Become(r), Outcome(node.chain, r)
      PROVE  Outcome(node.chain, node')
  <2>1. PICK w \in Nodes : node' = w /\ w.chain = r.chain /\ w.thrown = r.thrown /\ (Stuck(r) => Stuck(w))
    BY <1>4, BecomeEnds
  <2>2. Outcome(node.chain, w)
    BY <1>4, <2>1 DEF Outcome
  <2> QED  BY ONLY <2>1, <2>2
<1>5. ASSUME NEW b \in Blocks, PushBlock(b)
      PROVE  Outcome(node.chain, node')
  <2>1. [n EXCEPT !.pending = <<>>, !.session = FALSE] \in Bare(log, m)
    BY <1>2, CleanBare
  <2>2. PushBlockOn(n, b) \in Rest(log, m) /\ Outcome(n.chain, PushBlockOn(n, b))
    BY <1>2, <1>3, <2>1, PushOnEnds
  <2>3. Become(PushBlockOn(n, b))
    BY <1>2, <1>5 DEF PushBlock
  <2> QED  BY <1>2, <1>4, <2>2, <2>3
<1>6. ASSUME NEW b \in Blocks, GenerateBlock(b)
      PROVE  Outcome(node.chain, node')
  <2>1. PICK s \in Nodes :
          /\ s.chain = node.chain /\ s.thrown = FALSE
          /\ [s EXCEPT !.pending = <<>>, !.session = FALSE] \in Bare(log, m)
          /\ Become(PushBlockOn(s, b))
    BY <1>1, <1>6, Generated
  <2>2. PushBlockOn(s, b) \in Rest(log, m) /\ Outcome(s.chain, PushBlockOn(s, b))
    BY <1>3, <2>1, PushOnEnds
  <2> QED  BY <1>4, <2>1, <2>2
<1>7. ASSUME NEW t \in Txs, PushTransaction(t)
      PROVE  Outcome(node.chain, node')
  <2>1. PICK r \in Rest(log, m) : r = DoPushTransaction(n, t)
    BY <1>2, TransactionRest
  <2>2. PICK s : s = [n EXCEPT !.session = TRUE, !.undo = Min({@, n.undo_max - 1})]
    OBVIOUS
  <2>3. s.chain = n.chain /\ "chain" \in DOMAIN s
    BY <2>2 DEF Nodes
  <2>4. r = [s EXCEPT !.pending = Append(@, t)] \/ r = Throw(s)
    BY <2>1, <2>2 DEF DoPushTransaction
  <2>5. r.chain = node.chain
    BY <1>2, <2>3, <2>4 DEF Throw
  <2>6. Become(r)
    BY <1>2, <1>7, <2>1 DEF PushTransaction
  <2> QED  BY <1>4, <2>5, <2>6 DEF Outcome
<1> QED  BY <1>5, <1>6, <1>7 DEF Next

\* Opening again, whatever is on disk.
LEMMA ReopenEnds ==
    ASSUME ChainInv, NEW c \in Chains, ValidChain(c), Matches(log, c), Become(Reopen(c))
    PROVE  node'.chain = node.chain \/ Len(node'.chain) > Len(node.chain)
<1>1. node \in Nodes /\ ValidChain(node.chain) /\ log \in Logs /\ Matches(log, node.chain)
  BY DEF ChainInv
<1>2. PICK a \in Chains : a = node.chain /\ ValidChain(a) /\ Matches(log, a)
  BY <1>1, NodeParts
<1>3. PICK d \in Chains : Longest(d)
  BY <1>1, LongestExists
<1>4. PICK i \in Nat, k \in Nat : i = Len(a) /\ k = Len(d) /\ i <= k /\ a = Part(d, i)
  BY <1>2, <1>3, LongestBegins
<1>5. Reopen(c).chain = d
  BY <1>1, <1>3, ReopenExact
<1>6. PICK r : r = Reopen(c)
  OBVIOUS
<1>7. PICK m \in Nat : m = Len(Reflushed(c)) /\ r \in Rest(log, m)
  BY <1>1, <1>6, ReflushedChain, ReopenRest
<1>8. PICK w : node' = w /\ w.chain = d
  BY <1>5, <1>6, <1>7, BecomeEnds
<1>9. CASE i = k
  <2>1. Agree(d, d, k)
    BY DEF Agree
  <2>2. Part(d, k) = d
    BY <1>4, <2>1, PartIs
  <2> QED  BY <1>2, <1>4, <1>8, <1>9, <2>2
<1>10. CASE i < k
  BY <1>2, <1>4, <1>8, <1>10
<1> QED  BY <1>4, <1>9, <1>10

\* A node that is ready takes the next block.
LEMMA PushReady ==
    ASSUME ChainInv, NEW b \in Blocks, PushBlock(b), FitsHead(b), node.fork.head # NoHead,
           ~ (HeadNum(node.fork) > head_block_num(node)), head_block_id(node) \in node.fork.index
    PROVE  head_block_id(node') = b
<1>1. PICK m \in Nat : m = Len(flushed)
  BY RunningRest
<1>2. PICK n \in Nodes : /\ n = Running /\ n \in Work(log, m) /\ n.chain = node.chain
                         /\ n.thrown = FALSE /\ n.fork = node.fork
  BY <1>1, RunningRest, RestParts
<1>3. log \in Logs /\ node \in Nodes
  BY DEF ChainInv
<1>4. PICK x \in Bare(log, m) : x = [n EXCEPT !.pending = <<>>, !.session = FALSE]
  BY <1>2, CleanBare
<1>5. x.chain = node.chain /\ x.pending = <<>> /\ ~ x.thrown /\ x.fork = node.fork
  BY <1>2, <1>4, EmptyTxs DEF Nodes
<1>6. CanApply(x, b)
  <2>1. PICK k : k = [node EXCEPT !.pending = <<>>] /\ k.chain = node.chain /\ k.pending = <<>>
    <3>1. [node EXCEPT !.pending = <<>>].chain = node.chain /\ [node EXCEPT !.pending = <<>>].pending = <<>>
      BY <1>3 DEF Nodes
    <3> QED  BY ONLY <3>1
  <2>2. CanApply(k, b)
    BY <2>1 DEF FitsHead
  <2> QED  BY <1>5, <2>1, <2>2, CanApplyLike
<1>7. head_block_id(x) = head_block_id(node) /\ head_block_num(x) = head_block_num(node)
  BY <1>5 DEF head_block_num, head_block_id
<1>8. PICK y : y = DoPushBlock(x, b) /\ y.chain # <<>> /\ Last(y.chain).blk = b
  BY <1>3, <1>5, <1>6, <1>7, PushExtends
<1>9. PICK r \in Rest(log, m) : r = PushBlockOn(n, b) /\ r.chain = y.chain
  <2>1. [n EXCEPT !.pending = <<>>, !.session = FALSE] \in Bare(log, m)
    BY <1>4
  <2>2. /\ PushBlockOn(n, b) \in Rest(log, m)
        /\ PushBlockOn(n, b).chain = DoPushBlock([n EXCEPT !.pending = <<>>, !.session = FALSE], b).chain
    BY <1>2, <1>3, <2>1, PushOnEnds
  <2> QED  BY ONLY <1>4, <1>8, <2>2
<1>10. Become(r)
  BY <1>2, <1>9 DEF PushBlock
<1>11. PICK w : node' = w /\ w.chain = r.chain
  BY <1>10, BecomeEnds
<1>12. head_block_id(w) = b
  BY <1>8, <1>9, <1>11 DEF head_block_id
<1> QED  BY ONLY <1>11, <1>12

\* A push that throws leaves the applied chain as it was or ends where nothing
\* more can be taken back; otherwise the chain only ever gives way to a longer
\* one, over restarts and crashes too; and a node whose fork database is ready
\* moves to a valid next block (_push_block, pop_block, close, reindex).
THEOREM PushesEnd == Spec => PushOutcome
<1> DEFINE Unwound == \/ node'.thrown => node'.chain = node.chain \/ Stuck(node')
                      \/ Restart
                      \/ Crash
           Longer == \/ node'.chain = node.chain
                     \/ Len(node'.chain) > Len(node.chain)
                     \/ node'.thrown /\ Stuck(node')
           Extends == \A b \in Blocks :
                         \/ node.fork.head = NoHead
                         \/ HeadNum(node.fork) > head_block_num(node)
                         \/ head_block_id(node) \notin node.fork.index
                         \/ ~ FitsHead(b)
                         \/ ~ PushBlock(b)
                         \/ head_block_id(node') = b
<1>1. Init => ChainInv
  BY InitInv
<1>2. ChainInv /\ [Next]_vars => ChainInv'
  BY StepInv
<1>3. ChainInv /\ [Next]_vars => [Unwound]_vars
  <2> SUFFICES ASSUME ChainInv, Next, ~ Restart, ~ Crash
               PROVE  node'.thrown => node'.chain = node.chain \/ Stuck(node')
    OBVIOUS
  <2> QED  BY StepEnds DEF Outcome
<1>4. ChainInv /\ [Next]_vars => [Longer]_vars
  <2> SUFFICES ASSUME ChainInv, Next PROVE Longer
    OBVIOUS
  <2>1. CASE ~ Restart /\ ~ Crash
    BY <2>1, StepEnds DEF Outcome
  <2>2. CASE Restart
    <3>1. PICK c \in Chains : c = Rewind(Running).chain /\ ValidChain(c) /\ Matches(log, c)
      BY RewindChain
    <3>2. Become(Reopen(c))
      BY <2>2, <3>1 DEF Restart
    <3> QED  BY <3>1, <3>2, ReopenEnds
  <2>3. CASE Crash
    <3>1. PICK c \in Chains : c = flushed /\ ValidChain(c) /\ Matches(log, c)
      BY DEF ChainInv
    <3>2. Become(Reopen(c))
      BY <2>3, <3>1 DEF Crash
    <3> QED  BY <3>1, <3>2, ReopenEnds
  <2> QED  BY <2>1, <2>2, <2>3
<1>5. ChainInv /\ [Next]_vars => [Extends]_vars
  BY PushReady
<1>6. Spec => [][Unwound]_vars
  BY <1>1, <1>2, <1>3, PTL DEF Spec
<1>7. Spec => [][Longer]_vars
  BY <1>1, <1>2, <1>4, PTL DEF Spec
<1>8. Spec => [][Extends]_vars
  BY <1>1, <1>2, <1>5, PTL DEF Spec
<1> QED  BY <1>6, <1>7, <1>8 DEF PushOutcome, FailedPushUnwound, OnlyLongerAdopted, ReadyNodeExtends

=============================================================================
