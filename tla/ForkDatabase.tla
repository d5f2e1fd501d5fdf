---------------------------- MODULE ForkDatabase ----------------------------
(***************************************************************************)
(* btcm::chain::fork_database: the tree of recent blocks, of which the     *)
(* chain database applies one branch.                                      *)
(*                                                                         *)
(* A fork database is a record                                             *)
(*   index    the blocks in _index                                         *)
(*   linked   those of them whose weak pointer prev still leads somewhere  *)
(*   head     _head, NoHead when it is null; a head's item need not be the *)
(*            one in the index: it may have been removed, or have been     *)
(*            refused as a duplicate (own = FALSE)                         *)
(*   max_size _max_size                                                    *)
(* An item lives while the index or _head holds it, and a link dies with   *)
(* the item it leads to.  _unlinked_index is always empty: push_block      *)
(* throws before its insert.  fork_item::invalid is never set.             *)
(***************************************************************************)
EXTENDS Integers, Sequences, FiniteSetsExt

CONSTANTS
    Blocks,   \* all blocks anybody may produce
    Genesis,  \* the previous of a first block: the all-zero id
    Prev,     \* block_header::previous of each block
    NoHead    \* null

\* The blocks from b down to the first one.
Path[b \in Blocks] == IF Prev[b] = Genesis THEN <<b>> ELSE <<b>> \o Path[Prev[b]]

\* block_header::block_num, and the number a block id carries.
Num(b) == IF b = Genesis THEN 0 ELSE Len(Path[b])

\* The ancestor of b with number n, b included.
AtNum(b, n) == Path[b][Num(b) - n + 1]

\* A block names its previous by a hash, so that there are no loops.
ASSUME PrevAssumption ==
    /\ IsFiniteSet(Blocks) /\ Blocks # {}
    /\ Genesis \notin Blocks
    /\ Prev \in [Blocks -> Blocks \cup {Genesis}]
    /\ \A S \in SUBSET Blocks : S # {} => \E b \in S : Prev[b] \notin S
    /\ NoHead \notin [blk : Blocks, own : BOOLEAN, linked : BOOLEAN]

Item(b, own, link) == [blk |-> b, own |-> own, linked |-> link]

HeadNum(f) == Num(f.head.blk)

\* Links to items that no longer exist are dead.
Settle(f) ==
    LET alive == f.index \cup (IF f.head # NoHead /\ f.head.own THEN {f.head.blk} ELSE {})
    IN  [f EXCEPT !.linked = {c \in f.linked \cap f.index : Prev[c] \in alive},
                  !.head   = IF f.head = NoHead THEN NoHead
                             ELSE [f.head EXCEPT !.linked = @ /\ Prev[f.head.blk] \in alive]]

\* Forget the blocks numbered below n.
Prune(f, n) == Settle([f EXCEPT !.index = {c \in f.index : Num(c) >= n}])

reset == [index |-> {}, linked |-> {}, head |-> NoHead, max_size |-> 1024]

TooOld(f, b) == f.head # NoHead /\ Num(b) <= Max({0, HeadNum(f) - f.max_size})

Unlinkable(f, b) == f.head # NoHead /\ Prev[b] # Genesis /\ Prev[b] \notin f.index

CanPush(f, b) == ~TooOld(f, b) /\ ~Unlinkable(f, b)

\* Mutant: a head must be higher by two to replace the old one.
Better_ByTwo(f, b) == f.head = NoHead \/ Num(b) > HeadNum(f) + 1

Better(f, b) == f.head = NoHead \/ Num(b) > HeadNum(f)

\* push_block, when it does not throw.
push_block(f, b) ==
    LET own  == b \notin f.index
        link == f.head # NoHead /\ Prev[b] # Genesis
        g    == [f EXCEPT !.index  = @ \cup {b},
                          !.linked = IF own /\ link THEN @ \cup {b} ELSE @]
    IN  IF Better(f, b)
        THEN LET h == Settle([g EXCEPT !.head = Item(b, own, link)])
             IN  IF f.head = NoHead THEN h ELSE Prune(h, Num(b) - Min({f.max_size, Num(b)}))
        ELSE g

CanPop(f) == f.head # NoHead /\ f.head.linked

\* pop_block: _head moves to its parent, wherever that leads.
pop_block(f) ==
    LET p == Prev[f.head.blk]
    IN  Settle([f EXCEPT !.head = Item(p, TRUE, p \in f.linked)])

start_block(f, b) ==
    Settle([f EXCEPT !.index = @ \cup {b}, !.head = Item(b, b \notin f.index, FALSE)])

set_head(f, b) == Settle([f EXCEPT !.head = Item(b, TRUE, b \in f.linked)])

remove(f, b) == Settle([f EXCEPT !.index = @ \ {b}])

set_max_size(f, n) ==
    LET g == [f EXCEPT !.max_size = n]
    IN  IF f.head = NoHead THEN g ELSE Prune(g, Max({0, HeadNum(f) - n}))

\* fetch_branch_from(first, second): the number of the two lowest blocks it
\* returns, which share their previous; the branches run down to them.
BranchEnd(first, second) ==
    Max({n \in 1 .. Min({Num(first), Num(second)}) :
            Prev[AtNum(first, n)] = Prev[AtNum(second, n)]})

\* A branch, newest block first.
Branch(b, n) == SubSeq(Path[b], 1, Num(b) - n + 1)

\* The walk needs both ends in the index and every link on the way.
CanFetchBranch(f, first, second) ==
    /\ first \in f.index
    /\ second \in f.index
    /\ \A b \in {first, second} : \A n \in BranchEnd(first, second) + 1 .. Num(b) :
          AtNum(b, n) \in f.linked

=============================================================================
