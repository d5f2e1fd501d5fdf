--------------------------- MODULE ChainDatabase ---------------------------
(***************************************************************************)
(* btcm::chain::database as the keeper of one chain of blocks: it composes *)
(* the fork database, the undo history of the applied blocks, the block    *)
(* log on disk and the pending transactions.                               *)
(*                                                                         *)
(* All operations run to completion on one thread, so each is one action.  *)
(* Inside, an operation is a sequence of steps on a record of the whole    *)
(* node, any of which may throw; a step after a throw does nothing.        *)
(*                                                                         *)
(* Abstractions.  A block's own validity (header, signatures, operations)  *)
(* is given: blocks outside Good fail before, those in Late after          *)
(* update_global_dynamic_data.  A transaction applies unless it, or one it *)
(* clashes with, is already in the state.  Of the undo history only the    *)
(* number of block states matters here (UndoDatabase has the contents).    *)
(***************************************************************************)
EXTENDS ForkDatabase, SequencesExt

CONSTANTS
    Good,           \* blocks that are valid on top of their previous
    Late,           \* bad blocks that fail late in _apply_block
    Proposing,      \* blocks that execute a proposal
    Witness,        \* block_header::witness of each block
    Witnesses,      \* the scheduled witnesses
    TxsOf,          \* the transactions of each block, in order
    Txs,            \* all transactions
    Clash,          \* pairs of transactions that exclude each other
    MaxMiners,      \* BTCM_MAX_MINERS
    StartVoting,    \* BTCM_START_MINER_VOTING_BLOCK
    Offset,         \* (100% - BTCM_IRREVERSIBLE_THRESHOLD) of the witnesses
    MinUndoHistory, \* BTCM_MIN_UNDO_HISTORY
    MaxUndoHistory  \* BTCM_MAX_UNDO_HISTORY

ASSUME ChainAssumption ==
    /\ Good \subseteq Blocks
    /\ Late \subseteq Blocks \ Good
    /\ Proposing \subseteq Blocks
    /\ Witness \in [Blocks -> Witnesses]
    /\ TxsOf \in [Blocks -> Seq(Txs)]
    /\ IsFiniteSet(Witnesses) /\ MaxMiners \in Nat /\ StartVoting \in Nat
    /\ Offset \in 0 .. Cardinality(Witnesses) - 1
    /\ MinUndoHistory \in Nat \ {0}
    /\ MaxUndoHistory \in Nat \ {0}

VARIABLES
    node,     \* the running node, see below
    log,      \* block_database: the block stored under each number
    flushed   \* the chain in the object database on disk

vars == <<node, log, flushed>>

(* The node is a record                                                    *)
(*   chain     the applied blocks, each with the irreversible block number *)
(*             after it (both live in the object database)                 *)
(*   undo      how many of them the undo history can take back             *)
(*   undo_max  undo_database::_max_size                                    *)
(*   fork      the fork database                                           *)
(*   pending   _pending_tx;  session: _pending_tx_session.valid()          *)
(*   popped    _popped_tx                                                  *)
(*   thrown    an exception is on its way to the caller                    *)
(*   stored    blocks stored in the log by this operation, in order        *)
(*   up        FALSE once open() threw: the process ends                   *)

head_block_id(n) == IF n.chain = <<>> THEN Genesis ELSE Last(n.chain).blk
head_block_num(n) == Num(head_block_id(n))
last_irreversible(n) == IF n.chain = <<>> THEN 0 ELSE Last(n.chain).lib

ChainBlocks(n) == {n.chain[k].blk : k \in 1 .. Len(n.chain)}

\* Transactions in the state: of the chain, and pending ones on top of it.
Applied(n) == (UNION {ToSet(TxsOf[b]) : b \in ChainBlocks(n)}) \cup ToSet(n.pending)

Throw(n) == [n EXCEPT !.thrown = TRUE]

Open == [chain |-> <<>>, undo |-> 0, undo_max |-> MinUndoHistory, fork |-> reset,
         pending |-> <<>>, session |-> FALSE, popped |-> <<>>, thrown |-> FALSE,
         stored |-> <<>>, up |-> TRUE]

-----------------------------------------------------------------------------
(* Applying a block. *)

\* Witness w's last_confirmed_block_num after the blocks of chain c.
LastConfirmed(c, w) ==
    Max({0} \cup {Num(c[k].blk) : k \in {j \in 1 .. Len(c) : Witness[c[j].blk] = w}})

\* std::nth_element: the value at position Offset in ascending order.
NthConfirmed(c) ==
    LET conf == {LastConfirmed(c, w) : w \in Witnesses}
    IN  CHOOSE v \in conf :
            /\ Cardinality({w \in Witnesses : LastConfirmed(c, w) < v}) <= Offset
            /\ Cardinality({w \in Witnesses : LastConfirmed(c, w) <= v}) > Offset

\* The irreversible block number once block b is on chain c, being lib before.
update_last_irreversible_block(c, b, lib) ==
    IF Num(b) < StartVoting
    THEN IF Num(b) > MaxMiners THEN Num(b) - MaxMiners ELSE lib
    ELSE Max({lib, NthConfirmed(Append(c, [blk |-> b, lib |-> lib]))})

\* Whether transactions ts can be applied in order on top of those in s.
CanApplyTxs(ts, s) ==
    /\ \A i \in 1 .. Len(ts) :
          LET before == s \cup {ts[j] : j \in 1 .. i - 1}
          IN  ts[i] \notin before /\ \A t \in before : {t, ts[i]} \notin Clash

\* Mutant: the header's previous is not compared with the head.
CanApply_AnyPrevious(n, b) ==
    /\ b \in Good
    /\ CanApplyTxs(TxsOf[b], Applied(n))
    /\ Num(b) - last_irreversible(n) < MaxUndoHistory

\* validate_block_header, the transactions, the undo history check.
CanApply(n, b) ==
    /\ Prev[b] = head_block_id(n)
    /\ b \in Good
    /\ CanApplyTxs(TxsOf[b], Applied(n))
    /\ Num(b) - last_irreversible(n) < MaxUndoHistory

\* Mutants: the limit is too narrow, too wide.
HistorySize_OneLess(n, b) == Num(b) - last_irreversible(n)
HistorySize_Wide(n, b) == Num(b) - last_irreversible(n) + 3

\* update_global_dynamic_data's sizes, which no undo session takes back.
HistorySize(n, b) == Num(b) - last_irreversible(n) + 1

Resize(n, b) ==
    [n EXCEPT !.undo_max = HistorySize(n, b),
              !.fork     = set_max_size(@, HistorySize(n, b))]

\* start_undo_session drops what exceeds the limit.
Drop(n) == [n EXCEPT !.undo = Min({@, n.undo_max})]

\* push_proposal makes room for its session under the block's.
Propose(n, b) ==
    IF b \in Proposing /\ n.undo >= n.undo_max
    THEN [n EXCEPT !.undo_max = n.undo + 1] ELSE n

\* A block in a session of its own: apply_block, store, commit.
ApplyBlock(n, b) ==
    LET d == Drop(n)
    IN  IF n.thrown THEN n
        ELSE IF ~CanApply(n, b)
        THEN Throw(IF Prev[b] = head_block_id(n) /\ b \in Late THEN Resize(d, b) ELSE d)
        ELSE LET r == Resize(d, b)
                 e == [blk |-> b, lib |-> update_last_irreversible_block(
                                             n.chain, b, last_irreversible(n))]
             IN  Propose([r EXCEPT !.chain = Append(@, e), !.undo = @ + 1,
                                   !.stored = Append(@, b)], b)

\* Mutant: pop_commit does not assert that there is a state to pop.
PopBlock_Unchecked(n) ==
    IF n.thrown THEN n
    ELSE IF n.chain = <<>> \/ ~CanPop(n.fork)
    THEN Throw([n EXCEPT !.session = FALSE])
    ELSE [n EXCEPT !.session = FALSE, !.fork = pop_block(@), !.undo = @ - 1,
                   !.chain = Front(@), !.popped = TxsOf[head_block_id(n)] \o @]

\* database::pop_block
PopBlock(n) ==
    IF n.thrown THEN n
    ELSE IF n.chain = <<>> \/ ~CanPop(n.fork)
    THEN Throw([n EXCEPT !.session = FALSE])
    ELSE IF n.undo = 0
    THEN Throw([n EXCEPT !.session = FALSE, !.fork = pop_block(@)])
    ELSE [n EXCEPT !.session = FALSE, !.fork = pop_block(@), !.undo = @ - 1,
                   !.chain = Front(@), !.popped = TxsOf[head_block_id(n)] \o @]

Steps(k) == [i \in 1 .. k |-> i]

PopBlocks(n, k) == FoldLeft(LAMBDA m, i : PopBlock(m), n, Steps(k))

-----------------------------------------------------------------------------
(* Pushing a block. *)

\* Mutants: the restored blocks are not stored; they are not applied at all.
SwitchBack_Unstored(n, k, second) ==
    [FoldLeft(ApplyBlock, PopBlocks(n, k), second) EXCEPT !.stored = n.stored]
SwitchBack_PopOnly(n, k, second) == PopBlocks(n, k)

\* Take back the k blocks of a branch that turned out bad, and apply the
\* former branch again.
SwitchBack(n, k, second) == FoldLeft(ApplyBlock, PopBlocks(n, k), second)

\* k blocks of the new branch were applied, then one failed: the rest of the
\* branch leaves the fork database, and the exception goes on to the caller.
Recover(n, k, first, second) ==
    LET bad == SubSeq(first, k + 1, Len(first))
    IN  Throw(SwitchBack([n EXCEPT !.thrown = FALSE,
                                   !.fork = set_head(FoldLeft(remove, @, bad), Last(second))],
                         k, second))

\* n is what came of applying the new branch above the given height.
Switched(n, height, first, second) ==
    IF ~n.thrown THEN n ELSE Recover(n, Len(n.chain) - height, first, second)

\* The former branch has been popped; a throw on the way is not caught here.
ApplyBranch(n, first, second) ==
    IF n.thrown THEN n
    ELSE Switched(FoldLeft(ApplyBlock, n, first), Len(n.chain), first, second)

\* Switch from the branch of the applied head to the one of new_head.
SwitchFork(n, new_head) ==
    LET end    == BranchEnd(new_head, head_block_id(n))
        second == Reverse(Branch(head_block_id(n), end))
    IN  ApplyBranch(PopBlocks(n, Len(second)), Reverse(Branch(new_head, end)), second)

\* Mutants: forks of equal height are adopted; only those higher by two are.
Higher_OrEqual(n, new_head) == Num(new_head) >= head_block_num(n)
Higher_ByTwo(n, new_head) == Num(new_head) > head_block_num(n) + 1

Higher(n, new_head) == Num(new_head) > head_block_num(n)

\* A block that could not be applied leaves the fork database.
Appended(n, b) == IF n.thrown THEN [n EXCEPT !.fork = remove(@, b)] ELSE n

\* The fork database has taken b and answers with new_head.
FollowHead(n, b, new_head) ==
    IF Prev[new_head] = head_block_id(n) THEN Appended(ApplyBlock(n, b), b)
    ELSE IF ~Higher(n, new_head) THEN n
    ELSE IF CanFetchBranch(n.fork, new_head, head_block_id(n)) THEN SwitchFork(n, new_head)
    ELSE Throw(n)

\* database::_push_block
DoPushBlock(n, b) ==
    LET f == push_block(n.fork, b)
    IN  IF CanPush(n.fork, b) THEN FollowHead([n EXCEPT !.fork = f], b, f.head.blk)
        ELSE Throw(n)

\* Mutant: the transaction is queued before it is applied.
DoPushTransaction_Early(n, t) ==
    LET s == [n EXCEPT !.session = TRUE, !.undo = Min({@, n.undo_max - 1}),
                       !.pending = Append(@, t)]
    IN  IF CanApplyTxs(<<t>>, Applied(n)) THEN s ELSE Throw(s)

\* _push_transaction: the pending session and a session inside it.
DoPushTransaction(n, t) ==
    LET s == [n EXCEPT !.session = TRUE, !.undo = Min({@, n.undo_max - 1})]
    IN  IF CanApplyTxs(<<t>>, Applied(n)) THEN [s EXCEPT !.pending = Append(@, t)]
        ELSE Throw(s)

\* pending_transactions_restorer, whose destructor swallows every exception.
Restore(n, ts) ==
    FoldLeft(LAMBDA m, t : IF t \in Applied(m) THEN m
                           ELSE [DoPushTransaction(m, t) EXCEPT !.thrown = m.thrown],
             n, ts)

\* Mutant: popped transactions are not tried again.
Waiting_NotPopped(p, pending) == pending

\* What the restorer tries to make pending again, in this order.
Waiting(p, pending) == p.popped \o pending

Resume(n, pending) == Restore([n EXCEPT !.popped = <<>>], Waiting(n, pending))

\* database::push_block
PushBlockOn(n, b) ==
    Resume(DoPushBlock([n EXCEPT !.pending = <<>>, !.session = FALSE], b), n.pending)

\* The log after an operation stored blocks s.
Store(l, s) == FoldLeft(LAMBDA m, b : [m EXCEPT ![Num(b)] = b], l, s)

\* Let node m, the outcome of an operation, be the node from now on.
Become(m) ==
    /\ node' = [m EXCEPT !.stored = <<>>]
    /\ log' = Store(log, m.stored)

Running == [node EXCEPT !.thrown = FALSE]

Init ==
    /\ node = Open
    /\ log = [i \in 1 .. Max({Num(b) : b \in Blocks}) |-> Genesis]
    /\ flushed = <<>>

PushBlock(b) ==
    /\ node.up
    /\ Become(PushBlockOn(Running, b))
    /\ UNCHANGED flushed

PushTransaction(t) ==
    /\ node.up
    /\ Become(DoPushTransaction(Running, t))
    /\ UNCHANGED flushed

\* _generate_block: the pending transactions, those left out aside, are
\* applied again in a fresh pending session; the block is then pushed.
GenerateBlock(b) ==
    /\ node.up
    /\ Prev[b] = head_block_id(node)
    /\ b \in Good
    /\ \E kept \in SUBSET (1 .. Len(node.pending)) :
          TxsOf[b] = SelectSeq(node.pending, LAMBDA t : \E i \in kept : node.pending[i] = t)
    /\ LET m == Drop([Running EXCEPT !.session = FALSE])
           s == IF node.pending = <<>> THEN m
                ELSE [m EXCEPT !.undo = Min({@, m.undo_max - 1})]
       IN  Become(PushBlockOn(s, b))
    /\ UNCHANGED flushed

-----------------------------------------------------------------------------
(* Closing and opening. *)

\* close(rewind): pop to the irreversible block, as far as it goes.
Rewind(n) ==
    LET clear      == [n EXCEPT !.pending = <<>>, !.session = FALSE]
        step(m, i) == LET p == PopBlock(m)
                      IN  IF p.thrown THEN p
                          ELSE [p EXCEPT !.fork = remove(@, head_block_id(m))]
    IN  FoldLeft(step, clear, Steps(head_block_num(n) - last_irreversible(n)))

LastLogged == Max({0} \cup {i \in DOMAIN log : log[i] # Genesis})

\* Mutant: reindex_range stops one short.
Logged_Short(from, to) == SubSeq(log, from, to - 1)

\* The blocks reindex_range reads.
Logged(from, to) == SubSeq(log, from, to)

\* reindex applies the older blocks with neither fork database nor undo history.
Replay(n, b) ==
    IF n.thrown THEN n
    ELSE [ApplyBlock(n, b) EXCEPT !.undo = 0, !.stored = <<>>]

\* reindex_range up to to, when it is far enough ahead.
ReplayTo(n, to) ==
    IF head_block_num(n) + 1 < to
    THEN FoldLeft(Replay, n, Logged(head_block_num(n) + 1, to)) ELSE n

\* The last phase of reindex, on the node that the others left: the blocks
\* from the head on are pushed, and an exception ends the process.
PushLogged(n) ==
    LET last       == head_block_num(n)
        start      == IF last > 0 THEN [n EXCEPT !.fork = start_block(@, log[last])] ELSE n
        push(m, b) == IF m.thrown THEN m ELSE PushBlockOn(m, b)
    IN  FoldLeft(push, start, Logged(last + 1, LastLogged))

Opened(n) == [n EXCEPT !.up = ~n.thrown]

\* open() on the object database on disk, which holds chain c, and reindex().
Reopen(c) ==
    LET n == [Open EXCEPT !.chain = c]
    IN  IF LastLogged <= Len(c) THEN n
        ELSE Opened(PushLogged(ReplayTo(n, LastLogged - MaxUndoHistory)))

\* The object database on disk after that: reindex flushes it on the way.
Reflushed(c) ==
    LET n == ReplayTo([Open EXCEPT !.chain = c], LastLogged - 2 * MaxUndoHistory)
    IN  IF n.thrown THEN c ELSE n.chain

Restart ==
    LET c == Rewind(Running).chain
    IN  /\ node.up
        /\ flushed' = Reflushed(c)
        /\ Become(Reopen(c))

\* The process dies: the object database on disk is the one of the last flush.
Crash ==
    /\ flushed' = Reflushed(flushed)
    /\ Become(Reopen(flushed))

Next ==
    \/ \E b \in Blocks : PushBlock(b) \/ GenerateBlock(b)
    \/ \E t \in Txs : PushTransaction(t)
    \/ Restart
    \/ Crash

Spec == Init /\ [][Next]_vars

-----------------------------------------------------------------------------
(* Milder surroundings, in which more is promised. *)

\* b does not contradict a block that is irreversible by now.
Compatible(b) ==
    LET m == Min({last_irreversible(node), Num(b)})
    IN  m > 0 => AtNum(b, m) = node.chain[m].blk

\* b comes after its previous, as fork_database.hpp asks for.
InOrder(b) == Prev[b] \in node.fork.index \cup ChainBlocks(node) \cup {Genesis}

\* No witness majority contradicts itself, and nobody restarts the node.
SafeNext ==
    \/ \E b \in Blocks : Compatible(b) /\ PushBlock(b)
    \/ \E b \in Blocks : GenerateBlock(b)
    \/ \E t \in Txs : PushTransaction(t)

SafeSpec == Init /\ [][SafeNext]_vars

Deliver(b) == InOrder(b) /\ Compatible(b) /\ PushBlock(b)

\* The blocks of S, in order.
OrderedNext(S) ==
    \/ \E b \in S : Deliver(b) \/ GenerateBlock(b)
    \/ \E t \in Txs : PushTransaction(t)

\* Delivering b changes the node: ENABLED <<Deliver(b)>>_vars, spelled out.
Useful(b) ==
    LET m == PushBlockOn(Running, b)
    IN  /\ InOrder(b)
        /\ Compatible(b)
        /\ [m EXCEPT !.stored = <<>>] # node \/ Store(log, m.stored) # log

-----------------------------------------------------------------------------
(* Properties. *)

\* The transactions of the first k blocks of a chain.
TxsIn(c, k) == UNION {ToSet(TxsOf[c[j].blk]) : j \in 1 .. k}

\* The node keeps to its shape.  In particular the undo history is never
\* popped below empty (pop_commit) and never longer than the chain.
ChainTypeOK ==
    /\ \A c \in {node.chain, flushed} : \A k \in 1 .. Len(c) :
          c[k].blk \in Blocks /\ c[k].lib \in 0 .. Len(c)
    /\ node.undo \in 0 .. Len(node.chain)
    /\ node.undo_max \in Nat \ {0}
    /\ node.fork.index \subseteq Blocks
    /\ node.fork.linked \subseteq node.fork.index
    /\ node.fork.head = NoHead \/ node.fork.head.blk \in Blocks
    /\ ToSet(node.pending) \subseteq Txs
    /\ node.stored = <<>>
    /\ {node.session, node.thrown, node.up} \subseteq BOOLEAN
    /\ log \in [DOMAIN log -> Blocks \cup {Genesis}]

\* Whatever is pushed in whatever order, and however many switches fail, the
\* applied blocks are valid, each builds on the one before, and no
\* transaction is applied twice (_push_block, apply_block).
ChainIsValid ==
    /\ ChainBlocks(node) \subseteq Good
    /\ \A k \in 1 .. Len(node.chain) :
          Prev[node.chain[k].blk] = IF k = 1 THEN Genesis ELSE node.chain[k - 1].blk
    /\ \A k \in 1 .. Len(node.chain) :
          CanApplyTxs(TxsOf[node.chain[k].blk], TxsIn(node.chain, k - 1))

\* The block log holds the applied chain, also after a switch that failed
\* half-way wrote blocks of the other branch (_push_block's stores).
LogMatchesChain == \A k \in 1 .. Len(node.chain) : log[k] = node.chain[k].blk

\* Between operations the pending transactions are exactly what the pending
\* session applied on top of the chain, and no popped one is left behind
\* (pending_transactions_restorer, clear_pending's assert).
PendingFits ==
    /\ CanApplyTxs(node.pending, TxsIn(node.chain, Len(node.chain)))
    /\ node.pending # <<>> => node.session
    /\ node.popped = <<>>

\* While the node runs no transaction is forgotten: one that was in the chain
\* or pending still is, or another in the state excludes it.
NoTxLost ==
    [][\/ \A t \in Applied(node) : \E u \in Applied(node') : u = t \/ {t, u} \in Clash
       \/ Restart
       \/ Crash]_vars

\* The log goes on from the applied head: what lies beyond is one branch.
LogGoesOn ==
    \A i \in Len(node.chain) + 1 .. LastLogged :
        Prev[log[i]] = IF i = 1 THEN Genesis ELSE log[i - 1]

\* The chains a node may open with: that of the last flush, that of close(),
\* and none with --replay-blockchain.
OnDisk == {flushed, Rewind(Running).chain, <<>>}

\* At any moment closing and opening again, or dying and opening again, brings
\* back at least the applied chain; and it works, unless a switch that failed
\* left blocks in the log that do not follow the head (close, open, reindex).
RestartKeepsChain ==
    node.up => \A n \in {Reopen(c) : c \in OnDisk} :
                  IsPrefix(node.chain, n.chain) /\ (n.up \/ ~LogGoesOn)

\* No block below the irreversible one of the block before the head is ever
\* taken back, not even by a longer valid branch (set_max_size in
\* update_global_dynamic_data, TooOld in the fork database).
SettledBlocksStay ==
    [][LET k == Len(node.chain) - 1
       IN  k > 0 => IsPrefix(SubSeq(node.chain, 1, node.chain[k].lib - 1), node'.chain)]_vars

\* The undo history reaches back to the irreversible block.
Reaches(n) == n.undo >= head_block_num(n) - last_irreversible(n)

\* No further block can be taken back.
Stuck(n) == n.undo = 0 \/ ~CanPop(n.fork)

\* While the node runs its history goes on reaching back to the irreversible
\* block, also while pending and proposal sessions take places in it, unless
\* it turns to a branch with a lower irreversible block or gets stuck
\* (update_global_dynamic_data).
HistoryKeepsReaching ==
    [][\/ Reaches(node) => Reaches(node')
       \/ last_irreversible(node') < last_irreversible(node)
       \/ Stuck(node')]_vars

\* A push that throws leaves the applied chain as it was, unless it got stuck
\* while taking a branch back (_push_block's "pop all blocks from the bad fork").
FailedPushUnwound ==
    [][\/ node'.thrown => node'.chain = node.chain \/ Stuck(node')
       \/ Restart
       \/ Crash]_vars

\* Without that exception, as the comment on push_block promises
\* (database.cpp: "every partial change is unwound").
EveryPushUnwound == [][node'.thrown => node'.chain = node.chain]_vars

\* Unless a push throws, the chain is only ever replaced by a longer one
\* (_push_block: "Only switch forks if new_head is actually higher than head"),
\* and no restart or crash shortens it.
OnlyLongerAdopted ==
    [][\/ node'.chain = node.chain
       \/ Len(node'.chain) > Len(node.chain)
       \/ node'.thrown /\ Stuck(node')]_vars

\* b could be the next block.
FitsHead(b) == CanApply([node EXCEPT !.pending = <<>>], b)

\* While the fork database's head is no higher than the applied one, and knows
\* that one, a valid next block becomes the head.
ReadyNodeExtends ==
    [][\A b \in Blocks :
          \/ node.fork.head = NoHead
          \/ HeadNum(node.fork) > head_block_num(node)
          \/ head_block_id(node) \notin node.fork.index
          \/ ~FitsHead(b)
          \/ ~PushBlock(b)
          \/ head_block_id(node') = b]_vars

\* The node comes to stay at the greatest height of the blocks of S.
Reached(S) == <>[](head_block_num(node) = Max({Num(b) : b \in S}))

\* Between operations, whatever was pushed, refused, switched and restarted:
\* the state has its shape, the applied blocks are a valid chain, the log on
\* disk holds exactly them, and what is pending fits on top.
ChainSound == ChainTypeOK /\ ChainIsValid /\ LogMatchesChain /\ PendingFits

\* A push that throws leaves the chain alone if it can, the head moves only to
\* a greater height, and a node that is ready for a valid next block moves there.
PushOutcome == FailedPushUnwound /\ OnlyLongerAdopted /\ ReadyNodeExtends

=============================================================================
