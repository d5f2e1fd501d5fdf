# A verification project for bitcoinmusic-core

TLA+ models of bitcoinmusic-core, a Graphene/Steem-style
delegated-proof-of-stake node: the parts that decide which blocks are the chain
and keep its state through forks, failures and restarts; what blocks do with
stake, votes, money and rewards; who may act for an account; when a witness makes
a block; and how nodes bring each other up to date. TLC runs on small
instances check them. TLAPS proofs, for all values of the constants, cover the
undo history, the object files and the block log, the chain database with its
fork database, the stake of accounts, the ledger with its market, account
recovery and the witness plugin. Paths below are relative to the
repository, which is mounted as `src/`.

- [1. The system](#1-the-system)
- [2. Modules and the code they model](#2-modules-and-the-code-they-model)
- [3. What the runs check](#3-what-the-runs-check)
- [4. What is proved](#4-what-is-proved)
- [5. Findings](#5-findings)
- [6. What is not modelled](#6-what-is-not-modelled)
- [7. Plan](#7-plan)

## 1. The system

A node keeps one chain of blocks and the state that results from applying them.
All of that runs on one thread, and nothing in `libraries/chain` or `libraries/db`
yields to another fiber, so an operation is atomic towards the others; what makes
it hard is that any step of an operation may throw, that blocks arrive in any
order and any number of times, that forks are switched and switched back, and
that the process may die between any two writes. The network code is another
thread, of many fibers, which give way whenever they call the chain thread or a
socket.

| Component | State | Operations | Interaction | What is hard | Correctness |
|---|---|---|---|---|---|
| object database (`libraries/db`) | indexes of objects by id and by unique secondary keys, `_next_id` | create, modify, remove, insert | reports each change to the undo database | reuse of ids after an undo | ids unique, keys unique |
| undo history (`libraries/db/undo_database.cpp`) | `_stack` of undo states, `_active_sessions`, `_disabled`, `_max_size` | start_undo_session, undo, merge, commit, pop_commit, set_max_size, enable, disable | called by every push, pop and transaction | nested sessions, merges, dropping of old states, recording turned off in replays | undoing restores exactly what was there; never throws half way |
| object files (`object_database::flush`, `open`, `wipe`) | three directories | flush, open, wipe | close, reindex, application start | death between file operations | one complete state is loaded, the last flush is not lost |
| fork database (`libraries/chain/fork_database.cpp`) | tree of recent blocks, `_head`, `_max_size`, weak links to parents | push_block, pop_block, set_head, remove, set_max_size, start_block, fetch_branch_from | proposes the head to the chain database | head and index may disagree, links die with pruned items | the best known branch can be found and walked |
| block log (`libraries/chain/block_database.cpp`) | two files, each behind a buffered stream | store, remove, fetches, last_id | written on each applied block, read by reindex and by peers | buffers reach the disk in either order; a failed stream stays failed | fetches return what was stored last under a number |
| chain database (`libraries/chain/database.cpp`, `db_with.hpp`) | applied chain, irreversible block, pending and popped transactions | push_block, push_transaction, generate_block, pop_block, close, open, reindex | composes all of the above | failed fork switches, restarts with a short undo history | chain valid, log in step, no transaction lost, settled blocks stay, the node catches up |
| stake | vesting shares, withdrawals and routes, delegations and their expiry, totals | transfer_to_vesting, withdraw_vesting, delegate, redelegate, periodic withdrawals | votes, bandwidth and rewards read it | several checks on parts of one sum; totals by differences | no share promised twice, totals right |
| voting | ballots, proxies, `proxied_vsf_votes`, tallies | vote, proxy, adjust_proxied_witness_votes | every change of shares | chains of proxies longer than what counts | each tally is the sum it stands for |
| witness schedule and hard forks | virtual times, the shuffled schedule, missed slots, version votes, medians | update_witness_schedule, update_missed_blocks, process_hardforks | once a round and once a block | 128-bit times at their end, keys lost in a round | everyone has a turn, somebody can sign, majorities decide |
| money and market | balances, interest, limit orders, vesting fund, supplies, feeds | transfers, orders, conversions, rewards, fees | all operations | rounding twice, interest as a side effect | supplies add up, trades within limits, shares keep their value |
| streaming and royalties | reports, statistics, contents, compensation balances | report, request and cancel reporting, content changes, cashout a day later | paid from the block's reward, by platform stake | counters by differences over a day of changes | counters match reports, payments in proportion, no exception out of a block |
| authorities, proposals, recovery | authorities, proposals with approvals, owner history, requests | verify_authority, proposal create/update/delete, push_proposal, account recovery | before and inside transactions | cyclic graphs of accounts, nested execution, races of time limits | nothing done half or without its signatures |
| witness plugin (`libraries/plugins/witness`) | alarm, `_production_enabled` | schedule_production_loop, maybe_produce_block | calls generate_block | late timers, fork switches | one block per slot, no slot slept through |
| network (`libraries/net/node.cpp`) and its delegate (`libraries/app/application.cpp`) | peers, requests, lists of ids, received blocks | sync protocol, inventory, fetching loops, time-outs | push_block through the delegate | state read before and used after a call to another thread | peers come to the same chain |
| APIs, other plugins, wallet, programs | sessions, subscriptions, observers | queries | read the chain state | - | - |

`PROJECT.json` lists every component with its status, and under `hazards` the
places in the code that a test would hardly reach, with the properties that
cover them.

## 2. Modules and the code they model

```
SnapshotStack          (abstract)  a stack of complete copies
      ^ refined by
UndoHistory  --extends-->  UndoDatabase     object and undo database
      ^ proved in UndoProofs

ChainDatabase --extends--> ForkDatabase     push, pop, switch, restart
BlockDatabase, ObjectStore                  the block log and the object files

Stake                                       shares, withdrawals, delegation
Voting, WitnessSchedule, WitnessPlugin      who is elected and makes blocks
Ledger, Streaming                           money, market, rewards
Proposals --extends--> Authority            who may act for an account
Recovery                                    and how it is won back
BlockSync                                   the nodes of a network

UndoProofs, ChainProofs, LedgerProofs       proofs about the modules they are named after
ElectionProofs                              about Voting, WitnessSchedule, WitnessPlugin
DiskProofs                                  about BlockDatabase and ObjectStore
AccountProofs                               about Stake and Recovery
FoldLemmas, SequenceFolds                   lemmas on sums and folds for them

MCStorage                                   instances for TLC: undo history, log and files
MCConsensus --extends--> MCChain, MCLedger  the chain, the money
MCChainMild --extends--> MCChain            the chain in milder surroundings
MCAccounts --extends--> MCStake, MCAuthority  what accounts own, who acts for them
MCElection, MCSync                          votes and schedule, the network
```

ChainDatabase composes the components at the level at which they interact: it
uses the fork database whole, of the undo history the number of block states
(UndoDatabase shows that popping one returns to the state before), and of the
log what is stored under each number. The file-level behaviour of the log and
of the object files is in modules of their own. BlockSync composes many nodes,
each with an abstract chain database.

The modules on what blocks do have one action per operation or per piece of
periodic work; that an operation that throws changes nothing is what the undo
history gives. To keep instances small but interesting, most of them take
*profiles* (or *stories*): records that bound who does what, with which amounts,
in one behaviour. The initial state picks one, and all checks run over all of
them. Where an MC module extends several components, its variable `part` says
which of them a behaviour is about; the others stay as they begin.

### UndoDatabase, UndoHistory, SnapshotStack

`objects` and `next_id` are the contents of the indexes; `stack` is
`undo_database::_stack`, one record per `undo_state` with the fields of the C++
struct; `sessions` has one flag per open session (its `_disable_on_exit`), so
its length is `_active_sessions`. `CreateObject`, `ModifyObject` and
`RemoveObject` are the functions of `primary_index` with their notification of
the undo database, `on_create`, `on_modify`, `on_remove` being operators on the
undo state on top. `Undo` and `PopCommit` apply `rollback_state`, whose four
loops are four operators, and `RollbackCompletes` says when none of them throws.
`MergeStates` is the case table of `merge()`.

How callers use sessions is part of the model. A block, the pending session and
a transaction's session nest at most two deep outside of proposals
(`StartUndoSession`); `push_proposal` makes room and opens its own
(`PushProposal`), in a replay with recording forced on; only a block's session
commits; `set_max_size` is called while a block is applied. Two abstractions: an
object is a key, covered by a unique index and never changed by a modify, and a
value; and `MaxStack` bounds how deep proposals nest.

UndoHistory adds `snaps`, the complete contents of the database when each undo
state was begun. Its properties compare the differences the code keeps with
these copies. SnapshotStack is what the users of the undo history rely on: a
stack of copies with restore, forget and begin.

### ForkDatabase

No state of its own: a fork database is a record, and each member function an
operator. What matters is the life time of items. `prev` is a weak pointer; an
item lives while the index or `_head` holds it, and `Settle` kills the links to
items that are gone. `_head` may be an item that is not in the index: because it
was removed, or because the index refused it as a duplicate (`own = FALSE`).
`_unlinked_index` stays empty, since `push_block` rethrows before its insert,
and `_push_next` is never called.

### ChainDatabase

The variable `node` is a record of everything in memory; `log` and `flushed` are
on disk. An operation is a function from node to node: the steps of the code in
their order, where `thrown` stands for an exception on its way out and a step
after a throw does nothing. `DoPushBlock` is `_push_block` with its three
outcomes; `SwitchFork` has the uncaught pop loop, the caught application of the
new branch, the removal of the rest of it, `set_head`, and the switch back.
`ApplyBlock` is a block in its undo session, including what no session takes
back: the sizes of the two histories. `Restore` is the destructor of
`pending_transactions_restorer`. `Rewind` is `close(true)`, `Reopen` is `open`
and `reindex` with its phases.

Whether a block is valid in itself is given (`Good`; `Late` ones fail after the
history sizes were set). A transaction applies unless it or one it clashes with
is in the state already. Checkpoints and skip flags are left out. In this module
a crash keeps the writes to the log (BlockDatabase drops them).

`SafeNext` and `OrderedNext` describe milder surroundings: no block contradicts
one that is irreversible already, nobody restarts the node; in the second, blocks
also come after their previous. MCChainMild runs both, and adds fairness to the
second, see below.

### BlockDatabase

`blocks` and `index` are the files, `bbuf` and `ibuf` what the two streams hold
back until their next seek. A packed block is a sequence of cells that know
their block, so that reading a piece of the file that is not a block, or not
the right one, is told apart. `failed` is the failbit of `_blocks`: reading past
the end sets it and no operation of the class clears it; a store then finds
position -1 and its write is refused or ignored, depending on the standard
library (both are in `StoreFailed`). `Die` loses the buffers, or part of them;
`PowerLoss` also the tail of the blocks file, which nothing syncs. `Startup` is the
scan in `last_index_entry` together with the first block reindex will push again,
`Replay` and `ReplayGap` are the last phase of `reindex_range`, which stores what
it reads; the phases before it only read (`Fetch`). Torn index entries are left
out. `latest` and `touched` are history variables.

### ObjectStore

Three directories, each with a lock and a file per index; the process may stop
before every single file operation of `flush` and `wipe`. The state in memory is
one version number per index. `done` and `torn` are history variables.

### Stake

The vesting fields of accounts, the delegation and expiration objects, the
withdrawal routes and the two totals. `Block` is the periodic part of
`_apply_block`: `process_vesting_withdrawals` goes through the due accounts in
the order of their ids and through each one's routes, rounding each part down,
and expired delegations return. Amounts are shares, so a purchase enters with
the shares it buys (Ledger has the price). A unit of time is a withdrawal
interval; times count down. Delegated shares, shares on their way back, shares being
withdrawn and shares redelegated by a streaming platform are checked by
different operations against different parts of the same sum: `PromisedOnce`
says that together they never exceed it.

### Voting

`proxied[a][d]` is `proxied_vsf_votes`: the shares that reach a from distance d.
`adjust_proxied_witness_votes` and `adjust_witness_votes` carry differences to
the end of the chain of proxies, as far as `Depth`. Setting a proxy takes the old
chain's share off, tears up the account's ballots and adds to the new chain.
Streaming platforms are voted for by the same functions with other tables, and
with one check fewer, which `PlatformVotesDriftOnlyByProxy` is about.

### WitnessSchedule

A block is opened by the witness of a slot (`BeginBlock`), holds operations, and
is closed by `end_block`, which follows the order of `_apply_block`: the missed
slots are counted and cost witnesses that have been absent for a day their keys;
at the end of a round come the new schedule with the virtual times and their
reset, the votes for a hard fork and the medians; then the hard fork itself. Once
all is settled only those miss slots who cannot produce. Numbers of blocks and slots
are kept modulo what they are compared with, so that the state space is finite
although time is not. After `Settle` votes and keys change no more, which the
liveness properties ask for. `MayLeave` is an assumption on the surroundings: the
last scheduled witness that is alive does not give up its key. `Lap` is the length of a lap and the largest number at once, so
that wrapping would show.

### WitnessPlugin

The production task on a clock of sixths of a second. It is started some time
after its alarm (`late`) and takes a while (`work`); in between blocks arrive,
and the node switches to forks without its blocks. `maybe_produce_block` is the chain
of conditions in the code's order, with its rounding to the nearest second, and
`schedule_production_loop` the alarm at the next full second, or one later
when that is too near. `InTime` is a task that is less than half a second late,
`TooLate` one that may be more.

### Ledger

Balances of BTCM and XUSD with the seconds on which XUSD earns interest
(`adjust_balance` pays it when the balance is touched), limit orders with
`match` and `fill_order`, the vesting fund at its price, conversions at the
median feed, block rewards, unclaimed genesis balances, and the supplies.
`limit_order_create` is one action: `apply_order` folds `match` over the orders
that cross the new one, from the best price on, until nothing of the new order is
left; `match` calls `fill_order` for both sides, which takes off what is paid and
calls `cancel_order` when the rest is too small to buy anything. During that an
order that is removed has nothing for sale; `Resting` is the book without them.
`clear_expired_orders` is part of the block.

### Streaming

A report adds to a dozen counters, for the listener, the platform and the
network, and is an object of its own; a day later the cashout of a block takes
the time off again and divides the content reward by stake, by listening time,
and between the reporting platform, the platform of the listener and the
content, then between publishers and composers by their shares. Contents
change and are disabled, and reporting requests are cancelled, in between. Shares
are withdrawn, from a platform or, by a route with `auto_vest`, into one; neither
changes `total_vested_by_platforms`, by which rewards are divided. Divisions keep
their rounding and throw where the code throws: a block whose cashout throws is
undone, and `CashoutThrowsOnlyUncounted` says which one that can be.

### Authority, Proposals, Recovery

Authority is `sign_state`: `check_authority` with its early return at the
threshold, the depth limit and the memory of approved accounts, written as a
recursive operator that threads that memory through the loops in the order of
`flat_map`. The reference it is compared with is a fixed point: what a set of keys
and approvals can reach.

Proposals has the table of proposals, `required_approval_index`, `push_proposal`
with its nesting guard, execution on approval and at expiry. Proposed
operations include updates and deletions of proposals, so that execution is
recursive; a failing operation unwinds the proposal's session, and what the
session had removed comes back as the undo history brings it back, unlisted.
A transaction may also be applied as a pending one only, and undone.

Recovery has one account: its owner authority, the history of owner authorities,
the recovery account, requests and the pending change of the recovery account,
each with its time limit. Whoever holds the owner authority, owner or thief, may
act at any moment.

### BlockSync

Each node has for each peer what `peer_connection` keeps for sync (the lists of
ids to fetch, `last_block_delegate_has_seen`, what was requested, the flags of
both directions) and, for all peers, `_active_sync_requests`,
`_received_sync_items`, `_new_received_sync_items`, the inventory and what is
being fetched. Messages between two nodes arrive in order. A handler
that calls the delegate is split at the call: `asking` and `handling` hold what
the fiber remembers while others run. The delegate is the abstract chain
database: a set of blocks and the head of the longest branch, with
`get_blockchain_synopsis` and `get_block_ids` translated from
`application.cpp`. Lost connections take their messages along, and both ends
notice at different times. `Stories` says where the nodes stand and who makes
which blocks. Blocks have a time (`Slot`): a peer that seems to have more blocks
than fit between the last one seen from it and now is told to close the connection
(`Future`), and is disconnected when it does not (`Terminate`). The clock is at
least at the newest block there is (`Now`); that it stands there is the case in
which the test is tightest.

## 3. What the runs check

| Run | Instance | Distinct states | Shows |
|---|---|---|---|
| `storage` | 1 index, 2 instances, 2 keys, 2 values, histories of 1 or 2, proposals on up to 3 states; 4 blocks, one longer, blocks file of 7 cells; files of 3 indexes, versions up to 3 | 2,294,176 | the undo history is exact and safe, refines SnapshotStack, and the inductive invariant holds; `LogSound`: fetches are exact, one number at risk; `StoreSound`, `OneFlushLoaded`: one flush is loaded, the last one is kept |
| `consensus` | 9 blocks of 2 branches, 1 of them invalid, 2 clashing transactions, 1 witness of a young chain, undo limit 3; 2 accounts, 2 orders, 5 profiles; 2 platforms, 1 content, 3 reports, 6 profiles | 421,457 | `ChainSound` (chain valid, log in step, pending transactions fit), restart and crash recover, no transaction lost, settled blocks stay; `SupplyAddsUp`, `OrdersFair`, `SharesKeepTheirValue`; `StreamingSound`, `PaidInProportion` |
| `chain_mild` | 14 blocks of 4 branches, 2 of them invalid, 3 witnesses, one that lags behind; of these 7 valid blocks for what is eventually reached | 107,103 | `HistoryKeepsReaching`; `PushOutcome`: failed pushes unwound, only longer chains adopted, a ready node extends; `Converges`: the node reaches the greatest height |
| `accounts` | 3 accounts, 3 profiles, up to 10 shares; 4 accounts with cycles, 2 keys, 1 content, 3 proposals, 4 stories; 1 account to recover, 2 owner authorities, 2 partners | 506,265 | `StakeAddsUp`: promised once, delegations, redelegations and totals add up; `WithdrawalsMove`: exactly what was asked; `PlatformsTotalKept`: the platforms' total is off only by the named steps; `AllOrNothing`, `NoForgery`, `CheckIsExact`, `ProposalsSound`, `ApprovalRules`; `RecoverySound` |
| `election` | 4 voters with proxies 2 deep, 3 witnesses and 1 platform; 4 witnesses in a schedule of 2; 8 seconds of production | 61,727 | `TalliesAddUp`, `PlatformVotesDriftOnlyByProxy`; `ScheduleSound`, `MajorityDecides`, `ScheduleProgresses`; `ProductionSound` |
| `sync` | 2 or 3 nodes, 9 blocks on 2 branches, 8 stories | 73,645 | `SyncSound`: every request is expected from one peer, nobody is blamed but in the case the property names; `EndsInSync` |
| `chain_stuck` | 10 blocks of 2 branches, 1 of them invalid, 2 witnesses on branches of unlike kind | - | finding 1 of section 5 |
| `sync_two_peers` | 2 blocks offered by two peers | - | finding 2 |
| `stake_total` | the shares of `accounts` | - | finding 3 |
| `proposal_review`, `proposal_owners`, `proposal_index` | the proposals of `accounts` | - | findings 4, 5 and 6 |

**Conjunctions.** Several named parts are checked as one property where they
belong together; the comment of each part, in its module, says what it means.

**Bounds.** `storage`: two ids per index are enough for an id to be undone and
handed out again, and for two objects to compete for a key; a history of two
blocks with two sessions inside and a proposal on top covers every pair of
neighbouring states `merge` can meet. Seven cells allow a block to be
overwritten, overwritten back and replayed; three indexes show any mix of old,
new and cut-short files, three versions a flush after a flush. `consensus`, the
chain: switches that succeed or fail on their last block (x4), proposals
that widen the history, the irreversible block before and after voting starts
(it follows the head at once, so that settled blocks exist at these heights),
and an undo limit of 3 that makes reindex use its phase without undo; its flush
at twice that limit is out of reach at these heights. Slower irreversible blocks
and three witnesses are in `chain_mild`, where switches also get stuck
half-way; `chain_stuck` has a tree on which a switch can
neither go on nor back: a branch of four blocks that become irreversible while
it is adopted, and an invalid fifth. `consensus`, the money:
prices of 3:2 and 2:3 leave remainders on both sides; the vesting fund starts at
a price other than one. The streaming day is three units and reports live longer
than the changes to contents and platforms in between; one withdrawal, from a
platform, into one that has shares or into one that has none. `accounts`, the
shares: two intervals, so that a withdrawal has a first and a last part; routes
of a half and of all, to two accounts; delegators that withdraw, platforms that
redelegate and platforms that withdraw are three profiles. `accounts`, the
authorities: the depth
limit of two is reached along the path from a content to a key; nesting of
proposals exceeds `MaxNesting`. `election`: chains
of four accounts are longer than the depth of two; two ballots reach the limit
of ballots; a lap of 7 with votes up to 2 overflows every few rounds; two places,
of which one is voted for, and four witnesses make the runners-up wait; a day is one
block, so that keys are lost; a third of a second is too short a sleep. `sync`:
seven blocks in answers of three take
several rounds; `MinPrefetch` and `MaxHandle` are small so that every limit is
met, but larger than twice `PerPeer`, as in the code (10000 and 200). `Grace` is 0
(1200 intervals in the code), so that a list of few ids already looks implausible;
in one story two branches have parted for so long that this happens. A behaviour
is not followed to a new connection after that.

**Deadlock** is checked except where a behaviour ends: `accounts` and `consensus`
stop at the bound on time, ids or orders, `sync` when all messages are handled
and all blocks are made. In `election` the clock of the plugin part stops at its
bound with an explicit stuttering step (`Over`).

**Symmetry** is used for keys and values in `storage`, and for
owner authorities and partners in `accounts`; the properties there are
invariants and action properties, which do not tell them apart.

**Fairness.** `chain_mild`: `Offered(b)` is weak fairness of the delivery of
block b, spelled out because its enabledness has to be evaluated: a block that the
node could still use is eventually delivered. `sync` is about why: peers list the
blocks the node lacks and it asks for them. Only valid blocks are offered where
`Converges` is about; with an invalid one the property fails (section 5, the observations on the chain).
`election`: weak fairness of opening and of closing a block. Witness plugins
try every slot, and the application of a block does not stop half way.
Votes and keys change without fairness; `ScheduleProgresses` is about what
follows once they have come to rest. `sync`: weak fairness of each node's
work, `WF_vars(Work(n))`: the thread of the node runs some fiber that is ready,
and its sockets deliver. Connections are lost at most `drops` times; blocks are
made or not.

Each property has a mutant in `PROJECT.json`: a definition of the model
changed the way a plausible slip in the code would change it, under which TLC
finds the property violated.

## 4. What is proved

All theorems hold for every value of the constants, within the assumptions that
the modules state and TLC evaluates on every run.

| Theorem | Module | Statement |
|---|---|---|
| `InvHolds` | UndoProofs | `HSpec => []HInv`, the inductive invariant |
| `TypeCorrect` | UndoProofs | `HSpec => []TypeOK` |
| `UndoIsExact` | UndoProofs | `HSpec => []HistoryRetraced` |
| `UndoNeverThrows` | UndoProofs | `HSpec => []RollbackNeverThrows` |
| `MergeIsCausal` | UndoProofs | `HSpec => []MergeNeverNA` |
| `SessionsKeepTheirState` | UndoProofs | `HSpec => []OpenSessionsKept` |
| `ImplementsSnapshots` | UndoProofs | `HSpec => AbsSpec`, refinement of SnapshotStack |
| `ChainAlwaysSound` | ChainProofs | `Spec => []ChainSound` |
| `TransactionsKept` | ChainProofs | `Spec => NoTxLost` |
| `RestartBringsBack` | ChainProofs | `Spec => []RestartKeepsChain` |
| `PushesEnd` | ChainProofs | `Spec => PushOutcome` |
| `StoreCorrect` | DiskProofs | `StoreSpec => []StoreSound` |
| `LoadsOneFlush` | DiskProofs | `StoreSpec => OneFlushLoaded` |
| `LogCorrect` | DiskProofs | `LogSpec => []LogSound` |
| `MoneyAddsUp` | LedgerProofs | `LedgerSpec => []SupplyAddsUp` |
| `MarketFair` | LedgerProofs | `LedgerSpec => []OrdersFair` |
| `SharesNeverDiluted` | LedgerProofs | `LedgerSpec => SharesKeepTheirValue` |
| `RecoveryCorrect` | AccountProofs | `RecoverySpec => RecoverySound` |
| `StakeCorrect` | AccountProofs | `Spec => []StakeAddsUp` |
| `WithdrawalsExact` | AccountProofs | `Spec => WithdrawalsMove` |
| `PlatformsFollowed` | AccountProofs | `Spec => PlatformsTotalKept` |
| `TalliesCorrect` | ElectionProofs | `VotingSpec => []TalliesAddUp` |
| `PlatformsDrift` | ElectionProofs | `VotingSpec => PlatformVotesDriftOnlyByProxy` |
| `ScheduleCorrect` | ElectionProofs | `ScheduleSpec => []ScheduleSound` |
| `RoundsDecide` | ElectionProofs | `ScheduleSpec => MajorityDecides` |
| `ProductionCorrect` | ElectionProofs | `PluginSpec => []ProductionSound` |

**Assumptions.** `ConstAssumption` (UndoDatabase): the bounds are natural numbers,
`MaxSize` is not zero, the absent object is no object and the absent id no
number. `PrevAssumption` (ForkDatabase): finitely many blocks, at least one, each
with one previous block and without loops, which is what the hash of the previous
block in an id gives; null is no item. `ChainAssumption` (ChainDatabase): each block has a witness
of a finite set and a sequence of transactions, which blocks are valid in
themselves is given, and the least and the greatest undo history are not zero. `StoreAssumption`
(ObjectStore): there is an index, and an absent file or directory is not one that
is there. `LedgerAssumption` (Ledger): finitely many accounts; amounts, rates and
times are natural numbers, prices and feeds are positive (`price::validate`);
a genesis state that grants shares goes with
rewarded blocks, because the first reward is what backs them.
`LogAssumption` (BlockDatabase): each block has a number, one more than that of
its previous block, and takes up some room. `RecoveryAssumption` (Recovery): the
two periods are not zero (30 days and one day in `config.hpp`), and the absent
partner is none. `StakeAssumption` (Stake): finitely many accounts, which
`IdOrder` lists once each; intervals, times, fees and the whole of a percentage are not
zero; what the profiles hand to operations are amounts and accounts.
`VotingAssumption` (Voting): finitely many accounts, witnesses and platforms, of
which no name is both; proxies count at least one deep, and no account is called
as the absent proxy. `ScheduleAssumption` (WitnessSchedule): finitely many witnesses, at least one at
first; there are more places than are given by votes; a lap is longer than
the most votes; a majority is required for a hard fork; a witness that does not
exist yet has no votes. `WitnessPluginAssumption` (WitnessPlugin): a second has an even number of parts,
of which the margin is at most half.

**Undo history.** That rolling back retraces the copies is not inductive: it
says what a rollback yields, not why, and a modify on top of an undo state that
says too little is only noticed later. `HInv` states for each undo state and
each object which of four cases it is in - created, modified, removed or left
alone since the state was begun - and what the copies on both sides then are
(`Diff`). For each index it says that ids only grow, so that a new id was free
in every copy below: without this a re-insert could find its slot taken, and
`merge` could meet its impossible cases. `WellFormed` adds that keys are unique
in every copy, which rollback needs for its inserts, and that ids are below
`next_id`. The step proof has one lemma per action: a recorded change extends
the newest difference, a session starts an empty one and may drop the oldest,
undo and pop remove the newest and return to its copy, and a merge composes two
differences. The last needs the composition lemma, which is the case table of
`merge()`. `OpenSessionsKept` and `DisabledMeansNoHistory` are in the invariant
because a session's state must be there when it is undone, and because a change
made while recording is off must not fall under any undo state.

**Chain database.** `ChainSound` speaks of the state between operations, but an
operation pops, applies, stores and fails in between. `Work(l, m)` is the set of
nodes in the middle of one: the chain is valid, the log matches it once the blocks
stored so far are in it, what is pending fits, and neither the undo history nor
anything stored reaches below the first m blocks. There is one lemma per step of
the code (pop, apply, store, remove from the fork database, `set_head`, restore
pending transactions), each saying that the step leads from `Work` to `Work`,
also when it throws, and one per loop, by induction over the sequence it goes
through. A push, whichever of its outcomes it has, then ends in a node like the ones
it began with. `ChainInv` adds to `ChainSound` what restarts need: the chain
that was last flushed is valid and in the log, the log has no gaps and under each
number a block of that number, and the undo history does not reach below the
flushed chain. The last is the point: without it a fork switch could replace
blocks in the log below the flushed state, and a crash would then replay a log that
does not go on where that state ends. `TxsIn` grows with the chain, so that
popping keeps transactions apart (`CanApplyTxs` of a part). That the fork
database's branches lead block by block to a common ancestor
(`fetch_branch_from`) is proved from the links it keeps.
For `NoTxLost` the transactions that are in the chain or among the popped ones
(`Held`) only become more through every step of a push, failing ones included
(`Holding`): what a pop takes from the chain it adds to the popped. The restorer
then tries each of them and each that was pending; one that is refused clashes
with one that is there (`Covered`), and accepting another later does not
change that.

`RestartKeepsChain` asks what a replay of the log ends in. A valid chain is
determined by its last block, because each block names the one before
(`ChainUnique`); so of two valid chains that one log holds, the shorter is the
beginning of the longer, and there is a `Longest` one. Whatever chain the
node opens with lies within it. The replay
without undo (`Loaded`) and the pushes near the head (`Going`, with the fork database
`Seated` on what was replayed) then come block by block to exactly that chain. They fail
at one place only, behind its end, if the log has another block there. That block
does not follow the one before: every block in the log has once been the head of a
valid chain (`Made`), and if it did follow, that chain would be in the log and
longer (`NoNext`). As the log holds the applied chain, `Longest` begins with
it; and if the log goes on in order there is nothing behind its end.

For `PushOutcome` the way through a fork switch is followed exactly. Popping comes to
the common ancestor of both branches or ends in a node that is stuck
(`PopsExact`). The blocks put back after a failure are the ones of the former chain
above that ancestor, in their order (`PathInChain`), and since they were
valid there they are valid again (`AppliesBack`): the former chain is back. A switch
that succeeds ends at the fork database's head, which is higher than the old head by
the guard of the switch. For restarts and crashes `OnlyLongerAdopted` is what
`RestartKeepsChain` says.

**Object files.** `StoreInv` says what each directory holds at each step of
`flush`: `.tmp` has the files saved so far, `object_database` is absent only
between the two renames, and while it is, `.old` holds the last flush. Both
theorems follow, since the process may die before any of these steps.

**Block log.** `LogInv` adds to the two halves of `LogSound` the shape of the files
and of what the streams hold back: at most one write to the index, and that of the
number touched last (`Held`), and no entry under another number than its block's
(`Placed`). The point of the proof is what an append does to old entries. An entry
that a crash or a cut left pointing past the end of the file becomes
readable once the file has grown over it, but what lies there are the cells of the
new block; so it still does not yield the block it names, unless it names the new
one, and then it is under the number being stored (`UnpackedAppend`). Hence a
store changes what is found under one number only, and so does losing what is
held back. For `Startup` it is shown that the scan leaves an index that is
empty or ends in an entry that can be read (`LastEntry`).

**Account recovery.** `Complete` says entry by entry which owner authorities the
history has, and needs the order of its dates (`InOrder`), because the code
removes expired ones from the front and stops at the first that is not.
`PartnersKept` strengthens `RecoveryPartnerHolds` by the change that is pending: one
that was requested after an authority was lost becomes effective only when that
authority can no longer be used. `Requested` dates each request by when its author
last was the recovery account. `NotDue` rests on the periods not being zero.

**Stake.** `StakeInv` strengthens `StakeAddsUp` by three facts. `WithdrawalsRun`: a
running withdrawal has something left, and has taken its rate a whole number of
times, so that its last part is exactly the rest. `NotYet`: nothing is delegated to
an account that does not exist, so that the sum of what a new one has received
begins at zero. `RoutesWithin`: the routes in use carry at most the whole, so that
what they pay in, rounded part by part, is at most what was withdrawn. The round
of withdrawals in a block is a fold over all accounts, and an account's shares change
not only when it is its turn but whenever it is another's route. The induction says at
each position what every account stands at (`StandsRight`): those behind have
been served once, because ids are listed once; those ahead still have all they had
and perhaps more. Promises to others can only have become safer in between. Delegations
on their way back move one place per block, and their sum loses exactly the place
that falls due (`ShiftedSum`). For `PlatformsTotalKept` the effective shares
of all platforms are one sum, and each operation is shown to change it by what it
adds to the total (`Follows`).

**Ledger.** `LedgerInv` has the shape of the state, `SupplyKept` (both supplies as
sums), `OrdersAtRest`, `TradesFair` and `SharesBacked`: no shares without a fund.
Without the last, a withdrawal could be paid at the price of an empty fund and take
more than there is. That a sum over accounts or orders changes by exactly what one of
them changes by is proved in FoldLemmas for sums over any finite set. Each
step of matching keeps the money of both assets (`adjust_balance`, `fill_order`,
`cancel_order`, `match`), whatever was rounded and whatever interest was paid on
the way, and so does the whole fold. That
matching ends with a book at rest rests on one fact about `match`: whatever was
rounded, one of the two orders is gone afterwards. So a new order that is left
has used up every order it crossed (`MeetOne`, `ApplyOrder`). `SharesKeepTheirValue` is the inequality between rounded products,
for a purchase, a reward and a withdrawal.

**Votes.** `VotingInv` says what the differences add up to: what is proxied to an
account from a distance is the sum over the accounts at that distance (`Supplied`),
no chain comes back (`Acyclic`), and a witness's voters have no proxy. The last is
not in `TalliesAddUp`, but without it the tally would change with the proxy's ballots and
not with the voter's, as it does for platforms. The proof takes a change of proxy apart
at the chains without the account's own proxy (`Unproxied`). An account at
distance j + 1 from b either does not come through a, or is k closer to a than to b,
where b is k proxies after a; and k is unique because no chain comes back (`FromSplit`).
So what `adjust_proxied_witness_votes` adds and takes is exactly what comes through
a (`ProxyMoves`), which does not depend on a's own proxy (`SupplyWithout`), and
taking it out and putting it in elsewhere leaves the sums right. The check for loops,
which only looks at the chain of the new proxy, is enough: a loop would contain
a, hence lead from the new proxy back to a (`AcyclicWith`). A voter without a
proxy is the end of every chain that comes to it, so its weight changes by
what reaches the end of the chain, which is what the tallies change by
(`VotersFollow`, `TalliesFollow`). From this both theorems follow: for witnesses the
difference between tally and sum stays zero, for platforms it changes only while a voter
has a proxy. `EveryShareWeighsOnce` holds because each account's shares
count in one place, the end of its chain or the account `Depth` proxies away
(`CountsSomewhere`, `CountsOnce`).

**Witness schedule.** `ScheduleInv` strengthens `ScheduleSound` in three places.
`LapsRun` says of the scheduled time, not of the present, that the votes do not carry
a witness past its lap until then, and says it of witnesses that do not exist yet,
which begin at the start of a lap. A round is then safe because the
witnesses it looks at come first by scheduled time (`ProcessedFirst`): the time it
advances to is nobody else's past, and a sum that runs over is
noticed as a smaller one (`WrapTimes`), which resets everyone. `SomeoneStays` says which
of the scheduled witnesses that can sign keeps its key when the block ends: that of
the block, or one that has not been idle for a day. `VotesHonest`: who votes for a hard
fork runs it. That a round has no more witnesses than places is a fact about finite
ordered sets (`FirstMembers`): at most k members have fewer than k before
them. The count of filled slots follows the slots through each shift (`ShiftCounts`),
and the median of a round is the value at its middle position, which
exists (`OrderStatistic`, used for the irreversible block as well).

**Witness plugin.** `PluginInv` says that the alarm stands at a full second and the
task is not overdue beyond `late`; that a punctual task has visited exactly the
seconds before its alarm (`VisitedOnce`, `SlotsVisited`); and that a block of
this node is at or behind the head unless a switch dropped it
(`BlocksBehindHead`), which is why a second block for the same slot needs a drop.
The arithmetic is the division of the clock into seconds, halves and margins.

**Folds and sums.** The library's induction theorems take an operator as a
parameter, which the provers cannot instantiate. FoldLemmas therefore states
induction over numbers and finite sets for *sets* of numbers and sets, from
`NatLessThanWellFounded` and finiteness, and derives that the recursive
functions behind sums and folds exist. SequenceFolds has the operator as a CONSTANT
of the module, shows by induction over positions that the fold over a sequence exists, and
extends no more than that needs, because each instance repeats it; ChainProofs instantiates it once for each operator that
ChainDatabase folds, DiskProofs for the writes of BlockDatabase's index,
AccountProofs for the withdrawals of a block, and ElectionProofs for its slots.

**Only model-checked.** The other properties of section 3. Of these

- liveness (`Converges`, `ScheduleProgresses`, `EndsInSync`, `AllEndInSync`) stays with
  TLC, because the prover does not handle fairness or ENABLED;
- Authority, Proposals and BlockSync declare RECURSIVE operators, which the
  prover's SMT backend does not support, and no module with a theorem reaches them;
- `StreamingSound` and the action properties of Streaming have not been proved;
- of ChainDatabase, `SettledBlocksStay` and `HistoryKeepsReaching` have not been
  proved: both compare the irreversible blocks recorded along two branches.

## 5. Findings

1. **A failed switch may not be unwound** (`chain_stuck`, `database.cpp` 660). Applying
   the blocks of the new branch may raise the irreversible block, which shortens
   the undo history. If a later block of the branch then fails, the loop that takes
   the branch back meets an empty history and throws: the former branch is not
   restored and the node stays somewhere on the bad one, although 588 promises that
   "every partial change is unwound". `FailedPushUnwound` and `OnlyLongerAdopted`
   say that this is the only way: a push that throws changes the chain only if the
   node can take back no further block (`Stuck`).
2. **A received block can be left over** (`sync_two_peers`, `node.cpp` 3337).
   After a block that another fiber had already passed on,
   `process_backlog_of_sync_blocks` means to start again from the beginning of
   `_received_sync_items` but ends instead. The block that has become next stays
   there; it counts as received, so nobody asks for it again, and the node stays
   in sync mode. `EndsInSync` says that nothing else keeps nodes apart; it says most
   where one peer is active at a time and no connection is lost, since with two
   peers or a lost one many behaviours have a block left over.
3. **The platforms' total is not what they hold** (`stake_total`, `database.cpp` 3596).
   `validate_invariants` asserts that `total_vested_by_platforms` equals the sum of the
   platforms' effective shares. A platform that creates an account with a delegation,
   a withdrawal from a platform or, along a route, into one, and a platform that takes
   shares back from another change one without the other. `PlatformsTotalKept`, which
   is also proved, says that there is no fourth way. The total is the divisor of the
   streaming rewards (1661). Where the first shares of all platforms have come by
   routes with `auto_vest` it is 0, and the division throws out of `_apply_block`: the
   block is refused, and so are all later ones that have a report to pay, unless one
   vests BTCM for a platform. `StreamingSound` says that paying throws in no other case
   (`CashoutThrowsOnlyUncounted`), and `PaidInProportion` how much the stakes that
   are not counted can make a block overpay.
4. **Keys approve in the review period** (`proposal_review`, `proposal_evaluator.cpp`
   206). "No new approvals may be added" is asserted of active and owner approvals;
   those of keys are inserted (250). `ReviewRespected` says that the accounts' approvals
   wait, and that the proposal does not execute before it expires.
5. **Owner approvals are taken where active ones are asked for** (`proposal_owners`,
   `proposal.hpp` 91-93, `proposal_evaluator.cpp` 231), though the former "may only be
   added if the proposal requires the owner's authority". `NoForgery` says that
   nothing can be done this way without the authority it needs.
6. **The index of required approvals loses proposals** (`proposal_index`,
   `proposal_object.hpp` 65, `generic_index.hpp` 49). An undo puts removed objects back
   without telling secondary indexes, so that a proposal that a pending transaction has
   executed or deleted is not listed any more when that is undone.
   `UnlistedOnlyByUndo`, in `ProposalsSound`, says that there is no other way.

Observations made while modelling. Those marked * contradict a comment or a test
of the repository, but no run states them.

*Chain.* When applying a block fails, it is removed from the fork database's index,
but `_head` stays on it (`database.cpp` 697). If the applied head is delivered again,
it is taken for the next block, fails and is removed from the index as well; its
children are then unlinkable (*, the comment at 588 that "every partial change is
unwound"; `ReadyNodeExtends` names these cases). What the first finding leaves behind
is a log that is longer than the chain: after a1 to a5, then b2 to b5 and the invalid
y6, it is a1 b2 b3 b4 b5 and the chain a1 b2. A valid block on b2 is then stored under
number 3, in the middle of it, and from then on every start replays the log, meets
b4, which does not link to the block before, and throws (245);
`--replay-blockchain` reads the same log (*, `database.hpp` 79). `RestartKeepsChain`
says that nothing else prevents a start (`LogGoesOn`), and that even then the blocks of
the applied chain have been replayed before the exception. The first pop loop of a fork switch is not in a try either (`database.cpp`
631): after a restart the undo history may end inside it, and the chain is shortened
(*, the comment at 588; the same exception in `FailedPushUnwound`). A longer
branch may have a lower irreversible block; after the switch the undo history does
not reach down to it (`HistoryKeepsReaching` names the case). `close` rewinds less than the history allows once the fork database
is empty after a restart (*, 270 and 282). `fetch_block_by_number` returns a block
of another branch if the fork database holds exactly one of that number (*, 346,
`block_tests.cpp` 324). `generate_block` asserts the block's size when the pending
session is gone already (891). The irreversible block itself can be reversed, only
the blocks below that of the previous head are protected (`SettledBlocksStay`
says exactly which). The first block pushed into an empty fork database is accepted
without a link whatever its previous.

*Disk.* After a gap past the end of the blocks file the stream has failed:
`cutoff_blocks` drops nothing and later stores are lost (*, `block_database.cpp`
136), and reindex dereferences an empty optional (`database.cpp` 237). A flush
interrupted before its last step leaves `object_database.old` in the way of all
later ones (*, `object_database.cpp` 85). A death between the two renames of flush
leaves no `object_database`, and the next start replays from genesis although
`.old` has the state. A wipe cut short leaves some indexes empty, unnoticed. A
modify that breaks a unique index erases the object before its assert
(`generic_index.hpp` 88).

*Stake and votes.* `process_vesting_withdrawals` adds a route's deposit before it
takes the withdrawn shares away (1553, 1614), so that with a proxy the assertion
of `adjust_witness_vote` (1428) can throw out of `_apply_block`. Effective vesting may be negative after redelegation
and is then cast to an unsigned number for the bandwidth.

*Schedule.* The comment that a hard fork majority "guarantees 75% participation on
all subsequent rounds" (`config.hpp` 49) does not hold if votes change (*). The
test of a feed's age in `update_median_feed` is always true. With the production
task half a second late and a fork switch, a node may sign two blocks for one slot
(`OncePerSlot` says exactly when). `required-participation` is a switch, so that
only 0 or 1 percent can be asked for (`witness.cpp` 68).

*Streaming.* A block may pay more than its content reward (`PaidInProportion` is
the limit). A content update that sets a publishers' share on a content with one
side gathers a balance for composers that nothing pays out.

*Authorities.* Accounts that approve for another inside a nested authority are refused.
Approvals outlive a change of the authority they rest on. A recovery leaves a
pending change of the recovery account in place, and at
`last_valid_time` + 30 days exactly recovery depends on the order in one block.

*Network.* A block received just before its connection is lost stays in
`_received_sync_items` as well and is listed again after the connection is back:
a second way to be left over. Accepted blocks are never erased from there. The
"state we should never get into" (`node.cpp` 1426) is entered at every end of a
sync while the last blocks are with the delegate. A peer that has more ids to list
than there are intervals between `last_block_time_delegate_has_seen` and now, with
1200 to spare, "must be an attacker or have a buggy client" (*, 2652-2654); but
`on_fetch_items_message` sets that time to that of any block it has just sent to the
peer (2812-2813), so that an honest peer with another chain, after a partition of
more than 1200 blocks, is disconnected while its list is being fetched.
`NobodyBlamed` says that this is the only way.

## 6. What is not modelled

- *Chain*: modify calls that throw or violate a unique index; checkpoints; skip
  flags; torn index entries in the log; the phases of reindex before the last one
  are single fetches in BlockDatabase. Whether a block is valid is given there.
- *Stake, money*: bandwidth, virtual supply, user-issued assets and their
  administration, conversion requests (`process_conversions` works on a table
  that no operation fills), 32-bit narrowing of listening times.
- *Authority*: the check for unused signatures, challenges and proofs of
  authority, the `temp` account, ids of proposals created and undone in the
  pending state. Signatures are the set of keys that signed.
- *Hard forks*: the effects of the one hard fork; the vote for it is modelled.
- *Witness plugin*: that a retry drops the pending transactions.
- *Network*: handshake and the details of closing, peer database, firewall checks,
  keepalive, disconnects at hard forks, `inhibit_fetching`, transactions,
  `item_not_available` answers, the late closing of peers that sent a bad block;
  inventory and caches do not expire; all blocks are valid and nothing is
  irreversible, so a synopsis starts at the first block; `get_block_ids` and
  `has_item` answer at once; what follows the disconnect of a peer whose list looks
  implausible. While a loop is due each peer's reader runs once at most, until no
  loop is due any more (`ran`): slightly fewer orders than fibers woken in turn have.
- *APIs, other plugins, wallet, programs, utilities*: queries, observers and
  clients of the state above, without protocol state of their own.
- *Serialisation, cryptography, `fc`*: encodings and the vendored base library.
  Word lists, compression and vendored code are also most of the repository's lines,
  followed by the wallet and the API queries; the models cover the chain, the
  database, the witness plugin and the sync protocol.

## 7. Plan

Done: the components of sections 1 and 2, with the proofs of section 4.

What is left, most valuable first:

1. Proofs: `SettledBlocksStay` and `HistoryKeepsReaching` of ChainDatabase, with the
   lemmas of ChainProofs; `StreamingSound`, with the sums of FoldLemmas.
2. The phases of reindex on the files of BlockDatabase, for the one hazard
   without a property (`database.cpp` 237).
3. BlockSync with an invalid block and with an irreversible one; handshake and
   peer database as a module of their own.
