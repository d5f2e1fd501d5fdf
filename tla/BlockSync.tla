----------------------------- MODULE BlockSync -----------------------------
(***************************************************************************)
(* How the nodes of the network bring each other up to date: every node    *)
(* runs node_impl (libraries/net/node.cpp) for each of its peers, on the   *)
(* delegate of libraries/app/application.cpp.                              *)
(*                                                                         *)
(* node_impl is one thread of fibers.  A fiber gives way when it calls the *)
(* delegate, which runs in another thread: where that matters a handler is *)
(* two actions, one before and one after the call (asking, handling).      *)
(* Connections deliver in order until they break.  All blocks are valid,   *)
(* and get_block_ids and has_item answer at once.                          *)
(***************************************************************************)
EXTENDS Integers, FiniteSets, SequencesExt

CONSTANTS
  Nodes, Blocks,
  Zero,            \* the id of no block
  Prev,            \* of each block, Zero for the first
  Slot,            \* the time of each block, in BTCM_BLOCK_INTERVALs; 0 for Zero
  None,
  Limit,           \* ids in an answer (get_block_ids, 2000)
  MinPrefetch,     \* GRAPHENE_NET_MIN_BLOCK_IDS_TO_PREFETCH
  PerPeer,         \* _maximum_blocks_per_peer_during_syncing
  MaxHandle,       \* _maximum_number_of_blocks_to_handle_at_one_time
  MaxPrefetch,     \* _maximum_number_of_sync_blocks_to_prefetch
  Grace,           \* GRAPHENE_NET_FUTURE_SYNC_BLOCKS_GRACE_PERIOD_SEC, in intervals (1200)
  Stories          \* how the nodes are placed at the start: see Story

\* Each node's head, who dials whom, the blocks that are still to be produced,
\* each by a node, and how many connections may time out although they work.
Story == [heads : [Nodes -> Blocks \cup {Zero}], dials : SUBSET (Nodes \X Nodes),
          makers : UNION {[S -> Nodes] : S \in SUBSET Blocks}, drops : Nat]

VARIABLES
  story,
  node,            \* of each node: see Node
  net,             \* of each pair of nodes: the messages on their way
  cut,             \* connections closed at one end: <<end that is left, other>>
  drops            \* connections that have timed out

vars == <<story, node, net, cut, drops>>

\* The blocks from the first to b.
ChainTo[b \in Blocks \cup {Zero}] == IF b = Zero THEN <<>> ELSE Append(ChainTo[Prev[b]], b)
Chain == [b \in Blocks \cup {Zero} |-> ChainTo[b]]
Num(b) == Len(Chain[b])

ASSUME BlockSyncAssumption ==
  /\ Zero \notin Blocks
  /\ Prev \in [Blocks -> Blocks \cup {Zero}]
  /\ Slot \in [Blocks \cup {Zero} -> Nat] /\ Slot[Zero] = 0 /\ \A b \in Blocks : Slot[b] > Slot[Prev[b]]
  /\ {Limit, MinPrefetch, PerPeer, MaxHandle, MaxPrefetch} \subseteq Nat \ {0} /\ Grace \in Nat
  /\ MinPrefetch > (2 * PerPeer) + 1     \* 10000 and 200: ids are asked for in time
  /\ Stories \subseteq Story

\* peer_connection, as far as it is about blocks.
NewPeer(status) ==
  [status |-> status,        \* the list of connections that it is on
   to_get |-> <<>>,          \* ids_of_items_to_get
   being |-> {},             \* ids_of_items_being_processed
   unfetched |-> 0,          \* number_of_unfetched_item_ids
   we_need |-> TRUE,         \* we_need_sync_items_from_peer
   peer_needs |-> TRUE,      \* peer_needs_sync_items_from_us
   asked |-> None,           \* item_ids_requested_from_peer
   sync_requested |-> {},    \* sync_items_requested_from_peer
   requested |-> {},         \* items_requested_from_peer
   seen |-> Zero,            \* last_block_delegate_has_seen, and with it its time
   told |-> {},              \* inventory_advertised_to_peer
   offered |-> {}]           \* inventory_peer_advertised_to_us

\* node_impl and the chain behind its delegate.
Node(head) ==
  [known |-> ToSet(Chain[head]), head |-> head,
   peers |-> [p \in Nodes |-> NewPeer("none")],
   requests |-> {},          \* _active_sync_requests
   new |-> <<>>,             \* _new_received_sync_items, the first one first
   received |-> <<>>,        \* _received_sync_items
   accepted |-> {},          \* _most_recent_blocks_accepted
   handling |-> <<>>,        \* calls of handle_block in progress
   asking |-> <<>>,          \* calls of get_blockchain_synopsis in progress
   to_fetch |-> <<>>,        \* _items_to_fetch
   inventory |-> {},         \* _new_inventory
   fetch_sync |-> FALSE, fetch |-> FALSE, backlog |-> FALSE,   \* loops that are to run
   ran |-> {},               \* peers whose reader has run since a loop became due
   suspended |-> FALSE,      \* _suspend_fetching_sync_blocks
   blamed |-> FALSE,         \* has disconnected a peer for an error
   doubted |-> {},           \* has disconnected a peer for offering too many blocks:
                             \* <<the peer's seen, the first id of its answer>>
   sent |-> [p \in Nodes |-> <<>>]]

-----------------------------------------------------------------------------
(* The delegate: the chain database as the network code sees it. *)

has_item(L, b) == b \in L.known
is_included_block(L, b) == b \in ToSet(Chain[L.head])

\* The block goes to the fork database if its previous is there, and the
\* longest chain is the node's.
push_block(L, b) ==
  [L EXCEPT !.known = @ \cup {b}, !.head = IF Num(b) > Num(@) THEN b ELSE @]

\* The ids after the last block of the synopsis that is on this node's chain,
\* that block first, and how many more there are.  If there is no such block
\* the answer is empty (peer_is_on_an_unreachable_fork).
get_block_ids(L, synopsis) ==
  LET shared == {i \in 1 .. Len(synopsis) : is_included_block(L, synopsis[i])}
      first == IF synopsis = <<>> THEN 1
               ELSE IF shared = {} THEN Num(L.head) + 1 ELSE Num(synopsis[Max(shared)])
      ids == SubSeq(Chain[L.head], first, Min({first + Limit - 1, Num(L.head)}))
  IN  [ids |-> ids, remaining |-> IF ids = <<>> THEN 0 ELSE Num(L.head) - Num(Last(ids))]

\* The numbers low .. high, halving the distance to top each time.
RECURSIVE Halve(_, _, _)
Halve(low, high, top) ==
  <<low>> \o (LET next == low + (top - low + 2) \div 2 IN IF next <= high THEN Halve(next, high, top) ELSE <<>>)

\* A summary of the chain up to seen, or up to the head.
get_blockchain_synopsis(L, seen, after) ==
  LET point == IF seen = Zero THEN L.head ELSE seen
      at == Halve(1, Num(point), Num(point) + after)
  IN  IF point = Zero THEN <<>> ELSE [i \in 1 .. Len(at) |-> Chain[point][at[i]]]

\* The same with the ids that the peer has told already.
create_blockchain_synopsis_for_peer(L, seen, ids) ==
  LET known == get_blockchain_synopsis(L, seen, Len(ids))
      first == Num(Head(ids))
      top == first + Len(ids) - 1
      at == SelectSeq(Halve(IF known = <<>> THEN 1 ELSE Num(known[1]), top, top), LAMBDA k : k >= first)
  IN  IF ids = <<>> THEN known ELSE known \o [i \in 1 .. Len(at) |-> ids[at[i] - first + 1]]

-----------------------------------------------------------------------------
(* Helpers of the handlers, on the state L of a node. *)

Active(L) == {p \in Nodes : L.peers[p].status = "active"}
idle(q) == q.requested = {} /\ q.sync_requested = {} /\ q.asked = None
Send(L, p, m) == [L EXCEPT !.sent[p] = Append(@, m)]
disconnect_from_peer(L, p) == [L EXCEPT !.peers[p].status = "closing", !.blamed = TRUE]
OnPeers(L, S, Op(_)) == [L EXCEPT !.peers = [p \in Nodes |-> IF p \in S THEN Op(@[p]) ELSE @[p]]]

\* The fiber that reads from p is in the middle of a message.
is_currently_handling_message(L, p) ==
  \/ \E i \in DOMAIN L.asking : L.asking[i].by = "reader" /\ L.asking[i].peer = p
  \/ \E i \in DOMAIN L.handling : L.handling[i].from = p

trigger_fetch_sync_items_loop(L) == [L EXCEPT !.fetch_sync = TRUE]

\* process_backlog_of_sync_blocks is not started again while it runs.
trigger_process_backlog_of_sync_blocks(L) ==
  [L EXCEPT !.backlog = @ \/ \A i \in DOMAIN L.asking : L.asking[i].by # "backlog"]

\* A fiber calls fetch_next_batch_of_item_ids_from_peer for each peer of todo,
\* having reset it if it is in again (start_synchronizing_with_peer).  The call
\* of the delegate lets other fibers run, so what the synopsis depends on is
\* saved.  after are messages that the fiber sends at the end.
fetch_next_batch(L, todo, again, by, after) ==
  LET p == Head(todo)
      M == IF p \in again
           THEN OnPeers(L, {p}, LAMBDA q : [q EXCEPT !.to_get = <<>>, !.unfetched = 0, !.we_need = TRUE, !.seen = Zero])
           ELSE L
  IN  IF todo # <<>>
      THEN [M EXCEPT !.asking = Append(@, [peer |-> p, seen |-> M.peers[p].seen, ids |-> M.peers[p].to_get,
                                           todo |-> Tail(todo), again |-> again, by |-> by, after |-> after])]
      ELSE CASE by = "reader" -> L
             [] by = "block" -> trigger_process_backlog_of_sync_blocks(L)
             [] by = "backlog" -> trigger_fetch_sync_items_loop(L)

start_synchronizing_with_peer(L, p, after) == fetch_next_batch(L, <<p>>, {p}, "reader", after)

broadcast(L, b) == [L EXCEPT !.accepted = @ \cup {b}, !.inventory = @ \cup {b}]

-----------------------------------------------------------------------------
(* Messages. *)

\* A peer asks for the ids after a block of its synopsis.  If it mentions a
\* block that this node does not know, that is a reason to ask back.  The first
\* such message completes the handshake of a connection that came in.
on_fetch_blockchain_item_ids_message(L, p, synopsis) ==
  LET answer == get_block_ids(L, synopsis)
      reply == [type |-> "ids", ids |-> answer.ids, remaining |-> answer.remaining]
      in_sync == \/ answer.ids = <<>>
                 \/ Len(answer.ids) = 1 /\ answer.ids[1] \in ToSet(synopsis)
      M == [L EXCEPT !.peers[p].peer_needs = ~in_sync]
  IN  CASE L.peers[p].status = "handshaking" ->
             start_synchronizing_with_peer([Send(M, p, reply) EXCEPT !.peers[p].status = "active"], p, <<>>)
        [] ~L.peers[p].we_need /\ synopsis # <<>> /\ ~has_item(L, Last(synopsis)) ->
             start_synchronizing_with_peer(M, p, <<reply>>)
        [] OTHER -> Send(M, p, reply)

\* The new ids continue those there are, or, if the peer has switched forks,
\* replace them from the id on that both have.
Extended(q, ids) ==
  LET at == {i \in DOMAIN q.to_get : q.to_get[i] = ids[1]}
  IN  IF at = {} THEN [q EXCEPT !.seen = ids[1], !.to_get = Tail(ids)]
      ELSE [q EXCEPT !.to_get = SubSeq(@, 1, Max(at) - 1) \o ids]

\* The first ids from a peer, without those that are known already, unless
\* another peer's list begins with the same one.
Begun(L, p, q, ids) ==
  LET other == \E o \in Active(L) \ {p} : L.peers[o].to_get # <<>> /\ Head(L.peers[o].to_get) = ids[1]
      new == {i \in DOMAIN ids : ~has_item(L, ids[i])}
      k == IF other THEN 0 ELSE IF new = {} THEN Len(ids) ELSE Min(new) - 1
  IN  [q EXCEPT !.seen = IF k = 0 THEN @ ELSE ids[k], !.to_get = SubSeq(ids, k + 1, Len(ids))]

\* The answer has to build on a block of the synopsis that was sent.
Plausible(synopsis, ids) ==
  ids # <<>> => IF synopsis = <<>> THEN Num(ids[1]) = 1 ELSE ids[1] \in ToSet(synopsis)

\* The clock, at the earliest: no block is made before its time.
Now == Max({Slot[b] : b \in UNION {node[n].known : n \in Nodes} \cup {Zero}})

\* After seen the peer still has so many blocks that the last would have to be
\* one of the future.
Future(q) == Slot[q.seen] + q.unfetched > Now + Grace

on_blockchain_item_ids_inventory_message(L, p, ids, remaining) ==
  LET q == L.peers[p]
      r == [q EXCEPT !.asked = None, !.unfetched = remaining]
      s == IF ids = <<>> THEN r ELSE IF q.to_get = <<>> THEN Begun(L, p, r, ids) ELSE Extended(r, ids)
      M == [L EXCEPT !.peers[p] = s]
      nothing_new == /\ remaining = 0 /\ q.to_get = <<>> /\ q.unfetched = 0
                     /\ ids = <<>> \/ (Len(ids) = 1 /\ has_item(L, ids[1]))
      enough == IF remaining # 0 THEN Len(s.to_get) > MinPrefetch ELSE s.to_get # <<>>
  IN  IF q.asked = None THEN L
      ELSE IF ~Plausible(q.asked, ids) THEN disconnect_from_peer(L, p)
      ELSE IF nothing_new THEN [L EXCEPT !.peers[p].asked = None, !.peers[p].we_need = FALSE]
      ELSE IF Future(s)
      THEN [M EXCEPT !.peers[p].status = "closing", !.doubted = @ \cup {<<s.seen, ids[1]>>}]   \* disconnect_from_peer
      ELSE IF enough THEN trigger_fetch_sync_items_loop(M)
      ELSE fetch_next_batch(M, <<p>>, {}, "reader", <<>>)

on_fetch_items_message(L, p, items) ==
  [L EXCEPT !.peers[p].seen = Last(items),
            !.sent[p] = @ \o [i \in DOMAIN items |-> [type |-> "block", block |-> items[i]]]]

\* New blocks are announced by peers that think this node is in sync with them.
on_item_ids_inventory_message(L, p, items) ==
  LET new == SelectSeq(items, LAMBDA b : \A q \in Active(L) : b \notin L.peers[q].told)
      free == SelectSeq(new, LAMBDA b : /\ \A q \in Active(L) : b \notin L.peers[q].requested
                                        /\ b \notin ToSet(L.to_fetch))
  IN  [L EXCEPT !.peers[p].offered = @ \cup ToSet(new), !.to_fetch = @ \o free, !.fetch = @ \/ free # <<>>]

\* The end of process_block_during_normal_operation and of its caller.  A block
\* that does not link means that something has been missed.
Normal(L, p, b, linked) ==
  LET offering == {q \in Active(L) : b \in L.peers[q].offered}
      M == broadcast(OnPeers(L, offering, LAMBDA q : [q EXCEPT !.seen = b]), b)
  IN  IF linked THEN [M EXCEPT !.fetch = @ \/ idle(M.peers[p])]
      ELSE start_synchronizing_with_peer(L, p, <<>>)

process_block_message(L, p, b) ==
  LET q == L.peers[p]
      M == [L EXCEPT !.peers[p].requested = @ \ {b}]
      S == trigger_process_backlog_of_sync_blocks(
             [L EXCEPT !.peers[p].sync_requested = @ \ {b}, !.requests = @ \ {b}, !.new = Append(@, b)])
  IN  CASE b \in q.requested /\ b \in L.accepted -> Normal(M, p, b, TRUE)
        [] b \in q.requested /\ b \notin L.accepted ->
             [M EXCEPT !.handling = Append(@, [block |-> b, from |-> p, linked |-> None])]
        [] b \notin q.requested /\ b \in q.sync_requested ->
             IF ~idle(S.peers[p]) THEN S
             ELSE IF q.unfetched > 0 /\ Len(q.to_get) < MinPrefetch THEN fetch_next_batch(S, <<p>>, {}, "reader", <<>>)
             ELSE trigger_fetch_sync_items_loop(S)
        [] OTHER -> disconnect_from_peer(L, p)

on_message(L, p, m) ==
  CASE m.type = "fetch_ids" -> on_fetch_blockchain_item_ids_message(L, p, m.synopsis)
    [] m.type = "ids" -> on_blockchain_item_ids_inventory_message(L, p, m.ids, m.remaining)
    [] m.type = "fetch_items" -> on_fetch_items_message(L, p, m.items)
    [] m.type = "inventory" -> on_item_ids_inventory_message(L, p, m.items)
    [] m.type = "block" -> process_block_message(L, p, m.block)

-----------------------------------------------------------------------------
(* Actions of the node n. *)

Due(L) == L.fetch_sync \/ L.fetch \/ L.backlog \/ L.inventory # {}

\* n's new state, with what it has sent on its way; queues is net without what
\* it has read.
Commit(n, next, queues) ==
  \E L \in {next} :
    /\ node' = [node EXCEPT ![n] = [L EXCEPT !.sent = [p \in Nodes |-> <<>>],
                                                 !.ran = IF Due(L) THEN @ ELSE {}]]
    /\ net' = [queues EXCEPT ![n] = [p \in Nodes |-> @[p] \o L.sent[p]]]
    /\ UNCHANGED <<story, cut, drops>>

\* Fibers run in the order in which they become ready: before a loop that is
\* due there is room for at most one message from each peer.
Receive(n, p) ==
  /\ node[n].peers[p].status \in {"handshaking", "active", "closing"}
  /\ ~is_currently_handling_message(node[n], p)
  /\ p \notin node[n].ran
  /\ net[p][n] # <<>>
  /\ Commit(n, [on_message(node[n], p, Head(net[p][n])) EXCEPT !.ran = @ \cup {p}], [net EXCEPT ![p][n] = Tail(@)])

\* A call of get_blockchain_synopsis returns and the question is sent; the
\* connection may be gone by now.
Ask(n) ==
  /\ node[n].asking # <<>>
  /\ LET e == Head(node[n].asking)
         L == [node[n] EXCEPT !.asking = Tail(@)]
         synopsis == create_blockchain_synopsis_for_peer(L, e.seen, e.ids)
         M == IF e.peer = None THEN L
              ELSE [L EXCEPT !.peers[e.peer].asked = synopsis,
                             !.sent[e.peer] = <<[type |-> "fetch_ids", synopsis |-> synopsis]>> \o e.after]
     IN  Commit(n, fetch_next_batch(M, e.todo, e.again, e.by, <<>>), net)

\* The main thread takes the next block.
handle_block(n) ==
  \E i \in DOMAIN node[n].handling :
    LET b == node[n].handling[i].block
        linked == Prev[b] \in node[n].known \cup {Zero}
        L == IF linked THEN push_block(node[n], b) ELSE node[n]
    IN  /\ node[n].handling[i].linked = None
        /\ \A j \in 1 .. i - 1 : node[n].handling[j].linked # None
        /\ Commit(n, [L EXCEPT !.handling[i].linked = linked], net)

EmptyList(q) == q.to_get = <<>> /\ q.unfetched = 0 /\ q.being = {}
WithoutBlock(L, b) == OnPeers(L, Active(L), LAMBDA q : [q EXCEPT !.being = @ \ {b}])
Had(L, b) == {p \in Active(L) : b \in L.peers[p].being}

\* Mutant: peers whose list has become empty are not asked for more.
send_sync_block_to_node_delegate_NoCheck(L, b) ==
  LET M == [WithoutBlock(OnPeers(L, Had(L, b), LAMBDA q : [q EXCEPT !.seen = b]), b) EXCEPT !.accepted = @ \cup {b}]
      behind == {p \in Active(L) : /\ L.peers[p].to_get = <<>> /\ L.peers[p].being = {}
                                   /\ ~L.peers[p].peer_needs /\ ~L.peers[p].we_need}
  IN  fetch_next_batch(M, SetToSeq(behind), behind, "block", <<>>)

\* The rest of send_sync_block_to_node_delegate.  Peers whose list has become
\* empty are asked for more; peers that seemed to be in sync both ways are asked
\* so that they hear of the block.
send_sync_block_to_node_delegate(L, b) ==
  LET M == [WithoutBlock(OnPeers(L, Had(L, b), LAMBDA q : [q EXCEPT !.seen = b]), b) EXCEPT !.accepted = @ \cup {b}]
      empty == {p \in Had(L, b) : EmptyList(M.peers[p])}
      behind == {p \in Active(L) : /\ L.peers[p].to_get = <<>> /\ L.peers[p].being = {}
                                   /\ ~L.peers[p].peer_needs /\ ~L.peers[p].we_need}
  IN  fetch_next_batch(M, SetToSeq(empty) \o SetToSeq(behind), behind, "block", <<>>)

Rejected(L, b) ==
  trigger_process_backlog_of_sync_blocks(FoldSet(LAMBDA p, K : disconnect_from_peer(K, p), L, Had(L, b)))

\* A call of handle_block returns.
Handled(n) ==
  /\ node[n].handling # <<>> /\ Head(node[n].handling).linked # None
  /\ LET t == Head(node[n].handling)
         L == [node[n] EXCEPT !.handling = Tail(@)]
     IN  Commit(n, IF t.from # None THEN Normal(L, t.from, t.block, t.linked)
                   ELSE IF t.linked THEN send_sync_block_to_node_delegate(L, t.block) ELSE Rejected(L, t.block), net)

\* _handle_message_calls_in_progress
InProgress(L) ==
  Cardinality({i \in DOMAIN L.handling : L.handling[i].from = None})
    + Cardinality({i \in DOMAIN L.asking : L.asking[i].by = "block"})

IsNext(L, p, b) == p \in Active(L) /\ L.peers[p].to_get # <<>> /\ Head(L.peers[p].to_get) = b

\* Op(x), where TLC evaluates x only once.
Once(Op(_), x) == CHOOSE r \in {Op(y) : y \in {x}} : TRUE

\* A turn of the loop of process_backlog_of_sync_blocks, which runs while backlog
\* holds: the first block that some peer's list begins with goes to the
\* delegate.  The loop ends when there is no such block, when too many are in
\* progress, or at a block that has come another way.
Turn(K) ==
  LET L == [K EXCEPT !.received = K.new \o @, !.new = <<>>]
      at == {i \in DOMAIN L.received : \E p \in Nodes : IsNext(L, p, L.received[i])}
      b == L.received[Min(at)]
      M == OnPeers(L, {p \in Nodes : IsNext(L, p, b)},
                   LAMBDA q : [q EXCEPT !.to_get = Tail(@), !.being = @ \cup {b}])
      D == WithoutBlock(M, b)
      H == [M EXCEPT !.received = RemoveAt(@, Min(at)), !.handling = Append(@, [block |-> b, from |-> None, linked |-> None])]
      End(N) == [N EXCEPT !.backlog = FALSE]
  IN  IF ~K.backlog THEN K
      ELSE IF at = {} THEN End(trigger_fetch_sync_items_loop(L))
      ELSE IF b \in L.accepted
      THEN End(fetch_next_batch(D, SetToSeq({p \in Had(M, b) : EmptyList(D.peers[p])}), {}, "backlog", <<>>))
      ELSE IF InProgress(H) < MaxHandle THEN H
      ELSE End(IF Len(H.received) >= MaxPrefetch THEN [H EXCEPT !.suspended = TRUE] ELSE trigger_fetch_sync_items_loop(H))

process_backlog_of_sync_blocks(n) ==
  /\ node[n].backlog
  /\ LET L == node[n]
     IN  Commit(n, IF InProgress(L) >= MaxHandle THEN [L EXCEPT !.backlog = FALSE]
                   ELSE FoldLeft(LAMBDA K, i : Once(Turn, K), [L EXCEPT !.suspended = FALSE], [i \in 1 .. MaxHandle + 1 |-> i]), net)

\* The first PerPeer ids of p's list that nobody has been asked for.
Wanted(L, p) ==
  LET ids == SelectSeq(L.peers[p].to_get, LAMBDA b : b \notin ToSet(L.new) \cup ToSet(L.received) \cup L.requests)
  IN  SubSeq(ids, 1, Min({PerPeer, Len(ids)}))

RequestSync(L, p) ==
  IF L.peers[p].we_need /\ idle(L.peers[p]) /\ Wanted(L, p) # <<>>
  THEN Send([L EXCEPT !.requests = @ \cup ToSet(Wanted(L, p)), !.peers[p].sync_requested = @ \cup ToSet(Wanted(L, p))],
            p, [type |-> "fetch_items", items |-> Wanted(L, p)])
  ELSE L

\* The active peers in the order of _active_connections, whatever that is.
fetch_sync_items_loop(n) ==
  /\ node[n].fetch_sync
  /\ LET L == [node[n] EXCEPT !.fetch_sync = FALSE]
     IN  \E order \in SetToSeqs(Active(L)) :
            Commit(n, IF L.suspended THEN L ELSE FoldLeft(RequestSync, L, order), net)

\* Each item is asked of the first peer that is idle and has announced it.
RequestItem(L, b, order) ==
  LET from == {i \in DOMAIN order : idle(L.peers[order[i]]) /\ b \in L.peers[order[i]].offered}
      p == order[Min(from)]
  IN  IF from = {} THEN L
      ELSE Send([L EXCEPT !.to_fetch = SelectSeq(@, LAMBDA c : c # b), !.peers[p].requested = @ \cup {b}],
                p, [type |-> "fetch_items", items |-> <<b>>])

fetch_items_loop(n) ==
  /\ node[n].fetch
  /\ LET L == [node[n] EXCEPT !.fetch = FALSE]
     IN  \E order \in SetToSeqs(Active(L)) :
            Commit(n, FoldLeft(LAMBDA K, b : RequestItem(K, b, order), L, L.to_fetch), net)

\* The new blocks go to the peers that seem to be in sync and are not known to
\* have them, in any order.
advertise_inventory_loop(n) ==
  /\ node[n].inventory # {}
  /\ LET L == [node[n] EXCEPT !.inventory = {}]
         To(p) == L.peers[p].told \cup L.peers[p].offered
     IN  \E order \in SetToSeqs(node[n].inventory) :
            LET Items(p) == SelectSeq(order, LAMBDA b : b \notin To(p))
                to == {p \in Active(L) : ~L.peers[p].peer_needs /\ Items(p) # <<>>}
            IN  Commit(n, FoldSet(LAMBDA p, K : Send([K EXCEPT !.peers[p].told = @ \cup ToSet(Items(p))],
                                                     p, [type |-> "inventory", items |-> Items(p)]), L, to), net)

\* The node makes a block (witness plugin) and announces it.
Produce(n) ==
  \E b \in DOMAIN story.makers :
    /\ story.makers[b] = n /\ Prev[b] = node[n].head /\ b \notin node[n].known
    /\ Commit(n, broadcast(push_block(node[n], b), b), net)

-----------------------------------------------------------------------------
(* Connections. *)

close_connection(n, p) ==
  /\ node' = [node EXCEPT ![n].peers[p].status = "terminating"]
  /\ net' = [net EXCEPT ![n][p] = <<>>, ![p][n] = <<>>]
  /\ cut' = cut \cup {<<n, p>>, <<p, n>>}
  /\ UNCHANGED story

\* A connection that works is closed: not too often.
Close(n, p) == drops < story.drops /\ drops' = drops + 1 /\ close_connection(n, p)

\* terminate_inactive_connections_loop: an answer takes too long.
TimeOut(n, p) == p \in Active(node[n]) /\ ~idle(node[n].peers[p]) /\ Close(n, p)

\* A peer that has been told to close the connection does not do so itself
\* (on_closing_connection_message), and is disconnected after a while.
Terminate(n, p) ==
  node[n].peers[p].status = "closing" /\ close_connection(n, p) /\ UNCHANGED drops

\* "This is a state we should never get into in the first place".
HasStalled(n, p) ==
  LET q == node[n].peers[p]
  IN  q.status = "active" /\ q.we_need /\ ~is_currently_handling_message(node[n], p) /\ q.asked = None /\ q.to_get = <<>>

Stall(n, p) == HasStalled(n, p) /\ Close(n, p)

Abandoned(asking, p) == [i \in DOMAIN asking |-> [asking[i] EXCEPT !.peer = IF @ = p THEN None ELSE @]]

\* Mutant: what p was asked for stays requested.
Closed_KeepRequests(L, p) ==
  LET q == L.peers[p]
      again == {b \in q.requested : \E o \in Active(L) \ {p} : b \in L.peers[o].offered}
  IN  [L EXCEPT !.peers[p] = NewPeer("none"), !.fetch_sync = @ \/ q.sync_requested # {},
                !.to_fetch = @ \o SetToSeq(again),
                !.fetch = @ \/ q.requested # {}, !.asking = Abandoned(@, p)]

\* What p was asked for may be asked of others.  Fibers that wait for the
\* delegate still hold p, but nothing they do to it matters any more.
Closed(L, p) ==
  LET q == L.peers[p]
      again == {b \in q.requested : \E o \in Active(L) \ {p} : b \in L.peers[o].offered}
  IN  [L EXCEPT !.peers[p] = NewPeer("none"), !.requests = @ \ q.sync_requested, !.fetch_sync = @ \/ q.sync_requested # {},
                !.to_fetch = @ \o SetToSeq(again),
                !.fetch = @ \/ q.requested # {}, !.asking = Abandoned(@, p)]

on_connection_closed(n, p) ==
  /\ <<n, p>> \in cut
  /\ ~is_currently_handling_message(node[n], p)
  /\ node' = [node EXCEPT ![n] = Closed(@, p)]
  /\ net' = [net EXCEPT ![n][p] = <<>>, ![p][n] = <<>>]
  /\ cut' = cut \ {<<n, p>>}
  /\ UNCHANGED <<story, drops>>

\* Some node has taken another's list for one of the future.
Doubt == \E n \in Nodes : node[n].doubted # {}

\* n dials p; the handshake is done on n's side.  Bound: a behaviour does not go
\* as far as a new connection after a Doubt.
Connect(n, p) ==
  /\ ~Doubt
  /\ <<n, p>> \in story.dials /\ cut \cap {<<n, p>>, <<p, n>>} = {}
  /\ node[n].peers[p].status = "none" /\ node[p].peers[n].status = "none"
  /\ node' = [node EXCEPT
        ![n] = start_synchronizing_with_peer([@ EXCEPT !.peers[p] = NewPeer("active")], p, <<>>),
        ![p].peers[n] = NewPeer("handshaking")]
  /\ UNCHANGED <<story, net, cut, drops>>

-----------------------------------------------------------------------------
Init ==
  /\ story \in Stories
  /\ node = [n \in Nodes |-> Node(story.heads[n])]
  /\ net = [n \in Nodes |-> [p \in Nodes |-> <<>>]]
  /\ cut = {}
  /\ drops = 0

Work(n) ==
  \/ Ask(n) \/ handle_block(n) \/ Handled(n) \/ process_backlog_of_sync_blocks(n)
  \/ fetch_sync_items_loop(n) \/ fetch_items_loop(n) \/ advertise_inventory_loop(n) \/ Produce(n)
  \/ \E p \in Nodes : Receive(n, p) \/ Terminate(n, p) \/ on_connection_closed(n, p) \/ Connect(n, p)

Next == \E n \in Nodes : Work(n) \/ \E p \in Nodes : TimeOut(n, p) \/ Stall(n, p)

Spec == Init /\ [][Next]_vars /\ \A n \in Nodes : WF_vars(Work(n))

-----------------------------------------------------------------------------
(* Properties. *)

\* A block that counts as requested (_active_sync_requests) is expected from
\* exactly one peer, however connections break: otherwise no peer would ever
\* be asked for it again (request_sync_items_from_peer, on_connection_closed).
RequestsTracked ==
  \A n \in Nodes :
    LET Asked(p) == node[n].peers[p].sync_requested
    IN  /\ node[n].requests = UNION {Asked(p) : p \in Nodes}
        /\ \A p, q \in Nodes : p = q \/ Asked(p) \cap Asked(q) = {}

\* Nodes that all run this code never disconnect each other for an error: no
\* answer seems not to fit its question and no block unasked for because it was
\* overtaken by a new fork, another question or another fiber.  Nor does a peer
\* seem to offer more blocks than can exist (node.cpp:2652-2671), with one
\* exception: on_fetch_items_message has replaced last_block_delegate_has_seen by
\* a block sent to a peer that has another chain.
NobodyBlamed ==
  \A n \in Nodes : ~node[n].blamed /\ \A <<seen, id>> \in node[n].doubted : seen \notin ToSet(Chain[id])

\* What the fibers and the peers of a node may rely on at any time.
SyncSound == RequestsTracked /\ NobodyBlamed

InSync(n, p) ==
  LET q == node[n].peers[p]
  IN  q.status = "active" /\ ~q.we_need /\ ~q.peer_needs

AllInSync ==
  \A <<n, p>> \in story.dials : InSync(n, p) /\ InSync(p, n) /\ Num(node[n].head) = Num(node[p].head)

\* A block lies in _received_sync_items after a connection was lost, or at a
\* node with several peers.
LeftOver(n) ==
  /\ node[n].received # <<>>
  /\ drops > 0 \/ Cardinality(Active(node[n])) > 1

\* Nodes that can reach each other come to have chains of the same length and
\* know it, whatever forks, blocks and lost connections come in between.  The
\* one thing that can keep a node out of sync is a block left in
\* _received_sync_items (see AllEndInSync); behaviours with a Doubt end early.
EndsInSync == <>[](AllInSync \/ Doubt \/ \E n \in Nodes : LeftOver(n))

\* Nothing keeps a node out of sync: process_backlog_of_sync_blocks is to go
\* through _received_sync_items again after each block ("start iterating
\* _received_sync_items from the beginning").
AllEndInSync == <>[]AllInSync

=============================================================================
