------------------------------- MODULE MCSync -------------------------------
(***************************************************************************)
(* Two or three nodes and two branches of blocks:                          *)
(*                                                                         *)
(*   1 - 2 - 3 - 4 - 5 - 6 - 7                                             *)
(*     \ 12 - 13                                                           *)
(***************************************************************************)
EXTENDS BlockSync, TLC

MCPrev == [b \in Blocks |-> IF b = 12 THEN 1 ELSE b - 1]

\* The makers of the short branch have missed most of their slots.
MCSlot == [b \in Blocks \cup {Zero} |-> IF b >= 12 THEN b - 6 ELSE b]

NoMakers == [b \in {} |-> 0]

\* heads are those of nodes 1, 2 and 3.
Tell(heads, dials, makers, lost) == [heads |-> heads, dials |-> dials, makers |-> makers, drops |-> lost]

\* A node far behind another: several answers, the limits on what is fetched
\* and handled at a time.
Behind == Tell(<<7, 0, 0>>, {<<1, 2>>}, NoMakers, 0)

\* Two nodes on different forks.
Forked == Tell(<<13, 2, 0>>, {<<1, 2>>}, NoMakers, 0)

\* After a long partition: one still has much to list when the other has sent it
\* a recent block.
Parted == Tell(<<13, 6, 0>>, {<<2, 1>>}, NoMakers, 0)

\* A node makes blocks, which pass from node to node.
Relay == Tell(<<1, 1, 1>>, {<<1, 2>>, <<2, 3>>}, 2 :> 1, 0)

\* Both nodes make blocks, on different forks, while they connect.
Race == Tell(<<1, 1, 0>>, {<<1, 2>>}, 2 :> 1 @@ 12 :> 2 @@ 13 :> 2, 0)

\* The connection is lost once.
Lost == Tell(<<0, 3, 0>>, {<<1, 2>>}, NoMakers, 1)
LostMaking == Tell(<<1, 1, 0>>, {<<1, 2>>}, 2 :> 1 @@ 3 :> 1, 1)

\* Node 3 learns the same blocks from two nodes.
Two == Tell(<<2, 2, 0>>, {<<3, 1>>, <<3, 2>>}, NoMakers, 0)

MCStories == {Behind, Forked, Parted, Relay, Race, Lost, LostMaking, Two}

TwoPeers == {Two}

=============================================================================
