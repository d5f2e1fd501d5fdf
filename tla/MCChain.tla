------------------------------ MODULE MCChain ------------------------------
(***************************************************************************)
(* Instances of ChainDatabase on subsets of one tree of blocks, of which   *)
(* x4, y6 and z2 are invalid:                                              *)
(*                                                                         *)
(*   a1 - a2 - a3 - a4 - a5                                                *)
(*     \    \    \ d4 - d5 - d6                                            *)
(*      \    \    \ x4                                                     *)
(*       \    \ c3                                                         *)
(*        \ b2 - b3 - b4 - b5 - y6                                         *)
(*   f1 - z2                                                               *)
(***************************************************************************)
EXTENDS ChainDatabase

Parent == [a1 |-> "genesis", a2 |-> "a1", a3 |-> "a2", a4 |-> "a3", a5 |-> "a4",
           x4 |-> "a3", d4 |-> "a3", d5 |-> "d4", d6 |-> "d5",
           b2 |-> "a1", b3 |-> "b2", b4 |-> "b3", b5 |-> "b4", y6 |-> "b5",
           c3 |-> "a2", f1 |-> "genesis", z2 |-> "f1"]

MCPrev == [b \in Blocks |-> Parent[b]]

MCGood == Blocks \ {"x4", "y6", "z2"}

MCTxsOf == [b \in Blocks |-> CASE b = "a2" -> <<"t">> [] b = "b4" -> <<"u">> [] OTHER -> <<>>]

MCClash == {{"t", "u"}}

\* One witness produces nearly all blocks of a branch, so that it stays behind.
Lagging == [b \in Blocks |-> CASE b \in {"a1", "a2", "a3", "c3", "d4", "d5", "d6"} -> "w1"
                               [] b \in {"a4", "a5", "b2", "b3", "b4"} -> "w2"
                               [] OTHER -> "w3"]

\* One witness alone on a branch, two in turn on the other.
Rivals == [b \in Blocks |-> IF b \in {"b2", "b4"} THEN "w2" ELSE "w1"]

\* The one witness of a young chain: every block is irreversible at once.
Alone == [b \in Blocks |-> "w1"]

=============================================================================
