---------------------------- MODULE MCChainMild ----------------------------
(***************************************************************************)
(* ChainDatabase in milder surroundings.  A behaviour is about what single *)
(* steps do while no block contradicts an irreversible one, or about where *)
(* a node gets to that is offered valid blocks only, in order.             *)
(***************************************************************************)
EXTENDS MCChain

VARIABLE part   \* what this behaviour is about

LiveBlocks == {"f1", "a1", "a2", "a3", "b2", "b3", "b4"}

MildInit == Init /\ part \in {"safe", "live"}

MildNext ==
    /\ UNCHANGED part
    /\ \/ part = "safe" /\ SafeNext
       \/ part = "live" /\ OrderedNext(LiveBlocks)

\* Peers offer every block again until it is of no more use: weak fairness of
\* Deliver(b).
Offered(b) == []<>(part = "safe" \/ ~Useful(b)) \/ []<><<Deliver(b)>>_vars

MildSpec ==
    /\ MildInit
    /\ [][MildNext]_<<vars, part>>
    /\ \A b \in LiveBlocks : Offered(b)

\* Nodes that are offered valid blocks only reach the greatest height, by
\* whatever forks, in whatever order the branches come (_push_block).
Converges == part = "live" => Reached(LiveBlocks)

=============================================================================
