---------------------------- MODULE MCConsensus ----------------------------
(***************************************************************************)
(* What all nodes must agree on: the chain of blocks, and the money of     *)
(* MCLedger.  They share nothing in these models, so that a behaviour is   *)
(* about one of them.                                                      *)
(***************************************************************************)
EXTENDS MCChain, MCLedger

\* The parts a behaviour is not about stay as they begin.
ConsensusInit ==
    /\ Init
    /\ \/ MCInit
       \/ part = "chain" /\ LedgerInit /\ ledgerProfile = Trading
          /\ StreamingInit /\ streamingProfile = Listening

ConsensusNext ==
    \/ part = "chain" /\ Next /\ UNCHANGED <<part, ledgerVars, streamingVars>>
    \/ MCNext /\ UNCHANGED vars

ConsensusSpec == ConsensusInit /\ [][ConsensusNext]_<<part, vars, ledgerVars, streamingVars>>

=============================================================================
