---------------------------- MODULE MCAccounts -----------------------------
(***************************************************************************)
(* What accounts own and who acts for them: the vesting shares, and the    *)
(* proposals, authorities and recoveries of MCAuthority.  They share       *)
(* nothing, so that a behaviour is about one of them.                      *)
(***************************************************************************)
EXTENDS MCStake, MCAuthority

\* The parts a behaviour is not about stay as they begin.
AccountsInit ==
    /\ Init
    /\ \/ part = "stake" /\ ProposalsInit /\ story = "nesting"
          /\ RecoveryInit /\ recovery_account = Nobody
       \/ MCInit /\ profile = Withdrawing

AccountsNext ==
    \/ part = "stake" /\ Next /\ UNCHANGED <<part, proposalVars, recoveryVars>>
    \/ MCNext /\ UNCHANGED vars

AccountsSpec == AccountsInit /\ [][AccountsNext]_<<part, vars, proposalVars, recoveryVars>>

=============================================================================
