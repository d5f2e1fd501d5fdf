---------------------------- MODULE MCAuthority ----------------------------
(***************************************************************************)
(* Who acts for an account: proposals and the authorities they need, and   *)
(* the recovery of an account.  A behaviour is about one or the other.     *)
(*                                                                         *)
(* Account 1 is a multi-signature account of 2 and 3, and 3 may also be    *)
(* reached through 1, a cycle; account_update leads 3 to 2.  The content   *)
(* is managed by 4, which is in the hands of 1, as deep as the search goes *)
(* for the keys of 2 and 3.  Who signs and what is proposed is told by the *)
(* stories.                                                                *)
(***************************************************************************)
EXTENDS Proposals, Recovery, TLC

CONSTANTS k1, k2, song

VARIABLE part   \* what this behaviour is about

Key(k) == Auth(1, k :> 1, NoWeights)

MCActive == <<Auth(2, NoWeights, 2 :> 1 @@ 3 :> 1), Key(k2), Auth(1, k1 :> 1, 1 :> 1),
              Auth(1, NoWeights, 1 :> 1)>>
MCNewActive == [MCActive EXCEPT ![3] = Auth(1, NoWeights, 2 :> 1)]
MCOwner == [a \in Names |-> IF a = 2 THEN Key(k2) ELSE Key(k1)]
MCBasic == [a \in Names |-> Auth(1, k2 :> 1, 1 :> 1)]
MCManage == song :> Auth(1, NoWeights, 4 :> 1)
MCCoins == [a \in Names |-> 1]

Approve(id, a) == Update(id, {a}, {}, {}, {}, {}, {})
Revoke(id, a) == Update(id, {}, {a}, {}, {}, {}, {})
ApproveAsOwner(id, a) == Update(id, {}, {}, {a}, {}, {}, {})
ApproveByKey(id, k) == Update(id, {}, {}, {}, {}, {k}, {})

\* Proposals that approve and delete proposals, under one key.
Nesting ==
    [signing |-> {k2},
     reviews |-> {None, 0},
     undone |-> 1,
     proposes |-> <<{<<Op("transfer", 2)>>},
                    {<<Approve(1, 2), Op("transfer", 2)>>, <<Op("transfer", 2), Delete(1, 2, "active")>>,
                     <<Approve(1, 2)>>, <<Delete(2, 2, "active")>>},
                    {<<Delete(1, 2, "active"), Approve(2, 2)>>, <<Approve(2, 2), Op("transfer", 2)>>}>>,
     sends |-> {Approve(id, 2) : id \in 1 .. 3} \cup {ApproveByKey(1, k2), Delete(1, 2, "active")}]

\* Authorities of all kinds, nested and changing, under some of the keys.
Authorities(keys) ==
    [signing |-> keys,
     reviews |-> {None},
     undone |-> 0,
     proposes |-> <<{<<Op("content", song)>>, <<Op("vote", 1)>>, <<Op("transfer_vests", 1)>>,
                     <<Op("transfer", 1)>>},
                    {<<Op("account_update", 3)>>, <<Approve(1, 1)>>},
                    {}>>,
     sends |-> {Op("account_update", 3), Revoke(1, 3), Delete(1, 1, "owner"),
                Delete(1, 1, "basic"), Update(1, {}, {}, {}, {1}, {}, {k1})}
               \cup {ApproveByKey(id, k) : id \in 1 .. 2, k \in Keys}
               \cup {Approve(id, a) : id \in 1 .. 2, a \in 1 .. 3}
               \cup {ApproveAsOwner(id, a) : id \in 1 .. 2, a \in {1, 3}}]

MCStories == [nesting |-> Nesting, first |-> Authorities({k1}),
              second |-> Authorities({k2}), both |-> Authorities({k1, k2})]

Symmetry == Permutations(OwnerAuths) \cup Permutations(Partners)

\* The part a behaviour is not about stays as it begins.
MCInit ==
    \/ part = "proposals" /\ ProposalsInit /\ RecoveryInit
       /\ recovery_account = Nobody
    \/ part = "recovery" /\ ProposalsInit /\ story = "nesting" /\ RecoveryInit

MCNext ==
    \/ part = "proposals" /\ ProposalsNext /\ UNCHANGED <<part, recoveryVars>>
    \/ part = "recovery" /\ RecoveryNext /\ UNCHANGED <<part, proposalVars>>

MCSpec == MCInit /\ [][MCNext]_<<part, proposalVars, recoveryVars>>

=============================================================================
