----------------------------- MODULE Authority -----------------------------
(***************************************************************************)
(* Who may do what: authorities, and sign_state and verify_authority, the  *)
(* algorithm that decides whether signatures and approvals satisfy the     *)
(* authorities that operations require.                                    *)
(*                                                                         *)
(* An authority is reached by weighted keys and accounts, an account by    *)
(* its own authority, and so on down to MaxDepth.  sign_state walks that   *)
(* graph once for all requirements of a transaction and remembers the      *)
(* accounts it has found approved, so that what it answers may depend on   *)
(* the order of the walk.  Account names are numbers: flat_map sorts them. *)
(***************************************************************************)
EXTENDS Integers, SequencesExt, FiniteSetsExt

CONSTANTS
    Names,      \* account names, in their order
    Keys,       \* public keys
    MaxDepth    \* BTCM_MAX_SIG_CHECK_DEPTH

ASSUME AuthorityAssumption == Names \subseteq Nat /\ MaxDepth \in Nat

\* authority: what each key and each account weighs, and what they must reach.
Auth(threshold, keys, accounts) == [threshold |-> threshold, keys |-> keys, accounts |-> accounts]
NoWeights == [x \in {} |-> 0]
AllOf(keys) == Auth(Cardinality(keys), [k \in keys |-> 1], NoWeights)

\* What the members S of an authority's weights w come to.
Weight(w, S) == SumFunctionOnSet(w, DOMAIN w \cap S)

-----------------------------------------------------------------------------
(* sign_state.  get is its get_active, sigs the keys that have signed, and *)
(* approved its approved_by, which a check returns extended.               *)

Verdict(ok, approved) == [ok |-> ok, approved |-> approved]

\* Mutant: an account is remembered as approved whatever its authority says.
Counted_Always(auth, sum, a, inner) ==
    [total |-> IF inner.ok THEN sum.total + auth.accounts[a] ELSE sum.total,
     enough |-> inner.ok /\ sum.total + auth.accounts[a] >= auth.threshold,
     approved |-> inner.approved \cup {a}]

\* The weights counted so far, sum, and the verdict on account a.
Counted(auth, sum, a, inner) ==
    [total |-> IF inner.ok THEN sum.total + auth.accounts[a] ELSE sum.total,
     enough |-> inner.ok /\ sum.total + auth.accounts[a] >= auth.threshold,
     approved |-> IF inner.ok THEN inner.approved \cup {a} ELSE inner.approved]

Final(auth, sum) == Verdict(sum.total >= auth.threshold, sum.approved)

RECURSIVE check_authority(_, _, _, _, _)

\* The second loop of check_authority: an account not known to approve is asked
\* for its own authority, except at the greatest depth.
CountAccount(get, sigs, auth, depth, sum, a) ==
    IF sum.enough THEN sum
    ELSE Counted(auth, sum, a,
                 IF a \in sum.approved \/ depth = MaxDepth
                 THEN Verdict(a \in sum.approved, sum.approved)
                 ELSE check_authority(get, sigs, get[a], sum.approved, depth + 1))

\* Keys count first, and may be enough.
check_authority(get, sigs, auth, approved, depth) ==
    IF DOMAIN auth.keys \cap sigs # {} /\ Weight(auth.keys, sigs) >= auth.threshold
    THEN Verdict(TRUE, approved)
    ELSE Final(auth, FoldLeft(
           LAMBDA sum, a : CountAccount(get, sigs, auth, depth, sum, a),
           [total |-> Weight(auth.keys, sigs), enough |-> FALSE, approved |-> approved],
           SetToSortSeq(DOMAIN auth.accounts, <)))

\* A requirement is met by one of the authorities auths, tried in turn, or, if
\* it is account by's, by that account's approval.  Those of a transaction are
\* checked one after the other, each with the accounts found approved before.
FirstOf(get, sigs, auths, approved) ==
    FoldLeft(LAMBDA v, auth : IF v.ok THEN v ELSE check_authority(get, sigs, auth, v.approved, 0),
             Verdict(FALSE, approved), auths)

CheckAll(get, sigs, requirements, approved) ==
    FoldLeft(LAMBDA v, q : IF ~v.ok \/ q.by \in v.approved THEN v
                           ELSE FirstOf(get, sigs, q.auths, v.approved),
             Verdict(TRUE, approved), requirements).ok

-----------------------------------------------------------------------------
(* What it stands for. *)

\* The accounts one of whose authorities alts[a] the keys and approvals
\* satisfy, however deep.
RECURSIVE Reach(_, _, _)
Reach(alts, sigs, approved) ==
    LET more == {a \in Names : \E au \in alts[a] :
                    Weight(au.keys, sigs) + Weight(au.accounts, approved) >= au.threshold}
    IN  IF more \subseteq approved THEN approved ELSE Reach(alts, sigs, approved \cup more)

\* Whether the keys and the accounts in reach satisfy auth.
Satisfied(sigs, auth, reach) ==
    Weight(auth.keys, sigs) + Weight(auth.accounts, reach) >= auth.threshold

\* Whether they satisfy auth by way of at most d accounts, remembering nothing.
RECURSIVE SatisfiedWithin(_, _, _, _, _)
SatisfiedWithin(get, sigs, auth, approved, d) ==
    Weight(auth.keys, sigs)
    + Weight(auth.accounts,
             {a \in DOMAIN auth.accounts :
                 a \in approved \/ (d > 0 /\ SatisfiedWithin(get, sigs, get[a], approved, d - 1))})
      >= auth.threshold

=============================================================================
