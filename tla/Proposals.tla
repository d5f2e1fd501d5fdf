----------------------------- MODULE Proposals -----------------------------
(***************************************************************************)
(* Proposed transactions: proposal_create, proposal_update and             *)
(* proposal_delete, push_proposal in its undo session, the execution at    *)
(* expiration, and the index of the approvals that are asked for.          *)
(*                                                                         *)
(* A proposal may hold an approval of an earlier proposal, which may then  *)
(* execute within the later one's session, and be undone with it.          *)
(*                                                                         *)
(* Abstractions.  Proposed operations stand for all that need an account's *)
(* active, owner or basic authority or that of a content; a transfer may   *)
(* fail for lack of coins.  The two authorities of a content are one.      *)
(* Transactions hold one operation, and are signed by the keys in signing. *)
(* A story bounds what is proposed and sent in a behaviour, by whom, and   *)
(* how many proposals an undo brings back; MaxId and MaxTime are bounds.   *)
(***************************************************************************)
EXTENDS Authority

CONSTANTS
    Contents,    \* contents, managed by authorities
    Manage,      \* the authority of each content
    Owner,       \* the owner authority of each account
    Basic,       \* the basic authority of each account
    Active,      \* the active authority each account begins with
    NewActive,   \* another one, to which account_update may change it
    Coins,       \* what each account has to begin with
    Stories,     \* by name, what may be proposed, sent and signed
    MaxNesting,  \* the limit of push_proposal_nesting_guard
    Lifetime,    \* maximum_proposal_lifetime
    None,        \* no proposal, no review period
    MaxId,       \* bound: proposals
    MaxTime      \* bound: time

Ids == 1 .. MaxId

VARIABLES
    now,       \* head block time
    props,     \* the proposals by id
    active,    \* active authorities
    coins,     \* the funds transfers are made from
    listed,    \* required_approval_index: the proposals it lists
    story,     \* the story of this behaviour
    made,      \* history: the operations proposed under each id
    ran,       \* history: how often each proposal has executed
    restored,  \* history: the proposals an undo has brought back
    dangling,  \* history: a proposal was gone while it executed
    reached    \* history: the accounts that signing has had power over

world == <<props, active, coins, listed, ran, restored, dangling>>
proposalVars == <<now, world, story, made, reached>>

\* The keys that sign.
signing == Stories[story].signing

\* What an operation reads and writes.
World == [props |-> props, active |-> active, coins |-> coins, listed |-> listed,
          ran |-> ran, restored |-> restored, dangling |-> dangling]

Live(w) == {id \in Ids : w.props[id] # None}

-----------------------------------------------------------------------------
(* Operations, and the authorities they require. *)

Op(type, who) == [type |-> type, who |-> who]
Update(id, addA, remA, addO, remO, addK, remK) ==
    [type |-> "update", id |-> id, addA |-> addA, remA |-> remA,
     addO |-> addO, remO |-> remO, addK |-> addK, remK |-> remK]
Delete(id, vetoer, kind) == [type |-> "delete", id |-> id, who |-> vetoer, kind |-> kind]

Nested(op) == op.type \in {"update", "delete"}

OpActive(op) == CASE op.type \in {"transfer", "account_update"} -> {op.who}
                  [] op.type = "update" -> op.addA \cup op.remA
                  [] op.type = "delete" /\ op.kind = "active" -> {op.who}
                  [] OTHER -> {}
OpOwner(op) == CASE op.type = "transfer_vests" -> {op.who}
                 [] op.type = "update" -> op.addO \cup op.remO
                 [] op.type = "delete" /\ op.kind = "owner" -> {op.who}
                 [] OTHER -> {}
OpBasic(op) == IF op.type = "vote" \/ (op.type = "delete" /\ op.kind = "basic")
               THEN {op.who} ELSE {}
OpOther(op) == IF op.type = "update" /\ op.addK \cup op.remK # {}
               THEN {AllOf(op.addK \cup op.remK)} ELSE {}

\* operation_get_required_authorities of all operations.  Active or owner
\* authorities also cover the basic one.
Required(ops) ==
    LET S == Range(ops)
        A == UNION {OpActive(op) : op \in S}
        O == UNION {OpOwner(op) : op \in S}
    IN  [active |-> A, owner |-> O,
         basic |-> UNION {OpBasic(op) : op \in S} \ (A \cup O),
         content |-> {op.who : op \in {x \in S : x.type = "content"}},
         other |-> UNION {OpOther(op) : op \in S}]

\* "Cannot combine operations with basic approval and others!"
Mixed(r) == r.basic # {} /\ (r.active # {} \/ r.owner # {} \/ r.content # {} \/ r.other # {})

Need(by, auths) == [by |-> by, auths |-> auths]
Each(seq, F(_)) == [i \in DOMAIN seq |-> F(seq[i])]

\* The needs of accounts, in the order of their names.
Needs(S, F(_)) == Each(SetToSortSeq(S, <), F)

\* Mutant: the keys of key approvals need not sign.
Requirements_NoOther(w, r, get, owners) ==
    Needs(r.basic, LAMBDA a : Need(a, <<get[a], w.active[a], Owner[a]>>))
    \o Needs(r.active, LAMBDA a : Need(a, <<w.active[a], Owner[a]>>))
    \o Each(SetToSeq(r.content), LAMBDA c : Need(None, <<Manage[c]>>))
    \o Needs(r.owner \ owners, LAMBDA a : Need(None, <<Owner[a]>>))

\* What verify_authority checks, in its order.
Requirements(w, r, get, owners) ==
    Each(SetToSeq(r.other), LAMBDA au : Need(None, <<au>>))
    \o Needs(r.basic, LAMBDA a : Need(a, <<get[a], w.active[a], Owner[a]>>))
    \o Needs(r.active, LAMBDA a : Need(a, <<w.active[a], Owner[a]>>))
    \o Each(SetToSeq(r.content), LAMBDA c : Need(None, <<Manage[c]>>))
    \o Needs(r.owner \ owners, LAMBDA a : Need(None, <<Owner[a]>>))

\* verify_authority: the operations are authorised by the keys sigs and by the
\* active and owner approvals.
verify_authority(w, ops, sigs, actives, owners) ==
    \E r \in {Required(ops)} :
        /\ ~Mixed(r)
        /\ \E get \in {IF r.basic # {} THEN Basic ELSE w.active} :
              CheckAll(get, sigs, Requirements(w, r, get, owners), actives \cup owners)

is_authorized_to_execute(w, p) == verify_authority(w, p.ops, p.keys, p.actives, p.owners)

-----------------------------------------------------------------------------
(* Applying operations.  A result tells whether the operation went through *)
(* and the world it leaves.                                                *)

Good(w) == [ok |-> TRUE, w |-> w]
Bad(w) == [ok |-> FALSE, w |-> w]

\* Mutant: the index of required approvals is not told.
RemoveProposal_Listed(w, id) == [w EXCEPT !.props[id] = None]

RemoveProposal(w, id) == [w EXCEPT !.props[id] = None, !.listed = @ \ {id}]

\* Mutant: what was done before the failure is kept.
Undone_Not(before, after) == after

\* Undoing puts removed proposals back into their index, but does not tell the
\* index of required approvals.
Undone(before, after) ==
    [before EXCEPT !.listed = @ \cap after.listed,
                   !.restored = @ \cup after.restored \cup (Live(before) \ Live(after)),
                   !.dangling = after.dangling]

\* proposal_delete
DeleteProposal(w, op) ==
    IF op.id \in Live(w) /\ op.who \in w.props[op.id].can_veto
    THEN Good(RemoveProposal(w, op.id)) ELSE Bad(w)

\* Mutant: approvals need not be asked for.
MayUpdate_Anyone(p, op, t) ==
    /\ p.review # None /\ t <= p.review => op.addA = {} /\ op.addO = {}
    /\ op.remA \subseteq p.actives /\ op.remO \subseteq p.owners
    /\ op.addA \cap p.actives = {} /\ op.addO \cap p.owners = {}

\* The conditions of proposal_update on proposal p at time t.
MayUpdate(p, op, t) ==
    /\ p.review # None /\ t <= p.review => op.addA = {} /\ op.addO = {}
    /\ op.remA \subseteq p.actives /\ op.remO \subseteq p.owners
    /\ op.addA \cap p.actives = {} /\ op.addO \cap p.owners = {}
    /\ op.addA \subseteq p.reqA \cup p.reqB
    /\ op.addO \subseteq p.reqO \cup p.reqA \cup p.reqB

Updated(p, op) == [p EXCEPT !.actives = (@ \cup op.addA) \ op.remA,
                            !.owners = (@ \cup op.addO) \ op.remO,
                            !.keys = (@ \cup op.addK) \ op.remK]

RECURSIVE push_proposal(_, _, _, _)

\* Mutant: a proposal with a review period executes as soon as it is approved.
Attempt_Review(w, id, t, depth) ==
    IF is_authorized_to_execute(w, w.props[id]) THEN push_proposal(w, id, t, depth).w ELSE w

\* The end of proposal_update: the proposal executes if its approvals suffice
\* and it has no review period.  If that fails only the approvals stay.
Attempt(w, id, t, depth) ==
    IF w.props[id].review = None /\ is_authorized_to_execute(w, w.props[id])
    THEN push_proposal(w, id, t, depth).w ELSE w

\* proposal_update
UpdateProposal(w, op, t, depth) ==
    IF op.id \in Live(w) /\ MayUpdate(w.props[op.id], op, t)
    THEN Good(Attempt([w EXCEPT !.props[op.id] = Updated(@, op)], op.id, t, depth)) ELSE Bad(w)

Apply(w, op, t, depth) ==
    CASE op.type \in {"transfer", "transfer_vests"} ->
            IF w.coins[op.who] > 0 THEN Good([w EXCEPT !.coins[op.who] = @ - 1]) ELSE Bad(w)
      [] op.type = "account_update" -> Good([w EXCEPT !.active[op.who] = NewActive[op.who]])
      [] op.type = "update" -> UpdateProposal(w, op, t, depth)
      [] op.type = "delete" -> DeleteProposal(w, op)
      [] OTHER -> Good(w)

\* The end of push_proposal: the proposal is removed and the session merged, or
\* what its operations did is undone.
Pushed(w, id, r) ==
    IF ~r.ok THEN Bad(Undone(w, r.w))
    ELSE Good([RemoveProposal(r.w, id) EXCEPT !.ran[id] = @ + 1,
                                              !.dangling = @ \/ id \notin Live(r.w)])

\* push_proposal
push_proposal(w, id, t, depth) ==
    IF depth >= MaxNesting THEN Bad(w)
    ELSE Pushed(w, id, FoldLeft(LAMBDA r, op : IF r.ok THEN Apply(r.w, op, t, depth + 1) ELSE r,
                                Good(w), w.props[id].ops))

\* Mutant: a proposal that expires now is left for the next block.
Expired_Before(w, t) == {id \in Live(w) : w.props[id].expiration < t}

Expired(w, t) == {id \in Live(w) : w.props[id].expiration <= t}

\* by_expiration
NextExpired(w, t) ==
    Min({id \in Expired(w, t) :
            \A x \in Expired(w, t) : w.props[id].expiration <= w.props[x].expiration})

\* A proposal that expires is executed or removed.
ExpireOne(id, r) == IF r.ok THEN r.w ELSE RemoveProposal(r.w, id)

RECURSIVE clear_expired_proposals(_, _)
clear_expired_proposals(w, t) ==
    IF Expired(w, t) = {} THEN w
    ELSE clear_expired_proposals(
           ExpireOne(NextExpired(w, t),
                     IF is_authorized_to_execute(w, w.props[NextExpired(w, t)])
                     THEN push_proposal(w, NextExpired(w, t), t, 0) ELSE Bad(w)), t)

-----------------------------------------------------------------------------
(* proposal_create *)

\* Mutant: accounts are looked for one level less deep than keys are.
RECURSIVE Collect_Shallow(_, _, _)
Collect_Shallow(w, auth, depth) ==
    LET members == DOMAIN auth.accounts
    IN  {a \in members : DOMAIN w.active[a].keys # {}}
        \cup IF depth + 1 < MaxDepth
             THEN UNION {Collect_Shallow(w, w.active[a], depth + 1) : a \in members} ELSE {}

\* authority_collector: the accounts that may approve for a content.
RECURSIVE Collect(_, _, _)
Collect(w, auth, depth) ==
    LET members == DOMAIN auth.accounts
    IN  {a \in members : DOMAIN w.active[a].keys # {}}
        \cup IF depth < MaxDepth
             THEN UNION {Collect(w, w.active[a], depth + 1) : a \in members} ELSE {}

\* Mutant: the ids that a proposal refers to are not compared with its own.
MayPropose_Future(ops, id) ==
    /\ Cardinality({i \in DOMAIN ops : ops[i].type = "update"}) <= 1
    /\ Required(ops).other = {}
    /\ ~Mixed(Required(ops))

\* At most one approval, only of earlier proposals, and none by keys.
MayPropose(ops, id) ==
    /\ Cardinality({i \in DOMAIN ops : ops[i].type = "update"}) <= 1
    /\ \A i \in DOMAIN ops : Nested(ops[i]) => ops[i].id < id
    /\ Required(ops).other = {}
    /\ ~Mixed(Required(ops))

Proposal(w, ops, expiration, review) ==
    LET r == Required(ops)
    IN  [ops |-> ops, expiration |-> expiration, review |-> review,
         actives |-> {}, owners |-> {}, keys |-> {},
         reqO |-> r.owner, reqB |-> r.basic,
         reqA |-> (r.active \cup UNION {Collect(w, Manage[c], 0) : c \in r.content}) \ r.owner,
         can_veto |-> r.active \cup r.owner \cup r.basic]

-----------------------------------------------------------------------------
(* Actions. *)

\* The accounts that signing has power over by their active or owner authority.
Powers(act, before) == Reach([a \in Names |-> {act[a], Owner[a]}], signing, before)

ProposalsInit ==
    /\ now = 0
    /\ props = [id \in Ids |-> None]
    /\ active = Active
    /\ coins = Coins
    /\ listed = {} /\ restored = {}
    /\ dangling = FALSE
    /\ made = [id \in Ids |-> <<>>]
    /\ ran = [id \in Ids |-> 0]
    /\ story \in DOMAIN Stories
    /\ reached = Powers(Active, {})

Becomes(w) ==
    /\ props' = w.props /\ active' = w.active /\ coins' = w.coins /\ listed' = w.listed
    /\ ran' = w.ran /\ restored' = w.restored /\ dangling' = w.dangling
    /\ reached' = Powers(w.active, reached)
    /\ UNCHANGED story

Used == {id \in Ids : made[id] # <<>>}

\* A proposal needs nobody's authority.
ProposalCreate(ops, expiration, review) ==
    LET id == Cardinality(Used) + 1
    IN  /\ id \in Ids
        /\ ops \in Stories[story].proposes[id]
        /\ now < expiration /\ expiration <= now + Lifetime
        /\ review # None => now <= review /\ review < expiration
        /\ MayPropose(ops, id)
        /\ \E w \in {[World EXCEPT !.props[id] = Proposal(World, ops, expiration, review),
                                   !.listed = @ \cup {id}]} : Becomes(w)
        /\ made' = [made EXCEPT ![id] = ops]
        /\ UNCHANGED now

\* A transaction with the operation, signed by the keys in signing.  It may also
\* be applied as a pending one only, and undone again: it fails, or its session
\* is undone before the next block.
Transaction(op) ==
    /\ verify_authority(World, <<op>>, signing, {}, {})
    /\ \E r \in {Apply(World, op, now, 0)}, kept \in BOOLEAN :
          /\ IF kept THEN r.ok ELSE Cardinality(restored) < Stories[story].undone
          /\ \E w \in {IF kept THEN r.w ELSE Undone(World, r.w)} : Becomes(w)
    /\ UNCHANGED <<now, made>>

\* A block without transactions of its own.
ProposalsBlock ==
    /\ now < MaxTime
    /\ now' = now + 1
    /\ \E w \in {clear_expired_proposals(World, now + 1)} : Becomes(w)
    /\ UNCHANGED made

ProposalsNext ==
    \/ \E id \in Ids, e \in 1 .. MaxTime, r \in Stories[story].reviews :
          \E ops \in Stories[story].proposes[id] : ProposalCreate(ops, e, r)
    \/ \E op \in Stories[story].sends : Transaction(op)
    \/ ProposalsBlock

ProposalsSpec == ProposalsInit /\ [][ProposalsNext]_proposalVars
-----------------------------------------------------------------------------
(* Properties. *)

\* Proposals and accounts keep to their shape.
ProposalsTypeOK ==
    /\ now \in 0 .. MaxTime
    /\ \A id \in Live(World) :
          LET p == props[id]
          IN  /\ p.ops = made[id]
              /\ p.actives \subseteq p.reqA \cup p.reqB
              /\ p.owners \subseteq p.reqO \cup p.reqA \cup p.reqB
              /\ p.keys \subseteq Keys
    /\ \A a \in Names : active[a] \in {Active[a], NewActive[a]} /\ coins[a] \in 0 .. Coins[a]
    /\ story \in DOMAIN Stories

\* A proposal executes completely or not at all, however proposals nest, and
\* at most once: the coins that are gone are those of the proposals that have
\* executed (push_proposal's session).
AllOrNothing ==
    /\ \A id \in Ids : ran[id] > 0 => ran[id] = 1 /\ props[id] = None
    /\ \A a \in Names :
          coins[a] = Coins[a] - Cardinality({<<id, i>> \in Ids \X (1 .. 3) :
                        /\ ran[id] = 1 /\ i \in DOMAIN made[id]
                        /\ made[id][i].type \in {"transfer", "transfer_vests"}
                        /\ made[id][i].who = a})

\* What was done needed only authorities that the signing keys have had power
\* over, and so did every approval, by whatever detour of proposals that
\* approve proposals: nobody acts for an account whose authority nobody could
\* ever satisfy (verify_authority, the required approvals).
NoForgery ==
    LET owners == {a \in Names : Satisfied(signing, Owner[a], reached)}
        basics == Reach([a \in Names |-> {Basic[a]}], signing, reached)
    IN  /\ \A id \in Ids : ran[id] > 0 =>
              LET r == Required(made[id])
              IN  /\ r.active \subseteq reached /\ r.owner \subseteq owners
                  /\ r.basic \subseteq basics
                  /\ \A c \in r.content : Satisfied(signing, Manage[c], reached)
        /\ \A id \in Live(World) :
              /\ props[id].actives \subseteq reached /\ props[id].owners \subseteq owners
              /\ props[id].keys \subseteq signing

\* Each requirement of a transaction judged by itself.
Alone(p, Sat(_, _)) ==
    LET r   == Required(p.ops)
        get == IF r.basic # {} THEN Basic ELSE active
        q   == Requirements(World, r, get, p.owners)
    IN  \A i \in DOMAIN q : q[i].by \in p.actives \cup p.owners
                            \/ \E j \in DOMAIN q[i].auths : Sat(get, q[i].auths[j])

\* The walk of sign_state accepts only what keys and approvals satisfy, and all
\* that they satisfy within the depth it searches: neither cycles of accounts
\* nor what it remembers from one check to the next lead it astray
\* (check_authority).
CheckIsExact ==
    \A id \in Live(World) :
       LET p == props[id]
           approved == p.actives \cup p.owners
       IN  /\ is_authorized_to_execute(World, p) =>
                 Alone(p, LAMBDA get, au :
                    Satisfied(p.keys, au, Reach([a \in Names |-> {get[a]}], p.keys, approved)))
           /\ Alone(p, LAMBDA get, au : SatisfiedWithin(get, p.keys, au, approved, MaxDepth)) =>
                 is_authorized_to_execute(World, p)

\* A proposal never goes away while it executes: what it does to other
\* proposals leaves it alone, so that push_proposal can remove it at the end
\* (hardfork_visitor_1479).
StaysWhileRunning == ~dangling

\* After a block no expired proposal is left, although proposals execute,
\* delete each other and fail while they are being cleared
\* (clear_expired_proposals).
ExpiredGone == \A id \in Live(World) : now < props[id].expiration

\* The index of required approvals lists exactly the proposals there are: it
\* "tracks all of the proposal objects that requrie approval of an individual
\* account" (proposal_object.hpp:65).
AllListed == listed = Live(World)

\* Only an undo makes the index miss a proposal, one that it brought back, and
\* the index never lists a proposal that is gone (required_approval_index).
UnlistedOnlyByUndo == listed \subseteq Live(World) /\ Live(World) \ listed \subseteq restored

\* A proposal with a review period executes only when it expires, also when
\* another proposal approves it, and no account's approval is added before the
\* period is over (proposal_update).  The approvals of keys are another matter:
\* see NoneAddedInReview.
ReviewRespected ==
    [][\A id \in Live(World) : props[id].review # None =>
          /\ ran'[id] > ran[id] => now' >= props[id].expiration
          /\ now' <= props[id].review /\ props'[id] # None =>
                props'[id].actives \subseteq props[id].actives
                /\ props'[id].owners \subseteq props[id].owners]_proposalVars

\* In the review period of a proposal "No new approvals may be added", of
\* whatever kind (proposal_evaluator.cpp:206).
NoneAddedInReview ==
    [][\A id \in Live(World) :
          props[id].review # None /\ now' <= props[id].review /\ props'[id] # None =>
             \A kind \in {"actives", "owners", "keys"} : props'[id][kind] \subseteq props[id][kind]]_proposalVars

\* "An owner approval may only be added if the proposal requires the owner's
\* authority" (proposal.hpp:92).
OwnersOnlyWhereRequired == \A id \in Live(World) : props[id].owners \subseteq props[id].reqO

\* The accounts a new proposal asks for its approval suffice whenever the keys
\* and the approvals of all accounts with keys would, also where the authority
\* of a content is nested in those of accounts without keys (authority_collector
\* finds all that check_authority searches).
ApprovableByAccounts ==
    [][\A id \in Ids : made'[id] # made[id] =>
          LET p == props'[id]
              able == {a \in Names : DOMAIN active[a].keys # {}}
          IN  is_authorized_to_execute(World', [p EXCEPT !.keys = Keys, !.actives = able]) =>
              is_authorized_to_execute(World', [p EXCEPT !.actives = p.reqA \cup p.reqB,
                                                         !.owners = p.reqO])]_proposalVars

\* Proposals that execute, approve and delete each other leave their table in
\* order: nothing expired stays, nothing that runs is pulled away, and the index
\* goes wrong in one way only.
ProposalsSound ==
    /\ ProposalsTypeOK
    /\ StaysWhileRunning
    /\ ExpiredGone
    /\ UnlistedOnlyByUndo

\* Who may approve, and until when, is what the proposal's authorities and its
\* review period say.
ApprovalRules == ReviewRespected /\ ApprovableByAccounts

=============================================================================
