------------------------------- MODULE Stake -------------------------------
(***************************************************************************)
(* Vesting shares: who owns them, who withdraws them, to whom they are     *)
(* delegated and redelegated, and what the streaming platforms hold of     *)
(* them (account_object's vesting fields, vesting_delegation_object and    *)
(* its expiration object, withdraw_vesting_route_object and the two totals *)
(* in dynamic_global_property_object).                                     *)
(*                                                                         *)
(* Amounts are shares: what is paid in BTCM enters as the shares it buys.  *)
(* One unit of time is a withdrawal interval, which is also how long a     *)
(* delegation takes to return; times are counted down from now.  Blocks    *)
(* follow each other with less than an interval between them.              *)
(***************************************************************************)
EXTENDS Integers, FiniteSetsExt, SequencesExt

CONSTANTS
  Accounts,        \* all accounts that can exist
  Founders,        \* those of the genesis state
  IdOrder,         \* the accounts in the order of their ids
  Intervals,       \* BTCM_VESTING_WITHDRAW_INTERVALS
  CreateTime,      \* BTCM_CREATE_ACCOUNT_DELEGATION_TIME, in intervals
  Ratio,           \* BTCM_CREATE_ACCOUNT_DELEGATION_RATIO
  Fee, TenFees,    \* shares worth one and ten account creation fees
  Hundred,         \* BTCM_100_PERCENT
  MaxRoutes,       \* BTCM_MAX_WITHDRAW_ROUTES
  MaxShares,       \* bound on the shares that exist in any behaviour
  MaxDrift,        \* bound on how far the platforms' total is off
  Profiles         \* bounds on the inputs of a behaviour: see Profile

\* In a behaviour only some accounts withdraw, delegate or become platforms,
\* with so many shares at most, some amounts bought, asked back and delegated at a time, and some
\* withdraw routes, as <<to, percent, auto_vest>>.
Profile == [withdrawers : SUBSET Accounts, delegators : SUBSET Accounts,
            candidates : SUBSET Accounts, most : 0 .. MaxShares, bought : SUBSET Nat, asked : SUBSET Nat,
            lent : SUBSET Nat, routes : SUBSET (Accounts \X (0 .. Hundred) \X BOOLEAN)]

ASSUME StakeAssumption ==
  /\ IsFiniteSet(Accounts) /\ Founders \subseteq Accounts
  /\ IdOrder \in Seq(Accounts) /\ Range(IdOrder) = Accounts /\ IsInjective(IdOrder)
  /\ Intervals \in Nat \ {0} /\ CreateTime \in Nat \ {0} /\ Ratio \in Nat
  /\ Fee \in Nat \ {0} /\ TenFees \in Nat \ {0} /\ Hundred \in Nat \ {0} /\ MaxRoutes \in Nat
  /\ MaxShares \in Nat
  /\ Profiles \subseteq Profile

VARIABLES
  profile,         \* of this behaviour
  accounts,        \* the accounts created so far
  vesting_shares, delegated, received, redelegated, rereceived,
  to_withdraw, withdrawn,
  withdraw_rate,   \* not 0 while next_vesting_withdrawal is set
  routes,          \* [from][to]: percent and auto_vest of a withdraw route
  delegation,      \* [delegator][delegatee]: shares, and time it must last
  expiring,        \* [delegator][time left]: shares on their way back
  redelegations,   \* [requestor][reporter]: percent and shares
  requests,        \* stream_report_request_objects, as pairs
  platforms,       \* accounts that are streaming platforms
  total_vesting_shares, total_vested_by_platforms

holdings == <<vesting_shares, delegated, received, redelegated, rereceived>>
withdrawal == <<to_withdraw, withdrawn, withdraw_rate>>
vars == <<profile, accounts, holdings, withdrawal, routes, delegation, expiring,
          redelegations, requests, platforms, total_vesting_shares,
          total_vested_by_platforms>>

Amounts == 0 .. MaxShares
NoRoute == [percent |-> 0, auto_vest |-> FALSE]

\* The platforms among a set of accounts, as a number to multiply with.
IsPlatform(a) == IF a \in platforms THEN 1 ELSE 0

Percent(amount, pct) == (amount * pct) \div Hundred

\* account_object as its constructor leaves it, for every account.
Init ==
  /\ profile \in Profiles
  /\ accounts = Founders
  /\ vesting_shares = [a \in Accounts |-> 0]
  /\ delegated = [a \in Accounts |-> 0] /\ received = [a \in Accounts |-> 0]
  /\ redelegated = [a \in Accounts |-> 0] /\ rereceived = [a \in Accounts |-> 0]
  /\ to_withdraw = [a \in Accounts |-> 0] /\ withdrawn = [a \in Accounts |-> 0]
  /\ withdraw_rate = [a \in Accounts |-> 0]
  /\ routes = [a \in Accounts |-> [b \in Accounts |-> NoRoute]]
  /\ delegation = [a \in Accounts |-> [b \in Accounts |-> [shares |-> 0, lasts |-> 0]]]
  /\ expiring = [a \in Accounts |-> [t \in 0 .. CreateTime |-> 0]]
  /\ redelegations = [a \in Accounts |-> [b \in Accounts |-> [pct |-> 0, shares |-> 0]]]
  /\ requests = {} /\ platforms = {}
  /\ total_vesting_shares = 0 /\ total_vested_by_platforms = 0

-----------------------------------------------------------------------------
(* Shares come into being. *)

\* Shares for an account, with the totals that follow them.
create_vesting(a, shares) ==
  /\ total_vesting_shares + shares <= profile.most
  /\ vesting_shares' = [vesting_shares EXCEPT ![a] = @ + shares]
  /\ total_vesting_shares' = total_vesting_shares + shares
  /\ total_vested_by_platforms' = total_vested_by_platforms + IsPlatform(a) * shares

transfer_to_vesting(a, shares) ==
  /\ a \in accounts
  /\ create_vesting(a, shares)
  /\ UNCHANGED <<accounts, delegated, received, redelegated, rereceived, withdrawal,
                 routes, delegation, expiring, redelegations, requests, platforms>>

\* The fee becomes the new account's first shares.
account_create(creator, new, fee) ==
  /\ creator \in accounts /\ new \notin accounts
  /\ fee >= Fee
  /\ accounts' = accounts \cup {new}
  /\ create_vesting(new, fee)
  /\ UNCHANGED <<delegated, received, redelegated, rereceived, withdrawal,
                 routes, delegation, expiring, redelegations, requests, platforms>>

\* Mutant: shares on their way out may be delegated as well.
available_shares_Owned(a) == vesting_shares[a] - delegated[a]

\* What an account may still give away: not delegated, not being withdrawn.
available_shares(a) == vesting_shares[a] - delegated[a] - (to_withdraw[a] - withdrawn[a])

\* A smaller fee, made up for by a delegation that must last.  The total of
\* the platforms is not touched when the creator is one.
account_create_with_delegation(creator, new, fee, shares) ==
  /\ creator \in accounts /\ new \notin accounts
  /\ available_shares(creator) >= shares
  /\ fee * Ratio + shares >= Fee * Ratio
  /\ accounts' = accounts \cup {new}
  /\ delegated' = [delegated EXCEPT ![creator] = @ + shares]
  /\ received' = [received EXCEPT ![new] = shares]
  /\ delegation' = IF shares = 0 THEN delegation
                   ELSE [delegation EXCEPT ![creator][new] =
                           [shares |-> shares, lasts |-> CreateTime]]
  /\ create_vesting(new, fee)
  /\ UNCHANGED <<redelegated, rereceived, withdrawal, routes, expiring,
                 redelegations, requests, platforms>>

-----------------------------------------------------------------------------
(* Withdrawing shares. *)

start_withdrawal(a, shares, rate) ==
  /\ withdraw_rate[a] # rate
  /\ withdraw_rate' = [withdraw_rate EXCEPT ![a] = rate]
  /\ to_withdraw' = [to_withdraw EXCEPT ![a] = shares]

stop_withdrawal(a) ==
  /\ withdraw_rate[a] # 0
  /\ withdraw_rate' = [withdraw_rate EXCEPT ![a] = 0]
  /\ to_withdraw' = [to_withdraw EXCEPT ![a] = 0]

withdraw_vesting(a, shares) ==
  /\ a \in accounts
  /\ vesting_shares[a] - delegated[a] >= shares
  /\ vesting_shares[a] > TenFees
  /\ IF shares = 0 THEN stop_withdrawal(a)
                   ELSE start_withdrawal(a, shares, Max({1, shares \div Intervals}))
  /\ withdrawn' = [withdrawn EXCEPT ![a] = 0]
  /\ UNCHANGED <<accounts, holdings, routes, delegation, expiring, redelegations,
                 requests, platforms, total_vesting_shares, total_vested_by_platforms>>

\* The routes a scan from the entry behind (from, id 0) meets: a route to the
\* account with id 0 is stored but never met.
Met(from) == {to \in Accounts : routes[from][to].percent > 0 /\ to # IdOrder[1]}

set_withdraw_vesting_route(from, to, percent, auto_vest) ==
  /\ from \in accounts /\ to \in accounts
  /\ routes[from][to].percent = 0 =>
       /\ percent # 0
       /\ Cardinality({b \in Accounts : routes[from][b].percent > 0}) < MaxRoutes
  /\ routes' = [routes EXCEPT ![from][to] =
                  IF percent = 0 THEN NoRoute
                                 ELSE [percent |-> percent, auto_vest |-> auto_vest]]
  /\ SumFunctionOnSet([b \in Accounts |-> routes'[from][b].percent], Met(from)') <= Hundred
  /\ UNCHANGED <<accounts, holdings, withdrawal, delegation, expiring, redelegations,
                 requests, platforms, total_vesting_shares, total_vested_by_platforms>>

\* Mutant: the last part of a withdrawal is as large as the others.
ThisTime_Full(a, owned) == Min({owned, withdraw_rate[a]})

\* The shares a withdrawal takes this time, given what the account owns.
ThisTime(a, owned) ==
  Min({owned, IF to_withdraw[a] - withdrawn[a] < withdraw_rate[a]
              THEN to_withdraw[a] % withdraw_rate[a]
              ELSE withdraw_rate[a]})

\* One account's withdrawal of n shares: what its auto_vest routes carry stays
\* in shares, the rest is turned into BTCM for the other routes and the owner.
Deposit(a, b, n) ==
  IF b \in Met(a) /\ routes[a][b].auto_vest THEN Percent(n, routes[a][b].percent) ELSE 0

\* Mutant: all shares withdrawn leave the total, those deposited elsewhere too.
Withdraw_AllGone(round, a) ==
  LET n == ThisTime(a, round.owned[a])
      owned == [b \in Accounts |-> round.owned[b] + Deposit(a, b, n) - (IF b = a THEN n ELSE 0)]
  IN [owned |-> owned, taken |-> [round.taken EXCEPT ![a] = n],
      gone  |-> round.gone + n, empty |-> round.empty \cup {b \in {a} : owned[b] = 0}]

\* A round of withdrawals so far: the owners' shares, the shares each was due,
\* the shares turned into BTCM, and the accounts that were left with none.
Withdraw(round, a) ==
  LET n == ThisTime(a, round.owned[a])
      owned == [b \in Accounts |-> round.owned[b] + Deposit(a, b, n) - (IF b = a THEN n ELSE 0)]
  IN [owned |-> owned,
      taken |-> [round.taken EXCEPT ![a] = n],
      gone  |-> round.gone + n - SumFunction([b \in Accounts |-> Deposit(a, b, n)]),
      empty |-> round.empty \cup {b \in {a} : owned[b] = 0}]

\* The loop goes through the accounts whose withdrawals are due, in the order
\* of the index.
WithdrawIfDue(round, a) == IF withdraw_rate[a] # 0 THEN Withdraw(round, a) ELSE round

\* Before the first account.
FirstRound == [owned |-> vesting_shares, taken |-> [a \in Accounts |-> 0], gone |-> 0, empty |-> {}]

Settle(round) ==
  /\ vesting_shares' = round.owned
  /\ withdrawn' = [a \in Accounts |-> withdrawn[a] + round.taken[a]]
  /\ withdraw_rate' = [a \in Accounts |->
       IF withdrawn'[a] >= to_withdraw[a] \/ a \in round.empty THEN 0 ELSE withdraw_rate[a]]
  /\ total_vesting_shares' = total_vesting_shares - round.gone
  /\ UNCHANGED to_withdraw

process_vesting_withdrawals == Settle(FoldLeft(WithdrawIfDue, FirstRound, IdOrder))

\* Delegations whose time is over return to their owner.
clear_expired_delegations ==
  /\ delegated' = [a \in Accounts |-> delegated[a] - expiring[a][0]]
  /\ total_vested_by_platforms' = total_vested_by_platforms
       + SumFunctionOnSet([a \in Accounts |-> expiring[a][0]], platforms)
  /\ expiring' = [a \in Accounts |-> [t \in DOMAIN expiring[a] |->
                    IF t + 1 \in DOMAIN expiring[a] THEN expiring[a][t + 1] ELSE 0]]

\* A block that is an interval later than the last one that changed anything
\* here: expired delegations first, then the withdrawals.
Block ==
  /\ clear_expired_delegations
  /\ process_vesting_withdrawals
  /\ delegation' = [a \in Accounts |-> [b \in Accounts |->
                      [delegation[a][b] EXCEPT !.lasts = Max({@ - 1, 0})]]]
  /\ UNCHANGED <<accounts, received, redelegated, rereceived, routes, redelegations,
                 requests, platforms>>

-----------------------------------------------------------------------------
(* Delegating shares. *)

\* Every redelegation of a delegatee follows a delegation that changes from
\* old to new shares, by the difference of the rounded parts.
RedelegationDelta(b, r, old, new) ==
  Percent(new, redelegations[b][r].pct) - Percent(old, redelegations[b][r].pct)

redelegate(b, old, new) ==
  /\ redelegations' = [redelegations EXCEPT ![b] = [r \in Accounts |->
       [pct |-> @[r].pct, shares |-> @[r].shares + RedelegationDelta(b, r, old, new)]]]
  /\ redelegated' = [redelegated EXCEPT ![b] =
       @ + SumFunction([r \in Accounts |-> RedelegationDelta(b, r, old, new)])]
  /\ rereceived' = [r \in Accounts |-> rereceived[r] + RedelegationDelta(b, r, old, new)]

\* Mutant: only the delegatee's side of the platforms' total is adjusted.
increase_delegation_OneSide(a, b, old, new) ==
  /\ available_shares(a) >= new - old
  /\ new - old >= (IF old = 0 THEN TenFees ELSE Fee)
  /\ delegated' = [delegated EXCEPT ![a] = @ + new - old]
  /\ delegation' = [delegation EXCEPT ![a][b].shares = new]
  /\ total_vested_by_platforms' = total_vested_by_platforms + IsPlatform(b) * (new - old)
  /\ UNCHANGED expiring

\* A delegation that is new or grows moves its shares at once.
increase_delegation(a, b, old, new) ==
  /\ available_shares(a) >= new - old
  /\ new - old >= (IF old = 0 THEN TenFees ELSE Fee)
  /\ delegated' = [delegated EXCEPT ![a] = @ + new - old]
  /\ delegation' = [delegation EXCEPT ![a][b].shares = new]
  /\ total_vested_by_platforms' = total_vested_by_platforms
                                  + (IsPlatform(b) - IsPlatform(a)) * (new - old)
  /\ UNCHANGED expiring

\* Mutant: the shares never return.
decrease_delegation_Lost(a, b, old, new) ==
  /\ new > 0 => old - new >= Fee /\ new >= TenFees
  /\ delegation' = [delegation EXCEPT ![a][b] =
                      IF new = 0 THEN [shares |-> 0, lasts |-> 0] ELSE [@ EXCEPT !.shares = new]]
  /\ total_vested_by_platforms' = total_vested_by_platforms
       - IsPlatform(b) * (1 - IsPlatform(a)) * (old - new)
  /\ UNCHANGED <<delegated, expiring>>

\* One that shrinks leaves the delegatee at once and returns to the delegator
\* when the return period is over and the delegation has lasted long enough.
decrease_delegation(a, b, old, new) ==
  /\ new > 0 => old - new >= Fee /\ new >= TenFees
  /\ expiring' = [expiring EXCEPT ![a][Max({1, delegation[a][b].lasts})] = @ + old - new]
  /\ delegation' = [delegation EXCEPT ![a][b] =
                      IF new = 0 THEN [shares |-> 0, lasts |-> 0] ELSE [@ EXCEPT !.shares = new]]
  /\ total_vested_by_platforms' = total_vested_by_platforms
       - IsPlatform(b) * (1 - IsPlatform(a)) * (old - new)
  /\ UNCHANGED delegated

delegate_vesting_shares(a, b, new) ==
  /\ a \in accounts /\ b \in accounts /\ a # b
  /\ LET old == delegation[a][b].shares
     IN /\ IF new >= old THEN increase_delegation(a, b, old, new)
                         ELSE decrease_delegation(a, b, old, new)
        /\ received' = [received EXCEPT ![b] = @ + new - old]
        /\ redelegate(b, old, new)
  /\ UNCHANGED <<accounts, vesting_shares, withdrawal, routes, requests, platforms,
                 total_vesting_shares>>

-----------------------------------------------------------------------------
(* Streaming platforms and their agreements on reporting. *)

\* Mutant: the owner's account is not looked up.
streaming_platform_update_Anyone(a) ==
  /\ a \notin platforms
  /\ platforms' = platforms \cup {a}
  /\ total_vested_by_platforms' = total_vested_by_platforms
                                  + vesting_shares[a] + received[a] - delegated[a]
  /\ UNCHANGED <<accounts, holdings, withdrawal, routes, delegation, expiring,
                 redelegations, requests, total_vesting_shares>>

streaming_platform_update(a) ==
  /\ a \in accounts \ platforms
  /\ platforms' = platforms \cup {a}
  /\ total_vested_by_platforms' = total_vested_by_platforms
                                  + vesting_shares[a] + received[a] - delegated[a]
  /\ UNCHANGED <<accounts, holdings, withdrawal, routes, delegation, expiring,
                 redelegations, requests, total_vesting_shares>>

\* The redelegation of q to r becomes pct percent of n shares.
set_redelegation(q, r, pct, n) ==
  /\ redelegations' = [redelegations EXCEPT ![q][r] = [pct |-> pct, shares |-> n]]
  /\ redelegated' = [redelegated EXCEPT ![q] = @ + n - redelegations[q][r].shares]
  /\ rereceived' = [rereceived EXCEPT ![r] = @ + n - redelegations[q][r].shares]
  /\ UNCHANGED <<accounts, vesting_shares, delegated, received, withdrawal, routes,
                 delegation, expiring, platforms, total_vesting_shares,
                 total_vested_by_platforms>>

\* The percentages are added up over the entries that exist already: the one
\* asked for is counted only if it replaces an entry.  A repeated request may
\* change only the reward it asks for, which is not modelled.
request_stream_reporting(q, r, pct) ==
  /\ q \in platforms /\ r \in platforms /\ q # r
  /\ LET new == [s \in Accounts |-> IF s = r /\ redelegations[q][s].pct > 0
                                     THEN pct ELSE redelegations[q][s].pct]
     IN SumFunction(new) <= Hundred
  /\ requests' = requests \cup {<<q, r>>}
  /\ set_redelegation(q, r, pct, Percent(received[q], pct))

\* Mutant: the redelegation outlives its request.
cancel_stream_reporting_Kept(q, r) ==
  /\ <<q, r>> \in requests
  /\ requests' = requests \ {<<q, r>>}
  /\ set_redelegation(q, r, redelegations[q][r].pct, redelegations[q][r].shares)

cancel_stream_reporting(q, r) ==
  /\ <<q, r>> \in requests
  /\ requests' = requests \ {<<q, r>>}
  /\ set_redelegation(q, r, 0, 0)

\* What the platforms hold, by the sum validate_invariants makes.
VestedByPlatforms ==
  SumFunctionOnSet([a \in Accounts |-> vesting_shares[a] - delegated[a] + received[a]], platforms)

Step ==
  \/ \E a \in Accounts, n \in profile.bought : transfer_to_vesting(a, n)
  \/ \E a, b \in Accounts, n \in profile.bought : account_create(a, b, n)
  \/ \E a \in profile.delegators, b \in Accounts, n \in profile.bought \cup {0}, m \in profile.lent :
       account_create_with_delegation(a, b, n, m)
  \/ \E a \in profile.withdrawers, n \in profile.asked : withdraw_vesting(a, n)
  \/ \E a \in profile.withdrawers, r \in profile.routes : set_withdraw_vesting_route(a, r[1], r[2], r[3])
  \/ \E a \in profile.delegators, b \in Accounts, n \in profile.lent : delegate_vesting_shares(a, b, n)
  \/ \E a \in profile.candidates : streaming_platform_update(a)
  \/ \E q, r \in Accounts, p \in 0 .. Hundred : request_stream_reporting(q, r, p)
  \/ \E q, r \in Accounts : cancel_stream_reporting(q, r)
  \/ Block

Next ==
  /\ Step /\ UNCHANGED profile
  /\ total_vested_by_platforms' - VestedByPlatforms' \in -MaxDrift .. MaxDrift

Spec == Init /\ [][Next]_vars
-----------------------------------------------------------------------------
(* Properties. *)

StakeTypeOK ==
  /\ accounts \subseteq Accounts /\ platforms \subseteq accounts
  /\ \A h \in {vesting_shares, delegated, received, to_withdraw, withdrawn, withdraw_rate} :
       h \in [Accounts -> Amounts]
  /\ redelegated \in [Accounts -> Int] /\ rereceived \in [Accounts -> Int]
  /\ routes \in [Accounts -> [Accounts -> [percent : 0 .. Hundred, auto_vest : BOOLEAN]]]
  /\ delegation \in [Accounts -> [Accounts -> [shares : Amounts, lasts : 0 .. CreateTime]]]
  /\ expiring \in [Accounts -> [0 .. CreateTime -> Amounts]]
  /\ redelegations \in [Accounts -> [Accounts -> [pct : 0 .. Hundred, shares : Int]]]
  /\ requests \subseteq platforms \X platforms
  /\ total_vesting_shares \in Amounts /\ total_vested_by_platforms \in Int

\* Shares are promised once: what an account has delegated, and what it still
\* means to withdraw, are together no more than it owns (the checks of
\* withdraw_vesting, delegate_vesting_shares and account creation, each made
\* against a different part of the state, add up).
PromisedOnce ==
  \A a \in Accounts : delegated[a] + to_withdraw[a] - withdrawn[a] <= vesting_shares[a]

\* delegated_vesting_shares and received_vesting_shares, which every operation
\* adjusts by differences, are what the delegation objects and the expiration
\* objects add up to.
DelegationsAddUp ==
  \A a \in Accounts :
    /\ delegated[a] = SumFunction([b \in Accounts |-> delegation[a][b].shares])
                      + SumFunction(expiring[a])
    /\ received[a] = SumFunction([b \in Accounts |-> delegation[b][a].shares])

\* The same of redelegated and rereceived shares, and only a request that
\* still stands carries a redelegation.
RedelegationsAddUp ==
  \A a \in Accounts :
    /\ redelegated[a] = SumFunction([r \in Accounts |-> redelegations[a][r].shares])
    /\ rereceived[a] = SumFunction([q \in Accounts |-> redelegations[q][a].shares])
    /\ \A r \in Accounts : <<a, r>> \notin requests => redelegations[a][r] = [pct |-> 0, shares |-> 0]

\* validate_invariants: total_vesting_shares is the sum of all accounts' shares,
\* over withdrawals whose routes carry shares to other accounts.
SharesAddUp == total_vesting_shares = SumFunction(vesting_shares)

\* A withdrawal takes what was asked for: every due withdrawal moves at least a
\* share, never more than is left of it, and the last one exactly the rest.
WithdrawalsMove ==
  [][Block => \A a \in Accounts : withdraw_rate[a] # 0 =>
        /\ withdrawn[a] < withdrawn'[a]
        /\ withdrawn'[a] <= to_withdraw[a]
        /\ withdraw_rate'[a] = 0 => withdrawn'[a] = to_withdraw[a]]_vars

\* total_vested_by_platforms, by which rewards are divided, is what the platforms
\* hold.  validate_invariants asserts it, the operations do not keep it
\* (database.cpp:3596).
TotalMatchesPlatforms == total_vested_by_platforms = VestedByPlatforms

\* There are three ways for the total to part from what the platforms hold, and
\* no others: a platform withdraws or is a withdrawal's route, takes shares back
\* from another platform, or creates an account with a delegation.  Of all other
\* steps none moves one without the other (create_vesting,
\* delegate_vesting_shares, streaming_platform_update).
PlatformsTotalKept ==
  [][(total_vested_by_platforms - VestedByPlatforms)' # total_vested_by_platforms - VestedByPlatforms
       => \/ Block /\ \E a \in platforms : vesting_shares'[a] # vesting_shares[a]
          \/ \E a, b \in platforms : delegation'[a][b].shares < delegation[a][b].shares
          \/ accounts' # accounts /\ \E a \in platforms : delegated'[a] > delegated[a]]_vars

\* The totals that seven operations keep by differences are right together, and
\* no share is promised twice, after any sequence of them.
StakeAddsUp ==
  /\ StakeTypeOK
  /\ PromisedOnce
  /\ DelegationsAddUp
  /\ RedelegationsAddUp
  /\ SharesAddUp

=============================================================================
