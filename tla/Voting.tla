------------------------------- MODULE Voting -------------------------------
(***************************************************************************)
(* Stake-weighted votes for witnesses and streaming platforms, cast        *)
(* directly or through proxies.  Every tally is kept by differences: each  *)
(* change of an account's shares, proxy or ballots is carried along the    *)
(* chain of proxies to the account at its end.                             *)
(*                                                                         *)
(* Witnesses and platforms are the candidates; a ballot is a               *)
(* witness_vote_object or a streaming_platform_vote_object.                *)
(***************************************************************************)
EXTENDS Integers, FiniteSetsExt, Functions

CONSTANTS
  Accounts, WitnessNames, Platforms,
  Depth,           \* BTCM_MAX_PROXY_RECURSION_DEPTH
  MaxBallots,      \* BTCM_MAX_ACCOUNT_WITNESS_VOTES
  MaxShares,       \* bound on the shares of an account
  MaxTally,        \* bound on the votes of a candidate
  Self,            \* BTCM_PROXY_TO_SELF_ACCOUNT: no proxy
  VotingProfiles   \* bounds on the inputs of a behaviour: see VotingProfile

Candidates == WitnessNames \cup Platforms

\* In a behaviour some accounts take part, with so many shares each, and vote
\* on some candidates; some withdrawals go to another account.
VotingProfile == [voters : SUBSET Accounts, most : 0 .. MaxShares,
                  candidates : SUBSET Candidates, routes : SUBSET (Accounts \X Accounts)]

ASSUME VotingAssumption ==
  /\ IsFiniteSet(Accounts) /\ IsFiniteSet(WitnessNames) /\ IsFiniteSet(Platforms)
  /\ WitnessNames \cap Platforms = {}
  /\ Depth \in Nat \ {0} /\ MaxBallots \in Nat /\ MaxShares \in Nat /\ MaxTally \in Nat
  /\ Self \notin Accounts
  /\ VotingProfiles \subseteq VotingProfile

VARIABLES
  votingProfile,   \* of this behaviour
  vesting_shares,
  proxy,           \* an account, or Self
  proxied,         \* proxied_vsf_votes: shares that come from Depth distances
  ballots,         \* pairs <<account, candidate>>
  voted_for,       \* witnesses_voted_for and streaming_platforms_voted_for
  tally            \* of each candidate

votingVars == <<votingProfile, vesting_shares, proxy, proxied, ballots, voted_for, tally>>

Levels == 0 .. Depth - 1
Total(f, S) == SumFunctionOnSet(f, S)
Kind(c) == IF c \in WitnessNames THEN "witnesses" ELSE "platforms"

\* The shares that exist: the accounts' shares add up to total_vesting_shares.
total_vesting_shares == Total(vesting_shares, Accounts)

witness_vote_weight(a) == vesting_shares[a] + Total(proxied[a], Levels)

VotingInit ==
  /\ votingProfile \in VotingProfiles
  /\ vesting_shares = [a \in Accounts |-> 0]
  /\ proxy = [a \in Accounts |-> Self]
  /\ proxied = [a \in Accounts |-> [i \in Levels |-> 0]]
  /\ ballots = {}
  /\ voted_for = [a \in Accounts |-> [k \in {"witnesses", "platforms"} |-> 0]]
  /\ tally = [c \in Candidates |-> 0]

-----------------------------------------------------------------------------
(* Carrying a difference to where it counts. *)

\* The account k proxies after a, or Self if there are not so many.
Hop(px, a) == LET hop[k \in 0 .. Depth] ==
                    IF k = 0 THEN a
                    ELSE IF hop[k - 1] = Self THEN Self ELSE px[hop[k - 1]]
              IN hop

\* How many proxies after a account b comes, as a set of at most one number.
Distance(px, a, b) == {k \in 0 .. Depth : Hop(px, a)[k] = b}

\* The end of the chain, if it is near enough, and how far away it is.
Root(px, a) == {k \in 0 .. Depth : Hop(px, a)[k] # Self /\ px[Hop(px, a)[k]] = Self}

\* adjust_proxied_witness_votes: delta[i] shares at distance i from a are at
\* distance i + k from the k-th proxy after it.
proxied_after(px, was, a, delta) ==
  [b \in Accounts |-> [j \in Levels |->
     was[b][j] + Total([k \in 0 .. Depth |-> IF k <= j + 1 THEN delta[j + 1 - k] ELSE 0],
                       Distance(px, a, b) \ {0})]]

\* Mutant: the platforms' votes are not adjusted.
votes_after_WitnessesOnly(px, bs, was, a, delta) ==
  [c \in Candidates |-> was[c] + Total([k \in 0 .. Depth |-> Total(delta, 0 .. Depth - k)],
                                       {k \in Root(px, a) : <<Hop(px, a)[k], c>> \in bs /\ c \in WitnessNames})]

\* What reaches the account at the end of the chain changes the votes of
\* everyone that account votes for.
votes_after(px, bs, was, a, delta) ==
  [c \in Candidates |-> was[c] + Total([k \in 0 .. Depth |-> Total(delta, 0 .. Depth - k)],
                                       {k \in Root(px, a) : <<Hop(px, a)[k], c>> \in bs})]

\* The assertion in adjust_witness_vote and adjust_streaming_platform_vote,
\* for the candidates that the difference reaches.
VotesFit(px, bs, counted, a, total) ==
  \A k \in Root(px, a) : \A c \in Candidates :
     <<Hop(px, a)[k], c>> \in bs => counted[c] <= total

Shares(delta) == [i \in 0 .. Depth |-> IF i = 0 THEN delta ELSE 0]

\* A difference in the shares of one account.
adjust_proxied_witness_votes(a, delta, total) ==
  /\ proxied' = proxied_after(proxy, proxied, a, Shares(delta))
  /\ tally' = votes_after(proxy, ballots, tally, a, Shares(delta))
  /\ VotesFit(proxy, ballots, tally', a, total)

-----------------------------------------------------------------------------
(* Operations. *)

\* Shares are created for an account.
create_vesting(a, shares) ==
  /\ vesting_shares[a] + shares <= votingProfile.most
  /\ vesting_shares' = [vesting_shares EXCEPT ![a] = @ + shares]
  /\ adjust_proxied_witness_votes(a, shares, total_vesting_shares + shares)
  /\ UNCHANGED <<proxy, ballots, voted_for>>

\* A withdrawal turns shares into BTCM.
process_vesting_withdrawals(a, shares) ==
  /\ shares <= vesting_shares[a]
  /\ vesting_shares' = [vesting_shares EXCEPT ![a] = @ - shares]
  /\ adjust_proxied_witness_votes(a, -shares, total_vesting_shares - shares)
  /\ UNCHANGED <<proxy, ballots, voted_for>>

\* Between the deposit of a route and the end of the withdrawal the shares
\* are counted twice.
Deposited(b, shares) == votes_after(proxy, ballots, tally, b, Shares(shares))

\* A withdrawal whose route deposits all its shares in another account: the
\* deposit comes first, and either assertion stops the block.
process_routed_withdrawal(a, b, shares) ==
  /\ a # b /\ shares <= vesting_shares[a] /\ vesting_shares[b] + shares <= votingProfile.most
  /\ VotesFit(proxy, ballots, Deposited(b, shares), b, total_vesting_shares)
  /\ vesting_shares' = [vesting_shares EXCEPT ![a] = @ - shares, ![b] = @ + shares]
  /\ proxied' = proxied_after(proxy, proxied_after(proxy, proxied, b, Shares(shares)), a, Shares(-shares))
  /\ tally' = votes_after(proxy, ballots, Deposited(b, shares), a, Shares(-shares))
  /\ VotesFit(proxy, ballots, tally', a, total_vesting_shares)
  /\ UNCHANGED <<proxy, ballots, voted_for>>

\* Mutant: without a look at the number of ballots.
approve_NoLimit(a, c) ==
  /\ <<a, c>> \notin ballots
  /\ ballots' = ballots \cup {<<a, c>>}
  /\ tally' = [tally EXCEPT ![c] = @ + witness_vote_weight(a)]
  /\ tally'[c] <= total_vesting_shares
  /\ voted_for' = [voted_for EXCEPT ![a][Kind(c)] = @ + 1]

\* A ballot for a candidate.
approve(a, c) ==
  /\ <<a, c>> \notin ballots
  /\ voted_for[a][Kind(c)] < MaxBallots
  /\ ballots' = ballots \cup {<<a, c>>}
  /\ tally' = [tally EXCEPT ![c] = @ + witness_vote_weight(a)]
  /\ tally'[c] <= total_vesting_shares
  /\ voted_for' = [voted_for EXCEPT ![a][Kind(c)] = @ + 1]

\* The ballot is taken back.
reject(a, c) ==
  /\ <<a, c>> \in ballots
  /\ tally' = [tally EXCEPT ![c] = @ - witness_vote_weight(a)]
  /\ tally'[c] <= total_vesting_shares
  /\ voted_for' = [voted_for EXCEPT ![a][Kind(c)] = @ - 1]
  /\ ballots' = ballots \ {<<a, c>>}

\* Mutant: without a look at the voter's proxy.
account_witness_vote_Proxied(a, w) ==
  /\ w \in WitnessNames
  /\ approve(a, w) \/ reject(a, w)
  /\ UNCHANGED <<vesting_shares, proxy, proxied>>

account_witness_vote(a, w) ==
  /\ w \in WitnessNames
  /\ proxy[a] = Self
  /\ approve(a, w) \/ reject(a, w)
  /\ UNCHANGED <<vesting_shares, proxy, proxied>>

\* The voter may have a proxy.
account_streaming_platform_vote(a, p) ==
  /\ p \in Platforms
  /\ approve(a, p) \/ reject(a, p)
  /\ UNCHANGED <<vesting_shares, proxy, proxied>>

\* Everything that counts for an account, by its distance from it, signed.
Weights(a, sign) == [i \in 0 .. Depth |->
                       sign * (IF i = 0 THEN vesting_shares[a] ELSE proxied[a][i - 1])]

\* Mutant: the check for loops ends before the last proxy.
MayProxy_ShortCheck(a, new) ==
  \/ proxy[new] = Self
  \/ proxy[new] = a

\* No loop, and a chain that is short enough; the length is only looked at
\* when the new proxy has a proxy itself.
MayProxy(a, new) ==
  \E k \in Root(proxy, new) : /\ k = 0 \/ k + 2 <= Depth
                              /\ \A i \in 0 .. k : Hop(proxy, new)[i] # a

clear_votes(a) ==
  /\ ballots' = {v \in ballots : v[1] # a}
  /\ voted_for' = [voted_for EXCEPT ![a] = [k \in DOMAIN @ |-> 0]]

\* The votes once an account's shares have been taken out.
Removed(a) == votes_after(proxy, ballots, tally, a, Weights(a, -1))

\* Mutant: the account's shares are not taken from its old proxy.
account_witness_proxy_NotRemoved(a, new) ==
  /\ proxy[a] # new /\ a # new
  /\ new # Self /\ MayProxy(a, new)
  /\ clear_votes(a)
  /\ proxy' = [proxy EXCEPT ![a] = new]
  /\ proxied' = proxied_after(proxy', proxied, a, Weights(a, 1))
  /\ tally' = votes_after(proxy', ballots', Removed(a), a, Weights(a, 1))
  /\ VotesFit(proxy', ballots', tally', a, total_vesting_shares)
  /\ UNCHANGED vesting_shares

\* Mutant: the account keeps its ballots.
account_witness_proxy_KeepBallots(a, new) ==
  /\ proxy[a] # new /\ a # new
  /\ new # Self /\ MayProxy(a, new)
  /\ VotesFit(proxy, ballots, Removed(a), a, total_vesting_shares)
  /\ voted_for' = [voted_for EXCEPT ![a] = [k \in DOMAIN @ |-> 0]]
  /\ proxy' = [proxy EXCEPT ![a] = new]
  /\ proxied' = proxied_after(proxy', proxied_after(proxy, proxied, a, Weights(a, -1)), a, Weights(a, 1))
  /\ tally' = votes_after(proxy', ballots, Removed(a), a, Weights(a, 1))
  /\ UNCHANGED <<vesting_shares, ballots>>

\* Taking a proxy: the account's shares leave the chain they are in, its
\* ballots are torn up, and the shares enter the new chain.
account_witness_proxy(a, new) ==
  /\ proxy[a] # new /\ a # new
  /\ new # Self /\ MayProxy(a, new)
  /\ VotesFit(proxy, ballots, Removed(a), a, total_vesting_shares)
  /\ clear_votes(a)
  /\ proxy' = [proxy EXCEPT ![a] = new]
  /\ proxied' = proxied_after(proxy', proxied_after(proxy, proxied, a, Weights(a, -1)), a, Weights(a, 1))
  /\ tally' = votes_after(proxy', ballots', Removed(a), a, Weights(a, 1))
  /\ VotesFit(proxy', ballots', tally', a, total_vesting_shares)
  /\ UNCHANGED vesting_shares

\* Giving the proxy up: the shares leave the chain and count for nobody.
account_clear_proxy(a) ==
  /\ proxy[a] # Self
  /\ proxied' = proxied_after(proxy, proxied, a, Weights(a, -1))
  /\ tally' = Removed(a)
  /\ VotesFit(proxy, ballots, tally', a, total_vesting_shares)
  /\ proxy' = [proxy EXCEPT ![a] = Self]
  /\ UNCHANGED <<vesting_shares, ballots, voted_for>>

VotingNext ==
  /\ UNCHANGED votingProfile
  /\ \E a \in votingProfile.voters :
       \/ create_vesting(a, 1)
       \/ process_vesting_withdrawals(a, 1)
       \/ \E b \in votingProfile.voters : <<a, b>> \in votingProfile.routes /\ process_routed_withdrawal(a, b, 1)
       \/ \E c \in votingProfile.candidates : account_witness_vote(a, c) \/ account_streaming_platform_vote(a, c)
       \/ \E new \in votingProfile.voters : account_witness_proxy(a, new)
       \/ account_clear_proxy(a)
  /\ \A c \in Candidates : tally'[c] \in -MaxTally .. MaxTally

VotingSpec == VotingInit /\ [][VotingNext]_votingVars

-----------------------------------------------------------------------------
(* Properties. *)

VotingTypeOK ==
  /\ vesting_shares \in [Accounts -> 0 .. MaxShares]
  /\ proxy \in [Accounts -> Accounts \cup {Self}]
  /\ proxied \in [Accounts -> [Levels -> Nat]]
  /\ ballots \subseteq Accounts \X Candidates
  /\ voted_for \in [Accounts -> [{"witnesses", "platforms"} -> 0 .. MaxBallots]]
  /\ tally \in [Candidates -> -MaxTally .. MaxTally]

\* What is proxied to an account from a distance is what the accounts at
\* that distance own, whatever was proxied, re-proxied, bought and withdrawn
\* in between, and no chain of proxies is a loop (database.cpp 1351-1404 and
\* account_witness_proxy_evaluator, base_evaluator.cpp 442-487).
ProxiedAddsUp ==
  \A b \in Accounts :
    /\ \A i \in Levels : proxied[b][i] = Total(vesting_shares, {a \in Accounts : i + 1 \in Distance(proxy, a, b)})
    /\ \A k \in 1 .. Depth : Hop(proxy, b)[k] # b

\* A witness has the votes of the accounts that vote for it, with what is
\* proxied to them: no share is counted twice or left behind in the tally
\* that elects the block producers (database.cpp 1406-1436).
WitnessVotesAddUp ==
  \A w \in WitnessNames :
    tally[w] = Total([a \in Accounts |-> witness_vote_weight(a)], {a \in Accounts : <<a, w>> \in ballots})

\* The vote counters that bound what one account can do to the tallies are
\* the numbers of its ballots (witnesses_voted_for in base_evaluator.cpp
\* 488-524, streaming_platforms_voted_for in btcm_evaluator.cpp 288-318).
CountersMatchBallots ==
  \A a \in Accounts : \A K \in {WitnessNames, Platforms} : \A c \in K :
    voted_for[a][Kind(c)] = Cardinality({d \in K : <<a, d>> \in ballots})

Off(p, v, bs, weight) == v[p] - Total(weight, {a \in Accounts : <<a, p>> \in bs})
Weight == [a \in Accounts |-> witness_vote_weight(a)]

\* The tally of a platform leaves the sum over its voters only when a voter
\* holds a ballot for it and a proxy at once: an account with a proxy may
\* vote for platforms (btcm_evaluator.cpp 288-318), but its shares then
\* change with its proxy's ballots and its ballot is torn up uncounted.
PlatformVotesDriftOnlyByProxy ==
  [][\A p \in Platforms :
       Off(p, tally, ballots, Weight)' # Off(p, tally, ballots, Weight) =>
         \E a \in Accounts : \/ <<a, p>> \in ballots /\ proxy[a] # Self
                             \/ <<a, p>> \in ballots' /\ proxy'[a] # Self]_votingVars

\* validate_invariants' account of the votes: what the accounts without a
\* proxy weigh, and what falls off the end of chains that are too long, is
\* all the shares there are (database.cpp 3536-3552, 3586).
EveryShareWeighsOnce ==
  Total([a \in Accounts |-> IF proxy[a] = Self THEN witness_vote_weight(a) ELSE proxied[a][Depth - 1]],
        Accounts) = total_vesting_shares

\* All the tallies and counters that proxies, ballots, purchases and
\* withdrawals keep by differences are what the ballots and the shares say.
TalliesAddUp ==
  /\ VotingTypeOK
  /\ ProxiedAddsUp
  /\ WitnessVotesAddUp
  /\ CountersMatchBallots
  /\ EveryShareWeighsOnce

=============================================================================
