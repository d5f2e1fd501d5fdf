----------------------------- MODULE Streaming -----------------------------
(***************************************************************************)
(* Streaming platforms report who has listened to which content and for    *)
(* how long.  A report lives for a day: its time counts in the statistics  *)
(* of the platform and of the whole network, and when the day is over the  *)
(* report is paid, in the next block, from the block's content reward.     *)
(*                                                                         *)
(* A listener is an account, a pseudonymous user of one platform, or the   *)
(* platform's anonymous users taken together.                              *)
(***************************************************************************)
EXTENDS Integers, FiniteSetsExt, Functions, SequencesExt

CONSTANTS
  AccountListeners, Users,  \* listeners: accounts, and users known to a platform only
  Platforms,        \* streaming platforms, numbered in the order of their ids
  Contents,
  Day, FullTime,    \* 86400 and 3600 seconds
  Hundred,          \* BTCM_100_PERCENT
  MaxTime, MaxReports, Intervals,   \* bounds on a behaviour; from block to block
  StreamingProfiles,   \* what happens in a behaviour: see StreamingProfile
  None              \* no value

Anon == "anon"
Listeners == AccountListeners \cup Users \cup {Anon}

\* Who listens and for how long, which platforms are voted in, the parts of
\* the reward for which they let others report, the splits that contents are
\* created with and updated to, the shares of the platforms and, under 0, of all
\* other accounts at first, what
\* get_content_reward yields, whether there is a price feed and whether
\* shares are withdrawn; bounds on the time and the reports.
StreamingProfile ==
  [listeners : SUBSET Listeners, plays : SUBSET Nat, voted : SUBSET Platforms, pcts : SUBSET (0 .. Hundred),
   splits : SUBSET [dist : Seq(0 .. Hundred), two_sides : BOOLEAN,
                    publishers_share : 0 .. Hundred - 1, playing_reward : 0 .. Hundred - 1],
   stake : [Platforms \cup {0} -> Nat], reward : Nat, feed : BOOLEAN, withdrawals : BOOLEAN,
   time : 0 .. MaxTime, live : 0 .. MaxReports]

ASSUME StreamingAssumption ==
  /\ Platforms \in SUBSET Nat /\ IsFiniteSet(Platforms)
  /\ AccountListeners \cap Users = {} /\ Anon \notin AccountListeners \cup Users /\ 0 \notin Platforms
  /\ Day \in Nat \ {0} /\ FullTime \in Nat \ {0} /\ Hundred \in Nat \ {0}
  /\ MaxTime \in Nat /\ MaxReports \in Nat
  /\ \A p \in StreamingProfiles :
       /\ DOMAIN p = {"listeners", "plays", "voted", "pcts", "splits", "stake", "reward", "feed", "withdrawals",
                    "time", "live"}
       /\ p.listeners \subseteq Listeners /\ p.plays \subseteq Nat \ {0} /\ p.pcts \subseteq 0 .. Hundred

VARIABLES
  streamingProfile,
  head_block_time,
  reports,          \* the report_objects in the order of by_created: creation
  heard,            \* total_time_by_platform, the streaming_platform_user_objects
                    \* and total_anon_listening_time: 0 is no entry
  total_listening_time,   \* of the accounts, on all platforms
  stats,            \* the counters of each platform, and under 0 the global ones
  requests,         \* stream_report_requests: [requestor, reporter -> reward_pct or None]
  contents,         \* content_objects, or None
  funds,            \* the shares of the platforms and, under 0, of the others,
                    \* total_vested_by_platforms, the vesting fund, all liquid
                    \* balances and current_supply
  last_paid,        \* what the last block paid for content
  halted            \* applying the block has thrown: the chain cannot go on

streamingVars == <<streamingProfile, head_block_time, reports, heard, total_listening_time, stats, requests,
                   contents, funds, last_paid, halted>>

Amount(f) == SumFunction(f)
StakeOf(m) == Amount(Restrict(m.stake, Platforms))   \* what the platforms really have
NoStats == [active_users |-> 0, full_time_users |-> 0, total_listening_time |-> 0, full_users_time |-> 0]

StreamingInit ==
  /\ streamingProfile \in StreamingProfiles
  /\ head_block_time = 0 /\ reports = <<>> /\ last_paid = 0 /\ halted = FALSE
  /\ heard = [l \in Listeners |-> [p \in Platforms |-> 0]]
  /\ total_listening_time = [a \in AccountListeners |-> 0]
  /\ stats = [p \in Platforms \cup {0} |-> NoStats]
  /\ requests = [pair \in Platforms \X Platforms |-> None]
  /\ contents = [c \in Contents |-> None]
  /\ LET shares == Amount(streamingProfile.stake)
     IN  funds = [stake |-> streamingProfile.stake, total_vested_by_platforms |-> StakeOf(streamingProfile),
                  fund |-> shares, balance |-> 0, current_supply |-> shares]

-----------------------------------------------------------------------------
(***************************************************************************)
(* Reports                                                                 *)
(***************************************************************************)

\* The platform that is credited with a play: the one that played it, which
\* need not be the one that reports it.
Spinner(r) == IF r.spinning_platform = None THEN r.streaming_platform ELSE r.spinning_platform

\* Mutant: a user of exactly an hour is not counted as a full time user.
Count_Late(s, before, play) ==
  [active_users |-> IF before = 0 THEN s.active_users + 1 ELSE s.active_users,
   full_time_users |-> IF before < FullTime /\ FullTime - before < play
                       THEN s.full_time_users + 1 ELSE s.full_time_users,
   full_users_time |-> s.full_users_time + (IF before >= FullTime THEN 0
                                            ELSE Min({FullTime - before, play})),
   total_listening_time |-> s.total_listening_time + play]

\* The counters s after a listener with so much time before has listened on.
Count(s, before, play) ==
  [active_users |-> IF before = 0 THEN s.active_users + 1 ELSE s.active_users,
   full_time_users |-> IF before < FullTime /\ FullTime - before <= play
                       THEN s.full_time_users + 1 ELSE s.full_time_users,
   full_users_time |-> s.full_users_time + (IF before >= FullTime THEN 0
                                            ELSE Min({FullTime - before, play})),
   total_listening_time |-> s.total_listening_time + play]

\* The time that counts for a listener on the whole network: only accounts are
\* known beyond a platform.
GlobalTime(l, p) == IF l \in AccountListeners THEN total_listening_time[l] ELSE heard[l][p]

streaming_platform_report(sp, spinning, l, c, play) ==
  LET spinner == IF spinning = None THEN sp ELSE spinning
      pct == IF spinning = None THEN None ELSE requests[<<spinning, sp>>]
  IN  /\ spinning = None \/ pct # None
      /\ l = Anon \/ play + GlobalTime(l, spinner) <= Day
      /\ sp \in streamingProfile.voted
      /\ contents[c] # None /\ ~contents[c].disabled
      /\ reports' = Append(reports, [streaming_platform |-> sp, spinning_platform |-> spinning,
                                     reward_pct |-> pct, listener |-> l, content |-> c,
                                     play_time |-> play, created |-> head_block_time])
      /\ heard' = [heard EXCEPT ![l][spinner] = @ + play]
      /\ total_listening_time' = [a \in AccountListeners |-> total_listening_time[a] + (IF a = l THEN play ELSE 0)]
      /\ stats' = [stats EXCEPT ![0] = Count(@, GlobalTime(l, spinner), play),
                                ![spinner] = Count(@, heard[l][spinner], play)]
      /\ contents' = [contents EXCEPT ![c].times_played_24 = @ + 1]
      /\ UNCHANGED <<streamingProfile, head_block_time, requests, funds, last_paid, halted>>

\* The report request itself; the redelegation that may come with it is in Stake.
request_stream_reporting(requestor, reporter, pct) ==
  /\ requestor # reporter
  /\ requests[<<requestor, reporter>>] # pct
  /\ requests' = [requests EXCEPT ![<<requestor, reporter>>] = pct]
  /\ UNCHANGED <<streamingProfile, head_block_time, reports, heard, total_listening_time, stats,
                 contents, funds, last_paid, halted>>

cancel_stream_reporting(requestor, reporter) ==
  /\ requests[<<requestor, reporter>>] # None
  /\ requests' = [requests EXCEPT ![<<requestor, reporter>>] = None]
  /\ UNCHANGED <<streamingProfile, head_block_time, reports, heard, total_listening_time, stats,
                 contents, funds, last_paid, halted>>

-----------------------------------------------------------------------------
(***************************************************************************)
(* Payments.  A payment changes a state pay = [money, contents].           *)
(***************************************************************************)

\* Vesting shares and BTCM are worth the same here; platforms are paid in shares.
pay_to_platform(m, p, amount) ==
  [m EXCEPT !.stake[p] = @ + amount, !.total_vested_by_platforms = @ + amount, !.fund = @ + amount]

\* Authors are paid in XUSD if there is a price, and the BTCM is then destroyed.
create_mbd(m, amount) ==
  IF streamingProfile.feed THEN [m EXCEPT !.current_supply = @ - amount]
                  ELSE [m EXCEPT !.balance = @ + amount]

\* Mutant: what rounding leaves of a distributed payment is dropped.
pay_to_content_side_NoRest(pay, c, side, payout) ==
  LET co == pay.contents[c]
      to_pay == payout + co.accumulated[side]
      shares == [i \in DOMAIN co.distributions[side] |-> (to_pay * co.distributions[side][i]) \div Hundred]
      total_paid == Amount(shares)
  IN  IF co.distributions[side] = <<>>
      THEN [pay EXCEPT !.contents[c].accumulated[side] = to_pay]
      ELSE [contents |-> [pay.contents EXCEPT ![c].accumulated[side] = 0],
            funds |-> create_mbd(pay.funds, total_paid)]

\* pay_to_content_master and pay_to_content_comp: a side without distributions
\* keeps what it earns, otherwise each payee gets a share, rounded down, of what
\* has been kept and the new earnings together.
pay_to_content_side(pay, c, side, payout) ==
  LET co == pay.contents[c]
      to_pay == payout + co.accumulated[side]
      shares == [i \in DOMAIN co.distributions[side] |-> (to_pay * co.distributions[side][i]) \div Hundred]
      total_paid == Amount(shares)
  IN  IF co.distributions[side] = <<>>
      THEN [pay EXCEPT !.contents[c].accumulated[side] = to_pay]
      ELSE [contents |-> [pay.contents EXCEPT ![c].accumulated[side] = to_pay - total_paid],
            funds |-> create_mbd(pay.funds, total_paid)]

\* What the platforms get of a report's reward; pay_to_content pays the rest.
PlatformReward(co, reward) == (reward * co.playing_reward) \div Hundred
CompReward(co, payout) == (payout * co.publishers_share) \div Hundred

\* Mutant: nothing is counted off for a content that has been disabled.
pay_to_content_Enabled(pay, c, reward) ==
  LET co == pay.contents[c]
      payout == reward - PlatformReward(co, reward)
      comp == CompReward(co, payout)
      paid == pay_to_content_side(pay_to_content_side(pay, c, "master", payout - comp), c, "comp", comp)
  IN  [paid EXCEPT !.contents[c].times_played_24 = IF co.disabled THEN @ ELSE @ - 1]

pay_to_content(pay, c, reward) ==
  LET co == pay.contents[c]
      payout == reward - PlatformReward(co, reward)
      comp == CompReward(co, payout)
      paid == pay_to_content_side(pay_to_content_side(pay, c, "master", payout - comp), c, "comp", comp)
  IN  [paid EXCEPT !.contents[c].times_played_24 = @ - 1]

\* Mutant: a listener earns for the full hour, however short the time.
calculate_report_reward_Full(m, r) ==
  LET p == Spinner(r)
      time == heard[r.listener][p]
      byStake == (streamingProfile.reward * r.play_time * m.stake[p]) \div m.total_vested_by_platforms
      byTime == (byStake * FullTime) \div stats[p].full_users_time
  IN  IF m.stake[p] = 0 \/ streamingProfile.reward = 0 THEN 0 ELSE byTime \div time

\* A report earns for its part of the listener's time, and the listener for at
\* most FullTime of the platform's time, and the platform for its part of the stake.
calculate_report_reward(m, r) ==
  LET p == Spinner(r)
      time == heard[r.listener][p]
      byStake == (streamingProfile.reward * r.play_time * m.stake[p]) \div m.total_vested_by_platforms
      byTime == (byStake * Min({time, FullTime})) \div stats[p].full_users_time
  IN  IF m.stake[p] = 0 \/ streamingProfile.reward = 0 THEN 0 ELSE byTime \div time

\* The divisions of calculate_report_reward, and the entries that
\* process_content_cashout and adjust_statistics assert or dereference.
CanBePaid(m, r) ==
  LET p == Spinner(r)
  IN  /\ heard[r.listener][p] > 0
      /\ m.stake[p] # 0 /\ streamingProfile.reward # 0 =>
           m.total_vested_by_platforms > 0 /\ stats[p].full_users_time > 0

\* The reporter's part of the platforms' reward, if it reports for another.
ReporterReward(r, reward) ==
  IF r.spinning_platform = None THEN reward ELSE (reward * r.reward_pct) \div Hundred

\* One round of the loop of process_content_cashout.
PayReport(pay, r) ==
  IF ~CanBePaid(pay.funds, r) THEN [pay EXCEPT !.halted = TRUE]
  ELSE LET reward == calculate_report_reward(pay.funds, r)
           platform == PlatformReward(pay.contents[r.content], reward)
           reporter == ReporterReward(r, platform)
           content == pay_to_content([funds |-> pay.funds, contents |-> pay.contents], r.content, reward)
       IN  [halted |-> pay.halted,
            paid |-> pay.paid + reward,
            contents |-> content.contents,
            funds |-> pay_to_platform(
                        pay_to_platform(content.funds, Spinner(r), platform - reporter),
                        r.streaming_platform, reporter)]

-----------------------------------------------------------------------------
(***************************************************************************)
(* The end of a report's day                                               *)
(***************************************************************************)

\* Mutant: every report that ends takes an active user with it.
adjust_delta_Each(before, after) ==
  [active_users |-> 1,
   full_time_users |-> IF after < FullTime /\ before >= FullTime THEN 1 ELSE 0,
   total_listening_time |-> before - after,
   full_users_time |-> IF after >= FullTime THEN 0 ELSE Min({before, FullTime}) - after]

\* What a listener's time takes with it from the counters when it shrinks.
adjust_delta(before, after) ==
  [active_users |-> IF after = 0 THEN 1 ELSE 0,
   full_time_users |-> IF after < FullTime /\ before >= FullTime THEN 1 ELSE 0,
   total_listening_time |-> before - after,
   full_users_time |-> IF after >= FullTime THEN 0 ELSE Min({before, FullTime}) - after]

Without(s, deltas) ==
  [k \in DOMAIN s |-> s[k] - FoldFunction(LAMBDA d, n : d[k] + n, 0, deltas)]

\* adjust_statistics for one platform: the times of its paid reports are taken
\* from its listeners.
AdjustPlatform(st, p, paid) ==
  LET time(l) == FoldLeft(LAMBDA n, r : IF r.listener = l /\ Spinner(r) = p THEN n + r.play_time ELSE n, 0, paid)
      gone == {l \in Listeners : time(l) > 0}
      before(l) == IF l \in AccountListeners THEN st.total[l] ELSE st.heard[l][p]
  IN  [heard |-> [l \in Listeners |-> [st.heard[l] EXCEPT ![p] = @ - time(l)]],
       total |-> [a \in AccountListeners |-> st.total[a] - time(a)],
       stats |-> [st.stats EXCEPT
                   ![p] = Without(@, [l \in gone |-> adjust_delta(st.heard[l][p], st.heard[l][p] - time(l))]),
                   ![0] = Without(@, [l \in gone |-> adjust_delta(before(l), before(l) - time(l))])]]

adjust_statistics(paid) ==
  FoldLeft(LAMBDA st, p : AdjustPlatform(st, p, paid),
           [heard |-> heard, total |-> total_listening_time, stats |-> stats],
           SetToSortSeq(Platforms, <))

\* process_funds, process_content_cashout and adjust_funds: the reward is added to
\* the supply, and what the reports have not used of it is taken back.
process_content_cashout(paid, pay) ==
  /\ reports' = SubSeq(reports, Len(paid) + 1, Len(reports))
  /\ \E st \in {adjust_statistics(paid)} :
       heard' = st.heard /\ total_listening_time' = st.total /\ stats' = st.stats
  /\ contents' = pay.contents
  /\ funds' = [pay.funds EXCEPT !.current_supply = @ - (streamingProfile.reward - pay.paid)]
  /\ last_paid' = pay.paid

\* A block ends; its time is one or more slots after the block before.  If paying
\* throws, all that the block has done is undone, and so it is for later blocks.
end_block(now) ==
  \E paid \in {SelectSeq(reports, LAMBDA r : r.created <= now - Day)} :
  \E pay \in {FoldLeft(PayReport, [funds |-> [funds EXCEPT !.current_supply = @ + streamingProfile.reward],
                                   contents |-> contents, paid |-> 0, halted |-> FALSE], paid)} :
    /\ halted' = pay.halted
    /\ \/ ~pay.halted /\ head_block_time' = now /\ process_content_cashout(paid, pay)
       \/ pay.halted /\ UNCHANGED <<head_block_time, reports, heard, total_listening_time, stats, contents,
                                   funds, last_paid>>
    /\ UNCHANGED <<streamingProfile, requests>>

-----------------------------------------------------------------------------
(***************************************************************************)
(* Contents and stakes                                                     *)
(***************************************************************************)

content_create(c, split) ==
  /\ contents[c] = None
  /\ contents' = [contents EXCEPT ![c] =
       [two_sides |-> split.two_sides, disabled |-> FALSE, times_played_24 |-> 0,
        distributions |-> [master |-> split.dist, comp |-> IF split.two_sides THEN split.dist ELSE <<>>],
        accumulated |-> [master |-> 0, comp |-> 0],
        playing_reward |-> split.playing_reward,
        publishers_share |-> IF split.two_sides THEN split.publishers_share ELSE 0]]
  /\ UNCHANGED <<streamingProfile, head_block_time, reports, heard, total_listening_time, stats, requests,
                 funds, last_paid, halted>>

\* New distributions pay out at once what the side has kept.
content_update(c, side, split) ==
  /\ contents[c] # None /\ ~contents[c].disabled
  /\ contents[c].two_sides \/ side = "master"
  /\ \E new \in {[contents EXCEPT
                   ![c].distributions[side] = IF split.dist = <<>> THEN @ ELSE split.dist,
                   ![c].playing_reward = IF split.playing_reward > 0 THEN split.playing_reward ELSE @,
                   ![c].publishers_share = IF split.publishers_share > 0 THEN split.publishers_share ELSE @]} :
     \E pay \in {IF split.dist # <<>> /\ contents[c].accumulated[side] > 0
                 THEN pay_to_content_side([funds |-> funds, contents |-> new], c, side, 0)
                 ELSE [funds |-> funds, contents |-> new]} :
       contents' = pay.contents /\ funds' = pay.funds
  /\ UNCHANGED <<streamingProfile, head_block_time, reports, heard, total_listening_time, stats, requests,
                 last_paid, halted>>

content_disable(c) ==
  /\ contents[c] # None /\ ~contents[c].disabled
  /\ contents' = [contents EXCEPT ![c].disabled = TRUE]
  /\ UNCHANGED <<streamingProfile, head_block_time, reports, heard, total_listening_time, stats, requests,
                 funds, last_paid, halted>>

\* A part of a withdrawal of shares: it becomes BTCM, or by a route with auto_vest
\* shares of another account.  Whether the one or the other is a platform,
\* process_vesting_withdrawals leaves total_vested_by_platforms as it is.  Bound:
\* once in a behaviour, between a platform and another account.
Withdraw(from, to) ==
  /\ streamingProfile.withdrawals /\ funds.stake[from] > 0
  /\ (from \in Platforms) # (to \in Platforms)
  /\ StakeOf(funds) = funds.total_vested_by_platforms
  /\ funds' = IF to = None
              THEN [funds EXCEPT !.stake[from] = @ - 1, !.fund = @ - 1, !.balance = @ + 1]
              ELSE [funds EXCEPT !.stake[from] = @ - 1, !.stake[to] = @ + 1]
  /\ UNCHANGED <<streamingProfile, head_block_time, reports, heard, total_listening_time, stats, requests,
                 contents, last_paid, halted>>

Operation ==
  \/ /\ Len(reports) < streamingProfile.live
     /\ \E sp \in Platforms, spinning \in Platforms \cup {None}, l \in streamingProfile.listeners,
           c \in Contents, play \in streamingProfile.plays :
          streaming_platform_report(sp, spinning, l, c, play)
  \/ \E p, q \in Platforms : \E pct \in streamingProfile.pcts : request_stream_reporting(p, q, pct)
  \/ \E p, q \in Platforms : cancel_stream_reporting(p, q)
  \/ \E c \in Contents, split \in streamingProfile.splits : content_create(c, split)
  \/ \E c \in Contents, side \in {"master", "comp"}, split \in streamingProfile.splits : content_update(c, side, split)
  \/ \E c \in Contents : content_disable(c)
  \/ \E from \in Platforms \cup {0}, to \in Platforms \cup {0, None} : Withdraw(from, to)

StreamingNext ==
  /\ ~halted
  /\ \/ Operation
     \/ \E i \in Intervals : head_block_time + i <= streamingProfile.time /\ end_block(head_block_time + i)

StreamingSpec == StreamingInit /\ [][StreamingNext]_streamingVars

-----------------------------------------------------------------------------
(***************************************************************************)
(* Properties                                                              *)
(***************************************************************************)

\* The state's shape; the counters, unsigned in the code, never wrap around.
StreamingTypeOK ==
  /\ streamingProfile \in StreamingProfiles
  /\ head_block_time \in 0 .. MaxTime /\ halted \in BOOLEAN /\ last_paid \in Nat
  /\ reports \in Seq([streaming_platform : streamingProfile.voted, spinning_platform : Platforms \cup {None},
                      reward_pct : (0 .. Hundred) \cup {None}, listener : Listeners, content : Contents,
                      play_time : Nat \ {0}, created : 0 .. MaxTime])
  /\ heard \in [Listeners -> [Platforms -> Nat]] /\ total_listening_time \in [AccountListeners -> Nat]
  /\ stats \in [Platforms \cup {0} -> [DOMAIN NoStats -> Nat]]
  /\ requests \in [Platforms \X Platforms -> (0 .. Hundred) \cup {None}]
  /\ DOMAIN contents = Contents
  /\ \A c \in Contents : contents[c] # None =>
       contents[c].times_played_24 \in Nat /\ contents[c].accumulated \in [{"master", "comp"} -> Nat]
  /\ funds.stake \in [Platforms \cup {0} -> Nat]
  /\ \A k \in {"total_vested_by_platforms", "fund", "balance", "current_supply"} : funds[k] \in Nat

TimeOf(Test(_)) == FoldLeft(LAMBDA n, r : IF Test(r) THEN n + r.play_time ELSE n, 0, reports)

\* The counters of users that have listened for the given times.
StatsOf(times) ==
  [active_users |-> Cardinality({u \in DOMAIN times : times[u] > 0}),
   full_time_users |-> Cardinality({u \in DOMAIN times : times[u] >= FullTime}),
   total_listening_time |-> Amount(times),
   full_users_time |-> Amount([u \in DOMAIN times |-> Min({times[u], FullTime})])]

\* streaming_platform_objects.hpp:31-48 and global_property_object.hpp:114-132:
\* the counters say how many users have a report, or an hour of reports, in the
\* last 24 hours, and for how long they listened.  They are kept by differences,
\* when a report comes and when it is paid; an account that listens on several
\* platforms is one user of the network.
CountersMatchReports ==
  /\ \A p \in Platforms :
       stats[p] = StatsOf([l \in Listeners |-> TimeOf(LAMBDA r : r.listener = l /\ Spinner(r) = p)])
  /\ stats[0] = StatsOf([u \in (AccountListeners \X {0}) \cup ((Users \cup {Anon}) \X Platforms) |->
                           TimeOf(LAMBDA r : r.listener = u[1] /\ (u[2] = 0 \/ Spinner(r) = u[2]))])

\* content_object.times_played_24, by which contents are ranked, is the number
\* of the content's live reports: each is counted off once, whatever has become
\* of the content in between.
PlaysMatchReports ==
  \A c \in Contents :
    Cardinality({i \in DOMAIN reports : reports[i].content = c})
      = IF contents[c] = None THEN 0 ELSE contents[c].times_played_24

\* No missing entry and no division by zero while reports are paid, but one:
\* an exception there would make every node refuse every block (_apply_block).
\* The one is at database.cpp:1661, when a platform has shares that came by
\* withdrawals only and total_vested_by_platforms is still 0.
CashoutThrowsOnlyUncounted == halted => funds.total_vested_by_platforms = 0 /\ StakeOf(funds) > 0

\* validate_invariants, database.cpp:3591: the supply is what accounts, contents
\* and the vesting fund hold.
ContentSupplyAddsUp ==
  funds.current_supply = funds.balance + funds.fund
    + FoldSet(LAMBDA c, n : n + (IF contents[c] = None THEN 0
                                 ELSE contents[c].accumulated.master + contents[c].accumulated.comp), 0, Contents)

\* A platform's part of a block's content reward is that of its stake in
\* total_vested_by_platforms.  The stakes grow while the block pays, and may
\* exceed the total before (see Withdraw), so that a block may pay more than its
\* reward, and adjust_funds then adds to the supply; but it never pays more for
\* a share of a platform than the reward for a share of the total.
PaidInProportion ==
  [][head_block_time' # head_block_time =>
       last_paid' * funds.total_vested_by_platforms <= streamingProfile.reward * StakeOf(funds')]_streamingVars

\* What reports add and payments take off a day later agrees with the reports
\* that are left, no royalty leaves the supply, and paying throws only where
\* shares were not counted.
StreamingSound ==
  /\ StreamingTypeOK
  /\ CountersMatchReports
  /\ PlaysMatchReports
  /\ ContentSupplyAddsUp
  /\ CashoutThrowsOnlyUncounted

=============================================================================
