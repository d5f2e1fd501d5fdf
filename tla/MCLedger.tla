------------------------------ MODULE MCLedger ------------------------------
(***************************************************************************)
(* Money: what the accounts do with it, and the rewards for streaming.  A  *)
(* behaviour is about one or the other.                                    *)
(*                                                                         *)
(* There are two platforms, one content and a handful of reports; a day is *)
(* three units of time and a listener counts for at most two of them.      *)
(***************************************************************************)
EXTENDS Ledger, Streaming

VARIABLE part   \* what this behaviour is about

First(a, b) == [x \in Accounts |-> IF x = "a" THEN a ELSE b]

\* Orders whose prices leave remainders.
Trading == [first |-> First(<<4, 0, 0>>, <<0, 4, 0>>), unclaimed |-> 0, moved |-> {}, sold |-> {1, 2, 3},
           prices |-> {<<3, 2>>, <<2, 3>>}, feeds |-> {}, vesting |-> FALSE, rewards |-> "none", time |-> 0]

\* Orders that expire while XUSD earns interest.
Saving == [first |-> First(<<0, 2, 0>>, <<1, 0, 0>>), unclaimed |-> 0, moved |-> {1}, sold |-> {1},
           prices |-> {}, feeds |-> {}, vesting |-> FALSE, rewards |-> "none", time |-> 3]

\* Conversions at medians that follow the supplies.
Converting == [first |-> First(<<3, 0, 0>>, <<1, 0, 0>>), unclaimed |-> 1, moved |-> {1, 2}, sold |-> {},
               prices |-> {}, feeds |-> {<<1, 1>>, <<1, 2>>}, vesting |-> FALSE, rewards |-> "none", time |-> 2]

\* Shares bought, earned and withdrawn at a price that is not 1.
Vesting == [first |-> First(<<3, 0, 1>>, <<0, 0, 0>>), unclaimed |-> 0, moved |-> {1, 2}, sold |-> {},
            prices |-> {}, feeds |-> {}, vesting |-> TRUE, rewards |-> "shares", time |-> 0]

MCLedgerProfiles == {Trading, Saving, Converting, Vesting, [Vesting EXCEPT !.rewards = "balance"]}

Split(dist, two, share, playing) ==
  [dist |-> dist, two_sides |-> two, publishers_share |-> share, playing_reward |-> playing]

\* The shares of the others and of the two platforms.
Shares(others, first, second) == 0 :> others @@ 1 :> first @@ 2 :> second

\* Three kinds of listeners on two platforms; no money.
Listening == [listeners |-> {"a", "u", Anon}, plays |-> {1, 2}, voted |-> {1, 2}, pcts |-> {},
              splits |-> {Split(<<>>, FALSE, 0, 5)}, stake |-> Shares(0, 1, 1), reward |-> 0,
              feed |-> FALSE, withdrawals |-> FALSE, time |-> 4, live |-> 3]

\* Platform 2 may let the other report for it; a withdrawal.
Spun == [Listening EXCEPT !.listeners = {"a"}, !.plays = {1}, !.pcts = {7}, !.reward = 20, !.withdrawals = TRUE,
                          !.live = 2]

\* A withdrawal into a platform, which may be its first shares.
Routed == [Spun EXCEPT !.stake = Shares(1, 1, 0), !.pcts = {}]
Unvested == [Routed EXCEPT !.stake = Shares(1, 0, 0)]

\* Royalties on two sides, with a remainder.
Royalties == [Listening EXCEPT !.listeners = {"a"}, !.plays = {1}, !.reward = 9, !.live = 2,
                               !.splits = {Split(<<>>, TRUE, 5, 3), Split(<<3, 6>>, FALSE, 3, 0)}]

MCStreamingProfiles == {Listening, Spun, Routed, Unvested, Royalties, [Royalties EXCEPT !.feed = TRUE]}

\* The part a behaviour is not about stays as it begins.
MCInit ==
  /\ LedgerInit /\ StreamingInit
  /\ \/ part = "ledger" /\ streamingProfile = Listening
     \/ part = "streaming" /\ ledgerProfile = Trading

MCNext ==
  \/ part = "ledger" /\ LedgerNext /\ UNCHANGED <<part, streamingVars>>
  \/ part = "streaming" /\ StreamingNext /\ UNCHANGED <<part, ledgerVars>>

MCSpec == MCInit /\ [][MCNext]_<<part, ledgerVars, streamingVars>>

=============================================================================
