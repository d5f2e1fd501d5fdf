------------------------------- MODULE Ledger -------------------------------
(***************************************************************************)
(* Money: the accounts' balances of BTCM and XUSD with the interest on the *)
(* latter, the limit orders of the internal market, the vesting fund, and  *)
(* the two supplies.  One action is one operation of a transaction or the  *)
(* maintenance at the end of a block.                                      *)
(***************************************************************************)
EXTENDS Integers, FiniteSets, Sequences, SequencesExt, Functions

CONSTANTS
  Accounts,
  Compound, Year,   \* BTCM_SBD_INTEREST_COMPOUND_INTERVAL_SEC, BTCM_SECONDS_PER_YEAR
  InterestRate, OneHundred,   \* mbd_interest_rate, BTCM_100_PERCENT
  Reward,           \* BTCM_MINING_REWARD
  Leverage,         \* BTCM's value is to be at least so many times XUSD's: 19
  MaxOrders, MaxClock, MaxSupply,   \* bounds on a behaviour
  LedgerProfiles    \* what happens in a behaviour: see LedgerProfile

Assets == {"BTCM", "XUSD"}

\* The BTCM, XUSD and shares the accounts have at first, and an unclaimed balance; the
\* amounts moved, put up for sale and asked for; the prices fed, as <<XUSD,
\* BTCM>>; whether shares are bought and how blocks are rewarded.
LedgerProfile ==
  [first : [Accounts -> Nat \X Nat \X Nat], unclaimed : Nat, moved : SUBSET Nat, sold : SUBSET Nat,
   prices : SUBSET (Nat \X Nat), feeds : SUBSET (Nat \X Nat),
   vesting : BOOLEAN, rewards : {"none", "shares", "balance"}, time : 0 .. MaxClock]

ASSUME LedgerAssumption ==
  /\ IsFiniteSet(Accounts)
  /\ Compound \in Nat /\ Year \in Nat \ {0} /\ InterestRate \in Nat /\ OneHundred \in Nat \ {0}
  /\ Reward \in Nat \ {0} /\ Leverage \in Nat /\ MaxOrders \in Nat /\ MaxClock \in Nat /\ MaxSupply \in Nat
  /\ LedgerProfiles \subseteq LedgerProfile
  /\ \A p \in LedgerProfiles : \A r \in p.prices \cup p.feeds : r[1] > 0 /\ r[2] > 0
  \* The shares of the genesis state are backed by the rewards that follow.
  /\ \A p \in LedgerProfiles : p.rewards = "none" => \A a \in Accounts : p.first[a][3] = 0

VARIABLES
  ledgerProfile,
  money,            \* balances, the interest they earn, current_mbd_supply, head_block_time
  current_supply,
  vesting_shares, total_vesting_fund_btcm,
  unclaimed,        \* balance_objects of the genesis state
  orders,           \* limit orders, in the order of their ids
  trades,           \* the fill_order_operations of the last operation
  effective_median  \* a price <<XUSD, BTCM>>, or NoPrice

ledgerVars == <<ledgerProfile, money, current_supply, vesting_shares, total_vesting_fund_btcm,
                unclaimed, orders, trades, effective_median>>

NoPrice == <<0, 0>>
Total(f) == SumFunctionOnSet(f, Accounts)
total_vesting_shares == Total(vesting_shares)

\* The genesis state, which grants shares without a fund for them, and the
\* reward of the first block if blocks are rewarded.
LedgerInit ==
  /\ ledgerProfile \in LedgerProfiles
  /\ \E w \in Accounts : \E reward \in {IF ledgerProfile.rewards = "none" THEN 0 ELSE Reward} :
       /\ vesting_shares = [a \in Accounts |-> ledgerProfile.first[a][3] + (IF a = w THEN reward ELSE 0)]
       /\ total_vesting_fund_btcm = reward
       /\ current_supply = reward + Total([a \in Accounts |-> ledgerProfile.first[a][1]]) + ledgerProfile.unclaimed
  /\ money = [BTCM |-> [a \in Accounts |-> ledgerProfile.first[a][1]],
              XUSD |-> [a \in Accounts |-> ledgerProfile.first[a][2]],
              seconds |-> [a \in Accounts |-> 0], updated |-> [a \in Accounts |-> 0],
              paid |-> [a \in Accounts |-> 0], time |-> 0,
              supply |-> Total([a \in Accounts |-> ledgerProfile.first[a][2]])]
  /\ unclaimed = ledgerProfile.unclaimed
  /\ orders = <<>> /\ trades = <<>> /\ effective_median = NoPrice

-----------------------------------------------------------------------------
(* Balances. *)

\* The seconds an XUSD balance has been held until now.
Held(m, a) == m.seconds[a] + m.XUSD[a] * (m.time - m.updated[a])

Interest(m, a) ==
  IF m.updated[a] # m.time /\ Held(m, a) > 0 /\ m.time - m.paid[a] > Compound
    THEN ((Held(m, a) \div Year) * InterestRate) \div OneHundred ELSE 0

PaysInterest(m, a) == m.updated[a] # m.time /\ Held(m, a) > 0 /\ m.time - m.paid[a] > Compound

\* Mutant: the interest is not added to the supply.
adjust_balance_Unsupplied(m, a, asset, delta) ==
  IF asset = "BTCM" THEN [m EXCEPT !.BTCM[a] = @ + delta]
  ELSE [m EXCEPT !.XUSD[a] = @ + Interest(m, a) + delta,
                 !.seconds[a] = IF PaysInterest(m, a) THEN 0 ELSE Held(m, a),
                 !.updated[a] = m.time,
                 !.paid[a] = IF PaysInterest(m, a) THEN m.time ELSE @]

\* A difference; XUSD first earns its interest.
adjust_balance(m, a, asset, delta) ==
  IF asset = "BTCM" THEN [m EXCEPT !.BTCM[a] = @ + delta]
  ELSE [m EXCEPT !.XUSD[a] = @ + Interest(m, a) + delta,
                 !.seconds[a] = IF PaysInterest(m, a) THEN 0 ELSE Held(m, a),
                 !.updated[a] = m.time,
                 !.paid[a] = IF PaysInterest(m, a) THEN m.time ELSE @,
                 !.supply = @ + Interest(m, a)]

get_balance(m, a, asset) == IF asset = "BTCM" THEN m.BTCM[a] ELSE m.XUSD[a]

transfer(from, to, asset, amount) ==
  /\ get_balance(money, from, asset) >= amount
  /\ money' = adjust_balance(adjust_balance(money, from, asset, -amount), to, asset, amount)
  /\ trades' = <<>>
  /\ UNCHANGED <<current_supply, vesting_shares, total_vesting_fund_btcm, unclaimed, orders, effective_median>>

\* A fee is burnt.
pay_fee(a, fee) ==
  /\ money.BTCM[a] >= fee
  /\ money' = adjust_balance(money, a, "BTCM", -fee)
  /\ current_supply' = current_supply - fee
  /\ trades' = <<>>
  /\ UNCHANGED <<vesting_shares, total_vesting_fund_btcm, unclaimed, orders, effective_median>>

\* Part of a genesis balance is claimed; the whole removes the object.
balance_claim(a, amount) ==
  /\ amount <= unclaimed
  /\ unclaimed' = unclaimed - amount
  /\ money' = adjust_balance(money, a, "BTCM", amount)
  /\ trades' = <<>>
  /\ UNCHANGED <<current_supply, vesting_shares, total_vesting_fund_btcm, orders, effective_median>>

\* BTCM for XUSD at the effective median, rounded down.
convert(a, amount) ==
  LET issued == (amount * effective_median[1]) \div effective_median[2]
  IN /\ effective_median[2] > 0
     /\ money.BTCM[a] >= amount
     /\ money' = [adjust_balance(adjust_balance(money, a, "BTCM", -amount), a, "XUSD", issued)
                   EXCEPT !.supply = @ + issued]
     /\ current_supply' = current_supply - amount
     /\ trades' = <<>>
     /\ UNCHANGED <<vesting_shares, total_vesting_fund_btcm, unclaimed, orders, effective_median>>

-----------------------------------------------------------------------------
(* The vesting fund. *)

\* get_vesting_share_price, both ways, rounded down.
ToShares(btcm) == IF total_vesting_fund_btcm = 0 \/ total_vesting_shares = 0 THEN btcm
                  ELSE (btcm * total_vesting_shares) \div total_vesting_fund_btcm
ToBTCM(shares) == IF total_vesting_fund_btcm = 0 \/ total_vesting_shares = 0 THEN shares
                  ELSE (shares * total_vesting_fund_btcm) \div total_vesting_shares

\* Mutant: the shares are rounded up.
create_vesting_Up(a, btcm) ==
  /\ vesting_shares' = [vesting_shares EXCEPT ![a] = @ + ToShares(btcm) +
       (IF total_vesting_fund_btcm > 0 /\ (btcm * total_vesting_shares) % total_vesting_fund_btcm > 0 THEN 1 ELSE 0)]
  /\ total_vesting_fund_btcm' = total_vesting_fund_btcm + btcm

create_vesting(a, btcm) ==
  /\ vesting_shares' = [vesting_shares EXCEPT ![a] = @ + ToShares(btcm)]
  /\ total_vesting_fund_btcm' = total_vesting_fund_btcm + btcm

transfer_to_vesting(from, to, amount) ==
  /\ money.BTCM[from] >= amount
  /\ money' = adjust_balance(money, from, "BTCM", -amount)
  /\ create_vesting(to, amount)
  /\ trades' = <<>>
  /\ UNCHANGED <<current_supply, unclaimed, orders, effective_median>>

\* One part of a withdrawal, as process_vesting_withdrawals makes it.
withdraw(a, shares) ==
  /\ vesting_shares[a] >= shares
  /\ money' = adjust_balance(money, a, "BTCM", ToBTCM(shares))
  /\ vesting_shares' = [vesting_shares EXCEPT ![a] = @ - shares]
  /\ total_vesting_fund_btcm' = total_vesting_fund_btcm - ToBTCM(shares)
  /\ trades' = <<>>
  /\ UNCHANGED <<current_supply, unclaimed, orders, effective_median>>

-----------------------------------------------------------------------------
(* The market. *)

Other(asset) == IF asset = "BTCM" THEN "XUSD" ELSE "BTCM"

\* What a seller asks for an amount: amount * sell_price, rounded down.
Asks(price, amount) == (amount * price[2]) \div price[1]

\* by_price: the order that gives more comes first, then the older one.
Before(book, i, j) ==
  LET p == book[i].price q == book[j].price
  IN p[1] * q[2] > q[1] * p[2] \/ (p[1] * q[2] = q[1] * p[2] /\ i < j)

Crosses(p, q) == p[1] * q[1] >= p[2] * q[2]

\* Matching works on the balances, the book, whose orders have nothing for
\* sale once they are removed, and the fill_order_operations.
Market(m, book, filled) == [money |-> m, book |-> book, trades |-> filled]

cancel_order(st, i) ==
  LET o == st.book[i]
  IN Market(adjust_balance(st.money, o.seller, o.sells, o.for_sale),
            [st.book EXCEPT ![i].for_sale = 0], st.trades)

\* Mutant: an order that asks for nothing stays.
fill_order_Keep(st, i, pays, receives) ==
  LET o == st.book[i]
  IN Market(adjust_balance(st.money, o.seller, Other(o.sells), receives),
            [st.book EXCEPT ![i].for_sale = @ - pays], st.trades)

\* An order is removed when nothing is left for sale, and cancelled when what
\* is left is worth nothing at its price.
fill_order(st, i, pays, receives) ==
  LET o == st.book[i]
      filled == Market(adjust_balance(st.money, o.seller, Other(o.sells), receives),
                       [st.book EXCEPT ![i].for_sale = @ - pays], st.trades)
  IN IF o.for_sale # pays /\ Asks(o.price, o.for_sale - pays) = 0
       THEN cancel_order(filled, i) ELSE filled

\* What the old order receives, which the new one pays, and the other way
\* round, at the old order's price.
OldReceives(new, old) ==
  IF new.for_sale <= Asks(old.price, old.for_sale) THEN new.for_sale ELSE Asks(old.price, old.for_sale)
NewReceives(new, old) ==
  IF new.for_sale <= Asks(old.price, old.for_sale)
    THEN (new.for_sale * old.price[1]) \div old.price[2] ELSE old.for_sale

match(st, n, i) ==
  LET new == st.book[n]
      old == st.book[i]
      paid == OldReceives(new, old)
      received == NewReceives(new, old)
      after == fill_order(fill_order(st, n, paid, received), i, received, paid)
  IN Market(after.money, after.book,
            Append(after.trades, [price |-> new.price, pays |-> paid, receives |-> received,
                                  old_price |-> old.price]))

\* The orders a new order can be matched with.
Candidates(book, n) ==
  {i \in DOMAIN book : book[i].sells # book[n].sells /\ Crosses(book[i].price, book[n].price)}

\* The last of some orders, by price.
Worst(book, S) == CHOOSE i \in S : \A j \in S \ {i} : Before(book, j, i)

\* Matching goes on, best price first, while the new order is not removed.
apply_order(st, n) ==
  MapThenFoldSet(LAMBDA i, s : IF s.book[n].for_sale = 0 THEN s ELSE match(s, n, i),
                 st, LAMBDA i : i, LAMBDA S : Worst(st.book, S), Candidates(st.book, n))

\* The orders that have not been removed.
Resting(book) == FoldLeft(LAMBDA kept, o : IF o.for_sale = 0 THEN kept ELSE Append(kept, o), <<>>, book)

limit_order_create2(a, sells, amount, price, expires, fill_or_kill) ==
  /\ expires > money.time
  /\ Asks(price, amount) > 0
  /\ get_balance(money, a, sells) >= amount
  /\ \E new \in {[seller |-> a, sells |-> sells, for_sale |-> amount, price |-> price, expires |-> expires]} :
     \E st \in {apply_order(Market(adjust_balance(money, a, sells, -amount), Append(orders, new), <<>>),
                            Len(orders) + 1)} :
       /\ fill_or_kill => st.book[Len(orders) + 1].for_sale = 0
       /\ money' = st.money
       /\ orders' = Resting(st.book)
       /\ trades' = st.trades
  /\ Len(orders') <= MaxOrders
  /\ UNCHANGED <<current_supply, vesting_shares, total_vesting_fund_btcm, unclaimed, effective_median>>

\* The price is given by the least amount to receive.
limit_order_create(a, sells, amount, min, expires, fill_or_kill) ==
  /\ min > 0 /\ amount > 0
  /\ limit_order_create2(a, sells, amount, <<amount, min>>, expires, fill_or_kill)

limit_order_cancel(a, i) ==
  /\ orders[i].seller = a
  /\ \E st \in {cancel_order(Market(money, orders, <<>>), i)} :
       money' = st.money /\ orders' = Resting(st.book)
  /\ trades' = <<>>
  /\ UNCHANGED <<current_supply, vesting_shares, total_vesting_fund_btcm, unclaimed, effective_median>>

-----------------------------------------------------------------------------
(* The end of a block. *)

Expired(t) == {i \in DOMAIN orders : orders[i].expires < t}

\* clear_expired_orders, at the time of the block.
clear_expired_orders(t) ==
  \E st \in {MapThenFoldSet(LAMBDA i, s : cancel_order(s, i), Market([money EXCEPT !.time = t], orders, <<>>),
                            LAMBDA i : i, LAMBDA S : CHOOSE i \in S : TRUE, Expired(t))} :
    money' = st.money /\ orders' = Resting(st.book)

\* update_median_feed: a median, raised until XUSD is a small enough part.
update_median_feed ==
  \/ UNCHANGED effective_median
  \/ \E f \in ledgerProfile.feeds :
       effective_median' = IF money'.supply > 0 /\ Leverage * money'.supply * f[2] > f[1] * current_supply
                             THEN <<Leverage * money'.supply, current_supply>> ELSE f

\* The witness's reward is new supply: shares or, in the early blocks and
\* for a witness that has shares, BTCM.
InShares(w) == ledgerProfile.rewards = "shares" \/ vesting_shares[w] = 0

Block ==
  /\ money.time < ledgerProfile.time
  /\ clear_expired_orders(money.time + 1)
  /\ update_median_feed
  /\ trades' = <<>>
  /\ UNCHANGED <<current_supply, vesting_shares, total_vesting_fund_btcm, unclaimed>>

\* get_producer_reward and process_funds.
get_producer_reward(w) ==
  /\ ledgerProfile.rewards # "none"
  /\ IF InShares(w) THEN create_vesting(w, Reward) /\ UNCHANGED money
     ELSE /\ money' = adjust_balance(money, w, "BTCM", Reward)
          /\ UNCHANGED <<vesting_shares, total_vesting_fund_btcm>>
  /\ current_supply' = current_supply + Reward
  /\ trades' = <<>>
  /\ UNCHANGED <<unclaimed, orders, effective_median>>

-----------------------------------------------------------------------------
Expirations == money.time + 1 .. ledgerProfile.time + 1

Trade(a) ==
  \E sells \in Assets, amount \in ledgerProfile.sold, expires \in Expirations, kill \in BOOLEAN :
    \/ \E price \in ledgerProfile.prices : limit_order_create2(a, sells, amount, price, expires, kill)
    \/ \E min \in ledgerProfile.sold : limit_order_create(a, sells, amount, min, expires, kill)

Move(a) ==
  \E amount \in ledgerProfile.moved :
    \/ \E b \in Accounts, asset \in Assets : transfer(a, b, asset, amount)
    \/ pay_fee(a, amount)
    \/ balance_claim(a, amount)
    \/ convert(a, amount)
    \/ \E b \in Accounts : ledgerProfile.vesting /\ transfer_to_vesting(a, b, amount)
    \/ withdraw(a, amount)

LedgerNext ==
  /\ UNCHANGED ledgerProfile
  /\ \/ \E a \in Accounts : \/ Trade(a) \/ Move(a)
                            \/ \E i \in DOMAIN orders : limit_order_cancel(a, i)
                            \/ get_producer_reward(a)
     \/ Block
  /\ current_supply' <= MaxSupply /\ money'.supply <= MaxSupply

LedgerSpec == LedgerInit /\ [][LedgerNext]_ledgerVars

-----------------------------------------------------------------------------
(* Properties. *)

Offered(o, asset) == IF o.sells = asset THEN o.for_sale ELSE 0
OnSale(book, asset) == SumFunctionOnSet([i \in DOMAIN book |-> Offered(book[i], asset)], DOMAIN book)

LedgerTypeOK ==
  /\ money.BTCM \in [Accounts -> Nat] /\ money.XUSD \in [Accounts -> Nat]
  /\ \A a \in Accounts : money.updated[a] \in 0 .. money.time /\ money.paid[a] \in 0 .. money.time
  /\ vesting_shares \in [Accounts -> Nat] /\ total_vesting_fund_btcm \in Nat
  /\ current_supply \in Nat /\ money.supply \in Nat

\* The supplies are what the accounts hold, what is on sale, what is not
\* claimed yet and the vesting fund, after any sequence of trades, partial
\* fills, refunds, conversions, fees, interest and rewards
\* (validate_invariants, database.cpp 3583-3584), and no balance is negative.
SupplyAddsUp ==
  /\ LedgerTypeOK
  /\ current_supply = Total(money.BTCM) + OnSale(orders, "BTCM") + total_vesting_fund_btcm + unclaimed
  /\ money.supply = Total(money.XUSD) + OnSale(orders, "XUSD")

\* Every order that rests in the book still asks for something, and no two
\* orders could be matched: matching stops only when the new order is gone or
\* the prices no longer meet, whatever was rounded (apply_order, fill_order).
BookAtRest ==
  \A i, j \in DOMAIN orders :
    /\ Asks(orders[i].price, orders[i].for_sale) > 0
    /\ orders[i].sells # orders[j].sells => ~ Crosses(orders[i].price, orders[j].price)

\* Both sides of every trade get something, at least what their limit price
\* gives for what they pay, rounded down: the assertion that once stood in
\* match is not needed for that ("apparently no asset is created or
\* destroyed", database.cpp 3167).
LimitsRespected ==
  \A k \in DOMAIN trades :
    /\ trades[k].pays > 0 /\ trades[k].receives > 0
    /\ trades[k].receives >= Asks(trades[k].price, trades[k].pays)
    /\ trades[k].pays >= Asks(trades[k].old_price, trades[k].receives)

\* Rounding is always in favour of the vesting fund: no purchase, reward or
\* withdrawal of shares makes the shares of the others worth less (the
\* comment of create_vesting: the ratio "should not change as the result of
\* the user adding funds", database.cpp 1041).
SharesKeepTheirValue ==
  [][total_vesting_shares > 0 /\ total_vesting_shares' > 0 =>
       total_vesting_fund_btcm' * total_vesting_shares >= total_vesting_fund_btcm * total_vesting_shares']_ledgerVars

\* The market is fair to both sides and leaves no order behind that could be
\* filled, whatever matching rounds.
OrdersFair == LimitsRespected /\ BookAtRest

=============================================================================
