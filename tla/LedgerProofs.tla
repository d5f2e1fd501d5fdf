---------------------------- MODULE LedgerProofs ----------------------------
(***************************************************************************)
(* Money is neither made nor lost, and the market is fair, for every       *)
(* number of accounts, orders and blocks: proofs about Ledger.             *)
(***************************************************************************)
EXTENDS Ledger, FoldLemmas, SequenceTheorems

-----------------------------------------------------------------------------
(* Arithmetic of the roundings. *)

LEMMA MulNat == \A a, b \in Nat : a * b \in Nat
OBVIOUS

LEMMA DivNat == ASSUME NEW a \in Nat, NEW b \in Nat, b > 0
                PROVE  a \div b \in Nat /\ b * (a \div b) <= a /\ a < b * (a \div b) + b
OBVIOUS

LEMMA MulMono == \A a, b, c \in Nat : a <= b => a * c <= b * c
OBVIOUS

LEMMA MulStrict == \A a, b, c \in Nat : a < b /\ c > 0 => a * c < b * c
OBVIOUS

LEMMA MulCancel == \A a, b, c \in Nat : a * c <= b * c /\ c > 0 => a <= b
OBVIOUS

LEMMA MulAssoc == \A a, b, c \in Int : (a * b) * c = a * (b * c) /\ a * b = b * a /\ (a * b) * c = (a * c) * b
OBVIOUS

\* A quotient, rounded down, is at least and at most what its remainder says.
LEMMA DivBounds ==
    ASSUME NEW a \in Nat, NEW b \in Nat, b > 0, NEW x \in Nat
    PROVE  /\ b * x <= a => x <= a \div b
           /\ a <= b * x => a \div b <= x
           /\ a \div b \in Nat /\ b * (a \div b) <= a
<1>1. PICK q \in Nat : q = a \div b
  BY DivNat
<1>2. b * q <= a /\ a < b * q + b
  BY <1>1, DivNat
<1>3. ASSUME b * x <= a PROVE x <= q
  <2> SUFFICES ASSUME q + 1 <= x PROVE FALSE
    OBVIOUS
  <2>1. (q + 1) * b <= x * b
    BY MulMono
  <2>2. (q + 1) * b = b * q + b /\ x * b = b * x
    OBVIOUS
  <2>3. b * q \in Nat /\ b * x \in Nat
    BY MulNat
  <2> QED  BY <1>2, <1>3, <2>1, <2>2, <2>3
<1>4. ASSUME a <= b * x PROVE q <= x
  <2>1. b * q \in Nat /\ b * x \in Nat /\ b * q = q * b /\ b * x = x * b
    BY MulNat
  <2>2. q * b <= x * b
    BY <1>2, <1>4, <2>1
  <2> QED  BY <2>2, MulCancel
<1> QED  BY <1>1, <1>2, <1>3, <1>4

-----------------------------------------------------------------------------
(* Balances. *)

Balances == [Accounts -> Nat]

Monies ==
    {m \in [BTCM : Balances, XUSD : Balances, seconds : Balances, updated : Balances, paid : Balances,
            time : Nat, supply : Int] :
        \A a \in Accounts : m.updated[a] <= m.time /\ m.paid[a] <= m.time}

\* What the accounts hold of an asset, less the supply that follows them.
Net(m, asset) == IF asset = "BTCM" THEN Total(m.BTCM) ELSE Total(m.XUSD) - m.supply

LEMMA TotalType ==
    ASSUME NEW f \in Balances
    PROVE  Total(f) \in Nat /\ \A a \in Accounts : f[a] <= Total(f)
BY LedgerAssumption, SumNat DEF Total, Balances

LEMMA TotalChange ==
    ASSUME NEW f \in Balances, NEW a \in Accounts, NEW v \in Int
    PROVE  Total([f EXCEPT ![a] = v]) = Total(f) + (v - f[a])
<1> DEFINE g == [f EXCEPT ![a] = v]
<1>1. IntOn(f, Accounts) /\ ChangesAt(f, g, Accounts, a)
  BY DEF Balances, IntOn, ChangesAt
<1>2. g[a] = v
  BY DEF Balances
<1> HIDE DEF g
<1>3. Total(g) = Total(f) + (g[a] - f[a])
  BY <1>1, LedgerAssumption, SumChange DEF Total
<1> QED  BY <1>2, <1>3 DEF g

LEMMA BalanceNat ==
    ASSUME NEW m \in Monies, NEW a \in Accounts, NEW asset PROVE get_balance(m, a, asset) \in Nat
BY DEF get_balance, Monies, Balances

\* Interest is never negative.
LEMMA InterestNat ==
    ASSUME NEW m \in Monies, NEW a \in Accounts
    PROVE  Held(m, a) \in Nat /\ Interest(m, a) \in Nat
<1>1. m.seconds[a] \in Nat /\ m.XUSD[a] \in Nat /\ m.time - m.updated[a] \in Nat
  BY DEF Monies, Balances
<1>2. Held(m, a) \in Nat
  BY <1>1, MulNat DEF Held
<1>3. (Held(m, a) \div Year) * InterestRate \in Nat
  BY <1>2, LedgerAssumption, DivNat, MulNat
<1>4. ((Held(m, a) \div Year) * InterestRate) \div OneHundred \in Nat
  BY <1>3, LedgerAssumption, DivNat
<1> QED  BY <1>2, <1>4 DEF Interest

\* adjust_balance adds the difference to the account, and interest to the
\* account and the supply.
LEMMA AdjustBalance ==
    ASSUME NEW m \in Monies, NEW a \in Accounts, NEW asset \in Assets, NEW d \in Int,
           get_balance(m, a, asset) + d >= 0
    PROVE  /\ adjust_balance(m, a, asset, d) \in Monies
           /\ adjust_balance(m, a, asset, d).time = m.time
           /\ \A b \in Assets : Net(adjust_balance(m, a, asset, d), b) = Net(m, b) + (IF b = asset THEN d ELSE 0)
<1> DEFINE r == adjust_balance(m, a, asset, d)
<1>0. /\ m.BTCM \in Balances /\ m.XUSD \in Balances /\ m.supply \in Int /\ m.time \in Nat
      /\ Total(m.BTCM) \in Nat /\ Total(m.XUSD) \in Nat
  BY TotalType DEF Monies
<1>1. CASE asset = "BTCM"
  <2>1. m.BTCM[a] + d \in Nat
    BY <1>0, <1>1 DEF get_balance, Balances
  <2>2. r = [m EXCEPT !.BTCM = [m.BTCM EXCEPT ![a] = m.BTCM[a] + d]]
    BY <1>1 DEF adjust_balance, Monies
  <2>3. r \in Monies /\ r.time = m.time /\ r.XUSD = m.XUSD /\ r.supply = m.supply
        /\ r.BTCM = [m.BTCM EXCEPT ![a] = m.BTCM[a] + d]
    BY <2>1, <2>2 DEF Monies, Balances
  <2>4. Total(r.BTCM) = Total(m.BTCM) + d
    <3>1. Total(r.BTCM) = Total(m.BTCM) + ((m.BTCM[a] + d) - m.BTCM[a])
      BY <1>0, <2>1, <2>3, TotalChange
    <3>2. m.BTCM[a] \in Nat
      BY <1>0 DEF Balances
    <3> QED  BY <1>0, <3>1, <3>2
  <2> HIDE DEF r
  <2> QED  BY <1>0, <1>1, <2>3, <2>4 DEF Net, Assets, r
<1>2. CASE asset = "XUSD"
  <2> DEFINE i == Interest(m, a)
             x == m.XUSD[a] + i + d
             s == IF PaysInterest(m, a) THEN 0 ELSE Held(m, a)
             p == IF PaysInterest(m, a) THEN m.time ELSE m.paid[a]
  <2>0. i \in Nat /\ Held(m, a) \in Nat /\ m.XUSD[a] \in Nat
    BY <1>0, InterestNat DEF Balances
  <2>1. x \in Nat /\ s \in Nat /\ p \in Nat /\ p <= m.time
    BY <1>0, <1>2, <2>0 DEF get_balance, Monies, Balances
  <2>2. r = [m EXCEPT !.XUSD = [m.XUSD EXCEPT ![a] = x],
                      !.seconds = [m.seconds EXCEPT ![a] = s],
                      !.updated = [m.updated EXCEPT ![a] = m.time],
                      !.paid = [m.paid EXCEPT ![a] = p],
                      !.supply = m.supply + i]
    BY <1>2 DEF adjust_balance, Monies
  <2> HIDE DEF i, x, s, p
  <2>3. r \in Monies /\ r.time = m.time /\ r.BTCM = m.BTCM /\ r.supply = m.supply + i
        /\ r.XUSD = [m.XUSD EXCEPT ![a] = x]
    <3> DEFINE X == [m.XUSD EXCEPT ![a] = x]
               S == [m.seconds EXCEPT ![a] = s]
               U == [m.updated EXCEPT ![a] = m.time]
               P == [m.paid EXCEPT ![a] = p]
    <3>1. X \in Balances /\ S \in Balances /\ U \in Balances /\ P \in Balances
      BY <2>1 DEF Monies, Balances
    <3>2. \A b \in Accounts : U[b] <= m.time /\ P[b] <= m.time
      BY <2>1 DEF Monies, Balances
    <3>3. r = [m EXCEPT !.XUSD = X, !.seconds = S, !.updated = U, !.paid = P, !.supply = m.supply + i]
      BY <2>2
    <3> HIDE DEF X, S, U, P, r
    <3>4. /\ r \in [BTCM : Balances, XUSD : Balances, seconds : Balances, updated : Balances,
                     paid : Balances, time : Nat, supply : Int]
          /\ r.time = m.time /\ r.BTCM = m.BTCM /\ r.supply = m.supply + i
          /\ r.XUSD = X /\ r.updated = U /\ r.paid = P
      <4>1. r = [BTCM |-> m.BTCM, XUSD |-> X, seconds |-> S, updated |-> U, paid |-> P,
                 time |-> m.time, supply |-> m.supply + i]
        BY <3>3 DEF Monies
      <4> QED  BY <1>0, <2>0, <3>1, <4>1
    <3>5. r \in Monies
      BY <3>2, <3>4 DEF Monies
    <3> QED  BY <3>4, <3>5 DEF X
  <2>4. Total(r.XUSD) = Total(m.XUSD) + (i + d)
    <3>1. Total(r.XUSD) = Total(m.XUSD) + (x - m.XUSD[a])
      BY <1>0, <2>1, <2>3, TotalChange
    <3> QED  BY <1>0, <2>0, <3>1 DEF x
  <2> HIDE DEF r
  <2> QED  BY <1>0, <1>2, <2>0, <2>3, <2>4 DEF Net, Assets, r
<1> QED  BY <1>1, <1>2 DEF Assets

-----------------------------------------------------------------------------
(* The book. *)

Prices == (Nat \ {0}) \X (Nat \ {0})
Orders == [seller : Accounts, sells : Assets, for_sale : Nat, price : Prices, expires : Nat]
Fills == [price : Prices, pays : Nat, receives : Nat, old_price : Prices]

\* Two books with the same orders, whatever is left of them.
SameOrders(b, c) ==
    /\ Len(c) = Len(b)
    /\ \A i \in 1 .. Len(b) : /\ c[i].seller = b[i].seller /\ c[i].sells = b[i].sells
                           /\ c[i].price = b[i].price /\ c[i].expires = b[i].expires

LEMMA InBook ==
    ASSUME NEW book \in Seq(Orders), NEW i \in 1 .. Len(book)
    PROVE  /\ book[i] \in Orders /\ book[i].for_sale \in Nat /\ book[i].price \in Prices
           /\ book[i].seller \in Accounts /\ book[i].sells \in Assets /\ book[i].expires \in Nat
           /\ \A v \in Nat : [book[i] EXCEPT !.for_sale = v] \in Orders
<1>1. book[i] \in Orders
  OBVIOUS
<1> QED  BY <1>1 DEF Orders

LEMMA OnSaleType ==
    ASSUME NEW book \in Seq(Orders), NEW asset
    PROVE  OnSale(book, asset) \in Nat
<1> DEFINE f == [i \in DOMAIN book |-> Offered(book[i], asset)]
           D == DOMAIN book
<1>1. IsFiniteSet(D)
  BY FS_Interval
<1>2. \A i \in D : f[i] \in Nat
  BY InBook DEF Offered
<1> HIDE DEF f, D
<1>3. SumFunctionOnSet(f, D) \in Nat
  BY <1>1, <1>2, SumNat
<1> QED  BY <1>3 DEF OnSale, f, D

\* What is left of one order changes.
WithLeft(book, k, v) == [book EXCEPT ![k].for_sale = v]

LEMMA OnSaleChange ==
    ASSUME NEW book \in Seq(Orders), NEW k \in 1 .. Len(book), NEW v \in Nat
    PROVE  /\ WithLeft(book, k, v) \in Seq(Orders)
           /\ SameOrders(book, WithLeft(book, k, v))
           /\ WithLeft(book, k, v)[k].for_sale = v
           /\ \A i \in (1 .. Len(book)) \ {k} : WithLeft(book, k, v)[i] = book[i]
           /\ \A asset : OnSale(WithLeft(book, k, v), asset)
                           = OnSale(book, asset) + (IF book[k].sells = asset THEN v - book[k].for_sale ELSE 0)
<1> DEFINE c == WithLeft(book, k, v)
<1>1. book[k] \in Orders /\ [book[k] EXCEPT !.for_sale = v] \in Orders
  BY InBook
<1>2. c = [book EXCEPT ![k] = [book[k] EXCEPT !.for_sale = v]]
  BY DEF WithLeft
<1>3. c \in Seq(Orders) /\ Len(c) = Len(book) /\ DOMAIN c = DOMAIN book
  BY <1>1, <1>2, ExceptSeq
<1>4. c[k] = [book[k] EXCEPT !.for_sale = v]
  BY <1>2
<1>5. \A i \in (1 .. Len(book)) \ {k} : c[i] = book[i]
  BY <1>2
<1> HIDE DEF c
<1>6. c[k].for_sale = v /\ c[k].seller = book[k].seller /\ c[k].sells = book[k].sells
      /\ c[k].price = book[k].price /\ c[k].expires = book[k].expires
  BY <1>1, <1>4 DEF Orders
<1>7. SameOrders(book, c)
  BY <1>3, <1>5, <1>6 DEF SameOrders
<1>8. ASSUME NEW asset
      PROVE  OnSale(c, asset) = OnSale(book, asset) + (IF book[k].sells = asset THEN v - book[k].for_sale ELSE 0)
  <2> DEFINE f == [i \in DOMAIN book |-> Offered(book[i], asset)]
             g == [i \in DOMAIN book |-> Offered(c[i], asset)]
             D == DOMAIN book
  <2>1. IsFiniteSet(D)
    BY FS_Interval
  <2>2. \A i \in D : f[i] \in Nat /\ g[i] \in Nat
    BY <1>3, InBook DEF Offered
  <2>3. \A i \in D \ {k} : g[i] = f[i]
    BY <1>5
  <2>4. g[k] = (IF book[k].sells = asset THEN v ELSE 0) /\ f[k] = (IF book[k].sells = asset THEN book[k].for_sale ELSE 0)
    BY <1>6 DEF Offered
  <2>5. OnSale(book, asset) = SumFunctionOnSet(f, D) /\ OnSale(c, asset) = SumFunctionOnSet(g, D)
    BY <1>3 DEF OnSale
  <2>6. IntOn(f, D) /\ k \in D /\ g[k] \in Int
    BY <2>2 DEF IntOn
  <2>7. book[k].for_sale \in Nat
    BY InBook
  <2> HIDE DEF f, g, D
  <2>8. SumFunctionOnSet(f, D) \in Int /\ SumFunctionOnSet(g, D) = SumFunctionOnSet(f, D) + (g[k] - f[k])
    <3>1. ChangesAt(f, g, D, k)
      BY <2>3, <2>6 DEF ChangesAt
    <3>2. \A a \in D : ChangesAt(f, g, D, a) =>
             /\ SumFunctionOnSet(f, D) \in Int
             /\ SumFunctionOnSet(g, D) = SumFunctionOnSet(f, D) + (g[a] - f[a])
      BY <2>1, <2>6, SumChange
    <3> QED  BY <2>6, <3>1, <3>2
  <2> QED  BY <2>4, <2>5, <2>7, <2>8
<1> QED  BY <1>3, <1>5, <1>6, <1>7, <1>8 DEF c

-----------------------------------------------------------------------------
(* Matching. *)

Markets == [money : Monies, book : Seq(Orders), trades : Seq(Fills)]

\* All of an asset: what is held and what is on sale, less the supply.
Wealth(st, asset) == Net(st.money, asset) + OnSale(st.book, asset)

\* A step of matching that keeps everyone's orders and the time.
Follows(st, r) ==
    /\ r \in Markets
    /\ r.money.time = st.money.time
    /\ SameOrders(st.book, r.book)

\* An order has been removed or asks for something.
AtRest(o) == o.for_sale = 0 \/ Asks(o.price, o.for_sale) > 0

LEMMA NetType ==
    ASSUME NEW m \in Monies, NEW asset PROVE Net(m, asset) \in Int
BY TotalType DEF Monies, Net

LEMMA WealthType ==
    ASSUME NEW st \in Markets, NEW asset
    PROVE  /\ st.money \in Monies /\ st.book \in Seq(Orders) /\ st.trades \in Seq(Fills)
           /\ Net(st.money, asset) \in Int /\ OnSale(st.book, asset) \in Int /\ Wealth(st, asset) \in Int
<1>1. st.money \in Monies /\ st.book \in Seq(Orders) /\ st.trades \in Seq(Fills)
  BY DEF Markets
<1>2. Net(st.money, asset) \in Int /\ OnSale(st.book, asset) \in Nat
  BY <1>1, NetType, OnSaleType
<1> QED  BY <1>1, <1>2 DEF Wealth

LEMMA MarketType ==
    ASSUME NEW m \in Monies, NEW b \in Seq(Orders), NEW t \in Seq(Fills)
    PROVE  /\ Market(m, b, t) \in Markets /\ Market(m, b, t).money = m
           /\ Market(m, b, t).book = b /\ Market(m, b, t).trades = t
BY DEF Market, Markets

\* cancel_order gives back what is left, no more and no less.
LEMMA CancelOrder ==
    ASSUME NEW st \in Markets, NEW i \in 1 .. Len(st.book)
    PROVE  /\ Follows(st, cancel_order(st, i))
           /\ \A b \in Assets : Wealth(cancel_order(st, i), b) = Wealth(st, b)
           /\ cancel_order(st, i).book[i].for_sale = 0
           /\ \A j \in (1 .. Len(st.book)) \ {i} : cancel_order(st, i).book[j] = st.book[j]
           /\ cancel_order(st, i).trades = st.trades
<1> DEFINE r == cancel_order(st, i)
           o == st.book[i]
           m == adjust_balance(st.money, o.seller, o.sells, o.for_sale)
           c == WithLeft(st.book, i, 0)
<1>1. st.money \in Monies /\ st.book \in Seq(Orders) /\ st.trades \in Seq(Fills)
  BY WealthType
<1>2. o.for_sale \in Nat /\ o.seller \in Accounts /\ o.sells \in Assets
  BY <1>1, InBook
<1>3. get_balance(st.money, o.seller, o.sells) + o.for_sale >= 0
  BY <1>1, <1>2, BalanceNat
<1>4. /\ m \in Monies /\ m.time = st.money.time
      /\ \A b \in Assets : Net(m, b) = Net(st.money, b) + (IF b = o.sells THEN o.for_sale ELSE 0)
  BY <1>1, <1>2, <1>3, AdjustBalance
<1>5. /\ c \in Seq(Orders) /\ SameOrders(st.book, c) /\ c[i].for_sale = 0
      /\ \A j \in (1 .. Len(st.book)) \ {i} : c[j] = st.book[j]
      /\ \A b : OnSale(c, b) = OnSale(st.book, b) + (IF o.sells = b THEN 0 - o.for_sale ELSE 0)
  <2>1. PICK v \in Nat : v = 0
    OBVIOUS
  <2> DEFINE d == WithLeft(st.book, i, v)
  <2>2. d = c
    BY <2>1
  <2> HIDE DEF c
  <2>3. /\ d \in Seq(Orders) /\ SameOrders(st.book, d) /\ d[i].for_sale = v
        /\ \A j \in (1 .. Len(st.book)) \ {i} : d[j] = st.book[j]
        /\ \A b : OnSale(d, b) = OnSale(st.book, b) + (IF o.sells = b THEN v - o.for_sale ELSE 0)
    <3>1. d \in Seq(Orders)
     BY <1>1, OnSaleChange
    <3>2. SameOrders(st.book, d)
     BY <1>1, OnSaleChange
    <3>3. d[i].for_sale = v
     BY <1>1, OnSaleChange
    <3>4. ASSUME NEW j \in (1 .. Len(st.book)) \ {i} PROVE d[j] = st.book[j]
     BY <1>1, ExceptSeq DEF WithLeft
    <3>5. \A b : OnSale(d, b) = OnSale(st.book, b) + (IF o.sells = b THEN v - o.for_sale ELSE 0)
     BY <1>1, OnSaleChange
    <3> QED  BY <3>1, <3>2, <3>3, <3>4, <3>5
  <2> HIDE DEF d
  <2> QED  BY <2>1, <2>2, <2>3
<1>6. r = Market(m, c, st.trades)
  BY DEF cancel_order, WithLeft
<1> HIDE DEF r, m, c
<1>7. r \in Markets /\ r.money = m /\ r.book = c /\ r.trades = st.trades
  BY <1>1, <1>4, <1>5, <1>6, MarketType
<1>8. ASSUME NEW b \in Assets PROVE Wealth(r, b) = Wealth(st, b)
  <2>1. Net(st.money, b) \in Int /\ OnSale(st.book, b) \in Int
    BY WealthType
  <2> HIDE DEF o
  <2> QED  BY <1>2, <1>4, <1>5, <1>7, <2>1 DEF Wealth
<1> QED  BY <1>4, <1>5, <1>7, <1>8 DEF Follows, r

\* fill_order exchanges what is paid for what is received, and removes an
\* order that no longer asks for anything.
LEMMA FillOrder ==
    ASSUME NEW st \in Markets, NEW i \in 1 .. Len(st.book), NEW pays \in Nat, NEW receives \in Nat,
           pays <= st.book[i].for_sale
    PROVE  /\ Follows(st, fill_order(st, i, pays, receives))
           /\ \A b \in Assets : Wealth(fill_order(st, i, pays, receives), b)
                                  = Wealth(st, b) + (IF b = st.book[i].sells THEN 0 - pays ELSE receives)
           /\ AtRest(fill_order(st, i, pays, receives).book[i])
           /\ pays = st.book[i].for_sale => fill_order(st, i, pays, receives).book[i].for_sale = 0
           /\ \A j \in (1 .. Len(st.book)) \ {i} : fill_order(st, i, pays, receives).book[j] = st.book[j]
           /\ fill_order(st, i, pays, receives).trades = st.trades
<1> DEFINE r == fill_order(st, i, pays, receives)
           o == st.book[i]
           m == adjust_balance(st.money, o.seller, Other(o.sells), receives)
           left == o.for_sale - pays
           c == WithLeft(st.book, i, left)
           f == Market(m, c, st.trades)
<1>1. st.money \in Monies /\ st.book \in Seq(Orders) /\ st.trades \in Seq(Fills)
  BY WealthType
<1>2. /\ o.for_sale \in Nat /\ o.seller \in Accounts /\ o.sells \in Assets /\ o.price \in Prices
      /\ Other(o.sells) \in Assets
      /\ left \in Nat
      /\ \A b \in Assets : b = Other(o.sells) <=> b # o.sells
  BY <1>1, InBook DEF Other, Assets
<1>3. get_balance(st.money, o.seller, Other(o.sells)) + receives >= 0
  BY <1>1, <1>2, BalanceNat
<1>4. /\ m \in Monies /\ m.time = st.money.time
      /\ \A b \in Assets : Net(m, b) = Net(st.money, b) + (IF b = Other(o.sells) THEN receives ELSE 0)
  BY <1>1, <1>2, <1>3, AdjustBalance
<1>5. /\ c \in Seq(Orders) /\ SameOrders(st.book, c) /\ c[i].for_sale = left
      /\ \A j \in (1 .. Len(st.book)) \ {i} : c[j] = st.book[j]
      /\ \A b : OnSale(c, b) = OnSale(st.book, b) + (IF o.sells = b THEN left - o.for_sale ELSE 0)
  <2>1. PICK v \in Nat : v = left
    BY <1>2
  <2> DEFINE d == WithLeft(st.book, i, v)
  <2>2. d = c
    BY <2>1
  <2> HIDE DEF c
  <2>3. /\ d \in Seq(Orders) /\ SameOrders(st.book, d) /\ d[i].for_sale = v
        /\ \A j \in (1 .. Len(st.book)) \ {i} : d[j] = st.book[j]
        /\ \A b : OnSale(d, b) = OnSale(st.book, b) + (IF o.sells = b THEN v - o.for_sale ELSE 0)
    <3>1. d \in Seq(Orders)
     BY <1>1, OnSaleChange
    <3>2. SameOrders(st.book, d)
     BY <1>1, OnSaleChange
    <3>3. d[i].for_sale = v
     BY <1>1, OnSaleChange
    <3>4. ASSUME NEW j \in (1 .. Len(st.book)) \ {i} PROVE d[j] = st.book[j]
     BY <1>1, ExceptSeq DEF WithLeft
    <3>5. \A b : OnSale(d, b) = OnSale(st.book, b) + (IF o.sells = b THEN v - o.for_sale ELSE 0)
     BY <1>1, OnSaleChange
    <3> QED  BY <3>1, <3>2, <3>3, <3>4, <3>5
  <2> HIDE DEF d
  <2> QED  BY <2>1, <2>2, <2>3
<1>6. r = IF o.for_sale # pays /\ Asks(o.price, left) = 0 THEN cancel_order(f, i) ELSE f
  BY DEF fill_order, WithLeft
<1> HIDE DEF r, m, c
<1>7. f \in Markets /\ f.money = m /\ f.book = c /\ f.trades = st.trades
  BY <1>1, <1>4, <1>5, MarketType
<1>8. \A b \in Assets : Wealth(f, b) = Wealth(st, b) + (IF b = o.sells THEN 0 - pays ELSE receives)
  <2> SUFFICES ASSUME NEW b \in Assets
               PROVE  Wealth(f, b) = Wealth(st, b) + (IF b = o.sells THEN 0 - pays ELSE receives)
    OBVIOUS
  <2>1. Net(st.money, b) \in Int /\ OnSale(st.book, b) \in Int
    BY WealthType
  <2>2. left - o.for_sale = 0 - pays
    BY <1>2
  <2> HIDE DEF o, left, f
  <2>3. Net(f.money, b) = Net(st.money, b) + (IF b = o.sells THEN 0 ELSE receives)
    BY <1>2, <1>4, <1>7
  <2>4. OnSale(f.book, b) = OnSale(st.book, b) + (IF b = o.sells THEN 0 - pays ELSE 0)
    BY <1>5, <1>7, <2>2
  <2> QED  BY <2>1, <2>3, <2>4 DEF Wealth
<1>9. Follows(st, f)
  BY <1>4, <1>5, <1>7 DEF Follows
<1> HIDE DEF f
<1>10. c[i].price = o.price /\ Len(c) = Len(st.book)
  BY <1>1, <1>5 DEF SameOrders
<1>11. Asks(o.price, left) \in Nat
  <2>1. o.price[1] \in Nat /\ o.price[1] > 0 /\ o.price[2] \in Nat
    BY <1>2 DEF Prices
  <2> QED  BY <1>2, <2>1, MulNat, DivNat DEF Asks
<1>12. CASE o.for_sale # pays /\ Asks(o.price, left) = 0
  <2>1. r = cancel_order(f, i)
    BY <1>6, <1>12
  <2>2. /\ Follows(f, r) /\ \A b \in Assets : Wealth(r, b) = Wealth(f, b)
        /\ r.book[i].for_sale = 0 /\ r.trades = f.trades
        /\ \A j \in (1 .. Len(f.book)) \ {i} : r.book[j] = f.book[j]
    BY <1>7, <1>10, <2>1, CancelOrder
  <2>3. Follows(st, r)
    BY <1>9, <2>2 DEF Follows, SameOrders
  <2> QED  BY <1>5, <1>7, <1>8, <1>10, <2>2, <2>3 DEF AtRest, r
<1>13. CASE ~ (o.for_sale # pays /\ Asks(o.price, left) = 0)
  <2>1. r = f
    BY <1>6, <1>13
  <2>2. AtRest(c[i]) /\ (pays = o.for_sale => c[i].for_sale = 0)
    <3>1. c[i].for_sale = left
      BY <1>5
    <3>2. pays = o.for_sale => left = 0
      BY <1>2
    <3>3. pays # o.for_sale => Asks(o.price, left) > 0
      BY <1>11, <1>13
    <3> HIDE DEF left
    <3> QED  BY <1>10, <3>1, <3>2, <3>3 DEF AtRest
  <2> QED  BY <1>5, <1>7, <1>8, <1>9, <2>1, <2>2 DEF r
<1> QED  BY <1>12, <1>13

\* What two orders exchange is covered by both, and uses up one of them.
LEMMA Exchanged ==
    ASSUME NEW new \in Orders, NEW old \in Orders
    PROVE  /\ OldReceives(new, old) \in Nat /\ NewReceives(new, old) \in Nat
           /\ OldReceives(new, old) <= new.for_sale /\ NewReceives(new, old) <= old.for_sale
           /\ OldReceives(new, old) = new.for_sale \/ NewReceives(new, old) = old.for_sale
<1>1. PICK f \in Nat, g \in Nat, a \in Nat, b \in Nat :
         f = new.for_sale /\ g = old.for_sale /\ a = old.price[1] /\ b = old.price[2] /\ a > 0 /\ b > 0
  BY DEF Orders, Prices
<1>2. g * b \in Nat /\ f * a \in Nat
  BY MulNat
<1>3. PICK A \in Nat : A = (g * b) \div a /\ a * A <= g * b
  BY <1>1, <1>2, DivNat
<1>4. PICK R \in Nat : R = (f * a) \div b /\ b * R <= f * a
  BY <1>1, <1>2, DivNat
<1>5. ASSUME f <= A PROVE R <= g
  <2>1. f * a <= A * a /\ A * a = a * A /\ b * R = R * b
    BY <1>5, MulMono
  <2>2. R * b <= g * b
    BY <1>2, <1>3, <1>4, <2>1, MulNat
  <2> QED  BY <1>1, <2>2, MulCancel
<1>6. /\ OldReceives(new, old) = IF f <= A THEN f ELSE A
      /\ NewReceives(new, old) = IF f <= A THEN R ELSE g
  BY <1>1, <1>3, <1>4 DEF OldReceives, NewReceives, Asks
<1> QED  BY <1>1, <1>5, <1>6

\* A trade gives both sides what their prices ask for, at least.
Fair(t) ==
    /\ t.pays > 0 /\ t.receives > 0
    /\ t.receives >= Asks(t.price, t.pays)
    /\ t.pays >= Asks(t.old_price, t.receives)

\* Prices p = <<c, d>> and <<a, b>> that cross, with f and g for sale.
LEMMA FairExchange ==
    ASSUME NEW new \in Orders, NEW old \in Orders, Crosses(old.price, new.price),
           Asks(new.price, new.for_sale) > 0, Asks(old.price, old.for_sale) > 0
    PROVE  Fair([price |-> new.price, pays |-> OldReceives(new, old),
                 receives |-> NewReceives(new, old), old_price |-> old.price])
<1>0. /\ new.for_sale \in Nat /\ old.for_sale \in Nat /\ old.price[1] \in Nat \ {0} /\ old.price[2] \in Nat \ {0}
      /\ new.price[1] \in Nat \ {0} /\ new.price[2] \in Nat \ {0}
  BY DEF Orders, Prices
<1>a. PICK f \in Nat, g \in Nat : f = new.for_sale /\ g = old.for_sale
  BY <1>0
<1>b. PICK a \in Nat, b \in Nat : a = old.price[1] /\ b = old.price[2] /\ a > 0 /\ b > 0
  BY <1>0
<1>c. PICK c \in Nat, d \in Nat : c = new.price[1] /\ d = new.price[2] /\ c > 0 /\ d > 0
  BY <1>0
<1>1. /\ f = new.for_sale /\ g = old.for_sale /\ a = old.price[1] /\ b = old.price[2]
      /\ c = new.price[1] /\ d = new.price[2] /\ a > 0 /\ b > 0 /\ c > 0 /\ d > 0
  BY <1>a, <1>b, <1>c
<1>2. g * b \in Nat /\ f * a \in Nat /\ f * d \in Nat /\ a * c \in Nat /\ b * d \in Nat
  BY MulNat
<1>3. b * d <= a * c
  BY <1>1, <1>2 DEF Crosses
<1>4. PICK A \in Nat : A = (g * b) \div a /\ a * A <= g * b
  BY <1>1, <1>2, DivNat
<1>5. PICK R \in Nat : R = (f * a) \div b /\ b * R <= f * a
  BY <1>1, <1>2, DivNat
<1>6. /\ OldReceives(new, old) = IF f <= A THEN f ELSE A
      /\ NewReceives(new, old) = IF f <= A THEN R ELSE g
  BY <1>1, <1>4, <1>5 DEF OldReceives, NewReceives, Asks
<1>7. PICK Q \in Nat : Q = (f * d) \div c /\ c * Q <= f * d /\ Q > 0 /\ A > 0
  <2>1. Asks(new.price, new.for_sale) = (f * d) \div c /\ Asks(old.price, old.for_sale) = A
    BY <1>1, <1>4 DEF Asks
  <2> QED  BY <1>1, <1>2, <2>1, DivNat
\* Whatever the new order pays is worth at least as much at the old price.
<1>8. ASSUME NEW x \in Nat, NEW y \in Nat, c * y <= x * d PROVE y * b <= x * a
  <2>1. (c * y) * b <= (x * d) * b
    BY <1>8, MulNat, MulMono
  <2>2. (b * d) * x <= (a * c) * x
    BY <1>2, <1>3, MulMono
  <2>3. (c * y) * b = (y * b) * c /\ (x * d) * b = (b * d) * x /\ (a * c) * x = (x * a) * c
    OBVIOUS
  <2>4. (y * b) \in Nat /\ (x * a) \in Nat /\ (y * b) * c \in Nat /\ (b * d) * x \in Nat /\ (x * a) * c \in Nat
    BY <1>2, MulNat
  <2>5. (y * b) * c <= (x * a) * c
    BY <2>1, <2>2, <2>3, <2>4
  <2> QED  BY <1>1, <2>4, <2>5, MulCancel
<1>9. CASE f <= A
  <2>1. Q * b <= f * a
    BY <1>7, <1>8
  <2>2. Q <= R
    <3>1. b * Q <= f * a
      BY <2>1
    <3> QED  BY <1>1, <1>2, <1>5, <3>1, DivBounds
  <2>3. f > 0
    <3> SUFFICES ASSUME f = 0 PROVE FALSE
      OBVIOUS
    <3>1. c * Q > 0
      BY <1>1, <1>7, MulStrict
    <3> QED  BY <1>7, <3>1
  <2>4. (R * b) \div a <= f /\ (R * b) \div a \in Nat
    <3>1. R * b <= a * f /\ R * b \in Nat
      BY <1>5, MulNat
    <3> QED  BY <1>1, <3>1, DivBounds
  <2>5. Asks(new.price, f) = Q /\ Asks(old.price, R) = (R * b) \div a
    BY <1>1, <1>7 DEF Asks
  <2> QED  BY <1>6, <1>7, <1>9, <2>2, <2>3, <2>4, <2>5 DEF Fair
<1>10. CASE A < f
  <2>1. PICK Y \in Nat : Y = (A * d) \div c /\ c * Y <= A * d
    <3>1. A * d \in Nat
      BY MulNat
    <3> QED  BY <1>1, <3>1, DivNat
  <2>2. Y <= g
    <3>1. Y * b <= A * a
      BY <2>1, <1>8
    <3>2. Y * b <= g * b
      BY <1>2, <1>4, <3>1, MulNat
    <3> QED  BY <1>1, <3>2, MulCancel
  <2>3. g > 0
    <3> SUFFICES ASSUME g = 0 PROVE FALSE
      OBVIOUS
    <3>1. a * A > 0
      BY <1>1, <1>7, MulStrict
    <3> QED  BY <1>4, <3>1
  <2>4. Asks(new.price, A) = Y /\ Asks(old.price, g) = A
    BY <1>1, <1>4, <2>1 DEF Asks
  <2>5. ~ (f <= A)
    BY <1>10
  <2> QED  BY <1>6, <1>7, <2>2, <2>3, <2>4, <2>5 DEF Fair
<1> QED  BY <1>9, <1>10

\* match exchanges without loss, and one of the two orders is used up.
LEMMA Match ==
    ASSUME NEW st \in Markets, NEW n \in 1 .. Len(st.book), NEW i \in 1 .. Len(st.book),
           st.book[i].sells # st.book[n].sells
    PROVE  /\ Follows(st, match(st, n, i))
           /\ \A b \in Assets : Wealth(match(st, n, i), b) = Wealth(st, b)
           /\ AtRest(match(st, n, i).book[n]) /\ AtRest(match(st, n, i).book[i])
           /\ match(st, n, i).book[n].for_sale = 0 \/ match(st, n, i).book[i].for_sale = 0
           /\ \A j \in (1 .. Len(st.book)) \ {n, i} : match(st, n, i).book[j] = st.book[j]
           /\ \E t \in Fills :
                /\ match(st, n, i).trades = Append(st.trades, t)
                /\ t = [price |-> st.book[n].price, pays |-> OldReceives(st.book[n], st.book[i]),
                        receives |-> NewReceives(st.book[n], st.book[i]), old_price |-> st.book[i].price]
<1> DEFINE new == st.book[n]
           old == st.book[i]
           p == OldReceives(new, old)
           q == NewReceives(new, old)
           one == fill_order(st, n, p, q)
           two == fill_order(one, i, q, p)
           t == [price |-> new.price, pays |-> p, receives |-> q, old_price |-> old.price]
           r == match(st, n, i)
<1>1. r = Market(two.money, two.book, Append(two.trades, t))
  BY DEF match
<1>2. st.book \in Seq(Orders) /\ st.trades \in Seq(Fills) /\ \A b \in Assets : Wealth(st, b) \in Int
  BY WealthType
<1>3. /\ new \in Orders /\ old \in Orders /\ new.price \in Prices /\ old.price \in Prices
      /\ new.sells \in Assets /\ old.sells \in Assets /\ new.sells # old.sells /\ n # i
  BY <1>2, InBook
<1>4. p \in Nat /\ q \in Nat /\ p <= new.for_sale /\ q <= old.for_sale /\ (p = new.for_sale \/ q = old.for_sale)
  BY <1>3, Exchanged
<1>5. t \in Fills
  BY <1>3, <1>4 DEF Fills
<1> HIDE DEF p, q
<1>6. /\ Follows(st, one) /\ AtRest(one.book[n]) /\ (p = new.for_sale => one.book[n].for_sale = 0)
      /\ \A b \in Assets : Wealth(one, b) = Wealth(st, b) + (IF b = new.sells THEN 0 - p ELSE q)
      /\ \A j \in (1 .. Len(st.book)) \ {n} : one.book[j] = st.book[j]
      /\ one.trades = st.trades
  BY <1>4, FillOrder
<1> HIDE DEF one
<1>7. one \in Markets /\ i \in 1 .. Len(one.book) /\ n \in 1 .. Len(one.book) /\ Len(one.book) = Len(st.book)
  BY <1>6 DEF Follows, SameOrders
<1>8. one.book[i] = old
  BY <1>3, <1>6
<1>9. /\ Follows(one, two) /\ AtRest(two.book[i]) /\ (q = old.for_sale => two.book[i].for_sale = 0)
      /\ \A b \in Assets : Wealth(two, b) = Wealth(one, b) + (IF b = old.sells THEN 0 - q ELSE p)
      /\ \A j \in (1 .. Len(one.book)) \ {i} : two.book[j] = one.book[j]
      /\ two.trades = one.trades
  BY <1>4, <1>7, <1>8, FillOrder, SMTT(30)
<1> HIDE DEF two
<1>10. Follows(st, two)
  BY <1>6, <1>9 DEF Follows, SameOrders
<1>11. two \in Markets /\ two.money \in Monies /\ two.book \in Seq(Orders) /\ two.trades \in Seq(Fills)
  BY <1>10, WealthType DEF Follows
<1>12. Append(two.trades, t) \in Seq(Fills)
  <2> HIDE DEF t
  <2> QED  BY <1>5, <1>11
<1> HIDE DEF r, t
<1>13. r \in Markets /\ r.money = two.money /\ r.book = two.book /\ r.trades = Append(two.trades, t)
  <2> DEFINE T == Append(two.trades, t)
  <2>1. r = Market(two.money, two.book, T) /\ T \in Seq(Fills)
    BY <1>1, <1>12
  <2> HIDE DEF T
  <2>2. r \in Markets /\ r.money = two.money /\ r.book = two.book /\ r.trades = T
    BY <1>11, <2>1, MarketType
  <2> QED  BY <2>2 DEF T
<1>14. Follows(st, r)
  BY <1>10, <1>13 DEF Follows
<1>15. ASSUME NEW b \in Assets PROVE Wealth(r, b) = Wealth(st, b)
  <2>1. Wealth(r, b) = Wealth(two, b)
    BY <1>13 DEF Wealth
  <2>2. b = new.sells <=> b # old.sells
    BY <1>3 DEF Assets
  <2>3. Wealth(two, b) = Wealth(one, b) + (IF b = old.sells THEN 0 - q ELSE p)
        /\ Wealth(one, b) = Wealth(st, b) + (IF b = new.sells THEN 0 - p ELSE q)
    BY <1>6, <1>9
  <2> HIDE DEF new, old
  <2> QED  BY <1>2, <1>4, <2>1, <2>2, <2>3
<1>16. two.book[n] = one.book[n] /\ \A j \in (1 .. Len(st.book)) \ {n, i} : two.book[j] = st.book[j]
  BY <1>3, <1>6, <1>7, <1>9
<1>17. /\ AtRest(r.book[n]) /\ AtRest(r.book[i]) /\ (r.book[n].for_sale = 0 \/ r.book[i].for_sale = 0)
       /\ \A j \in (1 .. Len(st.book)) \ {n, i} : r.book[j] = st.book[j]
  BY <1>4, <1>6, <1>9, <1>13, <1>16
<1>18. r.trades = Append(st.trades, t) /\ t \in Fills
  BY <1>5, <1>6, <1>9, <1>13
<1> QED  BY <1>14, <1>15, <1>17, <1>18 DEF r, t, p, q

-----------------------------------------------------------------------------
(* The order of matching. *)

LEMMA PriceOrder ==
    ASSUME NEW p1 \in Nat, NEW p2 \in Nat, NEW q1 \in Nat, NEW q2 \in Nat, NEW r1 \in Nat, NEW r2 \in Nat,
           q2 > 0, p2 > 0, r2 > 0,
           p1 * q2 >= q1 * p2, q1 * r2 >= r1 * q2
    PROVE  /\ p1 * r2 >= r1 * p2
           /\ (p1 * q2 > q1 * p2 \/ q1 * r2 > r1 * q2) => p1 * r2 > r1 * p2
<1>1. /\ (p1 * q2) \in Nat /\ (q1 * p2) \in Nat /\ (q1 * r2) \in Nat /\ (r1 * q2) \in Nat
      /\ (p1 * r2) \in Nat /\ (r1 * p2) \in Nat
  BY MulNat
<1>2. /\ (p1 * q2) * r2 = (p1 * r2) * q2 /\ (q1 * p2) * r2 = (q1 * r2) * p2
      /\ (r1 * q2) * p2 = (r1 * p2) * q2
  BY MulAssoc
<1>3. (p1 * q2) * r2 >= (q1 * p2) * r2 /\ (p1 * q2 > q1 * p2 => (p1 * q2) * r2 > (q1 * p2) * r2)
  BY <1>1, MulMono, MulStrict
<1>4. (q1 * r2) * p2 >= (r1 * q2) * p2 /\ (q1 * r2 > r1 * q2 => (q1 * r2) * p2 > (r1 * q2) * p2)
  BY <1>1, MulMono, MulStrict
<1>5. /\ (p1 * r2) * q2 \in Nat /\ (r1 * p2) * q2 \in Nat /\ (q1 * r2) * p2 \in Nat
  BY <1>1, MulNat
<1>6. /\ (p1 * r2) * q2 >= (r1 * p2) * q2
      /\ p1 * q2 > q1 * p2 \/ q1 * r2 > r1 * q2 => (p1 * r2) * q2 > (r1 * p2) * q2
  BY <1>2, <1>3, <1>4, <1>5
<1>7. p1 * r2 >= r1 * p2
  BY <1>1, <1>6, MulCancel
<1>8. ASSUME p1 * q2 > q1 * p2 \/ q1 * r2 > r1 * q2 PROVE p1 * r2 > r1 * p2
  <2> SUFFICES ASSUME p1 * r2 <= r1 * p2 PROVE FALSE
    BY <1>1
  <2>1. (p1 * r2) * q2 <= (r1 * p2) * q2
    BY <1>1, MulMono
  <2> QED  BY <1>5, <1>6, <1>8, <2>1
<1> QED  BY <1>7, <1>8

\* by_price orders any two orders, and is transitive.
LEMMA BeforeOrders ==
    ASSUME NEW book \in Seq(Orders), NEW i \in 1 .. Len(book), NEW j \in 1 .. Len(book), NEW k \in 1 .. Len(book)
    PROVE  /\ i # j => Before(book, i, j) \/ Before(book, j, i)
           /\ Before(book, i, j) /\ Before(book, j, k) => Before(book, i, k)
<1>1. book[i].price \in Prices /\ book[j].price \in Prices /\ book[k].price \in Prices
  BY InBook
<1>2. PICK p1 \in Nat, p2 \in Nat : p1 = book[i].price[1] /\ p2 = book[i].price[2] /\ p2 > 0
  BY <1>1, SMTT(30) DEF Prices
<1>3. PICK q1 \in Nat, q2 \in Nat : q1 = book[j].price[1] /\ q2 = book[j].price[2] /\ q2 > 0
  BY <1>1 DEF Prices
<1>4. PICK r1 \in Nat, r2 \in Nat : r1 = book[k].price[1] /\ r2 = book[k].price[2] /\ r2 > 0
  BY <1>1, SMTT(30) DEF Prices
<1>5. /\ (p1 * q2) \in Nat /\ (q1 * p2) \in Nat /\ (q1 * r2) \in Nat /\ (r1 * q2) \in Nat
      /\ (p1 * r2) \in Nat /\ (r1 * p2) \in Nat
  BY MulNat
<1>6. /\ Before(book, i, j) <=> (p1 * q2 > q1 * p2 \/ (p1 * q2 = q1 * p2 /\ i < j))
      /\ Before(book, j, i) <=> (q1 * p2 > p1 * q2 \/ (q1 * p2 = p1 * q2 /\ j < i))
      /\ Before(book, j, k) <=> (q1 * r2 > r1 * q2 \/ (q1 * r2 = r1 * q2 /\ j < k))
      /\ Before(book, i, k) <=> (p1 * r2 > r1 * p2 \/ (p1 * r2 = r1 * p2 /\ i < k))
  BY <1>2, <1>3, <1>4 DEF Before
<1>7. i # j => Before(book, i, j) \/ Before(book, j, i)
  BY <1>5, <1>6
<1>8. ASSUME Before(book, i, j), Before(book, j, k) PROVE Before(book, i, k)
  <2>1. p1 * q2 >= q1 * p2 /\ q1 * r2 >= r1 * q2
    BY <1>5, <1>6, <1>8
  <2>2. /\ p1 * r2 >= r1 * p2
        /\ p1 * q2 > q1 * p2 \/ q1 * r2 > r1 * q2 => p1 * r2 > r1 * p2
    <3>1. q2 > 0 /\ p2 > 0 /\ r2 > 0
      BY <1>2, <1>3, <1>4
    <3> QED  BY <2>1, <3>1, PriceOrder
  <2> QED  BY <1>5, <1>6, <1>8, <2>1, <2>2
<1> QED  BY <1>7, <1>8

\* The last of some orders is one of them.
LEMMA WorstPicks ==
    ASSUME NEW book \in Seq(Orders), NEW S \in SUBSET (1 .. Len(book)), S # {}
    PROVE  Worst(book, S) \in S
<1> DEFINE D == 1 .. Len(book)
           IsWorst(T, i) == i \in T /\ \A j \in T \ {i} : Before(book, j, i)
           F == {T \in SUBSET D : T = {} \/ \E i \in T : IsWorst(T, i)}
<1>0. IsFiniteSet(D)
  BY FS_Interval
<1>1. {} \in F
  OBVIOUS
<1>2. ASSUME NEW T \in F, NEW x \in D \ T PROVE T \cup {x} \in F
  <2>1. CASE T = {}
    <3>1. IsWorst(T \cup {x}, x)
      BY <2>1
    <3> QED  BY <3>1
  <2>2. CASE T # {}
    <3>1. PICK i \in T : IsWorst(T, i)
      BY <2>2
    <3>2. i \in D /\ x \in D /\ i # x
      OBVIOUS
    <3>3. CASE Before(book, x, i)
      <4>1. IsWorst(T \cup {x}, i)
        BY <3>1, <3>3
      <4> QED  BY <4>1
    <3>4. CASE Before(book, i, x)
      <4>1. ASSUME NEW j \in T PROVE Before(book, j, x)
        <5>1. j \in D
          OBVIOUS
        <5>2. CASE j = i
          BY <3>4, <5>2
        <5>3. CASE j # i
          <6>1. Before(book, j, i)
            BY <3>1, <5>3
          <6> QED  BY <3>2, <3>4, <5>1, <6>1, BeforeOrders
        <5> QED  BY <5>2, <5>3
      <4>2. IsWorst(T \cup {x}, x)
        BY <4>1
      <4> QED  BY <4>2
    <3> QED  BY <3>2, <3>3, <3>4, BeforeOrders
  <2> QED  BY <2>1, <2>2
<1>3. F \in SUBSET (SUBSET D)
  OBVIOUS
<1>4. F = SUBSET D
  <2> HIDE DEF F, D
  <2> QED  BY <1>0, <1>1, <1>2, <1>3, SetInduction
<1>5. \E i \in S : \A j \in S \ {i} : Before(book, j, i)
  BY <1>4
<1> QED  BY <1>5 DEF Worst

\* The markets that differ from another in what is left of the orders.
Variants(st) == {m \in Markets : SameOrders(st.book, m.book)}

\* One order of the book against the new one.
MatchOne(st, n, i) == IF st.book[n].for_sale = 0 THEN st ELSE match(st, n, i)

\* g[s] is the market once the new order has met the orders s, c[s] last.
MatchesInOrder(g, c, st, n, S) ==
    /\ g[{}] = st
    /\ \A s \in SUBSET S : /\ g[s] \in Variants(st)
                           /\ s # {} => g[s] = MatchOne(g[s \ {c[s]}], n, c[s])

LEMMA VariantsMatch ==
    ASSUME NEW st \in Markets, NEW m \in Variants(st), NEW n \in 1 .. Len(st.book), NEW i \in 1 .. Len(st.book),
           st.book[i].sells # st.book[n].sells
    PROVE  /\ MatchOne(m, n, i) \in Variants(st)
           /\ m \in Markets /\ n \in 1 .. Len(m.book) /\ i \in 1 .. Len(m.book)
           /\ m.book[i].sells # m.book[n].sells
<1>1. /\ m \in Markets /\ n \in 1 .. Len(m.book) /\ i \in 1 .. Len(m.book)
      /\ m.book[i].sells # m.book[n].sells
  BY DEF Variants, SameOrders
<1>2. Follows(m, match(m, n, i))
  BY <1>1, Match
<1>3. match(m, n, i) \in Variants(st)
  BY <1>2 DEF Variants, Follows, SameOrders
<1> QED  BY <1>1, <1>3 DEF MatchOne

LEMMA ApplyOrderFold ==
    ASSUME NEW st \in Markets, NEW n \in 1 .. Len(st.book)
    PROVE  \E g, c : /\ Picks(c, Candidates(st.book, n))
                     /\ MatchesInOrder(g, c, st, n, Candidates(st.book, n))
                     /\ apply_order(st, n) = g[Candidates(st.book, n)]
<1> DEFINE S == Candidates(st.book, n)
           Eq(h) == h = [s \in SUBSET S |->
                           IF s = {} THEN st ELSE MatchOne(h[s \ {Worst(st.book, s)}], n, Worst(st.book, s))]
           it == CHOOSE h : Eq(h)
           c == [s \in SUBSET S |-> Worst(st.book, s)]
           V == Variants(st)
           step == [p \in S \X V |-> MatchOne(p[2], n, p[1])]
<1>1. apply_order(st, n) = it[S]
  BY DEF apply_order, MapThenFoldSet, MatchOne
<1>2. st.book \in Seq(Orders)
  BY WealthType
<1>3. \A i \in S : i \in 1 .. Len(st.book) /\ st.book[i].sells # st.book[n].sells
  BY <1>2 DEF Candidates
<1>4. IsFiniteSet(S)
  <2>1. IsFiniteSet(1 .. Len(st.book)) /\ S \subseteq 1 .. Len(st.book)
    BY <1>2, <1>3, FS_Interval
  <2> QED  BY <2>1, FS_Subset
<1>5. ASSUME NEW s \in SUBSET S, s # {} PROVE Worst(st.book, s) \in s /\ c[s] = Worst(st.book, s)
  <2>1. s \in SUBSET (1 .. Len(st.book))
    BY <1>3
  <2> QED  BY <1>2, <1>5, <2>1, WorstPicks
<1>6. Picks(c, S)
  BY <1>5 DEF Picks
<1>7. st \in V
  BY DEF Variants, SameOrders
<1> HIDE DEF S, V
<1>8. step \in [S \X V -> V]
  <2>1. ASSUME NEW p \in S \X V PROVE MatchOne(p[2], n, p[1]) \in V
    <3>1. PICK i \in S, m \in V : p[1] = i /\ p[2] = m
      OBVIOUS
    <3>2. MatchOne(m, n, i) \in V
      BY <1>3, VariantsMatch DEF V
    <3> QED  BY <3>1, <3>2
  <2> QED  BY <2>1
<1>9. ASSUME NEW h \in [SUBSET S -> V] PROVE Recursion(h, S, st, c, step) => Eq(h)
  <2> SUFFICES ASSUME Recursion(h, S, st, c, step) PROVE Eq(h)
    OBVIOUS
  <2>1. ASSUME NEW s \in SUBSET S, s # {}
        PROVE  h[s] = MatchOne(h[s \ {Worst(st.book, s)}], n, Worst(st.book, s))
    <3>1. h[s] = step[<<c[s], h[s \ {c[s]}]>>]
      BY <2>1 DEF Recursion
    <3>2. c[s] \in S /\ h[s \ {c[s]}] \in V
      BY <1>6, <2>1 DEF Picks
    <3>3. c[s] = Worst(st.book, s)
      BY <1>5, <2>1
    <3> HIDE DEF c
    <3> QED  BY <3>1, <3>2, <3>3
  <2>2. ASSUME NEW s \in SUBSET S
        PROVE  h[s] = IF s = {} THEN st ELSE MatchOne(h[s \ {Worst(st.book, s)}], n, Worst(st.book, s))
    BY <2>1 DEF Recursion
  <2> QED  BY <2>2
<1>10. PICK g \in [SUBSET S -> V] : Recursion(g, S, st, c, step)
  <2> HIDE DEF c, step
  <2> QED  BY <1>4, <1>6, <1>7, <1>8, RecursionExists
<1>11. Eq(it)
  <2>1. Eq(g)
    BY <1>9, <1>10
  <2> QED  BY <2>1
<1>12. \A s \in SUBSET S : it[s] = IF s = {} THEN st ELSE MatchOne(it[s \ {Worst(st.book, s)}], n, Worst(st.book, s))
  BY <1>11
<1> HIDE DEF it, Eq
<1>13. it[{}] = st
  BY <1>12
<1>14. ASSUME NEW s \in SUBSET S, s # {} PROVE it[s] = MatchOne(it[s \ {c[s]}], n, c[s])
  <2>1. c[s] = Worst(st.book, s)
    BY <1>5, <1>14
  <2> HIDE DEF c
  <2> QED  BY <1>12, <1>14, <2>1
<1>15. \A s \in SUBSET S : it[s] \in V
  <2>1. ASSUME NEW s \in SUBSET S, s # {}, it[s \ {c[s]}] \in V
        PROVE  it[s] = step[<<c[s], it[s \ {c[s]}]>>]
    <3>1. c[s] \in S
      BY <1>6, <2>1 DEF Picks
    <3> HIDE DEF c
    <3>2. step[<<c[s], it[s \ {c[s]}]>>] = MatchOne(it[s \ {c[s]}], n, c[s])
      BY <2>1, <3>1
    <3> QED  BY <1>14, <2>1, <3>2
  <2> HIDE DEF c, step
  <2>2. Computes(it, S, V, c, step)
    BY <1>7, <1>13, <2>1 DEF Computes
  <2> QED  BY <1>4, <1>6, <1>8, <2>2, RecursionTyped
<1> HIDE DEF c
<1>16. MatchesInOrder(it, c, st, n, S)
  BY <1>13, <1>14, <1>15 DEF MatchesInOrder, V
<1> QED  BY <1>1, <1>6, <1>16 DEF S

\* Every order of a book asks for something.
Alive(book) == \A i \in 1 .. Len(book) : book[i].for_sale > 0 /\ Asks(book[i].price, book[i].for_sale) > 0

AllFair(filled) == \A k \in 1 .. Len(filled) : Fair(filled[k])

\* The market r after the new order n of st has met the orders s.
Met(r, st, n, s) ==
    /\ r.money.time = st.money.time
    /\ \A b \in Assets : Wealth(r, b) = Wealth(st, b)
    /\ \A j \in 1 .. Len(st.book) : AtRest(r.book[j])
    /\ \A j \in 1 .. Len(st.book) : j # n /\ j \notin s => r.book[j] = st.book[j]
    /\ r.book[n].for_sale = 0 \/ \A i \in s : r.book[i].for_sale = 0
    /\ AllFair(r.trades)

\* The new order meets one more order.
LEMMA MeetOne ==
    ASSUME NEW st \in Markets, NEW n \in 1 .. Len(st.book), Alive(st.book),
           NEW m \in Variants(st), NEW s \in SUBSET Candidates(st.book, n),
           NEW i \in Candidates(st.book, n), i \notin s, Met(m, st, n, s)
    PROVE  Met(MatchOne(m, n, i), st, n, s \cup {i})
<1> DEFINE r == match(m, n, i)
<1>0. m \in Markets /\ m.book \in Seq(Orders) /\ m.trades \in Seq(Fills) /\ st.book \in Seq(Orders)
  BY WealthType DEF Variants
<1>1. /\ i \in 1 .. Len(st.book) /\ st.book[i].sells # st.book[n].sells /\ i # n
      /\ Crosses(st.book[i].price, st.book[n].price)
      /\ \A j \in s : j \in 1 .. Len(st.book) /\ j # n
  BY <1>0 DEF Candidates
<1>2. /\ n \in 1 .. Len(m.book) /\ i \in 1 .. Len(m.book) /\ Len(m.book) = Len(st.book)
      /\ m.book[i].sells # m.book[n].sells
      /\ m.book[i].price = st.book[i].price /\ m.book[n].price = st.book[n].price
  BY <1>1 DEF Variants, SameOrders
<1>3. CASE m.book[n].for_sale = 0
  BY <1>3 DEF Met, MatchOne
<1>4. CASE m.book[n].for_sale # 0
  <2>1. /\ Follows(m, r) /\ \A b \in Assets : Wealth(r, b) = Wealth(m, b)
        /\ AtRest(r.book[n]) /\ AtRest(r.book[i]) /\ (r.book[n].for_sale = 0 \/ r.book[i].for_sale = 0)
        /\ \A j \in (1 .. Len(m.book)) \ {n, i} : r.book[j] = m.book[j]
    BY <1>0, <1>2, Match
  <2>2. PICK t \in Fills :
           /\ r.trades = Append(m.trades, t)
           /\ t = [price |-> m.book[n].price, pays |-> OldReceives(m.book[n], m.book[i]),
                   receives |-> NewReceives(m.book[n], m.book[i]), old_price |-> m.book[i].price]
    BY <1>0, <1>2, Match
  <2>3. Asks(m.book[n].price, m.book[n].for_sale) > 0
    BY <1>4 DEF Met, AtRest
  <2>4. m.book[i] = st.book[i] /\ Asks(m.book[i].price, m.book[i].for_sale) > 0
    BY <1>1 DEF Met, Alive
  <2>5. Crosses(m.book[i].price, m.book[n].price)
    BY <1>1, <1>2
  <2>6. Fair(t)
    <3>1. m.book[n] \in Orders /\ m.book[i] \in Orders
      BY <1>0, <1>2, InBook
    <3> QED  BY <2>2, <2>3, <2>4, <2>5, <3>1, FairExchange
  <2> HIDE DEF r
  <2>7. AllFair(r.trades)
    <3>1. AllFair(m.trades)
      BY DEF Met
    <3>2. /\ Len(r.trades) = Len(m.trades) + 1 /\ r.trades[Len(m.trades) + 1] = t
          /\ \A k \in 1 .. Len(m.trades) : r.trades[k] = m.trades[k]
      BY <1>0, <2>2, AppendProperties
    <3>3. Len(m.trades) \in Nat
      BY <1>0
    <3> QED  BY <2>6, <3>1, <3>2, <3>3 DEF AllFair
  <2>8. r.money.time = st.money.time /\ \A b \in Assets : Wealth(r, b) = Wealth(st, b)
    BY <2>1 DEF Met, Follows
  <2>9. \A j \in 1 .. Len(st.book) : AtRest(r.book[j])
    BY <1>2, <2>1 DEF Met
  <2>10. \A j \in 1 .. Len(st.book) : j # n /\ j \notin s \cup {i} => r.book[j] = st.book[j]
    BY <1>2, <2>1 DEF Met
  <2>11. r.book[n].for_sale = 0 \/ \A j \in s \cup {i} : r.book[j].for_sale = 0
    <3>1. \A j \in s : m.book[j].for_sale = 0 /\ r.book[j] = m.book[j]
      BY <1>1, <1>2, <1>4, <2>1 DEF Met
    <3> QED  BY <2>1, <3>1
  <2>12. MatchOne(m, n, i) = r
    BY <1>4 DEF MatchOne, r
  <2> QED  BY <2>7, <2>8, <2>9, <2>10, <2>11, <2>12 DEF Met
<1> QED  BY <1>3, <1>4

\* apply_order loses nothing, trades fairly, and leaves no order that the new
\* one could still be matched with.
LEMMA ApplyOrder ==
    ASSUME NEW st \in Markets, NEW n \in 1 .. Len(st.book), Alive(st.book), AllFair(st.trades)
    PROVE  /\ apply_order(st, n) \in Variants(st)
           /\ Met(apply_order(st, n), st, n, Candidates(st.book, n))
<1> DEFINE S == Candidates(st.book, n)
<1>1. PICK g, c : Picks(c, S) /\ MatchesInOrder(g, c, st, n, S) /\ apply_order(st, n) = g[S]
  BY ApplyOrderFold
<1> DEFINE F == {s \in SUBSET S : Met(g[s], st, n, s)}
<1>2. IsFiniteSet(S)
  <2>1. st.book \in Seq(Orders)
    BY WealthType
  <2>2. \A i \in S : i \in 1 .. Len(st.book)
    BY <2>1 DEF Candidates
  <2>3. IsFiniteSet(1 .. Len(st.book)) /\ S \subseteq 1 .. Len(st.book)
    BY <2>1, <2>2, FS_Interval
  <2> QED  BY <2>3, FS_Subset
<1>3. {} \in F
  <2>1. \A j \in 1 .. Len(st.book) : AtRest(st.book[j])
    BY DEF AtRest, Alive
  <2>2. Met(st, st, n, {})
    BY <2>1 DEF Met
  <2> QED  BY <1>1, <2>2 DEF MatchesInOrder
<1>4. ASSUME NEW s \in SUBSET S, s # {}, s \ {c[s]} \in F PROVE s \in F
  <2> DEFINE i == c[s]
             u == s \ {c[s]}
  <2>1. i \in S /\ i \notin u /\ u \in SUBSET S /\ u \cup {i} = s
    BY <1>1, <1>4 DEF Picks
  <2>2. Met(g[u], st, n, u) /\ g[u] \in Variants(st) /\ g[s] = MatchOne(g[u], n, i)
    BY <1>1, <1>4, <2>1 DEF MatchesInOrder
  <2> HIDE DEF i, u, S
  <2>3. Met(MatchOne(g[u], n, i), st, n, u \cup {i})
    BY <2>1, <2>2, MeetOne DEF S
  <2>4. Met(g[s], st, n, s)
    BY <2>1, <2>2, <2>3
  <2> QED  BY <2>4
<1>5. F \in SUBSET (SUBSET S)
  OBVIOUS
<1> HIDE DEF F, S
<1>6. F = SUBSET S
  BY <1>1, <1>2, <1>3, <1>4, <1>5, RemovalInduction
<1> QED  BY <1>1, <1>6 DEF F, S, MatchesInOrder

-----------------------------------------------------------------------------
(* The orders that stay. *)

LEMMA MaxPicks ==
    ASSUME NEW n \in Nat, NEW S \in SUBSET (1 .. n), S # {}
    PROVE  Max(S) \in S
<1> DEFINE D == 1 .. n
           F == {T \in SUBSET D : T = {} \/ \E i \in T : \A j \in T : i >= j}
<1>0. IsFiniteSet(D)
  BY FS_Interval
<1>1. {} \in F
  OBVIOUS
<1>2. ASSUME NEW T \in F, NEW x \in D \ T PROVE T \cup {x} \in F
  <2>1. CASE T = {}
    BY <2>1
  <2>2. CASE T # {}
    <3>1. PICK i \in T : \A j \in T : i >= j
      BY <2>2
    <3>2. i \in Int /\ x \in Int /\ \A j \in T : j \in Int
      OBVIOUS
    <3>3. CASE i >= x
      BY <3>1, <3>3
    <3>4. CASE x >= i
      <4>1. \A j \in T \cup {x} : x >= j
        BY <3>1, <3>2, <3>4
      <4> QED  BY <4>1
    <3> QED  BY <3>2, <3>3, <3>4
  <2> QED  BY <2>1, <2>2
<1>3. F \in SUBSET (SUBSET D)
  OBVIOUS
<1>4. F = SUBSET D
  <2> HIDE DEF F, D
  <2> QED  BY <1>0, <1>1, <1>2, <1>3, SetInduction
<1>5. \E i \in S : \A j \in S : i >= j
  BY <1>4
<1> QED  BY <1>5 DEF Max

\* One more order.
LEMMA OnSaleAppend ==
    ASSUME NEW q \in Seq(Orders), NEW o \in Orders, NEW asset
    PROVE  /\ Append(q, o) \in Seq(Orders)
           /\ OnSale(Append(q, o), asset) = OnSale(q, asset) + Offered(o, asset)
<1> DEFINE r == Append(q, o)
           n == Len(q)
           f == [i \in 1 .. n |-> Offered(q[i], asset)]
           g == [i \in 1 .. n + 1 |-> Offered(r[i], asset)]
<1>1. /\ r \in Seq(Orders) /\ Len(r) = n + 1 /\ r[n + 1] = o /\ n \in Nat
      /\ \A i \in 1 .. n : r[i] = q[i]
  BY AppendProperties
<1> HIDE DEF r, n
<1>2. DOMAIN r = 1 .. n + 1 /\ DOMAIN q = 1 .. n
  BY <1>1 DEF n
<1>3. OnSale(r, asset) = SumFunctionOnSet(g, 1 .. n + 1) /\ OnSale(q, asset) = SumFunctionOnSet(f, 1 .. n)
  BY <1>2 DEF OnSale
<1>4. /\ \A i \in 1 .. n + 1 : g[i] \in Nat
      /\ \A i \in 1 .. n : f[i] \in Nat
  <2>1. \A i \in 1 .. n + 1 : r[i].for_sale \in Nat
    BY <1>1, InBook
  <2>2. \A i \in 1 .. n : q[i].for_sale \in Nat
    BY InBook DEF n
  <2> QED  BY <2>1, <2>2 DEF Offered
<1>5. \A i \in 1 .. n : g[i] = f[i]
  BY <1>1
<1>6. g[n + 1] = Offered(o, asset)
  BY <1>1
<1> DEFINE D == 1 .. n
           x == n + 1
<1>7. IsFiniteSet(D) /\ 1 .. n + 1 = D \cup {x} /\ x \notin D
  <2>1. IsFiniteSet(1 .. n)
    BY <1>1, FS_Interval
  <2>2. n \in Nat
    BY <1>1
  <2> QED  BY <2>1, <2>2
<1>8. IntOn(f, D) /\ IntOn(g, D) /\ IntOn(g, D \cup {x})
  BY <1>4, <1>7 DEF IntOn
<1> HIDE DEF f, g, D, x
<1>9. SumFunctionOnSet(g, D \cup {x}) = g[x] + SumFunctionOnSet(g, D) /\ SumFunctionOnSet(g, D) \in Int /\ g[x] \in Int
  BY <1>7, <1>8, SumInsert
<1>10. SumFunctionOnSet(f, D) = SumFunctionOnSet(g, D)
  BY <1>5, <1>7, <1>8, SumEqual DEF D
<1>11. OnSale(r, asset) = g[x] + OnSale(q, asset) /\ g[x] \in Int /\ OnSale(q, asset) \in Int
  BY <1>3, <1>7, <1>9, <1>10 DEF D
<1>12. OnSale(r, asset) = OnSale(q, asset) + g[x]
  BY <1>11
<1> QED  BY <1>1, <1>6, <1>12 DEF r, x

\* One order of the book stays unless it has been removed.
Keep(kept, o) == IF o.for_sale = 0 THEN kept ELSE Append(kept, o)

\* g[s] has the orders among s that stay, c[s] last.
KeepsInOrder(g, c, book, S) ==
    /\ g[{}] = <<>>
    /\ \A s \in SUBSET S : /\ g[s] \in Seq(Orders)
                           /\ s # {} => g[s] = Keep(g[s \ {c[s]}], book[c[s]])

LEMMA RestingFold ==
    ASSUME NEW book \in Seq(Orders)
    PROVE  \E g, c : /\ Picks(c, 1 .. Len(book))
                     /\ KeepsInOrder(g, c, book, 1 .. Len(book))
                     /\ Resting(book) = g[1 .. Len(book)]
<1> DEFINE S == 1 .. Len(book)
           Eq(h) == h = [s \in SUBSET S |-> IF s = {} THEN <<>> ELSE Keep(h[s \ {Max(s)}], book[Max(s)])]
           it == CHOOSE h : Eq(h)
           c == [s \in SUBSET S |-> Max(s)]
           V == Seq(Orders)
           step == [p \in S \X V |-> Keep(p[2], book[p[1]])]
<1>1. Resting(book) = it[S]
  <2>1. DOMAIN book = S
    OBVIOUS
  <2> QED  BY <2>1 DEF Resting, FoldLeft, MapThenFoldSet, Keep
<1>2. IsFiniteSet(S)
  BY FS_Interval
<1>3. ASSUME NEW s \in SUBSET S, s # {} PROVE Max(s) \in s /\ c[s] = Max(s)
  <2>1. PICK n \in Nat : n = Len(book)
    OBVIOUS
  <2>2. s \in SUBSET (1 .. n)
    BY <2>1
  <2>3. Max(s) \in s
    BY <1>3, <2>2, MaxPicks
  <2> QED  BY <2>3
<1>4. Picks(c, S)
  BY <1>3 DEF Picks
<1>5. \A i \in S : book[i] \in Orders
  OBVIOUS
<1>6. ASSUME NEW q \in V, NEW i \in S PROVE Keep(q, book[i]) \in V
  <2>1. PICK o \in Orders : o = book[i]
    BY <1>5
  <2>2. Append(q, o) \in V
    BY AppendProperties
  <2> QED  BY <2>1, <2>2 DEF Keep
<1>7. <<>> \in V
  OBVIOUS
<1> HIDE DEF S, V
<1>8. step \in [S \X V -> V]
  BY <1>6
<1>9. ASSUME NEW h \in [SUBSET S -> V] PROVE Recursion(h, S, <<>>, c, step) => Eq(h)
  <2> SUFFICES ASSUME Recursion(h, S, <<>>, c, step) PROVE Eq(h)
    OBVIOUS
  <2>1. ASSUME NEW s \in SUBSET S, s # {}
        PROVE  h[s] = Keep(h[s \ {Max(s)}], book[Max(s)])
    <3>1. h[s] = step[<<c[s], h[s \ {c[s]}]>>]
      BY <2>1 DEF Recursion
    <3>2. c[s] \in S /\ h[s \ {c[s]}] \in V
      BY <1>4, <2>1 DEF Picks
    <3>3. c[s] = Max(s)
      BY <1>3, <2>1
    <3> HIDE DEF c
    <3> QED  BY <3>1, <3>2, <3>3
  <2>2. ASSUME NEW s \in SUBSET S
        PROVE  h[s] = IF s = {} THEN <<>> ELSE Keep(h[s \ {Max(s)}], book[Max(s)])
    BY <2>1 DEF Recursion
  <2> QED  BY <2>2
<1>10. PICK g \in [SUBSET S -> V] : Recursion(g, S, <<>>, c, step)
  <2> HIDE DEF c, step
  <2> QED  BY <1>2, <1>4, <1>7, <1>8, RecursionExists
<1>11. Eq(it)
  <2>1. Eq(g)
    BY <1>9, <1>10
  <2> QED  BY <2>1
<1>12. \A s \in SUBSET S : it[s] = IF s = {} THEN <<>> ELSE Keep(it[s \ {Max(s)}], book[Max(s)])
  BY <1>11
<1> HIDE DEF it, Eq
<1>13. it[{}] = <<>>
  BY <1>12
<1>14. ASSUME NEW s \in SUBSET S, s # {} PROVE it[s] = Keep(it[s \ {c[s]}], book[c[s]])
  <2>1. c[s] = Max(s)
    BY <1>3, <1>14
  <2> HIDE DEF c
  <2> QED  BY <1>12, <1>14, <2>1
<1>15. \A s \in SUBSET S : it[s] \in V
  <2>1. ASSUME NEW s \in SUBSET S, s # {}, it[s \ {c[s]}] \in V
        PROVE  it[s] = step[<<c[s], it[s \ {c[s]}]>>]
    <3>1. c[s] \in S
      BY <1>4, <2>1 DEF Picks
    <3> HIDE DEF c
    <3>2. step[<<c[s], it[s \ {c[s]}]>>] = Keep(it[s \ {c[s]}], book[c[s]])
      BY <2>1, <3>1
    <3> QED  BY <1>14, <2>1, <3>2
  <2> HIDE DEF c, step
  <2>2. Computes(it, S, V, c, step)
    BY <1>7, <1>13, <2>1 DEF Computes
  <2> QED  BY <1>2, <1>4, <1>8, <2>2, RecursionTyped
<1> HIDE DEF c
<1>16. KeepsInOrder(it, c, book, S)
  BY <1>13, <1>14, <1>15 DEF KeepsInOrder, V
<1> QED  BY <1>1, <1>4, <1>16 DEF S

\* Every order of q is one of the orders s of book that have something left.
Kept(q, book, s) ==
    \A k \in 1 .. Len(q) : \E i \in s : q[k] = book[i] /\ book[i].for_sale # 0

\* What stays is what has something left, and nothing on sale is lost.
LEMMA RestingOrders ==
    ASSUME NEW book \in Seq(Orders)
    PROVE  /\ Resting(book) \in Seq(Orders)
           /\ Kept(Resting(book), book, 1 .. Len(book))
           /\ \A asset : OnSale(Resting(book), asset) = OnSale(book, asset)
<1> DEFINE S == 1 .. Len(book)
           f(asset) == [i \in S |-> Offered(book[i], asset)]
<1>1. PICK g, c : Picks(c, S) /\ KeepsInOrder(g, c, book, S) /\ Resting(book) = g[S]
  BY RestingFold
<1> DEFINE F == {s \in SUBSET S : /\ Kept(g[s], book, s)
                                  /\ \A asset : OnSale(g[s], asset) = SumFunctionOnSet(f(asset), s)}
<1>2. IsFiniteSet(S)
  BY FS_Interval
<1>3. \A i \in S : book[i] \in Orders /\ book[i].for_sale \in Nat
  BY InBook
<1>4. ASSUME NEW s \in SUBSET S, NEW asset PROVE IsFiniteSet(s) /\ IntOn(f(asset), s)
  <2>1. IsFiniteSet(s)
    BY <1>2, FS_Subset
  <2>2. ASSUME NEW i \in s PROVE f(asset)[i] \in Int
    BY <1>3 DEF Offered
  <2> HIDE DEF f
  <2> QED  BY <2>1, <2>2 DEF IntOn
<1>5. \A asset : OnSale(book, asset) = SumFunctionOnSet(f(asset), S)
  <2>1. DOMAIN book = S
    OBVIOUS
  <2> HIDE DEF S
  <2> QED  BY <2>1 DEF OnSale
<1> HIDE DEF S
<1>6. {} \in F
  <2>1. g[{}] = <<>> /\ Len(g[{}]) = 0
    BY <1>1 DEF KeepsInOrder
  <2>2. ASSUME NEW asset PROVE OnSale(g[{}], asset) = SumFunctionOnSet(f(asset), {})
    <3> DEFINE e == [i \in DOMAIN <<>> |-> Offered(<<>>[i], asset)]
    <3>1. OnSale(<<>>, asset) = SumFunctionOnSet(e, {})
      BY DEF OnSale
    <3>2. IsFiniteSet({}) /\ IntOn(e, {}) /\ IntOn(f(asset), {})
      BY FS_EmptySet DEF IntOn
    <3> HIDE DEF e, f
    <3>3. SumFunctionOnSet(e, {}) = 0 /\ SumFunctionOnSet(f(asset), {}) = 0
      BY <3>2, SumOnSet
    <3> QED  BY <2>1, <3>1, <3>3
  <2>3. Kept(g[{}], book, {})
    BY <2>1 DEF Kept
  <2> QED  BY <2>2, <2>3
<1>7. ASSUME NEW s \in SUBSET S, s # {}, s \ {c[s]} \in F PROVE s \in F
  <2> DEFINE i == c[s]
             u == s \ {c[s]}
             o == book[i]
  <2>1. i \in S /\ i \in s /\ i \notin u /\ u \in SUBSET S /\ u \cup {i} = s
    BY <1>1, <1>7 DEF Picks
  <2>2. /\ g[u] \in Seq(Orders) /\ g[s] = Keep(g[u], o) /\ Kept(g[u], book, u)
        /\ \A asset : OnSale(g[u], asset) = SumFunctionOnSet(f(asset), u)
    BY <1>1, <1>7, <2>1 DEF KeepsInOrder
  <2>3. o \in Orders /\ o.for_sale \in Nat
    BY <1>3, <2>1
  <2>4. ASSUME NEW asset
        PROVE  /\ SumFunctionOnSet(f(asset), s) = Offered(o, asset) + SumFunctionOnSet(f(asset), u)
               /\ SumFunctionOnSet(f(asset), u) \in Int /\ Offered(o, asset) \in Int
    <3>1. IsFiniteSet(s) /\ IntOn(f(asset), s)
      BY <1>4
    <3>2. f(asset)[i] = Offered(o, asset)
      BY <2>1
    <3> HIDE DEF f, i, o
    <3>3. /\ SumFunctionOnSet(f(asset), s \ {i}) \in Int /\ f(asset)[i] \in Int
          /\ SumFunctionOnSet(f(asset), s) = f(asset)[i] + SumFunctionOnSet(f(asset), s \ {i})
      BY <2>1, <3>1, SumAdd
    <3> QED  BY <3>2, <3>3 DEF i
  <2> HIDE DEF f
  <2>5. CASE o.for_sale = 0
    <3>1. g[s] = g[u]
      BY <2>2, <2>5 DEF Keep
    <3>2. Kept(g[s], book, s)
      BY <2>1, <2>2, <3>1 DEF Kept
    <3>3. ASSUME NEW asset PROVE OnSale(g[s], asset) = SumFunctionOnSet(f(asset), s)
      <4>1. Offered(o, asset) = 0
        BY <2>5 DEF Offered
      <4> HIDE DEF o, u
      <4> QED  BY <2>2, <2>4, <3>1, <4>1
    <3> QED  BY <3>2, <3>3
  <2>6. CASE o.for_sale # 0
    <3>1. g[s] = Append(g[u], o)
      BY <2>2, <2>6 DEF Keep
    <3> HIDE DEF o, u
    <3>2. Kept(g[s], book, s)
      <4>1. /\ Len(g[s]) = Len(g[u]) + 1 /\ g[s][Len(g[u]) + 1] = o /\ Len(g[u]) \in Nat
            /\ \A k \in 1 .. Len(g[u]) : g[s][k] = g[u][k]
        BY <2>2, <2>3, <3>1, AppendProperties
      <4>2. ASSUME NEW k \in 1 .. Len(g[s]) PROVE \E j \in s : g[s][k] = book[j] /\ book[j].for_sale # 0
        <5>1. CASE k = Len(g[u]) + 1
          BY <2>1, <2>6, <4>1, <5>1 DEF o
        <5>2. CASE k \in 1 .. Len(g[u])
          BY <2>1, <2>2, <4>1, <5>2 DEF Kept
        <5> QED  BY <4>1, <5>1, <5>2
      <4> QED  BY <4>2 DEF Kept
    <3>3. ASSUME NEW asset PROVE OnSale(g[s], asset) = SumFunctionOnSet(f(asset), s)
      <4>1. OnSale(g[s], asset) = OnSale(g[u], asset) + Offered(o, asset)
        BY <2>2, <2>3, <3>1, OnSaleAppend
      <4> QED  BY <2>2, <2>4, <4>1
    <3> QED  BY <3>2, <3>3
  <2> QED  BY <2>5, <2>6
<1>8. F \in SUBSET (SUBSET S)
  OBVIOUS
<1> HIDE DEF F
<1>9. F = SUBSET S
  BY <1>1, <1>2, <1>6, <1>7, <1>8, RemovalInduction
<1> HIDE DEF f
<1> QED  BY <1>1, <1>5, <1>9 DEF F, S, KeepsInOrder

-----------------------------------------------------------------------------
(* The orders that expire. *)

CancelAll(st, S) ==
    MapThenFoldSet(LAMBDA i, s : cancel_order(s, i), st, LAMBDA i : i, LAMBDA T : CHOOSE i \in T : TRUE, S)

\* g[s] is the market once the orders s have been cancelled, c[s] last.
CancelsInOrder(g, c, st, S) ==
    /\ g[{}] = st
    /\ \A s \in SUBSET S : /\ g[s] \in Variants(st)
                           /\ s # {} => g[s] = cancel_order(g[s \ {c[s]}], c[s])

LEMMA VariantsCancel ==
    ASSUME NEW st \in Markets, NEW m \in Variants(st), NEW i \in 1 .. Len(st.book)
    PROVE  /\ cancel_order(m, i) \in Variants(st)
           /\ m \in Markets /\ i \in 1 .. Len(m.book) /\ Len(m.book) = Len(st.book)
<1>1. m \in Markets /\ i \in 1 .. Len(m.book) /\ Len(m.book) = Len(st.book)
  BY DEF Variants, SameOrders
<1>2. Follows(m, cancel_order(m, i))
  BY <1>1, CancelOrder
<1> QED  BY <1>1, <1>2 DEF Variants, Follows, SameOrders

LEMMA CancelAllFold ==
    ASSUME NEW st \in Markets, NEW S \in SUBSET (1 .. Len(st.book))
    PROVE  \E g, c : Picks(c, S) /\ CancelsInOrder(g, c, st, S) /\ CancelAll(st, S) = g[S]
<1> DEFINE Eq(h) == h = [s \in SUBSET S |->
                           IF s = {} THEN st ELSE cancel_order(h[s \ {CHOOSE i \in s : TRUE}], CHOOSE i \in s : TRUE)]
           it == CHOOSE h : Eq(h)
           c == [s \in SUBSET S |-> CHOOSE i \in s : TRUE]
           V == Variants(st)
           step == [p \in S \X V |-> cancel_order(p[2], p[1])]
<1>1. CancelAll(st, S) = it[S]
  BY DEF CancelAll, MapThenFoldSet
<1>2. IsFiniteSet(S)
  <2>1. st.book \in Seq(Orders)
    BY WealthType
  <2>2. IsFiniteSet(1 .. Len(st.book))
    BY <2>1, FS_Interval
  <2> QED  BY <2>2, FS_Subset
<1>3. ASSUME NEW s \in SUBSET S, s # {} PROVE (CHOOSE i \in s : TRUE) \in s /\ c[s] = CHOOSE i \in s : TRUE
  BY <1>3
<1>4. Picks(c, S)
  BY <1>3 DEF Picks
<1>5. st \in V
  BY DEF Variants, SameOrders
<1>6. ASSUME NEW i \in S, NEW m \in V PROVE cancel_order(m, i) \in V
  BY VariantsCancel
<1> HIDE DEF V
<1>7. step \in [S \X V -> V]
  BY <1>6
<1>8. ASSUME NEW h \in [SUBSET S -> V] PROVE Recursion(h, S, st, c, step) => Eq(h)
  <2> SUFFICES ASSUME Recursion(h, S, st, c, step) PROVE Eq(h)
    OBVIOUS
  <2>1. ASSUME NEW s \in SUBSET S, s # {}
        PROVE  h[s] = cancel_order(h[s \ {CHOOSE i \in s : TRUE}], CHOOSE i \in s : TRUE)
    <3>1. h[s] = step[<<c[s], h[s \ {c[s]}]>>]
      BY <2>1 DEF Recursion
    <3>2. c[s] \in S /\ h[s \ {c[s]}] \in V
      BY <1>4, <2>1 DEF Picks
    <3>3. c[s] = CHOOSE i \in s : TRUE
      BY <1>3, <2>1
    <3> HIDE DEF c
    <3> QED  BY <3>1, <3>2, <3>3
  <2>2. ASSUME NEW s \in SUBSET S
        PROVE  h[s] = IF s = {} THEN st ELSE cancel_order(h[s \ {CHOOSE i \in s : TRUE}], CHOOSE i \in s : TRUE)
    BY <2>1 DEF Recursion
  <2> QED  BY <2>2
<1>9. PICK g \in [SUBSET S -> V] : Recursion(g, S, st, c, step)
  <2> HIDE DEF c, step
  <2> QED  BY <1>2, <1>4, <1>5, <1>7, RecursionExists
<1>10. Eq(it)
  <2>1. Eq(g)
    BY <1>8, <1>9
  <2> QED  BY <2>1
<1>11. \A s \in SUBSET S : it[s] = IF s = {} THEN st ELSE cancel_order(it[s \ {CHOOSE i \in s : TRUE}], CHOOSE i \in s : TRUE)
  BY <1>10
<1> HIDE DEF it, Eq
<1>12. it[{}] = st
  BY <1>11
<1>13. ASSUME NEW s \in SUBSET S, s # {} PROVE it[s] = cancel_order(it[s \ {c[s]}], c[s])
  <2>1. c[s] = CHOOSE i \in s : TRUE
    BY <1>3, <1>13
  <2> HIDE DEF c
  <2> QED  BY <1>11, <1>13, <2>1
<1>14. \A s \in SUBSET S : it[s] \in V
  <2>1. ASSUME NEW s \in SUBSET S, s # {}, it[s \ {c[s]}] \in V
        PROVE  it[s] = step[<<c[s], it[s \ {c[s]}]>>]
    <3>1. c[s] \in S
      BY <1>4, <2>1 DEF Picks
    <3> HIDE DEF c
    <3>2. step[<<c[s], it[s \ {c[s]}]>>] = cancel_order(it[s \ {c[s]}], c[s])
      BY <2>1, <3>1
    <3> QED  BY <1>13, <2>1, <3>2
  <2> HIDE DEF c, step
  <2>2. Computes(it, S, V, c, step)
    BY <1>5, <1>12, <2>1 DEF Computes
  <2> QED  BY <1>2, <1>4, <1>7, <2>2, RecursionTyped
<1> HIDE DEF c
<1>15. CancelsInOrder(it, c, st, S)
  BY <1>12, <1>13, <1>14 DEF CancelsInOrder, V
<1> QED  BY <1>1, <1>4, <1>15

\* The market r after some orders of st have been cancelled.
Cancelled(r, st) ==
    /\ \A b \in Assets : Wealth(r, b) = Wealth(st, b)
    /\ \A j \in 1 .. Len(st.book) : r.book[j].for_sale = 0 \/ r.book[j] = st.book[j]

LEMMA CancelOrders ==
    ASSUME NEW st \in Markets, NEW S \in SUBSET (1 .. Len(st.book))
    PROVE  CancelAll(st, S) \in Variants(st) /\ Cancelled(CancelAll(st, S), st)
<1>1. PICK g, c : Picks(c, S) /\ CancelsInOrder(g, c, st, S) /\ CancelAll(st, S) = g[S]
  BY CancelAllFold
<1> DEFINE F == {s \in SUBSET S : Cancelled(g[s], st)}
<1>2. IsFiniteSet(S)
  <2>1. st.book \in Seq(Orders)
    BY WealthType
  <2>2. IsFiniteSet(1 .. Len(st.book))
    BY <2>1, FS_Interval
  <2> QED  BY <2>2, FS_Subset
<1>3. {} \in F
  <2>1. Cancelled(st, st)
    BY DEF Cancelled
  <2> QED  BY <1>1, <2>1 DEF CancelsInOrder
<1>4. ASSUME NEW s \in SUBSET S, s # {}, s \ {c[s]} \in F PROVE s \in F
  <2> DEFINE i == c[s]
             m == g[s \ {c[s]}]
  <2>1. i \in 1 .. Len(st.book)
    BY <1>1, <1>4 DEF Picks
  <2>2. m \in Variants(st) /\ Cancelled(m, st) /\ g[s] = cancel_order(m, i)
    BY <1>1, <1>4, <2>1 DEF CancelsInOrder
  <2> HIDE DEF i, m
  <2>3. m \in Markets /\ i \in 1 .. Len(m.book) /\ Len(m.book) = Len(st.book)
    BY <2>1, <2>2, VariantsCancel
  <2>4. /\ \A b \in Assets : Wealth(g[s], b) = Wealth(m, b)
        /\ g[s].book[i].for_sale = 0
        /\ \A j \in (1 .. Len(m.book)) \ {i} : g[s].book[j] = m.book[j]
    BY <2>2, <2>3, CancelOrder
  <2>5. Cancelled(g[s], st)
    BY <2>2, <2>3, <2>4 DEF Cancelled
  <2> QED  BY <2>5
<1>5. F \in SUBSET (SUBSET S)
  OBVIOUS
<1> HIDE DEF F
<1>6. F = SUBSET S
  <2>1. PICK U : U = S
    OBVIOUS
  <2>2. /\ IsFiniteSet(U) /\ Picks(c, U) /\ F \in SUBSET (SUBSET U) /\ {} \in F
        /\ \A s \in SUBSET U : s # {} /\ s \ {c[s]} \in F => s \in F
    BY <1>1, <1>2, <1>3, <1>4, <1>5, <2>1
  <2>3. F = SUBSET U
    BY ONLY <2>2, RemovalInduction
  <2> QED  BY <2>1, <2>3
<1> QED  BY <1>1, <1>6 DEF F, CancelsInOrder

-----------------------------------------------------------------------------
(* The inductive invariant. *)

LedgerShape ==
    /\ ledgerProfile \in LedgerProfiles
    /\ money \in Monies /\ orders \in Seq(Orders)
    /\ vesting_shares \in Balances /\ total_vesting_fund_btcm \in Nat
    /\ unclaimed \in Nat /\ effective_median \in Nat \X Nat

\* There are no shares without a fund: otherwise the price of shares would
\* let a withdrawal take more than the fund has.
SharesBacked == total_vesting_fund_btcm = 0 => Total(vesting_shares) = 0

\* The two supplies, as SupplyAddsUp says, in terms of Net.
SupplyKept ==
    /\ current_supply = Net(money, "BTCM") + OnSale(orders, "BTCM") + total_vesting_fund_btcm + unclaimed
    /\ Net(money, "XUSD") + OnSale(orders, "XUSD") = 0

\* What rests asks for something, and no two orders cross.
Uncrossed(book) ==
    \A i, j \in 1 .. Len(book) : book[i].sells # book[j].sells => ~ Crosses(book[i].price, book[j].price)
OrdersAtRest == Alive(orders) /\ Uncrossed(orders)

TradesFair == trades \in Seq(Fills) /\ AllFair(trades)

LedgerInv == LedgerShape /\ SharesBacked /\ SupplyKept /\ OrdersAtRest /\ TradesFair

-----------------------------------------------------------------------------
(* Balances and conversions. *)

\* What LedgerInv says of balances, for the supply.
LEMMA SupplyTypes ==
    ASSUME LedgerInv
    PROVE  /\ money \in Monies /\ orders \in Seq(Orders) /\ vesting_shares \in Balances
           /\ total_vesting_fund_btcm \in Nat /\ unclaimed \in Nat
           /\ Net(money, "BTCM") \in Nat /\ Net(money, "XUSD") \in Int
           /\ OnSale(orders, "BTCM") \in Nat /\ OnSale(orders, "XUSD") \in Nat
           /\ Total(money.XUSD) \in Nat /\ money.supply = Total(money.XUSD) + OnSale(orders, "XUSD")
           /\ money.supply \in Nat /\ current_supply \in Nat /\ Total(vesting_shares) \in Nat
<1>1. /\ money \in Monies /\ orders \in Seq(Orders) /\ vesting_shares \in Balances
      /\ total_vesting_fund_btcm \in Nat /\ unclaimed \in Nat
  BY DEF LedgerInv, LedgerShape
<1>2. OnSale(orders, "BTCM") \in Nat /\ OnSale(orders, "XUSD") \in Nat
  BY <1>1, OnSaleType
<1>3. Net(money, "XUSD") \in Int
  BY <1>1, NetType
<1>4. money.BTCM \in Balances /\ money.XUSD \in Balances /\ money.supply \in Int
  BY <1>1 DEF Monies
<1>5. Total(money.BTCM) \in Nat /\ Total(money.XUSD) \in Nat /\ Total(vesting_shares) \in Nat
  BY <1>1, <1>4, TotalType
<1>6. Net(money, "BTCM") = Total(money.BTCM) /\ Net(money, "XUSD") = Total(money.XUSD) - money.supply
  BY DEF Net
<1>7. /\ current_supply = Net(money, "BTCM") + OnSale(orders, "BTCM") + total_vesting_fund_btcm + unclaimed
      /\ Net(money, "XUSD") + OnSale(orders, "XUSD") = 0
  BY DEF LedgerInv, SupplyKept
<1>8. money.supply = Total(money.XUSD) + OnSale(orders, "XUSD")
  <2>1. PICK s \in Int, t \in Int, o \in Int : s = money.supply /\ t = Total(money.XUSD) /\ o = OnSale(orders, "XUSD")
    BY <1>2, <1>4, <1>5
  <2>2. (t - s) + o = 0
    BY <1>6, <1>7, <2>1
  <2>3. s = t + o
    BY <2>2
  <2> QED  BY <2>1, <2>3
<1>9. current_supply \in Nat
  BY <1>1, <1>2, <1>5, <1>6, <1>7
<1>10. money.supply \in Nat
  BY <1>2, <1>5, <1>8
<1> QED  BY <1>1, <1>2, <1>3, <1>5, <1>6, <1>8, <1>9, <1>10

\* An operation that leaves the book alone and makes no trade.
LEMMA QuietStep ==
    ASSUME LedgerInv, UNCHANGED <<ledgerProfile, orders>>, trades' = <<>>
    PROVE  /\ OrdersAtRest' /\ TradesFair' /\ ledgerProfile' \in LedgerProfiles /\ orders' \in Seq(Orders)
<1>1. OrdersAtRest'
  BY DEF LedgerInv, OrdersAtRest
<1>2. trades' \in Seq(Fills) /\ Len(trades') = 0
  OBVIOUS
<1>3. TradesFair'
  BY <1>2 DEF TradesFair, AllFair
<1> QED  BY <1>1, <1>3 DEF LedgerInv, LedgerShape

LEMMA TransferInv ==
    ASSUME LedgerInv, UNCHANGED ledgerProfile, NEW from \in Accounts, NEW to \in Accounts,
           NEW asset \in Assets, NEW amount \in Nat, transfer(from, to, asset, amount)
    PROVE  LedgerInv'
<1> DEFINE one == adjust_balance(money, from, asset, -amount)
           two == adjust_balance(one, to, asset, amount)
<1>1. /\ get_balance(money, from, asset) >= amount /\ money' = two /\ trades' = <<>>
      /\ UNCHANGED <<current_supply, vesting_shares, total_vesting_fund_btcm, unclaimed, orders, effective_median>>
  BY DEF transfer
<1>2. /\ money \in Monies /\ Net(money, "BTCM") \in Int /\ Net(money, "XUSD") \in Int
      /\ get_balance(money, from, asset) \in Nat
  BY SupplyTypes, BalanceNat
<1>3. PICK d \in Int : d = -amount
  OBVIOUS
<1>4. one \in Monies /\ \A b \in Assets : Net(one, b) = Net(money, b) + (IF b = asset THEN d ELSE 0)
  <2>1. get_balance(money, from, asset) + d >= 0
    BY <1>1, <1>2, <1>3
  <2>2. one = adjust_balance(money, from, asset, d)
    BY <1>3
  <2> HIDE DEF one
  <2> QED  BY <1>2, <2>1, <2>2, AdjustBalance
<1> HIDE DEF one
<1>5. two \in Monies /\ \A b \in Assets : Net(two, b) = Net(one, b) + (IF b = asset THEN amount ELSE 0)
  <2>1. get_balance(one, to, asset) \in Nat
    BY <1>4, BalanceNat
  <2>2. PICK e \in Int : e = amount
    OBVIOUS
  <2>3. get_balance(one, to, asset) + e >= 0 /\ two = adjust_balance(one, to, asset, e)
    BY <2>1, <2>2
  <2> HIDE DEF two
  <2> QED  BY <1>4, <2>2, <2>3, AdjustBalance
<1> HIDE DEF two
<1>6. Net(two, "BTCM") = Net(money, "BTCM") /\ Net(two, "XUSD") = Net(money, "XUSD")
  BY <1>2, <1>3, <1>4, <1>5 DEF Assets
<1>7. OrdersAtRest' /\ TradesFair' /\ ledgerProfile' \in LedgerProfiles /\ orders' \in Seq(Orders)
  BY <1>1, QuietStep
<1>8. LedgerShape' /\ SharesBacked'
  BY <1>1, <1>5, <1>7 DEF LedgerInv, LedgerShape, SharesBacked
<1>9. SupplyKept'
  BY <1>1, <1>6 DEF LedgerInv, SupplyKept
<1> QED  BY <1>7, <1>8, <1>9 DEF LedgerInv

\* One balance of BTCM changes.
LEMMA BTCMStep ==
    ASSUME NEW m \in Monies, NEW a \in Accounts, NEW d \in Int, m.BTCM[a] + d >= 0
    PROVE  /\ adjust_balance(m, a, "BTCM", d) \in Monies
           /\ Net(adjust_balance(m, a, "BTCM", d), "BTCM") = Net(m, "BTCM") + d
           /\ Net(adjust_balance(m, a, "BTCM", d), "XUSD") = Net(m, "XUSD")
<1>1. PICK asset \in Assets : asset = "BTCM"
  BY DEF Assets
<1>2. get_balance(m, a, asset) + d >= 0
  BY <1>1 DEF get_balance
<1>3. /\ adjust_balance(m, a, asset, d) \in Monies
      /\ \A b \in Assets : Net(adjust_balance(m, a, asset, d), b) = Net(m, b) + (IF b = asset THEN d ELSE 0)
  BY <1>2, AdjustBalance
<1>4. Net(m, "BTCM") \in Int /\ Net(m, "XUSD") \in Int
  BY NetType
<1> QED  BY <1>1, <1>3, <1>4 DEF Assets

LEMMA FeeInv ==
    ASSUME LedgerInv, UNCHANGED ledgerProfile, NEW a \in Accounts, NEW fee \in Nat, pay_fee(a, fee)
    PROVE  LedgerInv'
<1>1. PICK d \in Int : d = -fee
  OBVIOUS
<1>2. /\ money.BTCM[a] >= fee /\ money' = adjust_balance(money, a, "BTCM", d) /\ trades' = <<>>
      /\ current_supply' = current_supply - fee
      /\ UNCHANGED <<vesting_shares, total_vesting_fund_btcm, unclaimed, orders, effective_median>>
  BY <1>1 DEF pay_fee
<1>3. money \in Monies /\ money.BTCM[a] \in Nat
  BY SupplyTypes DEF Monies, Balances
<1>4. /\ money' \in Monies /\ Net(money', "BTCM") = Net(money, "BTCM") + d
      /\ Net(money', "XUSD") = Net(money, "XUSD")
  <2>1. money.BTCM[a] + d >= 0
    BY <1>1, <1>2, <1>3
  <2> QED  BY <1>2, <1>3, <2>1, BTCMStep
<1>5. OrdersAtRest' /\ TradesFair' /\ ledgerProfile' \in LedgerProfiles /\ orders' \in Seq(Orders)
  BY <1>2, QuietStep
<1>6. LedgerShape' /\ SharesBacked'
  BY <1>2, <1>4, <1>5 DEF LedgerInv, LedgerShape, SharesBacked
<1>7. SupplyKept'
  <2>1. Net(money, "BTCM") \in Int /\ OnSale(orders, "BTCM") \in Int /\ total_vesting_fund_btcm \in Int /\ unclaimed \in Int
    BY SupplyTypes
  <2> QED  BY <1>1, <1>2, <1>4, <2>1 DEF LedgerInv, SupplyKept
<1> QED  BY <1>5, <1>6, <1>7 DEF LedgerInv

LEMMA ClaimInv ==
    ASSUME LedgerInv, UNCHANGED ledgerProfile, NEW a \in Accounts, NEW amount \in Nat, balance_claim(a, amount)
    PROVE  LedgerInv'
<1>1. PICK d \in Int : d = amount
  OBVIOUS
<1>2. /\ amount <= unclaimed /\ unclaimed' = unclaimed - amount
      /\ money' = adjust_balance(money, a, "BTCM", d) /\ trades' = <<>>
      /\ UNCHANGED <<current_supply, vesting_shares, total_vesting_fund_btcm, orders, effective_median>>
  BY <1>1 DEF balance_claim
<1>3. money \in Monies /\ money.BTCM[a] \in Nat
  BY SupplyTypes DEF Monies, Balances
<1>4. /\ money' \in Monies /\ Net(money', "BTCM") = Net(money, "BTCM") + d
      /\ Net(money', "XUSD") = Net(money, "XUSD")
  <2>1. money.BTCM[a] + d >= 0
    BY <1>1, <1>2, <1>3
  <2> QED  BY <1>2, <1>3, <2>1, BTCMStep
<1>5. OrdersAtRest' /\ TradesFair' /\ ledgerProfile' \in LedgerProfiles /\ orders' \in Seq(Orders)
  BY <1>2, QuietStep
<1>6. Net(money, "BTCM") \in Int /\ OnSale(orders, "BTCM") \in Int /\ total_vesting_fund_btcm \in Int /\ unclaimed \in Nat
  BY SupplyTypes
<1>7. LedgerShape' /\ SharesBacked'
  BY <1>2, <1>4, <1>5, <1>6 DEF LedgerInv, LedgerShape, SharesBacked
<1>8. SupplyKept'
  BY <1>1, <1>2, <1>4, <1>6 DEF LedgerInv, SupplyKept
<1> QED  BY <1>5, <1>7, <1>8 DEF LedgerInv

LEMMA SupplyUp ==
    ASSUME NEW m \in Monies, NEW v \in Nat
    PROVE  /\ [m EXCEPT !.supply = @ + v] \in Monies
           /\ Net([m EXCEPT !.supply = @ + v], "BTCM") = Net(m, "BTCM")
           /\ Net([m EXCEPT !.supply = @ + v], "XUSD") = Net(m, "XUSD") - v
<1>1. PICK s \in Int, t \in Int : s = m.supply /\ t = Total(m.XUSD)
  BY TotalType DEF Monies
<1>2. PICK w \in Int : w = s + v
  OBVIOUS
<1>3. [m EXCEPT !.supply = @ + v] = [m EXCEPT !.supply = w]
  <2>1. m.supply + v = w
    BY <1>1, <1>2
  <2> QED  BY <2>1
<1>4. /\ [m EXCEPT !.supply = w] \in Monies /\ [m EXCEPT !.supply = w].supply = w
      /\ [m EXCEPT !.supply = w].BTCM = m.BTCM /\ [m EXCEPT !.supply = w].XUSD = m.XUSD
  BY DEF Monies
<1>5. t - w = (t - s) - v
  BY <1>2
<1> QED  BY <1>1, <1>3, <1>4, <1>5 DEF Net

LEMMA ConvertInv ==
    ASSUME LedgerInv, UNCHANGED ledgerProfile, NEW a \in Accounts, NEW amount \in Nat, convert(a, amount)
    PROVE  LedgerInv'
<1> DEFINE issued == (amount * effective_median[1]) \div effective_median[2]
<1>1. effective_median[2] > 0 /\ money.BTCM[a] >= amount
  BY DEF convert
<1>2. PICK v \in Nat : v = issued
  <2>1. effective_median[1] \in Nat /\ effective_median[2] \in Nat
    BY DEF LedgerInv, LedgerShape
  <2> QED  BY <1>1, <2>1, MulNat, DivNat
<1>3. PICK d \in Int : d = -amount
  OBVIOUS
<1> DEFINE one == adjust_balance(money, a, "BTCM", d)
           two == adjust_balance(one, a, "XUSD", v)
<1>4. /\ money' = [two EXCEPT !.supply = @ + v]
      /\ current_supply' = current_supply - amount /\ trades' = <<>>
      /\ UNCHANGED <<vesting_shares, total_vesting_fund_btcm, unclaimed, orders, effective_median>>
  BY <1>2, <1>3 DEF convert
<1>5. money \in Monies /\ money.BTCM[a] \in Nat /\ Net(money, "BTCM") \in Int /\ Net(money, "XUSD") \in Int
  <2>1. money \in Monies /\ Net(money, "BTCM") \in Int /\ Net(money, "XUSD") \in Int
    BY SupplyTypes
  <2> QED  BY <2>1 DEF Monies, Balances
<1>6. one \in Monies /\ Net(one, "BTCM") = Net(money, "BTCM") + d /\ Net(one, "XUSD") = Net(money, "XUSD")
  <2>1. money.BTCM[a] + d >= 0
    BY <1>1, <1>3, <1>5
  <2> QED  BY <1>5, <2>1, BTCMStep
<1> HIDE DEF one
<1>7. two \in Monies /\ Net(two, "BTCM") = Net(one, "BTCM") /\ Net(two, "XUSD") = Net(one, "XUSD") + v
  <2>1. PICK asset \in Assets : asset = "XUSD"
    BY DEF Assets
  <2>2. get_balance(one, a, asset) \in Nat
    BY <1>6, BalanceNat
  <2>3. PICK e \in Int : e = v
    OBVIOUS
  <2>4. get_balance(one, a, asset) + e >= 0 /\ two = adjust_balance(one, a, asset, e)
    BY <2>1, <2>2, <2>3
  <2> HIDE DEF two
  <2>5. two \in Monies /\ \A b \in Assets : Net(two, b) = Net(one, b) + (IF b = asset THEN e ELSE 0)
    BY <1>6, <2>4, AdjustBalance
  <2> QED  BY <1>3, <1>5, <1>6, <2>1, <2>3, <2>5 DEF Assets
<1> HIDE DEF two
<1>8. /\ money' \in Monies /\ Net(money', "BTCM") = Net(two, "BTCM")
      /\ Net(money', "XUSD") = Net(two, "XUSD") - v
  BY <1>4, <1>7, SupplyUp
<1>9. OrdersAtRest' /\ TradesFair' /\ ledgerProfile' \in LedgerProfiles /\ orders' \in Seq(Orders)
  BY <1>4, QuietStep
<1>10. LedgerShape' /\ SharesBacked'
  BY <1>4, <1>8, <1>9 DEF LedgerInv, LedgerShape, SharesBacked
<1>11. SupplyKept'
  <2>1. OnSale(orders, "BTCM") \in Int /\ total_vesting_fund_btcm \in Int /\ unclaimed \in Int
    BY SupplyTypes
  <2>2. Net(money', "BTCM") = Net(money, "BTCM") - amount /\ Net(money', "XUSD") = Net(money, "XUSD")
    BY <1>3, <1>5, <1>6, <1>7, <1>8
  <2> QED  BY <1>4, <1>5, <2>1, <2>2 DEF LedgerInv, SupplyKept
<1> QED  BY <1>9, <1>10, <1>11 DEF LedgerInv

-----------------------------------------------------------------------------
(* The vesting fund. *)

ValueKept ==
    total_vesting_shares > 0 /\ total_vesting_shares' > 0 =>
      total_vesting_fund_btcm' * total_vesting_shares >= total_vesting_fund_btcm * total_vesting_shares'

LEMMA VestingUnchanged ==
    ASSUME LedgerInv, UNCHANGED <<vesting_shares, total_vesting_fund_btcm>> PROVE ValueKept
<1>1. Total(vesting_shares) \in Nat /\ total_vesting_fund_btcm \in Nat
  BY SupplyTypes
<1>2. total_vesting_fund_btcm * Total(vesting_shares) \in Nat
  BY <1>1, MulNat
<1> QED  BY <1>2 DEF ValueKept, total_vesting_shares

\* Buying shares, or being paid in them, rounds in favour of the fund.
LEMMA CreateVesting ==
    ASSUME LedgerInv, NEW a \in Accounts, NEW btcm \in Nat, create_vesting(a, btcm)
    PROVE  /\ vesting_shares' \in Balances /\ total_vesting_fund_btcm' \in Nat
           /\ total_vesting_fund_btcm' = total_vesting_fund_btcm + btcm
           /\ SharesBacked' /\ ValueKept
<1>1. PICK F \in Nat, S \in Nat : F = total_vesting_fund_btcm /\ S = Total(vesting_shares)
  BY SupplyTypes
<1>2. vesting_shares \in Balances /\ (F = 0 => S = 0)
  BY <1>1 DEF LedgerInv, LedgerShape, SharesBacked
<1>3. PICK n \in Nat : /\ n = ToShares(btcm)
                       /\ F = 0 => n = btcm
                       /\ F > 0 /\ S > 0 => F * n <= btcm * S
  <2>1. CASE F = 0 \/ S = 0
    <3>1. ToShares(btcm) = btcm
      BY <1>1, <2>1 DEF ToShares, total_vesting_shares
    <3> QED  BY <2>1, <3>1
  <2>2. CASE F > 0 /\ S > 0
    <3>1. ToShares(btcm) = (btcm * S) \div F
      BY <1>1, <2>2 DEF ToShares, total_vesting_shares
    <3>2. btcm * S \in Nat
      BY MulNat
    <3>3. (btcm * S) \div F \in Nat /\ F * ((btcm * S) \div F) <= btcm * S
      BY <2>2, <3>2, DivNat
    <3> QED  BY <2>2, <3>1, <3>3
  <2> QED  BY <2>1, <2>2
<1>4. vesting_shares[a] \in Nat
  BY <1>2 DEF Balances
<1>5. /\ vesting_shares' = [vesting_shares EXCEPT ![a] = vesting_shares[a] + n]
      /\ total_vesting_fund_btcm' = F + btcm
  BY <1>1, <1>3 DEF create_vesting
<1>6. PICK w \in Nat : w = vesting_shares[a] + n
  BY <1>4
<1>7. vesting_shares' \in Balances /\ Total(vesting_shares') = S + n
  <2>1. vesting_shares' = [vesting_shares EXCEPT ![a] = w]
    BY <1>5, <1>6
  <2>2. vesting_shares' \in Balances
    BY <1>2, <2>1 DEF Balances
  <2>3. Total(vesting_shares') = Total(vesting_shares) + (w - vesting_shares[a])
    <3>1. PICK v \in Int : v = w
      OBVIOUS
    <3>2. Total([vesting_shares EXCEPT ![a] = v]) = Total(vesting_shares) + (v - vesting_shares[a])
      BY <1>2, TotalChange
    <3> QED  BY <2>1, <3>1, <3>2
  <2> QED  BY <1>1, <1>4, <1>6, <2>2, <2>3
<1>8. SharesBacked'
  BY <1>2, <1>3, <1>5, <1>7 DEF SharesBacked
<1>9. ValueKept
  <2> SUFFICES ASSUME S > 0 PROVE (F + btcm) * S >= F * (S + n)
    BY <1>1, <1>5, <1>7 DEF ValueKept, total_vesting_shares
  <2>1. F * n <= btcm * S
    BY <1>2, <1>3
  <2>2. (F + btcm) * S = F * S + btcm * S /\ F * (S + n) = F * S + F * n
    OBVIOUS
  <2>3. F * S \in Nat /\ btcm * S \in Nat /\ F * n \in Nat
    BY MulNat
  <2> QED  BY <2>1, <2>2, <2>3
<1> QED  BY <1>1, <1>5, <1>7, <1>8, <1>9

LEMMA TransferToVestingInv ==
    ASSUME LedgerInv, UNCHANGED ledgerProfile, NEW from \in Accounts, NEW to \in Accounts, NEW amount \in Nat,
           transfer_to_vesting(from, to, amount)
    PROVE  LedgerInv' /\ ValueKept
<1>1. PICK d \in Int : d = -amount
  OBVIOUS
<1>2. /\ money.BTCM[from] >= amount /\ money' = adjust_balance(money, from, "BTCM", d)
      /\ create_vesting(to, amount) /\ trades' = <<>>
      /\ UNCHANGED <<current_supply, unclaimed, orders, effective_median>>
  BY <1>1 DEF transfer_to_vesting
<1>3. money \in Monies /\ money.BTCM[from] \in Nat
  BY SupplyTypes DEF Monies, Balances
<1>4. /\ money' \in Monies /\ Net(money', "BTCM") = Net(money, "BTCM") + d
      /\ Net(money', "XUSD") = Net(money, "XUSD")
  <2>1. money.BTCM[from] + d >= 0
    BY <1>1, <1>2, <1>3
  <2> QED  BY <1>2, <1>3, <2>1, BTCMStep
<1>5. /\ vesting_shares' \in Balances /\ total_vesting_fund_btcm' \in Nat
      /\ total_vesting_fund_btcm' = total_vesting_fund_btcm + amount
      /\ SharesBacked' /\ ValueKept
  BY <1>2, CreateVesting
<1>6. OrdersAtRest' /\ TradesFair' /\ ledgerProfile' \in LedgerProfiles /\ orders' \in Seq(Orders)
  BY <1>2, QuietStep
<1>7. LedgerShape'
  BY <1>2, <1>4, <1>5, <1>6 DEF LedgerInv, LedgerShape
<1>8. SupplyKept'
  <2>1. Net(money, "BTCM") \in Int /\ OnSale(orders, "BTCM") \in Int /\ total_vesting_fund_btcm \in Int /\ unclaimed \in Int
    BY SupplyTypes
  <2> QED  BY <1>1, <1>2, <1>4, <1>5, <2>1 DEF LedgerInv, SupplyKept
<1> QED  BY <1>5, <1>6, <1>7, <1>8 DEF LedgerInv

\* A withdrawal is covered by the fund, and rounds in its favour.
LEMMA WithdrawInv ==
    ASSUME LedgerInv, UNCHANGED ledgerProfile, NEW a \in Accounts, NEW shares \in Nat, withdraw(a, shares)
    PROVE  LedgerInv' /\ ValueKept
<1>1. PICK F \in Nat, S \in Nat : F = total_vesting_fund_btcm /\ S = Total(vesting_shares)
  BY SupplyTypes
<1>2. vesting_shares \in Balances /\ (F = 0 => S = 0)
  BY <1>1 DEF LedgerInv, LedgerShape, SharesBacked
<1>3. vesting_shares[a] \in Nat /\ shares <= vesting_shares[a] /\ shares <= S
  <2>1. vesting_shares[a] \in Nat /\ vesting_shares[a] <= Total(vesting_shares)
    BY <1>2, TotalType DEF Balances
  <2>2. vesting_shares[a] >= shares
    BY DEF withdraw
  <2> QED  BY <1>1, <2>1, <2>2
<1>4. PICK n \in Nat : /\ n = ToBTCM(shares) /\ n <= F
                       /\ S > 0 => S * n <= shares * F
  <2>1. CASE F = 0 \/ S = 0
    <3>1. ToBTCM(shares) = shares
      BY <1>1, <2>1 DEF ToBTCM, total_vesting_shares
    <3>2. S = 0 /\ shares = 0
      BY <1>2, <1>3, <2>1
    <3> QED  BY <3>1, <3>2
  <2>2. CASE F > 0 /\ S > 0
    <3>1. ToBTCM(shares) = (shares * F) \div S
      BY <1>1, <2>2 DEF ToBTCM, total_vesting_shares
    <3>2. shares * F \in Nat /\ shares * F <= S * F
      BY <1>3, MulNat, MulMono
    <3>3. (shares * F) \div S \in Nat /\ S * ((shares * F) \div S) <= shares * F /\ (shares * F) \div S <= F
      BY <2>2, <3>2, DivBounds
    <3> QED  BY <2>2, <3>1, <3>3
  <2> QED  BY <2>1, <2>2
<1>5. /\ money' = adjust_balance(money, a, "BTCM", n)
      /\ vesting_shares' = [vesting_shares EXCEPT ![a] = vesting_shares[a] - shares]
      /\ total_vesting_fund_btcm' = F - n /\ trades' = <<>>
      /\ UNCHANGED <<current_supply, unclaimed, orders, effective_median>>
  BY <1>1, <1>4 DEF withdraw
<1>6. vesting_shares' \in Balances /\ Total(vesting_shares') = S - shares
  <2>1. PICK v \in Int : v = vesting_shares[a] - shares /\ v \in Nat
    BY <1>3
  <2>2. vesting_shares' = [vesting_shares EXCEPT ![a] = v]
    BY <1>5, <2>1
  <2>3. vesting_shares' \in Balances
    BY <1>2, <2>1, <2>2 DEF Balances
  <2>4. Total([vesting_shares EXCEPT ![a] = v]) = Total(vesting_shares) + (v - vesting_shares[a])
    BY <1>2, TotalChange
  <2>5. S + (v - vesting_shares[a]) = S - shares
    BY <1>3, <2>1
  <2> QED  BY <1>1, <2>2, <2>3, <2>4, <2>5
<1>7. SharesBacked'
  <2> SUFFICES ASSUME F - n = 0 PROVE S - shares = 0
    BY <1>5, <1>6 DEF SharesBacked
  <2>1. CASE S = 0
    BY <1>3, <2>1
  <2>2. CASE S > 0
    <3>1. F > 0 /\ n = F
      BY <1>2, <1>4, <2>2
    <3>2. S * F <= shares * F
      BY <1>4, <2>2, <3>1
    <3>3. S <= shares
      BY <3>1, <3>2, MulCancel
    <3> QED  BY <1>3, <3>3
  <2> QED  BY <2>1, <2>2
<1>8. ValueKept
  <2> SUFFICES ASSUME S > 0 PROVE (F - n) * S >= F * (S - shares)
    BY <1>1, <1>5, <1>6 DEF ValueKept, total_vesting_shares
  <2>1. S * n <= shares * F
    BY <1>4
  <2>2. (F - n) * S = F * S - S * n /\ F * (S - shares) = F * S - shares * F
    OBVIOUS
  <2>3. F * S \in Nat /\ S * n \in Nat /\ shares * F \in Nat
    BY MulNat
  <2> QED  BY <2>1, <2>2, <2>3
<1>9. /\ money' \in Monies /\ Net(money', "BTCM") = Net(money, "BTCM") + n
      /\ Net(money', "XUSD") = Net(money, "XUSD")
  <2>1. money \in Monies
    BY SupplyTypes
  <2>2. money.BTCM[a] \in Nat
    BY <2>1 DEF Monies, Balances
  <2>3. PICK e \in Int : e = n /\ money.BTCM[a] + e >= 0
    BY <2>2
  <2>4. money' = adjust_balance(money, a, "BTCM", e)
    BY <1>5, <2>3
  <2>5. /\ money' \in Monies /\ Net(money', "BTCM") = Net(money, "BTCM") + e
        /\ Net(money', "XUSD") = Net(money, "XUSD")
    BY <2>1, <2>3, <2>4, BTCMStep
  <2> QED  BY <2>3, <2>5
<1>10. OrdersAtRest' /\ TradesFair' /\ ledgerProfile' \in LedgerProfiles /\ orders' \in Seq(Orders)
  BY <1>5, QuietStep
<1>11. LedgerShape'
  <2>1. total_vesting_fund_btcm' \in Nat
    BY <1>4, <1>5
  <2> QED  BY <1>5, <1>6, <1>9, <1>10, <2>1 DEF LedgerInv, LedgerShape
<1>12. SupplyKept'
  <2>1. Net(money, "BTCM") \in Int /\ OnSale(orders, "BTCM") \in Int /\ unclaimed \in Int
    BY SupplyTypes
  <2> QED  BY <1>1, <1>5, <1>9, <2>1 DEF LedgerInv, SupplyKept
<1> QED  BY <1>7, <1>8, <1>10, <1>11, <1>12 DEF LedgerInv

LEMMA RewardInv ==
    ASSUME LedgerInv, UNCHANGED ledgerProfile, NEW w \in Accounts, get_producer_reward(w)
    PROVE  LedgerInv' /\ ValueKept
<1>0. Reward \in Nat
  BY LedgerAssumption
<1>1. /\ current_supply' = current_supply + Reward /\ trades' = <<>>
      /\ UNCHANGED <<unclaimed, orders, effective_median>>
  BY DEF get_producer_reward
<1>2. OrdersAtRest' /\ TradesFair' /\ ledgerProfile' \in LedgerProfiles /\ orders' \in Seq(Orders)
  BY <1>1, QuietStep
<1>3. /\ Net(money, "BTCM") \in Int /\ OnSale(orders, "BTCM") \in Int /\ total_vesting_fund_btcm \in Int
      /\ unclaimed \in Int /\ money \in Monies
  BY SupplyTypes
<1>4. CASE InShares(w)
  <2>1. create_vesting(w, Reward) /\ UNCHANGED money
    BY <1>4 DEF get_producer_reward
  <2>2. /\ vesting_shares' \in Balances /\ total_vesting_fund_btcm' \in Nat
        /\ total_vesting_fund_btcm' = total_vesting_fund_btcm + Reward
        /\ SharesBacked' /\ ValueKept
    BY <1>0, <2>1, CreateVesting
  <2>3. LedgerShape'
    BY <1>1, <1>2, <2>1, <2>2 DEF LedgerInv, LedgerShape
  <2>4. SupplyKept'
    BY <1>0, <1>1, <1>3, <2>1, <2>2 DEF LedgerInv, SupplyKept
  <2> QED  BY <1>2, <2>2, <2>3, <2>4 DEF LedgerInv
<1>5. CASE ~ InShares(w)
  <2>1. money' = adjust_balance(money, w, "BTCM", Reward) /\ UNCHANGED <<vesting_shares, total_vesting_fund_btcm>>
    BY <1>5 DEF get_producer_reward
  <2>2. /\ money' \in Monies /\ Net(money', "BTCM") = Net(money, "BTCM") + Reward
        /\ Net(money', "XUSD") = Net(money, "XUSD")
    <3>1. money.BTCM[w] \in Nat
      BY <1>3 DEF Monies, Balances
    <3>2. PICK e \in Int : e = Reward /\ money.BTCM[w] + e >= 0
      BY <1>0, <3>1
    <3>3. money' = adjust_balance(money, w, "BTCM", e)
      BY <2>1, <3>2
    <3>4. /\ money' \in Monies /\ Net(money', "BTCM") = Net(money, "BTCM") + e
          /\ Net(money', "XUSD") = Net(money, "XUSD")
      BY <1>3, <3>2, <3>3, BTCMStep
    <3> QED  BY <3>2, <3>4
  <2>3. LedgerShape' /\ SharesBacked'
    BY <1>1, <1>2, <2>1, <2>2 DEF LedgerInv, LedgerShape, SharesBacked
  <2>4. SupplyKept'
    BY <1>0, <1>1, <1>3, <2>1, <2>2 DEF LedgerInv, SupplyKept
  <2>5. ValueKept
    BY <2>1, VestingUnchanged
  <2> QED  BY <1>2, <2>3, <2>4, <2>5 DEF LedgerInv
<1> QED  BY <1>4, <1>5

-----------------------------------------------------------------------------
(* The market. *)

\* No two orders that have something left could be matched.
Settled(book) ==
    /\ \A i \in 1 .. Len(book) : AtRest(book[i])
    /\ \A i, j \in 1 .. Len(book) :
         book[i].for_sale # 0 /\ book[j].for_sale # 0 /\ book[i].sells # book[j].sells
           => ~ Crosses(book[i].price, book[j].price)

LEMMA RestingAtRest ==
    ASSUME NEW book \in Seq(Orders), Settled(book)
    PROVE  Alive(Resting(book)) /\ Uncrossed(Resting(book))
<1> DEFINE q == Resting(book)
<1>1. Kept(q, book, 1 .. Len(book))
  BY RestingOrders
<1> HIDE DEF q
<1>2. ASSUME NEW k \in 1 .. Len(q) PROVE q[k].for_sale > 0 /\ Asks(q[k].price, q[k].for_sale) > 0
  <2>1. PICK i \in 1 .. Len(book) : q[k] = book[i] /\ book[i].for_sale # 0
    BY <1>1 DEF Kept
  <2>2. book[i].for_sale \in Nat
    BY InBook
  <2>3. Asks(book[i].price, book[i].for_sale) > 0
    BY <2>1 DEF Settled, AtRest
  <2> QED  BY <2>1, <2>2, <2>3
<1>3. ASSUME NEW k \in 1 .. Len(q), NEW l \in 1 .. Len(q), q[k].sells # q[l].sells
      PROVE  ~ Crosses(q[k].price, q[l].price)
  <2>1. PICK i \in 1 .. Len(book) : q[k] = book[i] /\ book[i].for_sale # 0
    BY <1>1 DEF Kept
  <2>2. PICK j \in 1 .. Len(book) : q[l] = book[j] /\ book[j].for_sale # 0
    BY <1>1 DEF Kept
  <2> QED  BY <1>3, <2>1, <2>2 DEF Settled
<1> QED  BY <1>2, <1>3 DEF Alive, Uncrossed, q

\* A step that leaves the market in r.
LEMMA MarketStep ==
    ASSUME LedgerInv, UNCHANGED <<ledgerProfile, current_supply, vesting_shares, total_vesting_fund_btcm, unclaimed>>,
           NEW r \in Markets, \A b \in Assets : Wealth(r, b) = Net(money, b) + OnSale(orders, b), Settled(r.book),
           money' = r.money, orders' = Resting(r.book), trades' \in Seq(Fills), AllFair(trades'),
           effective_median' \in Nat \X Nat
    PROVE  LedgerInv' /\ ValueKept
<1>1. r.money \in Monies /\ r.book \in Seq(Orders)
  BY WealthType
<1>2. orders' \in Seq(Orders) /\ \A asset : OnSale(orders', asset) = OnSale(r.book, asset)
  BY <1>1, RestingOrders
<1>3. OrdersAtRest'
  BY <1>1, RestingAtRest DEF OrdersAtRest
<1>4. LedgerShape' /\ SharesBacked' /\ TradesFair'
  BY <1>1, <1>2 DEF LedgerInv, LedgerShape, SharesBacked, TradesFair
<1>5. SupplyKept'
  <2>1. /\ Net(money', "BTCM") + OnSale(orders', "BTCM") = Net(money, "BTCM") + OnSale(orders, "BTCM")
        /\ Net(money', "XUSD") + OnSale(orders', "XUSD") = Net(money, "XUSD") + OnSale(orders, "XUSD")
    BY <1>2 DEF Wealth, Assets
  <2> QED  BY <2>1 DEF LedgerInv, SupplyKept
<1>6. ValueKept
  BY VestingUnchanged
<1> QED  BY <1>3, <1>4, <1>5, <1>6 DEF LedgerInv

\* The market before a step.
LEMMA MarketBefore ==
    ASSUME LedgerInv
    PROVE  /\ Market(money, orders, <<>>) \in Markets /\ Market(money, orders, <<>>).book = orders
           /\ \A b : Wealth(Market(money, orders, <<>>), b) = Net(money, b) + OnSale(orders, b)
           /\ Settled(orders) /\ <<>> \in Seq(Fills) /\ AllFair(<<>>)
<1>1. money \in Monies /\ orders \in Seq(Orders)
  BY SupplyTypes
<1>2. <<>> \in Seq(Fills) /\ Len(<<>>) = 0
  OBVIOUS
<1>3. AllFair(<<>>)
  BY <1>2 DEF AllFair
<1>4. Settled(orders)
  BY DEF LedgerInv, OrdersAtRest, Alive, Uncrossed, Settled, AtRest
<1>5. /\ Market(money, orders, <<>>) \in Markets /\ Market(money, orders, <<>>).book = orders
      /\ Market(money, orders, <<>>).money = money
  <2>1. PICK e \in Seq(Fills) : e = <<>>
    BY <1>2
  <2>2. Market(money, orders, e) \in Markets /\ Market(money, orders, e).book = orders /\ Market(money, orders, e).money = money
    BY <1>1, MarketType
  <2> QED  BY <2>1, <2>2
<1> QED  BY <1>2, <1>3, <1>4, <1>5 DEF Wealth

\* Removing orders leaves the others settled.
LEMMA CancelledSettled ==
    ASSUME NEW st \in Markets, Settled(st.book), NEW r \in Variants(st), Cancelled(r, st)
    PROVE  Settled(r.book)
<1>1. Len(r.book) = Len(st.book)
  BY DEF Variants, SameOrders
<1>2. \A i \in 1 .. Len(st.book) : AtRest(r.book[i])
  BY DEF Settled, Cancelled, AtRest
<1>3. ASSUME NEW i \in 1 .. Len(st.book), NEW j \in 1 .. Len(st.book),
             r.book[i].for_sale # 0, r.book[j].for_sale # 0, r.book[i].sells # r.book[j].sells
      PROVE  ~ Crosses(r.book[i].price, r.book[j].price)
  <2>1. r.book[i] = st.book[i] /\ r.book[j] = st.book[j]
    BY <1>3 DEF Cancelled
  <2> QED  BY <1>3, <2>1 DEF Settled
<1> QED  BY <1>1, <1>2, <1>3 DEF Settled

LEMMA CancelInv ==
    ASSUME LedgerInv, UNCHANGED ledgerProfile, NEW a \in Accounts, NEW i \in DOMAIN orders, limit_order_cancel(a, i)
    PROVE  LedgerInv' /\ ValueKept
<1> DEFINE st == Market(money, orders, <<>>)
           r == cancel_order(st, i)
<1>1. /\ st \in Markets /\ st.book = orders /\ Settled(orders) /\ <<>> \in Seq(Fills) /\ AllFair(<<>>)
      /\ \A b : Wealth(st, b) = Net(money, b) + OnSale(orders, b)
  BY MarketBefore
<1>2. /\ money' = r.money /\ orders' = Resting(r.book) /\ trades' = <<>>
      /\ UNCHANGED <<current_supply, vesting_shares, total_vesting_fund_btcm, unclaimed, effective_median>>
  BY DEF limit_order_cancel
<1>3. i \in 1 .. Len(st.book)
  <2>1. orders \in Seq(Orders)
    BY SupplyTypes
  <2> QED  BY <1>1, <2>1
<1> HIDE DEF st
<1>4. /\ Follows(st, r) /\ \A b \in Assets : Wealth(r, b) = Wealth(st, b)
      /\ r.book[i].for_sale = 0
      /\ \A j \in (1 .. Len(st.book)) \ {i} : r.book[j] = st.book[j]
  BY <1>1, <1>3, CancelOrder
<1> HIDE DEF r
<1>5. r \in Variants(st) /\ r \in Markets /\ Cancelled(r, st)
  BY <1>4 DEF Variants, Follows, Cancelled
<1>6. Settled(r.book)
  BY <1>1, <1>5, CancelledSettled
<1>7. effective_median' \in Nat \X Nat
  BY <1>2 DEF LedgerInv, LedgerShape
<1> QED  BY <1>1, <1>2, <1>4, <1>5, <1>6, <1>7, MarketStep

\* A new order: all that is taken from its seller is on sale.
LEMMA CreateInv ==
    ASSUME LedgerInv, UNCHANGED ledgerProfile, NEW a \in Accounts, NEW sells \in Assets, NEW amount \in Nat,
           NEW price \in Prices, NEW expires \in Nat, NEW kill,
           limit_order_create2(a, sells, amount, price, expires, kill)
    PROVE  LedgerInv' /\ ValueKept
<1> DEFINE new == [seller |-> a, sells |-> sells, for_sale |-> amount, price |-> price, expires |-> expires]
           n == Len(orders) + 1
           m == adjust_balance(money, a, sells, -amount)
           b == Append(orders, new)
           st == Market(m, b, <<>>)
           r == apply_order(st, n)
<1>1. /\ Asks(price, amount) > 0 /\ get_balance(money, a, sells) >= amount
      /\ money' = r.money /\ orders' = Resting(r.book) /\ trades' = r.trades
      /\ UNCHANGED <<current_supply, vesting_shares, total_vesting_fund_btcm, unclaimed, effective_median>>
  BY DEF limit_order_create2
<1>2. /\ money \in Monies /\ orders \in Seq(Orders) /\ Settled(orders) /\ <<>> \in Seq(Fills) /\ AllFair(<<>>)
      /\ Alive(orders) /\ Uncrossed(orders)
  BY SupplyTypes, MarketBefore DEF LedgerInv, OrdersAtRest
<1>3. amount > 0
  <2> SUFFICES ASSUME amount = 0 PROVE FALSE
    OBVIOUS
  <2>1. PICK p1 \in Nat, p2 \in Nat : p1 = price[1] /\ p2 = price[2] /\ p1 > 0
    BY DEF Prices
  <2>2. (amount * p2) \div p1 > 0
    BY <1>1, <2>1 DEF Asks
  <2>3. amount * p2 = 0
    OBVIOUS
  <2> QED  BY <2>1, <2>2, <2>3, DivBounds
<1>4. new \in Orders /\ new.for_sale = amount /\ new.price = price /\ new.sells = sells
  BY DEF Orders
<1>5. m \in Monies /\ \A c \in Assets : Net(m, c) = Net(money, c) + (IF c = sells THEN 0 - amount ELSE 0)
  <2>1. PICK d \in Int : d = -amount
    OBVIOUS
  <2>2. get_balance(money, a, sells) \in Nat
    BY <1>2, BalanceNat
  <2>3. get_balance(money, a, sells) + d >= 0 /\ m = adjust_balance(money, a, sells, d)
    BY <1>1, <2>1, <2>2
  <2> HIDE DEF m
  <2>4. m \in Monies /\ \A c \in Assets : Net(m, c) = Net(money, c) + (IF c = sells THEN d ELSE 0)
    BY <1>2, <2>3, AdjustBalance
  <2>5. d = 0 - amount
    BY <2>1
  <2> QED  BY <2>4, <2>5
<1> HIDE DEF m, new
<1>6. /\ b \in Seq(Orders) /\ Len(b) = n /\ b[n] = new /\ n \in Nat /\ n \in 1 .. n
      /\ \A i \in 1 .. Len(orders) : b[i] = orders[i]
      /\ \A c : OnSale(b, c) = OnSale(orders, c) + Offered(new, c)
  <2>1. b \in Seq(Orders) /\ Len(b) = n /\ b[n] = new /\ \A i \in 1 .. Len(orders) : b[i] = orders[i]
    BY <1>2, <1>4, AppendProperties
  <2>2. n \in Nat /\ n \in 1 .. n
    BY <1>2
  <2>3. \A c : OnSale(b, c) = OnSale(orders, c) + Offered(new, c)
    BY <1>2, <1>4, OnSaleAppend
  <2> QED  BY <2>1, <2>2, <2>3
<1>7. \A i \in 1 .. n : i = n \/ i \in 1 .. Len(orders)
  BY <1>2
<1> HIDE DEF b, n
<1>8. st \in Markets /\ st.money = m /\ st.book = b /\ st.trades = <<>>
  <2>1. PICK e \in Seq(Fills) : e = <<>>
    BY <1>2
  <2>2. st = Market(m, b, e)
    BY <2>1
  <2> HIDE DEF st
  <2>3. st \in Markets /\ st.money = m /\ st.book = b /\ st.trades = e
    BY <1>5, <1>6, <2>2, MarketType
  <2> QED  BY <2>1, <2>3
<1> HIDE DEF st
<1>9. Alive(b)
  BY <1>1, <1>2, <1>3, <1>4, <1>6, <1>7 DEF Alive
<1>10. /\ r \in Variants(st) /\ Met(r, st, n, Candidates(b, n))
  BY <1>2, <1>6, <1>8, <1>9, ApplyOrder
<1> HIDE DEF r
<1>11. /\ r \in Markets /\ Len(r.book) = n
       /\ \A i \in 1 .. n : r.book[i].price = b[i].price /\ r.book[i].sells = b[i].sells
  BY <1>6, <1>8, <1>10 DEF Variants, SameOrders
<1>12. \A c \in Assets : Wealth(r, c) = Net(money, c) + OnSale(orders, c)
  <2> SUFFICES ASSUME NEW c \in Assets PROVE Wealth(r, c) = Net(money, c) + OnSale(orders, c)
    OBVIOUS
  <2>1. Wealth(r, c) = Net(m, c) + OnSale(b, c)
    BY <1>8, <1>10 DEF Met, Wealth
  <2>2. Net(money, c) \in Int /\ OnSale(orders, c) \in Int
    BY <1>2, NetType, OnSaleType
  <2>3. Offered(new, c) = IF sells = c THEN amount ELSE 0
    BY <1>4 DEF Offered
  <2> QED  BY <1>5, <1>6, <2>1, <2>2, <2>3
<1>13. Settled(r.book)
  <2>1. \A i \in 1 .. n : AtRest(r.book[i])
    BY <1>6, <1>8, <1>10 DEF Met
  <2>2. ASSUME NEW i \in 1 .. n, r.book[i].for_sale # 0, r.book[n].for_sale # 0, r.book[i].sells # r.book[n].sells
        PROVE  ~ Crosses(r.book[i].price, r.book[n].price)
    <3> SUFFICES ASSUME Crosses(r.book[i].price, r.book[n].price) PROVE FALSE
      OBVIOUS
    <3>1. Crosses(b[i].price, b[n].price) /\ b[i].sells # b[n].sells /\ i \in DOMAIN b
      BY <1>6, <1>11, <2>2
    <3>2. i \in Candidates(b, n)
      BY <3>1 DEF Candidates
    <3> QED  BY <1>10, <2>2, <3>2 DEF Met
  <2>3. ASSUME NEW i \in 1 .. n, NEW j \in 1 .. n,
               r.book[i].for_sale # 0, r.book[j].for_sale # 0, r.book[i].sells # r.book[j].sells
        PROVE  ~ Crosses(r.book[i].price, r.book[j].price)
    <3>1. CASE j = n
      BY <2>2, <2>3, <3>1
    <3>2. CASE i = n
      <4>1. ~ Crosses(r.book[j].price, r.book[i].price)
        BY <2>2, <2>3, <3>2
      <4>2. r.book[i].price \in Prices /\ r.book[j].price \in Prices
        BY <1>6, <1>11, InBook
      <4>3. PICK p1 \in Nat, p2 \in Nat : p1 = r.book[i].price[1] /\ p2 = r.book[i].price[2]
        BY <4>2 DEF Prices
      <4>4. PICK q1 \in Nat, q2 \in Nat : q1 = r.book[j].price[1] /\ q2 = r.book[j].price[2]
        BY <4>2 DEF Prices
      <4>5. p1 * q1 = q1 * p1 /\ p2 * q2 = q2 * p2
        BY MulAssoc
      <4> QED  BY <4>1, <4>3, <4>4, <4>5 DEF Crosses
    <3>3. CASE i # n /\ j # n
      <4>1. i \in 1 .. Len(orders) /\ j \in 1 .. Len(orders)
        BY <1>7, <3>3
      <4>2. b[i] = orders[i] /\ b[j] = orders[j]
        BY <1>6, <4>1
      <4> QED  BY <1>2, <1>11, <2>3, <4>1, <4>2 DEF Uncrossed
    <3> QED  BY <3>1, <3>2, <3>3
  <2> QED  BY <1>11, <2>1, <2>3 DEF Settled
<1>14. trades' \in Seq(Fills) /\ AllFair(trades')
  BY <1>1, <1>10, <1>11, WealthType DEF Met
<1>15. effective_median' \in Nat \X Nat
  BY <1>1 DEF LedgerInv, LedgerShape
<1> QED  BY <1>1, <1>11, <1>12, <1>13, <1>14, <1>15, MarketStep

-----------------------------------------------------------------------------
(* The end of a block, and every step. *)

LEMMA ProfileTypes ==
    ASSUME NEW p \in LedgerProfiles
    PROVE  /\ p.first \in [Accounts -> Nat \X Nat \X Nat] /\ p.unclaimed \in Nat /\ p.moved \subseteq Nat
           /\ p.sold \subseteq Nat /\ p.feeds \subseteq Nat \X Nat /\ p.time \in Nat
           /\ \A price \in p.prices : price \in Prices
           /\ p.rewards = "none" => \A a \in Accounts : p.first[a][3] = 0
<1>1. p \in LedgerProfile
  BY LedgerAssumption
<1>2. /\ p.first \in [Accounts -> Nat \X Nat \X Nat] /\ p.unclaimed \in Nat /\ p.moved \subseteq Nat
      /\ p.sold \subseteq Nat /\ p.feeds \subseteq Nat \X Nat /\ p.time \in Nat /\ p.prices \subseteq Nat \X Nat
  BY <1>1, LedgerAssumption DEF LedgerProfile
<1>3. ASSUME NEW price \in p.prices PROVE price \in Prices
  <2>1. price \in Nat \X Nat /\ price[1] > 0 /\ price[2] > 0
    BY <1>2, LedgerAssumption
  <2> QED  BY <2>1 DEF Prices
<1> QED  BY <1>2, <1>3, LedgerAssumption

LEMMA BlockInv ==
    ASSUME LedgerInv, UNCHANGED ledgerProfile, Block
    PROVE  LedgerInv' /\ ValueKept
<1> DEFINE t == money.time + 1
           m == [money EXCEPT !.time = t]
           st == Market(m, orders, <<>>)
           r == CancelAll(st, Expired(t))
<1>1. money' = r.money /\ orders' = Resting(r.book)
  BY DEF Block, clear_expired_orders, CancelAll, MapThenFoldSet
<1>2. /\ update_median_feed /\ trades' = <<>>
      /\ UNCHANGED <<current_supply, vesting_shares, total_vesting_fund_btcm, unclaimed>>
  BY DEF Block
<1>3. money \in Monies /\ orders \in Seq(Orders) /\ Settled(orders) /\ <<>> \in Seq(Fills) /\ AllFair(<<>>)
  BY SupplyTypes, MarketBefore
<1>4. m \in Monies /\ \A b : Net(m, b) = Net(money, b)
  <2>1. PICK u \in Nat : u = t /\ money.time \in Nat /\ u > money.time
    BY <1>3 DEF Monies
  <2>2. m = [money EXCEPT !.time = u]
    BY <2>1
  <2> HIDE DEF m
  <2>3. m.BTCM = money.BTCM /\ m.XUSD = money.XUSD /\ m.supply = money.supply
    BY <1>3, <2>2 DEF Monies
  <2>4. m \in [BTCM : Balances, XUSD : Balances, seconds : Balances, updated : Balances, paid : Balances,
               time : Nat, supply : Int] /\ m.updated = money.updated /\ m.paid = money.paid /\ m.time = u
    BY <1>3, <2>2 DEF Monies
  <2>5. ASSUME NEW a \in Accounts PROVE m.updated[a] <= m.time /\ m.paid[a] <= m.time
    <3>1. money.updated[a] \in Nat /\ money.paid[a] \in Nat /\ money.updated[a] <= money.time /\ money.paid[a] <= money.time
      BY <1>3 DEF Monies, Balances
    <3> QED  BY <2>1, <2>4, <3>1
  <2> QED  BY <2>3, <2>4, <2>5 DEF Monies, Net
<1> HIDE DEF m
<1>5. st \in Markets /\ st.book = orders /\ st.money = m
  <2>1. PICK e \in Seq(Fills) : e = <<>>
    BY <1>3
  <2>2. st = Market(m, orders, e)
    BY <2>1
  <2> HIDE DEF st
  <2> QED  BY <1>3, <1>4, <2>2, MarketType
<1> HIDE DEF st
<1>6. Expired(t) \in SUBSET (1 .. Len(st.book))
  BY <1>3, <1>5 DEF Expired
<1>7. r \in Variants(st) /\ Cancelled(r, st)
  <2>1. PICK S \in SUBSET (1 .. Len(st.book)) : S = Expired(t)
    BY <1>6
  <2>2. CancelAll(st, S) \in Variants(st) /\ Cancelled(CancelAll(st, S), st)
    BY <1>5, CancelOrders
  <2> QED  BY <2>1, <2>2
<1> HIDE DEF r
<1>8. r \in Markets /\ Settled(r.book)
  BY <1>3, <1>5, <1>7, CancelledSettled DEF Variants
<1>9. \A b \in Assets : Wealth(r, b) = Net(money, b) + OnSale(orders, b)
  BY <1>4, <1>5, <1>7 DEF Cancelled, Wealth
<1>10. money'.supply \in Nat
  <2>1. r.money \in Monies /\ r.book \in Seq(Orders)
    BY <1>8, WealthType
  <2>2. PICK x \in Nat, o \in Nat, s \in Int : x = Total(r.money.XUSD) /\ o = OnSale(r.book, "XUSD") /\ s = r.money.supply
    BY <2>1, TotalType, OnSaleType DEF Monies
  <2>3. Wealth(r, "XUSD") = 0
    BY <1>9 DEF LedgerInv, SupplyKept, Assets
  <2>4. Wealth(r, "XUSD") = (x - s) + o
    BY <2>2 DEF Wealth, Net
  <2>5. s = x + o
    BY <2>3, <2>4
  <2> QED  BY <1>1, <2>2, <2>5
<1>11. effective_median' \in Nat \X Nat
  <2>1. CASE UNCHANGED effective_median
    BY <2>1 DEF LedgerInv, LedgerShape
  <2>2. ASSUME NEW f \in ledgerProfile.feeds,
               effective_median' = IF money'.supply > 0 /\ Leverage * money'.supply * f[2] > f[1] * current_supply
                                     THEN <<Leverage * money'.supply, current_supply>> ELSE f
        PROVE  effective_median' \in Nat \X Nat
    <3>1. f \in Nat \X Nat
      BY ProfileTypes DEF LedgerInv, LedgerShape
    <3>2. Leverage * money'.supply \in Nat
      BY <1>10, LedgerAssumption, MulNat
    <3>3. current_supply \in Nat
      BY SupplyTypes
    <3>4. <<Leverage * money'.supply, current_supply>> \in Nat \X Nat
      BY <3>2, <3>3
    <3> QED  BY <2>2, <3>1, <3>4
  <2> QED  BY <1>2, <2>1, <2>2 DEF update_median_feed
<1> QED  BY <1>1, <1>2, <1>3, <1>8, <1>9, <1>11, MarketStep

\* An operation that moves money and leaves the vesting fund alone, or changes it.
LEMMA MoveInv ==
    ASSUME LedgerInv, UNCHANGED ledgerProfile, NEW a \in Accounts, Move(a)
    PROVE  LedgerInv' /\ ValueKept
<1>1. PICK amount \in ledgerProfile.moved :
         \/ \E b \in Accounts, asset \in Assets : transfer(a, b, asset, amount)
         \/ pay_fee(a, amount)
         \/ balance_claim(a, amount)
         \/ convert(a, amount)
         \/ \E b \in Accounts : ledgerProfile.vesting /\ transfer_to_vesting(a, b, amount)
         \/ withdraw(a, amount)
  BY DEF Move
<1>2. amount \in Nat
  BY ProfileTypes DEF LedgerInv, LedgerShape
<1>3. ASSUME NEW b \in Accounts, NEW asset \in Assets, transfer(a, b, asset, amount) PROVE LedgerInv' /\ ValueKept
  <2>1. LedgerInv'
    BY <1>2, <1>3, TransferInv
  <2>2. UNCHANGED <<vesting_shares, total_vesting_fund_btcm>>
    BY <1>3 DEF transfer
  <2> QED  BY <2>1, <2>2, VestingUnchanged
<1>4. CASE pay_fee(a, amount)
  <2>1. LedgerInv'
    BY <1>2, <1>4, FeeInv
  <2>2. UNCHANGED <<vesting_shares, total_vesting_fund_btcm>>
    BY <1>4 DEF pay_fee
  <2> QED  BY <2>1, <2>2, VestingUnchanged
<1>5. CASE balance_claim(a, amount)
  <2>1. LedgerInv'
    BY <1>2, <1>5, ClaimInv
  <2>2. UNCHANGED <<vesting_shares, total_vesting_fund_btcm>>
    BY <1>5 DEF balance_claim
  <2> QED  BY <2>1, <2>2, VestingUnchanged
<1>6. CASE convert(a, amount)
  <2>1. LedgerInv'
    BY <1>2, <1>6, ConvertInv
  <2>2. UNCHANGED <<vesting_shares, total_vesting_fund_btcm>>
    BY <1>6 DEF convert
  <2> QED  BY <2>1, <2>2, VestingUnchanged
<1>7. ASSUME NEW b \in Accounts, transfer_to_vesting(a, b, amount) PROVE LedgerInv' /\ ValueKept
  BY <1>2, <1>7, TransferToVestingInv
<1>8. CASE withdraw(a, amount)
  BY <1>2, <1>8, WithdrawInv
<1> QED  BY <1>1, <1>3, <1>4, <1>5, <1>6, <1>7, <1>8

LEMMA TradeInv ==
    ASSUME LedgerInv, UNCHANGED ledgerProfile, NEW a \in Accounts, Trade(a)
    PROVE  LedgerInv' /\ ValueKept
<1>1. PICK sells \in Assets, amount \in ledgerProfile.sold, expires \in Expirations, kill \in BOOLEAN :
         \/ \E price \in ledgerProfile.prices : limit_order_create2(a, sells, amount, price, expires, kill)
         \/ \E min \in ledgerProfile.sold : limit_order_create(a, sells, amount, min, expires, kill)
  BY DEF Trade
<1>2. amount \in Nat /\ expires \in Nat
  <2>1. ledgerProfile.sold \subseteq Nat /\ ledgerProfile.time \in Nat /\ money.time \in Nat
    BY ProfileTypes DEF LedgerInv, LedgerShape, Monies
  <2> QED  BY <2>1 DEF Expirations
<1>3. ASSUME NEW price \in ledgerProfile.prices, limit_order_create2(a, sells, amount, price, expires, kill)
      PROVE  LedgerInv' /\ ValueKept
  <2>1. price \in Prices
    BY ProfileTypes DEF LedgerInv, LedgerShape
  <2> QED  BY <1>2, <1>3, <2>1, CreateInv
<1>4. ASSUME NEW min \in ledgerProfile.sold, limit_order_create(a, sells, amount, min, expires, kill)
      PROVE  LedgerInv' /\ ValueKept
  <2>1. min \in Nat /\ min > 0 /\ amount > 0 /\ limit_order_create2(a, sells, amount, <<amount, min>>, expires, kill)
    BY <1>4, ProfileTypes DEF LedgerInv, LedgerShape, limit_order_create
  <2>2. PICK price \in Prices : price = <<amount, min>>
    BY <1>2, <2>1 DEF Prices
  <2>3. limit_order_create2(a, sells, amount, price, expires, kill)
    BY <2>1, <2>2
  <2> QED  BY <1>2, <2>3, CreateInv
<1> QED  BY <1>1, <1>3, <1>4

LEMMA LedgerStepInv ==
    ASSUME LedgerInv, [LedgerNext]_ledgerVars PROVE LedgerInv' /\ (ValueKept \/ UNCHANGED ledgerVars)
<1>1. CASE UNCHANGED ledgerVars
  BY <1>1 DEF ledgerVars, LedgerInv, LedgerShape, SharesBacked, SupplyKept, OrdersAtRest, TradesFair
<1>2. CASE LedgerNext
  <2>1. /\ UNCHANGED ledgerProfile
        /\ \/ \E a \in Accounts : \/ Trade(a) \/ Move(a)
                                  \/ \E i \in DOMAIN orders : limit_order_cancel(a, i)
                                  \/ get_producer_reward(a)
           \/ Block
    BY <1>2 DEF LedgerNext
  <2>2. ASSUME NEW a \in Accounts, Trade(a) PROVE LedgerInv' /\ ValueKept
    BY <2>1, <2>2, TradeInv
  <2>3. ASSUME NEW a \in Accounts, Move(a) PROVE LedgerInv' /\ ValueKept
    BY <2>1, <2>3, MoveInv
  <2>4. ASSUME NEW a \in Accounts, NEW i \in DOMAIN orders, limit_order_cancel(a, i) PROVE LedgerInv' /\ ValueKept
    BY <2>1, <2>4, CancelInv
  <2>5. ASSUME NEW a \in Accounts, get_producer_reward(a) PROVE LedgerInv' /\ ValueKept
    BY <2>1, <2>5, RewardInv
  <2>6. CASE Block
    BY <2>1, <2>6, BlockInv
  <2> QED  BY <2>1, <2>2, <2>3, <2>4, <2>5, <2>6
<1> QED  BY <1>1, <1>2

-----------------------------------------------------------------------------
(* The first state, and the theorems. *)

LEMMA LedgerInitInv == LedgerInit => LedgerInv
<1> SUFFICES ASSUME LedgerInit PROVE LedgerInv
  OBVIOUS
<1> DEFINE B == [a \in Accounts |-> ledgerProfile.first[a][1]]
           X == [a \in Accounts |-> ledgerProfile.first[a][2]]
           V == [a \in Accounts |-> ledgerProfile.first[a][3]]
           Z == [a \in Accounts |-> 0]
<1>1. ledgerProfile \in LedgerProfiles
  BY DEF LedgerInit
<1>2. /\ ledgerProfile.first \in [Accounts -> Nat \X Nat \X Nat] /\ ledgerProfile.unclaimed \in Nat
      /\ ledgerProfile.rewards = "none" => \A a \in Accounts : ledgerProfile.first[a][3] = 0
  BY <1>1, ProfileTypes
<1>3. B \in Balances /\ X \in Balances /\ V \in Balances /\ Z \in Balances
  BY <1>2 DEF Balances
<1>4. PICK w \in Accounts, reward \in {IF ledgerProfile.rewards = "none" THEN 0 ELSE Reward} :
         /\ vesting_shares = [a \in Accounts |-> ledgerProfile.first[a][3] + (IF a = w THEN reward ELSE 0)]
         /\ total_vesting_fund_btcm = reward
         /\ current_supply = reward + Total(B) + ledgerProfile.unclaimed
  BY DEF LedgerInit
<1>5. reward \in Nat /\ (reward = 0 => ledgerProfile.rewards = "none")
  BY LedgerAssumption
<1>6. vesting_shares \in Balances
  <2>1. ASSUME NEW a \in Accounts PROVE ledgerProfile.first[a][3] + (IF a = w THEN reward ELSE 0) \in Nat
    <3>1. ledgerProfile.first[a][3] \in Nat
      BY <1>2
    <3> QED  BY <1>5, <3>1
  <2> QED  BY <1>4, <2>1 DEF Balances
<1>7. SharesBacked
  <2> SUFFICES ASSUME reward = 0 PROVE Total(vesting_shares) = 0
    BY <1>4 DEF SharesBacked
  <2>1. \A a \in Accounts : vesting_shares[a] = 0
    <3>1. ASSUME NEW a \in Accounts PROVE vesting_shares[a] = 0
      <4>1. ledgerProfile.first[a][3] = 0
        BY <1>2, <1>5
      <4> QED  BY <1>4, <4>1
    <3> QED  BY <3>1
  <2> DEFINE F == {T \in SUBSET Accounts : SumFunctionOnSet(vesting_shares, T) = 0}
  <2>2. ASSUME NEW T \in SUBSET Accounts PROVE IsFiniteSet(T) /\ IntOn(vesting_shares, T)
    BY <2>1, LedgerAssumption, FS_Subset DEF IntOn
  <2>3. {} \in F
    BY <2>2, SumOnSet
  <2>4. ASSUME NEW T \in F, NEW x \in Accounts \ T PROVE T \cup {x} \in F
    <3>1. T \cup {x} \in SUBSET Accounts
      OBVIOUS
    <3>2. SumFunctionOnSet(vesting_shares, T \cup {x}) = vesting_shares[x] + SumFunctionOnSet(vesting_shares, T)
      BY <2>2, <3>1, SumInsert
    <3> QED  BY <2>1, <3>1, <3>2
  <2>5. F \in SUBSET (SUBSET Accounts)
    OBVIOUS
  <2> HIDE DEF F
  <2>6. F = SUBSET Accounts
    BY <2>3, <2>4, <2>5, LedgerAssumption, SetInduction
  <2> QED  BY <2>6 DEF F, Total
<1>8. PICK x \in Int : x = Total(X)
  BY <1>3, TotalType
<1>9. money = [BTCM |-> B, XUSD |-> X, seconds |-> Z, updated |-> Z, paid |-> Z, time |-> 0, supply |-> x]
  BY <1>8 DEF LedgerInit
<1>10. \A a \in Accounts : Z[a] <= 0
  OBVIOUS
<1> HIDE DEF B, X, V, Z
<1>11. /\ money \in [BTCM : Balances, XUSD : Balances, seconds : Balances, updated : Balances, paid : Balances,
                     time : Nat, supply : Int]
       /\ money.updated = Z /\ money.paid = Z /\ money.time = 0
       /\ money.BTCM = B /\ money.XUSD = X /\ money.supply = x
  BY <1>3, <1>9
<1>12. money \in Monies
  BY <1>10, <1>11 DEF Monies
<1>13. /\ orders = <<>> /\ trades = <<>> /\ unclaimed = ledgerProfile.unclaimed /\ effective_median = <<0, 0>>
  BY DEF LedgerInit, NoPrice
<1>14. orders \in Seq(Orders) /\ Len(orders) = 0 /\ trades \in Seq(Fills) /\ Len(trades) = 0
  BY <1>13
<1>15. \A asset : OnSale(orders, asset) = 0
  <2> SUFFICES ASSUME NEW asset PROVE OnSale(orders, asset) = 0
    OBVIOUS
  <2> DEFINE e == [i \in DOMAIN <<>> |-> Offered(<<>>[i], asset)]
  <2>1. OnSale(<<>>, asset) = SumFunctionOnSet(e, {})
    BY DEF OnSale
  <2>2. IsFiniteSet({}) /\ IntOn(e, {})
    BY FS_EmptySet DEF IntOn
  <2> HIDE DEF e
  <2>3. SumFunctionOnSet(e, {}) = 0
    BY <2>2, SumOnSet
  <2> QED  BY <1>13, <2>1, <2>3
<1>16. LedgerShape
  BY <1>1, <1>2, <1>4, <1>5, <1>6, <1>12, <1>13, <1>14 DEF LedgerShape
<1>17. SupplyKept
  <2>1. PICK b \in Nat, u \in Nat : b = Total(B) /\ u = ledgerProfile.unclaimed
    BY <1>2, <1>3, TotalType
  <2>2. Net(money, "BTCM") = b /\ Net(money, "XUSD") = x - x
    BY <1>8, <1>11, <2>1 DEF Net
  <2> QED  BY <1>4, <1>5, <1>13, <1>15, <2>1, <2>2 DEF SupplyKept
<1>18. OrdersAtRest /\ TradesFair
  BY <1>14 DEF OrdersAtRest, Alive, Uncrossed, TradesFair, AllFair
<1> QED  BY <1>7, <1>16, <1>17, <1>18 DEF LedgerInv

LEMMA LedgerInvSound == LedgerInv => SupplyAddsUp /\ OrdersFair
<1> SUFFICES ASSUME LedgerInv PROVE SupplyAddsUp /\ OrdersFair
  OBVIOUS
<1>1. LedgerTypeOK
  <2>1. money \in Monies /\ vesting_shares \in Balances /\ total_vesting_fund_btcm \in Nat
        /\ current_supply \in Nat /\ money.supply \in Nat
    BY SupplyTypes
  <2>2. ASSUME NEW a \in Accounts PROVE money.updated[a] \in 0 .. money.time /\ money.paid[a] \in 0 .. money.time
    BY <2>1 DEF Monies, Balances
  <2> QED  BY <2>1, <2>2 DEF LedgerTypeOK, Monies, Balances
<1>2. SupplyAddsUp
  <2>1. Net(money, "BTCM") = Total(money.BTCM)
    BY DEF Net
  <2>2. current_supply = Net(money, "BTCM") + OnSale(orders, "BTCM") + total_vesting_fund_btcm + unclaimed
    BY DEF LedgerInv, SupplyKept
  <2>3. money.supply = Total(money.XUSD) + OnSale(orders, "XUSD")
    BY SupplyTypes
  <2> QED  BY <1>1, <2>1, <2>2, <2>3 DEF SupplyAddsUp
<1>3. DOMAIN trades = 1 .. Len(trades) /\ DOMAIN orders = 1 .. Len(orders)
  BY DEF LedgerInv, LedgerShape, TradesFair
<1>4. LimitsRespected
  BY <1>3 DEF LedgerInv, TradesFair, AllFair, Fair, LimitsRespected
<1>5. BookAtRest
  BY <1>3 DEF LedgerInv, OrdersAtRest, Alive, Uncrossed, BookAtRest
<1> QED  BY <1>2, <1>4, <1>5 DEF OrdersFair

\* After any sequence of transfers, fees, claims, conversions, purchases and
\* withdrawals of shares, rewards, orders, partial fills, refunds and
\* expirations, with any number of accounts and orders, both supplies are
\* what the accounts, the book, the fund and the unclaimed balances hold, and
\* no balance is negative.
THEOREM MoneyAddsUp == LedgerSpec => []SupplyAddsUp
<1>1. LedgerInv /\ [LedgerNext]_ledgerVars => LedgerInv'
  BY LedgerStepInv
<1> QED  BY <1>1, LedgerInitInv, LedgerInvSound, PTL DEF LedgerSpec

\* However many orders a new one meets and whatever is rounded, both sides of
\* every trade get at least what they ask for, and no two orders that could
\* be matched are left in the book.
THEOREM MarketFair == LedgerSpec => []OrdersFair
<1>1. LedgerInv /\ [LedgerNext]_ledgerVars => LedgerInv'
  BY LedgerStepInv
<1> QED  BY <1>1, LedgerInitInv, LedgerInvSound, PTL DEF LedgerSpec

\* No purchase, reward or withdrawal makes the shares of the others worth
\* less, for every amount and every size of the fund.
THEOREM SharesNeverDiluted == LedgerSpec => SharesKeepTheirValue
<1>1. LedgerInv /\ [LedgerNext]_ledgerVars => LedgerInv'
  BY LedgerStepInv
<1>2. LedgerInv /\ [LedgerNext]_ledgerVars => [ValueKept]_ledgerVars
  BY LedgerStepInv
<1>3. LedgerSpec => [][ValueKept]_ledgerVars
  BY <1>1, <1>2, LedgerInitInv, PTL DEF LedgerSpec
<1> QED  BY <1>3 DEF SharesKeepTheirValue, ValueKept

=============================================================================
