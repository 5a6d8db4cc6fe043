---------------------------- MODULE ExchangeFacts ----------------------------
(***************************************************************************)
(* What the builder of the execution node makes of trades, and what the    *)
(* contracts make of its matches, for any book and any trades.             *)
(***************************************************************************)
EXTENDS ExchangeContracts, FoldFacts

-----------------------------------------------------------------------------
(* What the builder makes of the trades.                                   *)

(* Rounding keeps energy a whole number of units.                          *)
LEMMA ScaleNat ==
  ASSUME NEW energy \in Nat, NEW grain \in Nat \ {0}
  PROVE  Scale(energy, grain) \in Nat
<1>1. energy \div grain \in Nat
  <2>1. energy \div grain \in Int /\ energy % grain \in 0 .. (grain - 1)
        /\ energy = grain * (energy \div grain) + (energy % grain)
    OBVIOUS
  <2> QED
    BY <2>1
<1> QED
  BY <1>1 DEF Scale

LEMMA ScaleInt ==
  ASSUME NEW energy \in Int, NEW grain \in Nat \ {0}
  PROVE  Scale(energy, grain) \in Int
<1>1. energy \div grain \in Int
  OBVIOUS
<1> QED
  BY <1>1 DEF Scale

AnyOrder(n) == [id : [of : Orders \cup {Pool}, after : 0 .. n], energy : Nat \ {0}]
AnyMatch(n) ==
  [trade : 1 .. n, market : Markets, bid : AnyOrder(n), offer : AnyOrder(n),
   quantity : Nat \ {0}, price : Int]

(* A side of match t: the pool's order for it, or the form of a            *)
(* participant's order that an earlier match left.                         *)
IsSide(order, t) ==
  /\ order.id.of = Pool => order.id = PoolOrderId(t)
  /\ order.id.of # Pool => order.id.after < t

IsMatch(match, t, trades) ==
  /\ match.trade = t
  /\ match.market = trades[t].market /\ match.price = trades[t].price
  /\ IsSide(match.bid, t) /\ IsSide(match.offer, t)

(* The state of the loop after k trades.                                   *)
LiveForms(k) == [Orders -> [id : [of : Orders, after : 0 .. k], energy : Nat \ {0}]]

IsBuilt(built, k, trades) ==
  /\ built.live \in LiveForms(k)
  /\ built.matches \in Seq(AnyMatch(Len(trades)))
  /\ Len(built.matches) = k
  /\ \A t \in 1 .. k : IsMatch(built.matches[t], t, trades)

(* An order that a match takes from stays the order of a participant, in   *)
(* the form that the match leaves.                                         *)
LEMMA MovedForms ==
  ASSUME NEW book, IsBook(book), NEW t \in Nat, NEW live \in LiveForms(t),
         NEW o \in Orders \cup {Pool}, NEW quantity \in Nat \ {0}
  PROVE  Moved(book, live, o, quantity, t) \in LiveForms(t)
<1>1. CASE o # Pool /\ Remaining(book, live, o, quantity) > 0
  <2> DEFINE rest == Remaining(book, live, o, quantity)
             form == [id |-> Residual(o, t), energy |-> rest * book.grain]
  <2>1. book.grain \in Nat \ {0} /\ live[o].energy \in Nat
    BY <1>1 DEF IsBook, LiveForms
  <2>2. rest \in Int
    BY <2>1, ScaleNat DEF Remaining
  <2>3. rest * book.grain \in Nat \ {0}
    <3> HIDE DEF rest
    <3>1. \A a, b \in Int : a > 0 /\ b > 0 => a * b > 0 /\ a * b \in Int
      OBVIOUS
    <3> QED
      BY <2>1, <2>2, <3>1, <1>1 DEF rest
  <2>4. form \in [id : [of : Orders, after : 0 .. t], energy : Nat \ {0}]
    BY <1>1, <2>3 DEF Residual
  <2>5. Moved(book, live, o, quantity, t) = [live EXCEPT ![o] = form]
    BY <1>1 DEF Moved
  <2> HIDE DEF form
  <2> QED
    BY <2>4, <2>5 DEF LiveForms
<1>2. CASE ~ (o # Pool /\ Remaining(book, live, o, quantity) > 0)
  BY <1>2 DEF Moved
<1> QED
  BY <1>1, <1>2

LEMMA SideForms ==
  ASSUME NEW n \in Nat, NEW t \in 1 .. n, NEW live \in LiveForms(t - 1),
         NEW o \in Orders \cup {Pool}, NEW quantity \in Nat \ {0}
  PROVE  /\ Side(live, o, quantity, t) \in AnyOrder(n)
         /\ IsSide(Side(live, o, quantity, t), t)
<1>1. CASE o = Pool
  BY <1>1 DEF Side, PoolOrderId, AnyOrder, IsSide
<1>2. CASE o # Pool
  <2>1. live[o] \in [id : [of : Orders, after : 0 .. (t - 1)], energy : Nat \ {0}]
    BY <1>2 DEF LiveForms
  <2>2. 0 .. (t - 1) \subseteq 0 .. n /\ \A a \in 0 .. (t - 1) : a < t
    OBVIOUS
  <2> QED
    BY <1>2, <2>1, <2>2, MatchBuilderAssumption DEF Side, AnyOrder, IsSide
<1> QED
  BY <1>1, <1>2

(* One turn of the loop of build keeps what its matches are like.          *)
LEMMA AddTradeBuilds ==
  ASSUME NEW book, IsBook(book), NEW trades \in Seq(Trades), NEW t \in 1 .. Len(trades),
         NEW built, IsBuilt(built, t - 1, trades)
  PROVE  IsBuilt(AddTrade(book, built, trades[t]), t, trades)
<1> DEFINE trade == trades[t]
           bid == Side(built.live, trade.bid, trade.quantity, t)
           offer == Side(built.live, trade.offer, trade.quantity, t)
           match == [trade |-> t, market |-> trade.market, bid |-> bid, offer |-> offer,
                     quantity |-> trade.quantity, price |-> trade.price]
           afterBid == Moved(book, built.live, trade.bid, trade.quantity, t)
           afterOffer == Moved(book, afterBid, trade.offer, trade.quantity, t)
<1>1. /\ trade \in Trades /\ Len(trades) \in Nat /\ t \in Nat
      /\ trade.bid \in Orders \cup {Pool} /\ trade.offer \in Orders \cup {Pool}
      /\ trade.quantity \in Nat \ {0} /\ trade.price \in Int /\ trade.market \in Markets
  <2>1. trade \in Trades /\ Len(trades) \in Nat /\ t \in Nat
    OBVIOUS
  <2> HIDE DEF trade
  <2> QED
    BY <2>1 DEF Trades
<1>2. Len(built.matches) + 1 = t
  BY DEF IsBuilt
<1>3. AddTrade(book, built, trade) = [live |-> afterOffer, matches |-> Append(built.matches, match)]
  BY <1>2 DEF AddTrade
<1>4. built.live \in LiveForms(t - 1)
  BY DEF IsBuilt
<1>5. built.live \in LiveForms(t)
  <2>1. 0 .. (t - 1) \subseteq 0 .. t
    BY <1>1
  <2>2. \A f \in [id : [of : Orders, after : 0 .. (t - 1)], energy : Nat \ {0}] :
          f \in [id : [of : Orders, after : 0 .. t], energy : Nat \ {0}]
    BY <2>1
  <2> QED
    BY <1>4, <2>2 DEF LiveForms
<1> HIDE DEF trade
<1>6. afterOffer \in LiveForms(t)
  <2>1. afterBid \in LiveForms(t)
    BY <1>1, <1>5, MovedForms
  <2> HIDE DEF afterBid
  <2> QED
    BY <2>1, <1>1, MovedForms
<1>7. /\ bid \in AnyOrder(Len(trades)) /\ IsSide(bid, t)
      /\ offer \in AnyOrder(Len(trades)) /\ IsSide(offer, t)
  BY <1>1, <1>4, SideForms
<1> HIDE DEF bid, offer, afterOffer
<1>8. match \in AnyMatch(Len(trades)) /\ IsMatch(match, t, trades)
  BY <1>1, <1>7 DEF AnyMatch, IsMatch, trade
<1> HIDE DEF match
<1>9. /\ Append(built.matches, match) \in Seq(AnyMatch(Len(trades)))
      /\ Len(Append(built.matches, match)) = t
      /\ Append(built.matches, match)[t] = match
      /\ \A u \in 1 .. (t - 1) : Append(built.matches, match)[u] = built.matches[u]
  BY <1>2, <1>8 DEF IsBuilt
<1>10. \A u \in 1 .. t : u = t \/ u \in 1 .. (t - 1)
  BY <1>1
<1>11. \A u \in 1 .. t : IsMatch(Append(built.matches, match)[u], u, trades)
  BY <1>8, <1>9, <1>10 DEF IsBuilt
<1> QED
  BY <1>3, <1>6, <1>9, <1>11 DEF IsBuilt, trade

(* The loop, as the recursive function that AllMatches is.                 *)
IsLoop(book, trades, n, g) ==
  g = [k \in 0 .. n |-> IF k = 0 THEN NothingBuilt(book) ELSE AddTrade(book, g[k - 1], trades[k])]

LEMMA LoopExists ==
  ASSUME NEW book, NEW trades
  PROVE  \A n \in Nat : \E g : IsLoop(book, trades, n, g)
<1> DEFINE P == {n \in Nat : \E g : IsLoop(book, trades, n, g)}
<1>1. 0 \in P
  <2> DEFINE g == [k \in 0 .. 0 |-> NothingBuilt(book)]
  <2>1. IsLoop(book, trades, 0, g)
    BY DEF IsLoop
  <2> QED
    BY <2>1
<1>2. ASSUME NEW n \in Nat, n \in P
      PROVE  n + 1 \in P
  <2>1. PICK g : IsLoop(book, trades, n, g)
    BY <1>2
  <2> DEFINE Step(k) == IF k = 0 THEN NothingBuilt(book) ELSE AddTrade(book, g[k - 1], trades[k])
             h == [k \in 0 .. (n + 1) |-> Step(k)]
  <2>2. \A k \in 0 .. n : h[k] = g[k]
    <3>1. \A k \in 0 .. n : k \in 0 .. (n + 1)
      OBVIOUS
    <3>2. \A k \in 0 .. n : g[k] = Step(k)
      BY <2>1 DEF IsLoop
    <3> HIDE DEF Step
    <3> QED
      BY <3>1, <3>2
  <2>3. \A k \in 0 .. (n + 1) : k # 0 => k - 1 \in 0 .. n
    OBVIOUS
  <2>4. IsLoop(book, trades, n + 1, h)
    BY <2>2, <2>3 DEF IsLoop
  <2> HIDE DEF h
  <2> QED
    BY <2>4
<1> HIDE DEF P
<1>3. \A n \in Nat : n \in P
  BY <1>1, <1>2, Counting
<1> QED
  BY <1>3 DEF P

(* One match per trade, in their order.                                    *)
LEMMA MatchPerTrade ==
  ASSUME NEW book, IsBook(book), NEW trades \in Seq(Trades)
  PROVE  /\ AllMatches(book, trades) \in Seq(AnyMatch(Len(trades)))
         /\ Len(AllMatches(book, trades)) = Len(trades)
         /\ \A t \in 1 .. Len(trades) : IsMatch(AllMatches(book, trades)[t], t, trades)
<1> DEFINE n == Len(trades)
           g == CHOOSE g : IsLoop(book, trades, n, g)
<1>1. n \in Nat
  OBVIOUS
<1>2. IsLoop(book, trades, n, g)
  BY <1>1, LoopExists
<1>3. AllMatches(book, trades) = g[n].matches
  BY DEF AllMatches, IsLoop
<1> HIDE DEF g
<1>4. /\ g[0] = NothingBuilt(book)
      /\ \A k \in 1 .. n : g[k] = AddTrade(book, g[k - 1], trades[k])
  <2>1. \A k \in 0 .. n :
          g[k] = IF k = 0 THEN NothingBuilt(book) ELSE AddTrade(book, g[k - 1], trades[k])
    BY <1>2 DEF IsLoop
  <2> QED
    BY <1>1, <2>1
<1> DEFINE P == {k \in 0 .. n : IsBuilt(g[k], k, trades)}
<1> HIDE DEF n
<1>5. 0 \in P
  <2>1. NothingBuilt(book).live \in LiveForms(0)
    BY DEF NothingBuilt, LiveForms, Original, IsBook
  <2>2. NothingBuilt(book).matches = <<>>
    BY DEF NothingBuilt
  <2>3. IsBuilt(NothingBuilt(book), 0, trades)
    BY <2>1, <2>2 DEF IsBuilt
  <2> QED
    BY <1>1, <1>4, <2>3
<1>6. ASSUME NEW k \in 0 .. n, k < n, k \in P
      PROVE  k + 1 \in P
  <2>1. k + 1 \in 1 .. n /\ (k + 1) - 1 = k
    BY <1>1, <1>6
  <2>2. IsBuilt(g[(k + 1) - 1], (k + 1) - 1, trades)
    BY <1>6, <2>1
  <2>3. IsBuilt(AddTrade(book, g[(k + 1) - 1], trades[k + 1]), k + 1, trades)
    BY <2>1, <2>2, AddTradeBuilds DEF n
  <2> QED
    BY <1>4, <2>1, <2>3
<1> HIDE DEF P
<1>7. \A k \in 0 .. n : n >= k /\ k \in P
  BY <1>1, <1>5, <1>6, CountingTo
<1>8. n \in P
  BY <1>1, <1>7
<1> QED
  BY <1>3, <1>8 DEF P, IsBuilt, n

(* The pool's orders are sides of the matches.                             *)
LEMMA PoolOrdersElements ==
  ASSUME NEW n \in Nat, NEW matches \in Seq(AnyMatch(n))
  PROVE  /\ PoolOrders(matches) \in Seq(AnyOrder(n))
         /\ \A k \in 1 .. Len(PoolOrders(matches)) :
              /\ PoolOrders(matches)[k].id.of = Pool
              /\ \E l \in 1 .. Len(matches) :
                   PoolOrders(matches)[k] \in {matches[l].bid, matches[l].offer}
<1> DEFINE sides == [k \in DOMAIN matches |-> <<matches[k].bid, matches[k].offer>>]
           orders == FlattenSeq(sides)
           K == {k \in DOMAIN orders : orders[k].id.of = Pool}
           pool == Subsequence(orders, K)
<1>1. PoolOrders(matches) = pool
  BY DEF PoolOrders
<1>2. /\ sides \in Seq(Seq(AnyOrder(n))) /\ Len(sides) = Len(matches)
      /\ \A l \in 1 .. Len(matches) : sides[l] = <<matches[l].bid, matches[l].offer>>
  <2>1. DOMAIN matches = 1 .. Len(matches) /\ Len(matches) \in Nat
    OBVIOUS
  <2>2. \A l \in 1 .. Len(matches) : matches[l].bid \in AnyOrder(n) /\ matches[l].offer \in AnyOrder(n)
    <3>1. \A l \in 1 .. Len(matches) : matches[l] \in AnyMatch(n)
      OBVIOUS
    <3> QED
      BY <3>1 DEF AnyMatch
  <2>3. \A l \in 1 .. Len(matches) : <<matches[l].bid, matches[l].offer>> \in Seq(AnyOrder(n))
    BY <2>2
  <2> QED
    BY <2>1, <2>3
<1> HIDE DEF sides
<1>3. /\ orders \in Seq(AnyOrder(n))
      /\ \A x : Occurs(x, orders) <=> \E i \in 1 .. Len(sides) : Occurs(x, sides[i])
  BY <1>2, FlattenElements
<1> HIDE DEF orders
<1>4. DOMAIN orders = 1 .. Len(orders) /\ K \in SUBSET (1 .. Len(orders))
  BY <1>3
<1>5. pool \in Seq(AnyOrder(n))
  BY <1>3, <1>4, SubsequenceEmbeds
<1>6. \A i \in 1 .. Len(pool) : \E k \in K : pool[i] = orders[k]
  BY <1>3, <1>4, SubsequenceElements
<1>7. ASSUME NEW i \in 1 .. Len(pool)
      PROVE  /\ pool[i].id.of = Pool
             /\ \E l \in 1 .. Len(matches) : pool[i] \in {matches[l].bid, matches[l].offer}
  <2>1. PICK k \in K : pool[i] = orders[k]
    BY <1>6
  <2>2. Occurs(orders[k], orders)
    BY <1>4 DEF Occurs
  <2>3. PICK l \in 1 .. Len(matches) : Occurs(orders[k], sides[l])
    BY <1>2, <1>3, <2>2
  <2>4. \E j \in 1 .. 2 : <<matches[l].bid, matches[l].offer>>[j] = orders[k]
    BY <1>2, <2>3 DEF Occurs
  <2>5. orders[k] \in {matches[l].bid, matches[l].offer}
    BY <2>4
  <2> HIDE DEF pool
  <2> QED
    BY <2>1, <2>5
<1> QED
  BY <1>1, <1>5, <1>7

LEMMA MarketsInElements ==
  ASSUME NEW n \in Nat, NEW matches \in Seq(AnyMatch(n))
  PROVE  MarketsIn(matches) \in Seq({matches[k].market : k \in 1 .. Len(matches)})
<1> DEFINE M == {matches[k].market : k \in 1 .. Len(matches)}
           markets == [k \in DOMAIN matches |-> matches[k].market]
           K == {k \in DOMAIN matches : \A l \in 1 .. k - 1 : matches[l].market # matches[k].market}
<1>1. /\ markets \in Seq(M) /\ Len(markets) = Len(matches)
      /\ K \in SUBSET (1 .. Len(matches))
  OBVIOUS
<1>2. MarketsIn(matches) = Subsequence(markets, K)
  BY DEF MarketsIn
<1> HIDE DEF markets, K, M
<1>3. Subsequence(markets, K) \in Seq(M)
  BY <1>1, SubsequenceEmbeds
<1> QED
  BY <1>2, <1>3 DEF M

PlacesOf(matches, m) == {k \in 1 .. Len(matches) : matches[k].market = m}

(* The matches of a market are those at its places, each once.             *)
LEMMA MatchesOfElements ==
  ASSUME NEW n \in Nat, NEW matches \in Seq(AnyMatch(n)), NEW m
  PROVE  /\ MatchesOf(matches, m) \in Seq(AnyMatch(n))
         /\ Len(MatchesOf(matches, m)) = Cardinality(PlacesOf(matches, m))
         /\ \A i \in 1 .. Len(MatchesOf(matches, m)) :
              \E k \in PlacesOf(matches, m) : MatchesOf(matches, m)[i] = matches[k]
         /\ \A k \in PlacesOf(matches, m) :
              \E i \in 1 .. Len(MatchesOf(matches, m)) : MatchesOf(matches, m)[i] = matches[k]
<1> DEFINE K == PlacesOf(matches, m)
<1>1. K \in SUBSET (1 .. Len(matches)) /\ DOMAIN matches = 1 .. Len(matches)
  BY DEF PlacesOf
<1>2. MatchesOf(matches, m) = Subsequence(matches, K)
  BY <1>1 DEF MatchesOf, PlacesOf
<1> HIDE DEF K
<1>3. Subsequence(matches, K) \in Seq(AnyMatch(n))
  BY <1>1, SubsequenceEmbeds
<1>4. Len(Subsequence(matches, K)) = Cardinality(K)
  BY <1>1, SubsequenceLength
<1>5. /\ \A i \in 1 .. Len(Subsequence(matches, K)) : \E k \in K : Subsequence(matches, K)[i] = matches[k]
      /\ \A k \in K : \E i \in 1 .. Len(Subsequence(matches, K)) : Subsequence(matches, K)[i] = matches[k]
  BY <1>1, SubsequenceElements
<1> QED
  BY <1>2, <1>3, <1>4, <1>5 DEF K

-----------------------------------------------------------------------------
(* What an order has left.  The builder's live form of an order is the     *)
(* order itself or the residual of its last trade, and the chain of forms  *)
(* goes on until the units sold reach what was offered.                    *)

(* A whole number of units is itself when it is scaled.                    *)
LEMMA ScaleWhole ==
  ASSUME NEW a \in Nat, NEW grain \in Nat \ {0}
  PROVE  Scale(a * grain, grain) = a
<1> DEFINE energy == a * grain
           q == energy \div grain
           r == energy % grain
<1>1. energy \in Nat
  BY \A x, y \in Nat : x * y \in Nat
<1> HIDE DEF energy
<1>2. q \in Int /\ r \in 0 .. (grain - 1) /\ energy = grain * q + r
  BY <1>1
<1> HIDE DEF q, r
<1>3. q = a /\ r = 0
  <2>1. r = grain * (a - q)
    <3>1. energy = grain * a
      BY \A x, y \in Nat : x * y = y * x DEF energy
    <3>2. \A x, y \in Int : grain * x = grain * y + r => r = grain * (x - y)
      BY <1>2
    <3> QED
      BY <1>2, <3>1, <3>2
  <2>2. ASSUME a - q >= 1
        PROVE  FALSE
    <3>1. \A d \in Int : d >= 1 => grain * d >= grain
      OBVIOUS
    <3> QED
      BY <1>2, <2>1, <2>2, <3>1
  <2>3. ASSUME a - q <= 0 - 1
        PROVE  FALSE
    <3>1. \A d \in Int : d <= 0 - 1 => grain * d < 0
      OBVIOUS
    <3> QED
      BY <1>2, <2>1, <2>3, <3>1
  <2>4. a = q
    BY <1>2, <2>2, <2>3
  <2> QED
    BY <1>2, <2>1, <2>4
<1> QED
  BY <1>3 DEF Scale, q, r, energy

(* What is whole is not rounded.                                           *)
LEMMA WholeScales ==
  ASSUME NEW energy \in Nat, NEW grain \in Nat \ {0}, energy % grain = 0
  PROVE  Scale(energy, grain) \in Nat /\ energy = Scale(energy, grain) * grain
<1> DEFINE a == energy \div grain
<1>1. a \in Nat /\ energy = a * grain
  OBVIOUS
<1> HIDE DEF a
<1>2. Scale(a * grain, grain) = a
  BY <1>1, ScaleWhole
<1> QED
  BY <1>1, <1>2

(* Rounding to the nearest unit is off by at most half a unit.             *)
LEMMA ScaleError ==
  ASSUME NEW energy \in Nat, NEW grain \in Nat \ {0}
  PROVE  /\ - grain <= 2 * (Scale(energy, grain) * grain - energy)
         /\ 2 * (Scale(energy, grain) * grain - energy) <= grain
         /\ energy % grain = 0 => Scale(energy, grain) * grain - energy = 0
<1> DEFINE q == energy \div grain
           r == energy % grain
<1>1. q \in Nat /\ r \in 0 .. (grain - 1) /\ energy = q * grain + r
  OBVIOUS
<1>2. \/ Scale(energy, grain) = q /\ 2 * r <= grain
      \/ Scale(energy, grain) = q + 1 /\ 2 * r >= grain
  BY <1>1 DEF Scale
<1> HIDE DEF q, r
<1>3. (q + 1) * grain = q * grain + grain /\ q * grain \in Nat
  BY <1>1
<1>4. CASE Scale(energy, grain) = q /\ 2 * r <= grain
  <2>1. Scale(energy, grain) * grain - energy = - r
    BY <1>1, <1>3, <1>4
  <2> QED
    BY <1>1, <1>4, <2>1 DEF r
<1>5. CASE Scale(energy, grain) = q + 1 /\ 2 * r >= grain
  <2>1. Scale(energy, grain) * grain - energy = grain - r
    BY <1>1, <1>3, <1>5
  <2>2. r # 0
    BY <1>5
  <2> QED
    BY <1>1, <1>5, <2>1, <2>2 DEF r
<1> QED
  BY <1>2, <1>4, <1>5

(* The trades of an order among the first k, and what they sell of it, in  *)
(* whole units.                                                            *)
LegsTo(trades, o, k) == {l \in 1 .. k : o \in {trades[l].bid, trades[l].offer}}
UnitsOf(book, trades) == [l \in 1 .. Len(trades) |-> Scale(trades[l].quantity, book.grain)]
SoldTo(book, trades, o, k) == SumFunctionOnSet(UnitsOf(book, trades), LegsTo(trades, o, k))
Capacity(book, o) == Scale(book.energy[o], book.grain)

LEMMA SoldToNat ==
  ASSUME NEW book, IsBook(book), NEW trades \in Seq(Trades), NEW o, NEW k \in 0 .. Len(trades)
  PROVE  SoldTo(book, trades, o, k) \in Nat
<1> DEFINE f == UnitsOf(book, trades)
           T == LegsTo(trades, o, k)
<1>1. \A l \in 1 .. Len(trades) : f[l] \in Nat
  <2>1. \A l \in 1 .. Len(trades) : trades[l] \in Trades
    OBVIOUS
  <2>2. \A l \in 1 .. Len(trades) : Scale(trades[l].quantity, book.grain) \in Nat
    BY <2>1, ScaleNat DEF Trades, IsBook
  <2> QED
    BY <2>2 DEF UnitsOf
<1>2. T \subseteq 1 .. k /\ 1 .. k \subseteq 1 .. Len(trades) /\ k \in Nat
  BY DEF LegsTo
<1> HIDE DEF f, T
<1>3. IsFiniteSet(T)
  <2>1. IsFiniteSet(1 .. k)
    BY <1>2, FS_Interval
  <2> QED
    BY <1>2, <2>1, FS_Subset
<1>4. SumFunctionOnSet(f, T) \in Nat
  BY <1>1, <1>2, <1>3, SumNat
<1> QED
  BY <1>4 DEF SoldTo, f, T

(* How the sum goes on.                                                    *)
LEMMA SoldToStep ==
  ASSUME NEW book, IsBook(book), NEW trades \in Seq(Trades), NEW o, NEW t \in 1 .. Len(trades)
  PROVE  /\ t \notin LegsTo(trades, o, t) =>
              /\ LegsTo(trades, o, t) = LegsTo(trades, o, t - 1)
              /\ SoldTo(book, trades, o, t) = SoldTo(book, trades, o, t - 1)
         /\ t \in LegsTo(trades, o, t) =>
              /\ LegsTo(trades, o, t) = LegsTo(trades, o, t - 1) \cup {t}
              /\ SoldTo(book, trades, o, t)
                   = SoldTo(book, trades, o, t - 1) + Scale(trades[t].quantity, book.grain)
<1> DEFINE f == UnitsOf(book, trades)
           T == LegsTo(trades, o, t)
           U == LegsTo(trades, o, t - 1)
<1>1. t \in Nat \ {0} /\ Len(trades) \in Nat
  OBVIOUS
<1>2. t \notin T => T = U
  <2>1. \A l \in 1 .. t : l = t \/ l \in 1 .. (t - 1)
    BY <1>1
  <2>2. \A l \in 1 .. (t - 1) : l \in 1 .. t
    BY <1>1
  <2> QED
    BY <1>1, <2>1, <2>2 DEF LegsTo
<1>3. t \in T => T = U \cup {t} /\ T \ {t} = U
  <2>1. \A l \in 1 .. t : l = t \/ l \in 1 .. (t - 1)
    BY <1>1
  <2>2. \A l \in 1 .. (t - 1) : l \in 1 .. t /\ l # t
    BY <1>1
  <2> QED
    BY <1>1, <2>1, <2>2 DEF LegsTo
<1>4. Summands(f, T)
  <2>1. \A l \in 1 .. Len(trades) : trades[l] \in Trades
    OBVIOUS
  <2>2. \A l \in 1 .. Len(trades) : Scale(trades[l].quantity, book.grain) \in Nat
    BY <2>1, ScaleNat DEF Trades, IsBook
  <2>3. \A l \in 1 .. Len(trades) : f[l] \in Int
    BY <2>2 DEF UnitsOf
  <2>4. T \subseteq 1 .. Len(trades) /\ IsFiniteSet(1 .. Len(trades))
    BY <1>1, FS_Interval DEF LegsTo
  <2>5. IsFiniteSet(T)
    BY <2>4, FS_Subset
  <2> HIDE DEF f, T
  <2> QED
    BY <2>3, <2>4, <2>5 DEF Summands
<1>5. f[t] = Scale(trades[t].quantity, book.grain)
  BY DEF UnitsOf
<1>6. SoldTo(book, trades, o, t - 1) \in Nat
  <2>1. t - 1 \in 0 .. Len(trades)
    BY <1>1
  <2> QED
    BY <2>1, SoldToNat
<1>7. /\ SoldTo(book, trades, o, t) = SumFunctionOnSet(f, T)
      /\ SoldTo(book, trades, o, t - 1) = SumFunctionOnSet(f, U)
  BY DEF SoldTo
<1> HIDE DEF f, T, U
<1>8. ASSUME t \in T
      PROVE  SumFunctionOnSet(f, T) = SumFunctionOnSet(f, U) + f[t]
  <2>1. SumFunctionOnSet(f, T) = f[t] + SumFunctionOnSet(f, T \ {t})
    BY <1>4, <1>8, SumRemove
  <2>2. f[t] \in Int /\ SumFunctionOnSet(f, U) \in Int
    BY <1>4, <1>6, <1>7, <1>8 DEF Summands
  <2>3. T \ {t} = U
    BY <1>3, <1>8
  <2>4. SumFunctionOnSet(f, T) = f[t] + SumFunctionOnSet(f, U)
    BY <2>1, <2>3
  <2> HIDE DEF f, T, U
  <2> QED
    BY <2>2, <2>4
<1> QED
  BY <1>2, <1>3, <1>5, <1>7, <1>8 DEF T, U

(* No trade of the order comes when it is sold out, and none has it on     *)
(* both sides.                                                             *)
NeverSoldOut(book, trades, o) ==
  \A l \in LegsTo(trades, o, Len(trades)) :
    /\ trades[l].bid # trades[l].offer
    /\ SoldTo(book, trades, o, l - 1) < Capacity(book, o)

(* What an order is like after k trades: the residual of the last of its   *)
(* trades, with what they have left of it.                                 *)
IsForm(book, trades, o, k, form) ==
  /\ form.id = Residual(o, form.id.after)
  /\ form.id.after \in LegsTo(trades, o, k) \cup {0}
  /\ \A l \in LegsTo(trades, o, k) : l <= form.id.after
  /\ Scale(form.energy, book.grain) = Capacity(book, o) - SoldTo(book, trades, o, k)
  /\ form.id.after = 0 => form = [id |-> Original(o), energy |-> book.energy[o]]

IsCurrent(book, trades, o, k, live) ==
  /\ live[o].id.of = o
  /\ NeverSoldOut(book, trades, o) /\ SoldTo(book, trades, o, k) < Capacity(book, o)
       => IsForm(book, trades, o, k, live[o])

(* Each match takes its orders as the trades before it have left them.     *)
TakesSide(book, trades, t, o, side) ==
  /\ side.id.of = o
  /\ o = Pool => side.id = PoolOrderId(t)
  /\ o \in Orders /\ NeverSoldOut(book, trades, o) => IsForm(book, trades, o, t - 1, side)

TakesForms(book, trades, t, match) ==
  /\ match.quantity = trades[t].quantity
  /\ TakesSide(book, trades, t, trades[t].bid, match.bid)
  /\ TakesSide(book, trades, t, trades[t].offer, match.offer)

IsChained(book, trades, k, built) ==
  /\ \A o \in Orders : IsCurrent(book, trades, o, k, built.live)
  /\ \A t \in 1 .. k : TakesForms(book, trades, t, built.matches[t])

LEMMA LegIsSide ==
  ASSUME NEW trades, NEW t \in Nat \ {0}, NEW n \in Nat, t <= n, NEW o
  PROVE  /\ t \in LegsTo(trades, o, t) <=> o \in {trades[t].bid, trades[t].offer}
         /\ t \in LegsTo(trades, o, n) <=> o \in {trades[t].bid, trades[t].offer}
BY DEF LegsTo

(* A match takes from an order, and what it leaves is the residual.        *)
LEMMA MovedIsForm ==
  ASSUME NEW book, IsBook(book), NEW trades \in Seq(Trades), NEW t \in 1 .. Len(trades),
         NEW o \in Orders, NeverSoldOut(book, trades, o), NEW live \in LiveForms(t),
         IsForm(book, trades, o, t - 1, live[o]), t \in LegsTo(trades, o, t),
         SoldTo(book, trades, o, t) < Capacity(book, o)
  PROVE  IsForm(book, trades, o, t, Moved(book, live, o, trades[t].quantity, t)[o])
<1> DEFINE rest == Remaining(book, live, o, trades[t].quantity)
           form == [id |-> Residual(o, t), energy |-> rest * book.grain]
           sold == SoldTo(book, trades, o, t)
           before == SoldTo(book, trades, o, t - 1)
           units == Scale(trades[t].quantity, book.grain)
           all == Capacity(book, o)
<1>1. /\ trades[t] \in Trades /\ t \in Nat \ {0} /\ t - 1 \in 0 .. Len(trades) /\ t \in 0 .. Len(trades)
      /\ book.grain \in Nat \ {0} /\ book.energy[o] \in Nat
  BY DEF IsBook
<1>2. units \in Nat /\ all \in Nat
  BY <1>1, ScaleNat DEF Trades, Capacity
<1>3. sold \in Nat /\ before \in Nat
  BY <1>1, SoldToNat
<1>4. sold = before + units /\ LegsTo(trades, o, t) = LegsTo(trades, o, t - 1) \cup {t}
  BY SoldToStep
<1>5. Scale(live[o].energy, book.grain) = all - before
  BY DEF IsForm
<1>6. rest = (all - before) - units
  BY <1>5 DEF Remaining
<1> HIDE DEF sold, before, units, all
<1>7. sold < all
  BY DEF sold, all
<1>8. rest = all - sold /\ rest \in Nat \ {0}
  BY <1>2, <1>3, <1>4, <1>6, <1>7
<1>9. o # Pool /\ rest > 0
  BY <1>8, MatchBuilderAssumption
<1>10. Moved(book, live, o, trades[t].quantity, t)[o] = form
  <2>1. DOMAIN live = Orders
    BY DEF LiveForms
  <2> QED
    BY <1>9, <2>1 DEF Moved
<1> HIDE DEF rest
<1>11. Scale(form.energy, book.grain) = all - sold
  BY <1>1, <1>8, ScaleWhole
<1>12. form.id = Residual(o, form.id.after) /\ form.id.after = t
  BY DEF Residual
<1>13. \A l \in LegsTo(trades, o, t) : l <= t
  BY <1>1 DEF LegsTo
<1> HIDE DEF form
<1> QED
  BY <1>1, <1>10, <1>11, <1>12, <1>13 DEF IsForm, all, sold

LEMMA MovedOther ==
  ASSUME NEW book, NEW t, NEW live \in LiveForms(t), NEW other, NEW o \in Orders, o # other, NEW quantity
  PROVE  Moved(book, live, other, quantity, t)[o] = live[o]
<1>1. DOMAIN live = Orders
  BY DEF LiveForms
<1> QED
  BY <1>1 DEF Moved

LEMMA CurrentStep ==
  ASSUME NEW book, IsBook(book), NEW trades \in Seq(Trades), NEW t \in 1 .. Len(trades),
         NEW live \in LiveForms(t), NEW o \in Orders, IsCurrent(book, trades, o, t - 1, live),
         NEW afterBid, afterBid = Moved(book, live, trades[t].bid, trades[t].quantity, t),
         NEW afterOffer, afterOffer = Moved(book, afterBid, trades[t].offer, trades[t].quantity, t)
  PROVE  IsCurrent(book, trades, o, t, afterOffer)
<1>0. afterOffer[o].id.of = o
  <2>1. \A other, quantity : \A form \in LiveForms(t) :
          form[o].id.of = o => Moved(book, form, other, quantity, t)[o].id.of = o
    <3> SUFFICES ASSUME NEW form \in LiveForms(t), NEW other, NEW quantity, form[o].id.of = o
                 PROVE  Moved(book, form, other, quantity, t)[o].id.of = o
      OBVIOUS
    <3>1. CASE other = o
      <4>1. DOMAIN form = Orders
        BY DEF LiveForms
      <4> QED
        BY <3>1, <4>1 DEF Moved, Residual
    <3>2. CASE other # o
      BY <3>2, MovedOther
    <3> QED
      BY <3>1, <3>2
  <2>2. afterBid \in LiveForms(t)
    <3>1. trades[t] \in Trades /\ t \in Nat
      OBVIOUS
    <3> QED
      BY <3>1, MovedForms DEF Trades
  <2>3. live[o].id.of = o
    BY DEF IsCurrent
  <2> QED
    BY <2>1, <2>2, <2>3
<1> SUFFICES ASSUME NeverSoldOut(book, trades, o), SoldTo(book, trades, o, t) < Capacity(book, o)
             PROVE  IsForm(book, trades, o, t, afterOffer[o])
  BY <1>0 DEF IsCurrent
<1>1. /\ trades[t] \in Trades /\ t \in Nat \ {0} /\ Len(trades) \in Nat /\ t <= Len(trades)
      /\ t - 1 \in 0 .. Len(trades) /\ t \in 0 .. Len(trades)
      /\ book.grain \in Nat \ {0} /\ book.energy[o] \in Nat
  BY DEF IsBook
<1>2. afterBid \in LiveForms(t)
  BY <1>1, MovedForms DEF Trades
<1>3. t \in LegsTo(trades, o, t) <=> o \in {trades[t].bid, trades[t].offer}
  BY <1>1, LegIsSide
<1>4. CASE t \notin LegsTo(trades, o, t)
  <2>1. o # trades[t].bid /\ o # trades[t].offer
    BY <1>3, <1>4
  <2>2. afterOffer[o] = live[o]
    <3>1. afterBid[o] = live[o]
      BY <2>1, MovedOther
    <3>2. afterOffer[o] = afterBid[o]
      BY <1>2, <2>1, MovedOther
    <3> QED
      BY <3>1, <3>2
  <2>3. /\ LegsTo(trades, o, t) = LegsTo(trades, o, t - 1)
        /\ SoldTo(book, trades, o, t) = SoldTo(book, trades, o, t - 1)
    BY <1>4, SoldToStep
  <2>4. IsForm(book, trades, o, t - 1, live[o])
    BY <2>3 DEF IsCurrent
  <2> QED
    BY <2>2, <2>3, <2>4 DEF IsForm
<1>5. CASE t \in LegsTo(trades, o, t)
  <2>1. t \in LegsTo(trades, o, Len(trades))
    BY <1>1, <1>3, <1>5, LegIsSide
  <2>2. trades[t].bid # trades[t].offer /\ SoldTo(book, trades, o, t - 1) < Capacity(book, o)
    BY <2>1 DEF NeverSoldOut
  <2>3. IsForm(book, trades, o, t - 1, live[o])
    BY <2>2 DEF IsCurrent
  <2>4. CASE o = trades[t].bid
    <3>1. IsForm(book, trades, o, t, afterBid[o])
      BY <1>5, <2>3, <2>4, MovedIsForm
    <3>2. afterOffer[o] = afterBid[o]
      BY <1>2, <2>2, <2>4, MovedOther
    <3> QED
      BY <3>1, <3>2
  <2>5. CASE o = trades[t].offer
    <3>1. afterBid[o] = live[o]
      BY <2>2, <2>5, MovedOther
    <3>2. IsForm(book, trades, o, t - 1, afterBid[o])
      BY <2>3, <3>1
    <3> QED
      BY <1>2, <1>5, <2>5, <3>2, MovedIsForm
  <2> QED
    BY <1>3, <1>5, <2>4, <2>5
<1> QED
  BY <1>4, <1>5

LEMMA SideTakes ==
  ASSUME NEW book, NEW trades \in Seq(Trades), NEW t \in 1 .. Len(trades), NEW live,
         NEW o \in {trades[t].bid, trades[t].offer}, o \in Orders \cup {Pool}, NEW quantity,
         o \in Orders => IsCurrent(book, trades, o, t - 1, live)
  PROVE  TakesSide(book, trades, t, o, Side(live, o, quantity, t))
<1>1. CASE o = Pool
  BY <1>1, MatchBuilderAssumption DEF TakesSide, Side, PoolOrderId
<1>2. ASSUME o \in Orders, NeverSoldOut(book, trades, o)
      PROVE  IsForm(book, trades, o, t - 1, Side(live, o, quantity, t))
  <2>1. t \in Nat \ {0} /\ Len(trades) \in Nat /\ t <= Len(trades)
    OBVIOUS
  <2>2. t \in LegsTo(trades, o, Len(trades))
    BY <2>1, LegIsSide
  <2>3. SoldTo(book, trades, o, t - 1) < Capacity(book, o)
    BY <1>2, <2>2 DEF NeverSoldOut
  <2>4. Side(live, o, quantity, t) = live[o]
    BY <1>2, MatchBuilderAssumption DEF Side
  <2> QED
    BY <1>2, <2>3, <2>4 DEF IsCurrent
<1>3. ASSUME o \in Orders
      PROVE  Side(live, o, quantity, t).id.of = o
  BY <1>3, MatchBuilderAssumption DEF Side, IsCurrent
<1> QED
  BY <1>1, <1>2, <1>3, MatchBuilderAssumption DEF TakesSide

LEMMA AddTradeChains ==
  ASSUME NEW book, IsBook(book), NEW trades \in Seq(Trades), NEW t \in 1 .. Len(trades),
         NEW built, IsBuilt(built, t - 1, trades), IsChained(book, trades, t - 1, built)
  PROVE  IsChained(book, trades, t, AddTrade(book, built, trades[t]))
<1> DEFINE trade == trades[t]
           live == built.live
           match == [trade |-> t, market |-> trade.market,
                     bid |-> Side(live, trade.bid, trade.quantity, t),
                     offer |-> Side(live, trade.offer, trade.quantity, t),
                     quantity |-> trade.quantity, price |-> trade.price]
           afterBid == Moved(book, live, trade.bid, trade.quantity, t)
           afterOffer == Moved(book, afterBid, trade.offer, trade.quantity, t)
<1>1. /\ trade \in Trades /\ t \in Nat \ {0} /\ Len(trades) \in Nat
  OBVIOUS
<1>2. Len(built.matches) + 1 = t /\ built.matches \in Seq(AnyMatch(Len(trades)))
  BY <1>1 DEF IsBuilt
<1>3. AddTrade(book, built, trade) = [live |-> afterOffer, matches |-> Append(built.matches, match)]
  BY <1>2 DEF AddTrade
<1>4. live \in LiveForms(t)
  <2>1. 0 .. (t - 1) \subseteq 0 .. t
    BY <1>1
  <2>2. \A f \in [id : [of : Orders, after : 0 .. (t - 1)], energy : Nat \ {0}] :
          f \in [id : [of : Orders, after : 0 .. t], energy : Nat \ {0}]
    BY <2>1
  <2> QED
    BY <2>2 DEF LiveForms, IsBuilt
<1>5. \A o \in Orders : IsCurrent(book, trades, o, t - 1, live)
  BY DEF IsChained
<1> HIDE DEF live
<1>6. \A o \in Orders : IsCurrent(book, trades, o, t, afterOffer)
  <2> SUFFICES ASSUME NEW o \in Orders
               PROVE  IsCurrent(book, trades, o, t, afterOffer)
    OBVIOUS
  <2> HIDE DEF afterOffer, afterBid
  <2>1. /\ afterBid = Moved(book, live, trades[t].bid, trades[t].quantity, t)
        /\ afterOffer = Moved(book, afterBid, trades[t].offer, trades[t].quantity, t)
    BY DEF afterBid, afterOffer
  <2> QED
    BY <1>4, <1>5, <2>1, CurrentStep
<1>7. TakesForms(book, trades, t, match)
  <2>1. TakesSide(book, trades, t, trade.bid, match.bid)
    <3>1. trade.bid \in {trades[t].bid, trades[t].offer} /\ trade.bid \in Orders \cup {Pool}
      BY <1>1 DEF Trades
    <3> QED
      BY <1>5, <3>1, SideTakes
  <2>2. TakesSide(book, trades, t, trade.offer, match.offer)
    <3>1. trade.offer \in {trades[t].bid, trades[t].offer} /\ trade.offer \in Orders \cup {Pool}
      BY <1>1 DEF Trades
    <3> QED
      BY <1>5, <3>1, SideTakes
  <2> QED
    BY <2>1, <2>2 DEF TakesForms
<1> HIDE DEF match, afterOffer, afterBid
<1>8. /\ Append(built.matches, match)[t] = match
      /\ \A u \in 1 .. (t - 1) : Append(built.matches, match)[u] = built.matches[u]
  BY <1>2, AppendProperties
<1>9. \A u \in 1 .. t : u = t \/ u \in 1 .. (t - 1)
  BY <1>1
<1>10. \A u \in 1 .. t : TakesForms(book, trades, u, Append(built.matches, match)[u])
  BY <1>7, <1>8, <1>9 DEF IsChained
<1> DEFINE after == AddTrade(book, built, trades[t])
<1>11. after.live = afterOffer /\ after.matches = Append(built.matches, match)
  BY <1>3
<1> HIDE DEF after
<1>12. IsChained(book, trades, t, after)
  BY <1>6, <1>10, <1>11 DEF IsChained
<1> QED
  BY <1>12 DEF after

(* The matches of a batch chain the forms of the orders.                   *)
LEMMA MatchesChain ==
  ASSUME NEW book, IsBook(book), NEW trades \in Seq(Trades)
  PROVE  \A t \in 1 .. Len(trades) : TakesForms(book, trades, t, AllMatches(book, trades)[t])
<1> DEFINE n == Len(trades)
           g == CHOOSE g : IsLoop(book, trades, n, g)
<1>1. n \in Nat
  OBVIOUS
<1>2. IsLoop(book, trades, n, g)
  BY <1>1, LoopExists
<1>3. AllMatches(book, trades) = g[n].matches
  BY DEF AllMatches, IsLoop
<1> HIDE DEF g
<1>4. /\ g[0] = NothingBuilt(book)
      /\ \A k \in 1 .. n : g[k] = AddTrade(book, g[k - 1], trades[k])
  <2>1. \A k \in 0 .. n :
          g[k] = IF k = 0 THEN NothingBuilt(book) ELSE AddTrade(book, g[k - 1], trades[k])
    BY <1>2 DEF IsLoop
  <2> QED
    BY <1>1, <2>1
<1> DEFINE P == {k \in 0 .. n : IsBuilt(g[k], k, trades) /\ IsChained(book, trades, k, g[k])}
<1> HIDE DEF n
<1>5. 0 \in P
  <2>1. NothingBuilt(book).live \in LiveForms(0)
    BY DEF NothingBuilt, LiveForms, Original, IsBook
  <2>2. NothingBuilt(book).matches = <<>>
    BY DEF NothingBuilt
  <2>3. IsBuilt(NothingBuilt(book), 0, trades)
    BY <2>1, <2>2 DEF IsBuilt
  <2>4. ASSUME NEW o \in Orders
        PROVE  IsForm(book, trades, o, 0, NothingBuilt(book).live[o])
    <3>1. NothingBuilt(book).live[o] = [id |-> Original(o), energy |-> book.energy[o]]
      BY DEF NothingBuilt
    <3>2. LegsTo(trades, o, 0) = {}
      BY DEF LegsTo
    <3>3. SoldTo(book, trades, o, 0) = 0
      BY <3>2, SumEmpty DEF SoldTo
    <3>4. Capacity(book, o) \in Nat
      BY ScaleNat DEF Capacity, IsBook
    <3>5. Scale(book.energy[o], book.grain) = Capacity(book, o) - 0
      BY <3>4 DEF Capacity
    <3> QED
      BY <3>1, <3>2, <3>3, <3>5 DEF IsForm, Original, Residual
  <2>5. IsChained(book, trades, 0, NothingBuilt(book))
    BY <2>4 DEF IsChained, IsCurrent, IsForm, Residual
  <2> QED
    BY <1>1, <1>4, <2>3, <2>5
<1>6. ASSUME NEW k \in 0 .. n, k < n, k \in P
      PROVE  k + 1 \in P
  <2>1. k + 1 \in 1 .. n /\ (k + 1) - 1 = k
    BY <1>1, <1>6
  <2>2. /\ IsBuilt(g[(k + 1) - 1], (k + 1) - 1, trades)
        /\ IsChained(book, trades, (k + 1) - 1, g[(k + 1) - 1])
    BY <1>6, <2>1
  <2>3. IsBuilt(AddTrade(book, g[(k + 1) - 1], trades[k + 1]), k + 1, trades)
    BY <2>1, <2>2, AddTradeBuilds DEF n
  <2>4. IsChained(book, trades, k + 1, AddTrade(book, g[(k + 1) - 1], trades[k + 1]))
    BY <2>1, <2>2, AddTradeChains DEF n
  <2> QED
    BY <1>4, <2>1, <2>3, <2>4
<1> HIDE DEF P
<1>7. \A k \in 0 .. n : n >= k /\ k \in P
  BY <1>1, <1>5, <1>6, CountingTo
<1>8. n \in P
  BY <1>1, <1>7
<1> QED
  BY <1>3, <1>8 DEF P, IsChained, n

-----------------------------------------------------------------------------
(* The pool's orders: each side of a match that is the pool's is among     *)
(* them, and those of two matches are told apart by their ids.             *)
LEMMA PoolOrdersPlaces ==
  ASSUME NEW n \in Nat, NEW matches \in Seq(AnyMatch(n)),
         \A t \in 1 .. Len(matches) : IsSide(matches[t].bid, t) /\ IsSide(matches[t].offer, t)
  PROVE  /\ \A t \in 1 .. Len(matches) : \A side \in {matches[t].bid, matches[t].offer} :
              side.id.of = Pool => \E i \in 1 .. Len(PoolOrders(matches)) : PoolOrders(matches)[i] = side
         /\ \A i, j \in 1 .. Len(PoolOrders(matches)) :
              PoolOrders(matches)[i].id = PoolOrders(matches)[j].id /\ i # j =>
                \E t \in 1 .. Len(matches) : /\ PoolOrders(matches)[i].id = PoolOrderId(t)
                                             /\ matches[t].bid.id.of = Pool
                                             /\ matches[t].offer.id.of = Pool
<1> DEFINE sides == [k \in DOMAIN matches |-> <<matches[k].bid, matches[k].offer>>]
           orders == FlattenSeq(sides)
           K == {k \in DOMAIN orders : orders[k].id.of = Pool}
           pool == Subsequence(orders, K)
           S == AnyOrder(n)
<1>1. PoolOrders(matches) = pool
  BY DEF PoolOrders
<1>2. /\ sides \in Seq(Seq(S)) /\ Len(sides) = Len(matches)
      /\ \A l \in 1 .. Len(matches) : /\ Len(sides[l]) = 2
                                      /\ sides[l][1] = matches[l].bid /\ sides[l][2] = matches[l].offer
  <2>1. DOMAIN matches = 1 .. Len(matches) /\ Len(matches) \in Nat
    OBVIOUS
  <2>2. \A l \in 1 .. Len(matches) : matches[l].bid \in S /\ matches[l].offer \in S
    <3>1. \A l \in 1 .. Len(matches) : matches[l] \in AnyMatch(n)
      OBVIOUS
    <3> QED
      BY <3>1 DEF AnyMatch
  <2>3. \A l \in 1 .. Len(matches) : <<matches[l].bid, matches[l].offer>> \in Seq(S)
    BY <2>2
  <2> QED
    BY <2>1, <2>3
<1> HIDE DEF sides, S
<1>3. /\ orders \in Seq(S)
      /\ \A x : Occurs(x, orders) <=> \E i \in 1 .. Len(sides) : Occurs(x, sides[i])
      /\ \E off : LaidOut(orders, sides, Len(sides), off)
  BY <1>2, FlattenElements, FlattenLaidOut
<1> HIDE DEF orders
<1>4. DOMAIN orders = 1 .. Len(orders) /\ K \in SUBSET (1 .. Len(orders))
  BY <1>3
<1>5. \A k \in K : \E i \in 1 .. Len(pool) : pool[i] = orders[k]
  BY <1>3, <1>4, SubsequenceElements
<1> HIDE DEF K, pool
<1>6. orders \in Seq(S) /\ K \in SUBSET (1 .. Len(orders))
  BY <1>3, <1>4
<1>7. PICK h : /\ \A i \in 1 .. Len(Subsequence(orders, K)) :
                    h[i] \in K /\ Subsequence(orders, K)[i] = orders[h[i]]
               /\ \A i, j \in 1 .. Len(Subsequence(orders, K)) : h[i] = h[j] => i = j
  <2>1. TakesFrom(Subsequence(orders, K), orders, K)
    BY <1>6, SubsequencePlaces
  <2> QED
    BY <2>1 DEF TakesFrom
<1>8. /\ \A i \in 1 .. Len(pool) : h[i] \in K /\ pool[i] = orders[h[i]]
      /\ \A i, j \in 1 .. Len(pool) : h[i] = h[j] => i = j
  BY <1>7 DEF pool
<1> USE DEF K
<1>9. PICK off : LaidOut(orders, sides, Len(sides), off)
  BY <1>3
<1>10. ASSUME NEW t \in 1 .. Len(matches), NEW side \in {matches[t].bid, matches[t].offer}, side.id.of = Pool
      PROVE  \E i \in 1 .. Len(pool) : pool[i] = side
  <2>0. 1 \in 1 .. Len(sides[t]) /\ 2 \in 1 .. Len(sides[t]) /\ side \in {sides[t][1], sides[t][2]}
    BY <1>2
  <2>1. Occurs(side, sides[t])
    BY <2>0 DEF Occurs
  <2>2. Occurs(side, orders)
    BY <1>2, <1>3, <2>1
  <2>3. PICK k \in 1 .. Len(orders) : orders[k] = side
    BY <2>2 DEF Occurs
  <2>4. k \in K
    BY <1>4, <1>10, <2>3
  <2> QED
    BY <1>5, <2>3, <2>4
<1>11. ASSUME NEW k \in K
      PROVE  \E t \in 1 .. Len(matches), a \in 1 .. 2 :
               /\ k = off[t] + a /\ orders[k] = sides[t][a]
               /\ orders[k].id = PoolOrderId(t)
  <2>0. k \in 1 .. Len(orders) /\ Len(sides) = Len(matches)
    BY <1>2, <1>4
  <2>1. PICK t \in 1 .. Len(matches) : \E a \in 1 .. Len(sides[t]) : k = off[t] + a
    <3>1. \A l \in 1 .. Len(orders) : \E i \in 1 .. Len(sides) : \E a \in 1 .. Len(sides[i]) : l = off[i] + a
      BY <1>9 DEF LaidOut
    <3> HIDE DEF K
    <3> QED
      BY <2>0, <3>1
  <2>2. PICK a \in 1 .. 2 : k = off[t] + a
    BY <1>2, <2>1
  <2>3. orders[k] = sides[t][a]
    BY <1>2, <1>9, <2>2 DEF LaidOut
  <2>4. a = 1 \/ a = 2
    OBVIOUS
  <2>5. orders[k] = matches[t].bid \/ orders[k] = matches[t].offer
    BY <1>2, <2>3, <2>4
  <2>6. IsSide(orders[k], t) /\ orders[k].id.of = Pool
    BY <2>5
  <2>7. orders[k].id = PoolOrderId(t)
    BY <2>6 DEF IsSide
  <2> QED
    BY <2>2, <2>3, <2>7
<1>12. ASSUME NEW i \in 1 .. Len(pool), NEW j \in 1 .. Len(pool), pool[i].id = pool[j].id, i # j
       PROVE  \E t \in 1 .. Len(matches) : /\ pool[i].id = PoolOrderId(t)
                                           /\ matches[t].bid.id.of = Pool
                                           /\ matches[t].offer.id.of = Pool
  <2>1. /\ h[i] \in K /\ h[j] \in K /\ h[i] # h[j]
        /\ pool[i] = orders[h[i]] /\ pool[j] = orders[h[j]]
    BY <1>8, <1>12
  <2>2. PICK t \in 1 .. Len(matches), a \in 1 .. 2 :
          /\ h[i] = off[t] + a /\ orders[h[i]] = sides[t][a] /\ orders[h[i]].id = PoolOrderId(t)
    BY <1>11, <2>1
  <2>3. PICK u \in 1 .. Len(matches), b \in 1 .. 2 :
          /\ h[j] = off[u] + b /\ orders[h[j]] = sides[u][b] /\ orders[h[j]].id = PoolOrderId(u)
    BY <1>11, <2>1
  <2>4. t = u
    BY <1>12, <2>1, <2>2, <2>3 DEF PoolOrderId
  <2>5. a # b
    BY <2>1, <2>2, <2>3, <2>4
  <2>6. orders[h[i]].id.of = Pool /\ orders[h[j]].id.of = Pool
    BY <2>1
  <2>7. (a = 1 /\ b = 2) \/ (a = 2 /\ b = 1)
    BY <2>5
  <2>8. matches[t].bid.id.of = Pool /\ matches[t].offer.id.of = Pool
    BY <1>2, <2>2, <2>3, <2>4, <2>6, <2>7
  <2> QED
    BY <2>1, <2>2, <2>8
<1> QED
  BY <1>1, <1>10, <1>12

-----------------------------------------------------------------------------
(* A match on the chain.  A side of it, as to_tuple makes it of the form   *)
(* of a participant's order that the match takes.                          *)
SideTuple(book, o, form) == OnChain(book, form, book.terms[o])

LEMMA ClosedSides ==
  ASSUME NEW book, NEW trades \in Seq(Trades), NEW t \in 1 .. Len(trades), NEW match,
         TakesForms(book, trades, t, match), NEW side \in Closed(MatchTuple(book, match))
  PROVE  /\ side.id.of \in {trades[t].bid, trades[t].offer} /\ side.id.of \in Orders \cup {Pool}
         /\ side.id.of = Pool => side.id = PoolOrderId(t)
         /\ side.id.of \in Orders => \E form :
              /\ side = SideTuple(book, side.id.of, form)
              /\ TakesSide(book, trades, t, side.id.of, form)
<1> DEFINE trade == trades[t]
<1>1. /\ TakesSide(book, trades, t, trade.bid, match.bid)
      /\ TakesSide(book, trades, t, trade.offer, match.offer)
  BY DEF TakesForms
<1>2. match.bid.id.of = trade.bid /\ match.offer.id.of = trade.offer
  BY <1>1 DEF TakesSide
<1>3. \/ side = OnChain(book, match.bid, BidTerms(book, match))
      \/ side = OnChain(book, match.offer, OfferTerms(book, match))
  BY DEF Closed, MatchTuple
<1>4. trade.bid \in Orders \cup {Pool} /\ trade.offer \in Orders \cup {Pool}
  <2>1. trade \in Trades
    OBVIOUS
  <2> QED
    BY <2>1 DEF Trades
<1> HIDE DEF trade
<1>5. ASSUME NEW o \in {trade.bid, trade.offer}, NEW form, form.id.of = o, NEW rate,
             TakesSide(book, trades, t, o, form),
             side = OnChain(book, form, TermsOf(book, o, rate))
      PROVE  /\ side.id.of = o
             /\ o = Pool => side.id = PoolOrderId(t)
             /\ o \in Orders => side = SideTuple(book, o, form)
  <2>1. side.id = form.id
    BY <1>5 DEF OnChain
  <2>2. o \in Orders => TermsOf(book, o, rate) = book.terms[o]
    BY MatchBuilderAssumption DEF TermsOf
  <2> QED
    BY <1>5, <2>1, <2>2 DEF TakesSide, SideTuple
<1>6. CASE side = OnChain(book, match.bid, BidTerms(book, match))
  <2>1. side = OnChain(book, match.bid, TermsOf(book, trade.bid, book.upper))
    BY <1>2, <1>6 DEF BidTerms
  <2>2. /\ side.id.of = trade.bid
        /\ trade.bid = Pool => side.id = PoolOrderId(t)
        /\ trade.bid \in Orders => side = SideTuple(book, trade.bid, match.bid)
    BY <1>1, <1>2, <1>5, <2>1
  <2> QED
    BY <1>1, <1>4, <2>2 DEF trade
<1>7. CASE side = OnChain(book, match.offer, OfferTerms(book, match))
  <2>1. side = OnChain(book, match.offer, TermsOf(book, trade.offer, book.lower))
    BY <1>2, <1>7 DEF OfferTerms
  <2>2. /\ side.id.of = trade.offer
        /\ trade.offer = Pool => side.id = PoolOrderId(t)
        /\ trade.offer \in Orders => side = SideTuple(book, trade.offer, match.offer)
    BY <1>1, <1>2, <1>5, <2>1
  <2> QED
    BY <1>1, <1>4, <2>2 DEF trade
<1> QED
  BY <1>3, <1>6, <1>7

(* Conversely, an order of the trade has its side among those closed.      *)
LEMMA ClosesBoth ==
  ASSUME NEW book, NEW trades, NEW t, NEW match, TakesForms(book, trades, t, match),
         NEW o \in {trades[t].bid, trades[t].offer}
  PROVE  \E side \in Closed(MatchTuple(book, match)) : side.id.of = o
<1>1. match.bid.id.of = trades[t].bid /\ match.offer.id.of = trades[t].offer
  BY DEF TakesForms, TakesSide
<1>2. /\ MatchTuple(book, match).bid \in Closed(MatchTuple(book, match))
      /\ MatchTuple(book, match).offer \in Closed(MatchTuple(book, match))
      /\ MatchTuple(book, match).bid.id = match.bid.id
      /\ MatchTuple(book, match).offer.id = match.offer.id
  BY DEF Closed, MatchTuple, OnChain
<1> QED
  BY <1>1, <1>2

(* The order of a participant that a match closes stands as the trades     *)
(* before have left it, unless it is sold out.                             *)
LEMMA ClosedStands ==
  ASSUME NEW book, NEW trades \in Seq(Trades), NEW t \in 1 .. Len(trades), NEW match,
         TakesForms(book, trades, t, match), NEW side \in Closed(MatchTuple(book, match)),
         side.id.of # Pool, NeverSoldOut(book, trades, side.id.of)
  PROVE  /\ side.id.of \in Orders
         /\ \E form : /\ side = SideTuple(book, side.id.of, form)
                      /\ IsForm(book, trades, side.id.of, t - 1, form)
BY ClosedSides DEF TakesSide

(* No two matches close the same order.                                    *)
LEMMA ClosedByOne ==
  ASSUME NEW book, NEW trades \in Seq(Trades), NEW matches,
         NEW t \in 1 .. Len(trades), TakesForms(book, trades, t, matches[t]),
         NEW u \in 1 .. Len(trades), TakesForms(book, trades, u, matches[u]),
         NEW side, side \in Closed(MatchTuple(book, matches[t])),
         side \in Closed(MatchTuple(book, matches[u])),
         side.id.of # Pool => NeverSoldOut(book, trades, side.id.of)
  PROVE  t = u
<1>1. CASE side.id.of = Pool
  <2>1. side.id = PoolOrderId(t) /\ side.id = PoolOrderId(u)
    BY <1>1, ClosedSides
  <2> QED
    BY <2>1 DEF PoolOrderId
<1>2. CASE side.id.of # Pool
  <2> DEFINE o == side.id.of
  <2>1. ASSUME NEW a \in 1 .. Len(trades), NEW b \in 1 .. Len(trades), a < b,
               TakesForms(book, trades, a, matches[a]), TakesForms(book, trades, b, matches[b]),
               side \in Closed(MatchTuple(book, matches[a])),
               side \in Closed(MatchTuple(book, matches[b]))
        PROVE  FALSE
    <3>1. PICK f : side = SideTuple(book, o, f) /\ IsForm(book, trades, o, a - 1, f)
      BY <1>2, <2>1, ClosedStands
    <3>2. PICK g : side = SideTuple(book, o, g) /\ IsForm(book, trades, o, b - 1, g)
      BY <1>2, <2>1, ClosedStands
    <3>3. f.id = side.id /\ g.id = side.id
      BY <3>1, <3>2 DEF SideTuple, OnChain
    <3>4. o \in {trades[a].bid, trades[a].offer}
      BY <2>1, ClosedSides
    <3>5. a \in LegsTo(trades, o, b - 1)
      BY <2>1, <3>4 DEF LegsTo
    <3>6. a <= side.id.after
      BY <3>2, <3>3, <3>5 DEF IsForm
    <3>7. side.id.after \in LegsTo(trades, o, a - 1) \cup {0}
      BY <3>1, <3>3 DEF IsForm
    <3>8. side.id.after \in 0 .. (a - 1)
      BY <2>1, <3>7 DEF LegsTo
    <3> QED
      BY <2>1, <3>6, <3>8
  <2>2. t = u \/ t < u \/ u < t
    OBVIOUS
  <2> QED
    BY <2>1, <2>2
<1> QED
  BY <1>1, <1>2

(* Two orders that agree in every field are the same.                      *)
OrderFields == {"id", "energy", "by", "partner", "rate", "preferred"}
IsOrder(order) == order = [field \in OrderFields |-> order[field]]

LEMMA SameOrder ==
  ASSUME NEW a, NEW b, IsOrder(a), IsOrder(b), a.id = b.id, a.energy = b.energy, a.by = b.by,
         a.partner = b.partner, a.rate = b.rate, a.preferred = b.preferred
  PROVE  a = b
<1>1. \A field \in OrderFields : a[field] = b[field]
  BY DEF OrderFields
<1>2. [field \in OrderFields |-> a[field]] = [field \in OrderFields |-> b[field]]
  BY <1>1
<1> QED
  BY <1>2 DEF IsOrder

(* The residual that a match takes is the one that the last match of the   *)
(* order before it leaves on the chain.                                    *)
LEMMA LeftByLast ==
  ASSUME NEW book, IsBook(book), NEW trades \in Seq(Trades), NEW t \in 1 .. Len(trades),
         NEW matches, \A k \in 1 .. (t - 1) : /\ matches[k].trade = k
                                              /\ TakesForms(book, trades, k, matches[k]),
         NEW o \in Orders, o \in {trades[t].bid, trades[t].offer}, NeverSoldOut(book, trades, o),
         NEW form, form.id.after # 0, IsForm(book, trades, o, t - 1, form)
  PROVE  /\ form.id.after \in 1 .. (t - 1)
         /\ o \in {trades[form.id.after].bid, trades[form.id.after].offer}
         /\ SideTuple(book, o, form) \in Opened(MatchTuple(book, matches[form.id.after]))
<1> DEFINE l == form.id.after
           tuple == MatchTuple(book, matches[l])
<1>2. l \in LegsTo(trades, o, t - 1) /\ \A k \in LegsTo(trades, o, t - 1) : k <= l
  BY DEF IsForm
<1>3. l \in 1 .. (t - 1) /\ l \in 1 .. Len(trades) /\ o \in {trades[l].bid, trades[l].offer}
  BY <1>2 DEF LegsTo
<1>4. matches[l].trade = l /\ TakesForms(book, trades, l, matches[l])
  BY <1>3
<1>5. PICK side \in Closed(tuple) : side.id.of = o
  BY <1>3, <1>4, ClosesBoth
<1>6. PICK before : side = SideTuple(book, o, before) /\ IsForm(book, trades, o, l - 1, before)
  BY <1>3, <1>4, <1>5, MatchBuilderAssumption, ClosedStands
<1> DEFINE sold == SoldTo(book, trades, o, l)
           units == Scale(trades[l].quantity, book.grain)
           all == Capacity(book, o)
<1>8. LegsTo(trades, o, t - 1) = LegsTo(trades, o, l)
  <2>1. \A k \in 1 .. l : k \in 1 .. (t - 1)
    BY <1>3
  <2>2. \A k \in LegsTo(trades, o, t - 1) : k \in 1 .. l
    BY <1>2, <1>3 DEF LegsTo
  <2> HIDE DEF l
  <2> QED
    BY <2>1, <2>2 DEF LegsTo
<1>9. SoldTo(book, trades, o, t - 1) = sold
  BY <1>8 DEF SoldTo
<1>10. sold < all
  <2>1. t \in LegsTo(trades, o, Len(trades))
    BY DEF LegsTo
  <2> QED
    BY <1>9, <2>1 DEF NeverSoldOut
<1>11. sold = SoldTo(book, trades, o, l - 1) + units
  <2>1. l \in LegsTo(trades, o, l) /\ l \in 1 .. Len(trades)
    BY <1>3 DEF LegsTo
  <2> QED
    BY <2>1, SoldToStep
<1>12. sold \in Nat /\ SoldTo(book, trades, o, l - 1) \in Nat /\ all \in Nat /\ units \in Nat
  <2>1. l \in 0 .. Len(trades) /\ l - 1 \in 0 .. Len(trades)
    BY <1>3
  <2>2. trades[l] \in Trades
    BY <1>3
  <2>3. all \in Nat /\ units \in Nat
    BY <2>2, ScaleNat DEF Capacity, IsBook, Trades
  <2> HIDE DEF l
  <2> QED
    BY <2>1, <2>3, SoldToNat
<1>13. tuple.trade = l /\ tuple.selected = units
  BY <1>4 DEF MatchTuple, TakesForms
<1>14. side.energy = all - SoldTo(book, trades, o, l - 1)
  BY <1>6 DEF SideTuple, OnChain, IsForm
<1>15. SideTuple(book, o, form).energy = all - sold
  BY <1>9 DEF SideTuple, OnChain, IsForm
<1> HIDE DEF units, all, tuple
<1>16. side.energy > tuple.selected /\ side.energy - tuple.selected = all - sold
  <2> HIDE DEF sold
  <2> QED
    BY <1>10, <1>11, <1>12, <1>13, <1>14
<1>17. SideTuple(book, o, form) = [side EXCEPT !.id = Residual(side.id.of, tuple.trade),
                                              !.energy = @ - tuple.selected]
  <2> DEFINE terms == book.terms[o]
  <2> HIDE DEF sold
  <2>1. Residual(side.id.of, tuple.trade) = form.id
    <3>1. form.id = Residual(o, l)
      BY DEF IsForm
    <3> QED
      BY <1>5, <1>13, <3>1
  <2>2. SideTuple(book, o, form)
          = [id |-> form.id, energy |-> Scale(form.energy, book.grain), by |-> terms.by,
             partner |-> terms.partner, rate |-> terms.rate, preferred |-> terms.preferred]
    BY DEF SideTuple, OnChain
  <2>3. side = [id |-> before.id, energy |-> Scale(before.energy, book.grain), by |-> terms.by,
                partner |-> terms.partner, rate |-> terms.rate, preferred |-> terms.preferred]
    BY <1>6 DEF SideTuple, OnChain
  <2> DEFINE given == [side EXCEPT !.id = Residual(side.id.of, tuple.trade),
                                   !.energy = side.energy - tuple.selected]
             taken == SideTuple(book, o, form)
  <2>4. taken.energy = side.energy - tuple.selected
    BY <1>15, <1>16
  <2>5. DOMAIN side = OrderFields /\ DOMAIN taken = OrderFields /\ DOMAIN given = OrderFields
    BY <2>2, <2>3 DEF OrderFields
  <2>6. IsOrder(taken) /\ IsOrder(given)
    <3>1. taken = [field \in DOMAIN taken |-> taken[field]]
      BY <2>2
    <3>2. given = [field \in DOMAIN given |-> given[field]]
      OBVIOUS
    <3> QED
      BY <2>5, <3>1, <3>2 DEF IsOrder
  <2>7. /\ given.id = form.id /\ given.energy = taken.energy
        /\ given.by = side.by /\ given.partner = side.partner
        /\ given.rate = side.rate /\ given.preferred = side.preferred
    BY <2>1, <2>4, <2>5 DEF OrderFields
  <2>8. /\ taken.id = form.id /\ taken.by = side.by /\ taken.partner = side.partner
        /\ taken.rate = side.rate /\ taken.preferred = side.preferred
    BY <2>2, <2>3
  <2> HIDE DEF given, taken
  <2>9. taken = given
    BY <2>6, <2>7, <2>8, SameOrder
  <2> QED
    BY <2>9 DEF taken, given
<1>18. SideTuple(book, o, form) \in LeftOver(side, tuple)
  BY <1>16, <1>17 DEF LeftOver
<1>19. SideTuple(book, o, form) \in Opened(tuple)
  BY <1>5, <1>18 DEF Opened, Closed
<1> QED
  BY <1>3, <1>19 DEF tuple

(* The validator checks what the contract checks of a match.               *)
LEMMA ContractAgrees ==
  ASSUME NEW book, NEW match, MatchValid(book, match)
  PROVE  MatchAccepted(MatchTuple(book, match))
<1> DEFINE tuple == MatchTuple(book, match)
           bid == BidTerms(book, match)
           offer == OfferTerms(book, match)
<1>2. /\ bid.by # offer.by /\ PriceAgrees(book, match)
      /\ Scale(match.quantity, book.grain) > 0
      /\ Scale(match.quantity, book.grain) <= Scale(match.bid.energy, book.grain)
      /\ Scale(match.quantity, book.grain) <= Scale(match.offer.energy, book.grain)
  BY DEF MatchValid
<1>3. /\ tuple.bid.by = bid.by /\ tuple.bid.partner = bid.partner
      /\ tuple.bid.rate = bid.rate /\ tuple.bid.preferred = bid.preferred
      /\ tuple.bid.energy = Scale(match.bid.energy, book.grain)
      /\ tuple.offer.by = offer.by /\ tuple.offer.partner = offer.partner
      /\ tuple.offer.rate = offer.rate /\ tuple.offer.preferred = offer.preferred
      /\ tuple.offer.energy = Scale(match.offer.energy, book.grain)
      /\ tuple.isPreferred = Direct(match) /\ tuple.price = match.price
      /\ tuple.selected = Scale(match.quantity, book.grain)
  BY DEF MatchTuple, OnChain
<1> HIDE DEF tuple
<1>4. CASE Direct(match)
  <2>1. /\ PartnersAgree(bid, offer)
        /\ EffectiveRate(offer) <= match.price /\ match.price <= EffectiveRate(bid)
    BY <1>2, <1>4 DEF PriceAgrees
  <2>2. /\ RateOf(tuple.bid, tuple.isPreferred) = EffectiveRate(bid)
        /\ RateOf(tuple.offer, tuple.isPreferred) = EffectiveRate(offer)
    BY <1>3, <1>4 DEF RateOf, EffectiveRate
  <2>3. /\ {tuple.bid.partner, tuple.offer.partner} # {NoPartner}
        /\ NamesOther(tuple.bid, tuple.offer) /\ NamesOther(tuple.offer, tuple.bid)
    BY <1>3, <2>1 DEF PartnersAgree, NamesOther
  <2> HIDE DEF bid, offer
  <2> QED
    BY <1>2, <1>3, <2>1, <2>2, <2>3 DEF MatchAccepted, tuple
<1>5. CASE ~ Direct(match)
  <2>1. offer.rate <= match.price /\ match.price <= bid.rate
    BY <1>2, <1>5 DEF PriceAgrees
  <2>2. /\ RateOf(tuple.bid, tuple.isPreferred) = bid.rate
        /\ RateOf(tuple.offer, tuple.isPreferred) = offer.rate
    BY <1>3, <1>5 DEF RateOf
  <2> HIDE DEF bid, offer
  <2> QED
    BY <1>2, <1>3, <1>5, <2>1, <2>2 DEF MatchAccepted, tuple
<1> QED
  BY <1>4, <1>5

(* Of orders that are never sold out, every side that a match closes is    *)
(* there when it is executed, and no earlier match has closed it.          *)
LEMMA SidesStand ==
  ASSUME NEW book, IsBook(book), NEW trades \in Seq(Trades), NEW matches,
         \A k \in 1 .. Len(trades) : /\ matches[k].trade = k
                                     /\ TakesForms(book, trades, k, matches[k]),
         \A o \in Orders : NeverSoldOut(book, trades, o), NEW open,
         \A o \in Orders : SideTuple(book, o, [id |-> Original(o), energy |-> book.energy[o]]) \in open,
         NEW t \in 1 .. Len(trades), NEW side \in Closed(MatchTuple(book, matches[t])),
         side.id.of = Pool => side \in open
  PROVE  /\ side \in open \/ \E k \in 1 .. (t - 1) : side \in Opened(MatchTuple(book, matches[k]))
         /\ \A k \in 1 .. (t - 1) : side \notin Closed(MatchTuple(book, matches[k]))
<1>1. \A k \in 1 .. (t - 1) : k \in 1 .. Len(trades) /\ k # t
  OBVIOUS
<1>2. TakesForms(book, trades, t, matches[t])
  OBVIOUS
<1>3. \A k \in 1 .. (t - 1) : /\ matches[k].trade = k
                              /\ TakesForms(book, trades, k, matches[k])
  BY <1>1
<1>4. /\ side.id.of \in {trades[t].bid, trades[t].offer}
      /\ side.id.of # Pool => side.id.of \in Orders
  BY <1>2, ClosedSides
<1>5. side.id.of # Pool => NeverSoldOut(book, trades, side.id.of)
  BY <1>4
<1>6. ASSUME NEW k \in 1 .. (t - 1), side \in Closed(MatchTuple(book, matches[k]))
      PROVE  FALSE
  <2>1. k \in 1 .. Len(trades) /\ k # t /\ TakesForms(book, trades, k, matches[k])
    BY <1>1, <1>3
  <2> QED
    BY <1>2, <1>5, <1>6, <2>1, ClosedByOne
<1>7. ASSUME side.id.of # Pool
      PROVE  side \in open \/ \E k \in 1 .. (t - 1) : side \in Opened(MatchTuple(book, matches[k]))
  <2> DEFINE o == side.id.of
  <2>1. o \in Orders /\ NeverSoldOut(book, trades, o)
    BY <1>4, <1>5, <1>7
  <2>2. PICK form : side = SideTuple(book, o, form) /\ IsForm(book, trades, o, t - 1, form)
    BY <1>2, <1>5, <1>7, ClosedStands
  <2>3. o \in {trades[t].bid, trades[t].offer}
    BY <1>4
  <2> HIDE DEF o
  <2>4. CASE form.id.after = 0
    BY <2>1, <2>2, <2>4 DEF IsForm
  <2>5. CASE form.id.after # 0
    <3>1. /\ form.id.after \in 1 .. (t - 1)
          /\ SideTuple(book, o, form) \in Opened(MatchTuple(book, matches[form.id.after]))
      BY <1>3, <2>1, <2>2, <2>3, <2>5, LeftByLast
    <3> QED
      BY <2>2, <3>1
  <2> QED
    BY <2>4, <2>5
<1> QED
  BY <1>6, <1>7

(* What validate_batch lets pass settleBatch executes, in one market whose *)
(* orders are registered and never sold out: the order of the dry run is   *)
(* the order of the contract, and its residuals are the contract's.        *)
LEMMA ValidIsAccepted ==
  ASSUME NEW book, IsBook(book), NEW trades \in Seq(Trades), NEW m,
         \A k \in 1 .. Len(trades) : trades[k].market = m,
         \A o \in Orders : NeverSoldOut(book, trades, o),
         NEW matches, matches = AllMatches(book, trades), NEW energy,
         SettlementValid(book, matches, energy), NEW registry,
         \A o \in Orders :
           SideTuple(book, o, [id |-> Original(o), energy |-> book.energy[o]]) \in registry.open,
         \A k \in 1 .. Len(trades) : \A side \in Closed(MatchTuple(book, matches[k])) :
           side.id.of = Pool => side \in registry.open,
         NEW traded, traded[m] = Scale(energy, book.grain)
  PROVE  SettleAccepted(registry, Tuples(book, matches), traded)
<1> DEFINE tuples == Tuples(book, matches)
<1>1. /\ Len(trades) \in Nat /\ DOMAIN matches = 1 .. Len(trades)
      /\ \A k \in 1 .. Len(trades) : IsMatch(matches[k], k, trades)
  <2>1. /\ AllMatches(book, trades) \in Seq(AnyMatch(Len(trades)))
        /\ Len(AllMatches(book, trades)) = Len(trades)
        /\ \A t \in 1 .. Len(trades) : IsMatch(AllMatches(book, trades)[t], t, trades)
    BY MatchPerTrade
  <2> QED
    BY <2>1
<1>2. \A k \in 1 .. Len(trades) : TakesForms(book, trades, k, matches[k])
  <2>1. \A t \in 1 .. Len(trades) : TakesForms(book, trades, t, AllMatches(book, trades)[t])
    BY MatchesChain
  <2> QED
    BY <2>1
<1>3. \A k \in 1 .. Len(trades) : /\ matches[k].trade = k
                                  /\ TakesForms(book, trades, k, matches[k])
                                  /\ matches[k].market = m
  BY <1>1, <1>2 DEF IsMatch
<1>4. /\ DOMAIN tuples = 1 .. Len(trades)
      /\ \A k \in 1 .. Len(trades) : tuples[k] = MatchTuple(book, matches[k])
  BY <1>1 DEF Tuples
<1> HIDE DEF tuples
<1>5. ASSUME NEW t \in 1 .. Len(trades)
      PROVE  MatchAccepted(tuples[t])
  <2>1. MatchValid(book, matches[t])
    BY <1>1 DEF SettlementValid
  <2> QED
    BY <1>4, <2>1, ContractAgrees
<1>6. ASSUME NEW t \in 1 .. Len(trades), NEW side \in Closed(tuples[t])
      PROVE  side \in OpenAfter(registry, tuples, t - 1)
  <2>1. side \in Closed(MatchTuple(book, matches[t]))
    BY <1>4
  <2>2. side.id.of = Pool => side \in registry.open
    BY <2>1
  <2>0. \A k \in 1 .. Len(trades) : /\ matches[k].trade = k
                                    /\ TakesForms(book, trades, k, matches[k])
    BY <1>3
  <2>3. /\ side \in registry.open
             \/ \E k \in 1 .. (t - 1) : side \in Opened(MatchTuple(book, matches[k]))
        /\ \A k \in 1 .. (t - 1) : side \notin Closed(MatchTuple(book, matches[k]))
    BY <2>0, <2>1, <2>2, SidesStand
  <2>4. \A k \in 1 .. (t - 1) : tuples[k] = MatchTuple(book, matches[k])
    BY <1>1, <1>4
  <2>5. side \in registry.open \cup UNION {Opened(tuples[k]) : k \in 1 .. (t - 1)}
    BY <2>3, <2>4
  <2>6. side \notin UNION {Closed(tuples[k]) : k \in 1 .. (t - 1)}
    BY <2>3, <2>4
  <2> QED
    BY <2>5, <2>6 DEF OpenAfter
<1>7. TotalOf(tuples, m) = Scale(energy, book.grain)
  <2>1. \A k \in 1 .. Len(trades) : /\ tuples[k].market = m
                                    /\ tuples[k].selected = Scale(matches[k].quantity, book.grain)
    BY <1>3, <1>4 DEF MatchTuple
  <2>2. [k \in DOMAIN tuples |-> IF tuples[k].market = m THEN tuples[k].selected ELSE 0]
          = [k \in DOMAIN matches |-> Scale(matches[k].quantity, book.grain)]
    BY <1>1, <1>4, <2>1
  <2>3. TotalOf(tuples, m) = Selected(book, matches)
    BY <2>2 DEF TotalOf, Selected
  <2> QED
    BY <2>3 DEF SettlementValid
<1>8. \A k \in 1 .. Len(trades) : tuples[k].market = m
  BY <1>3, <1>4 DEF MatchTuple
<1> QED
  BY <1>4, <1>5, <1>6, <1>7, <1>8 DEF SettleAccepted, tuples
=============================================================================
