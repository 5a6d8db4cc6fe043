----------------------- MODULE SettlementEngine_proofs -----------------------
(***************************************************************************)
(* Theorems about SettlementEngine, for any batch of trades, any rejected  *)
(* markets and any place where a call fails or the process stops.  The     *)
(* invariant ties the two chains together: the trades executed are whole   *)
(* markets that the validator passed, each once, and the orders open are   *)
(* exactly those that were placed or left by an executed trade and not     *)
(* taken by a later one.  As long as the ledger in memory misses nothing   *)
(* of this, what a run has ahead is new to the chain, and the contract     *)
(* accepts it.                                                             *)
(***************************************************************************)
EXTENDS SettlementEngine, ExchangeFacts

-----------------------------------------------------------------------------
(* The inductive invariant.                                                *)
Total == Len(batch.trades)
MarketOf(t) == batch.trades[t].market
Tuple(t) == MatchTuple(batch.book, build.matches[t])
Passed == Traded \ rejected

(* An order of the pool for a trade of a market that was not held back.    *)
ForPassed(id) == id.of = Pool /\ id.after \in 1 .. Total /\ MarketOf(id.after) \in Passed
Placeable == {order \in AnyOrder(Total) : ForPassed(order.id)}

(* A run works on what build_settlements made of the batch ...             *)
InputKept ==
  /\ batch \in Batches
  /\ build = Build(batch.book, batch.trades)
  /\ rejected = {m \in Traded : Violated(m)}

(* ... and on markets that were not held back.                             *)
WorkIsPassed ==
  /\ at \in {"idle", "register", "place", "settle"}
  /\ toPlace \in Seq(Placeable)
  /\ chunks \in Seq(Seq(Passed))
  /\ ledger \in [settled : SUBSET Passed, placed : SUBSET OrderIds]
  /\ {reverted, forgotten} \subseteq BOOLEAN
  /\ runs \in 0 .. MaxRuns /\ upsets \in 0 .. MaxUpsets

(* The chain: what it holds is of markets that passed.                     *)
Done(trades) == {trades[k] : k \in DOMAIN trades}

ChainIsPassed(reg, trades) ==
  /\ reg.known \subseteq OrderIds
  /\ \A order \in reg.open : order.id \in reg.known /\ order.energy \in Nat
  /\ trades \in Seq(1 .. Total)
  /\ \A id \in reg.known : id.of = Pool => ForPassed(id)
  /\ \A t \in Done(trades) : MarketOf(t) \in Passed

(* The orders of an executed match are known and not open any more, and    *)
(* were residuals of executed matches, if residuals they were.             *)
SpentForGood(reg, trades) ==
  \A t \in Done(trades) : \A order \in Closed(Tuple(t)) :
    /\ order \notin reg.open
    /\ order.id \in reg.known
    /\ order.id.after # 0 => order.id.after \in Done(trades)

(* An open residual is that of an executed match.                          *)
ResidualsAreDone(reg, trades) ==
  \A order \in reg.open :
    order.id.of # Pool /\ order.id.after # 0 => order.id.after \in Done(trades)

ChainInv(reg, trades) ==
  /\ ChainIsPassed(reg, trades)
  /\ SpentForGood(reg, trades)
  /\ ResidualsAreDone(reg, trades)
  /\ IsInjective(trades)

(* What the ledger lists is on the chain.                                  *)
Believed ==
  /\ \A t \in 1 .. Total : MarketOf(t) \in ledger.settled => t \in Done(executed)
  /\ ledger.placed \subseteq registry.known

IInv == InputKept /\ WorkIsPassed /\ ChainInv(registry, executed) /\ Believed

-----------------------------------------------------------------------------
(* What the input and the matches built of it are like.                    *)
LEMMA InputFacts ==
  ASSUME InputKept
  PROVE  /\ IsBook(batch.book)
         /\ batch.trades \in Seq(Trades)
         /\ Total \in Nat
         /\ DOMAIN batch.trades = 1 .. Total
         /\ \A t \in 1 .. Total : MarketOf(t) \in Traded
         /\ Traded \subseteq Markets
         /\ Passed \subseteq Markets
         /\ rejected \subseteq Traded
<1>1. batch \in Batches
  BY DEF InputKept
<1>2. /\ IsBook(batch.book) /\ batch.trades \in Seq(Trades)
  BY <1>1, SettlementAssumption
<1>3. Total \in Nat /\ DOMAIN batch.trades = 1 .. Total
  BY <1>2 DEF Total
<1>4. \A t \in 1 .. Total : MarketOf(t) \in Markets
  <2>1. \A t \in 1 .. Total : batch.trades[t] \in Trades
    BY <1>2 DEF Total
  <2> QED
    BY <2>1 DEF MarketOf, Trades
<1>5. \A t \in 1 .. Total : MarketOf(t) \in Traded
  BY <1>3, <1>4 DEF Traded, MarketOf
<1>6. rejected \subseteq Traded
  BY DEF InputKept
<1> QED
  BY <1>2, <1>3, <1>5, <1>6 DEF Traded, Passed

(* What build made of a batch.                                             *)
LEMMA BuildFacts ==
  ASSUME InputKept
  PROVE  /\ build.matches \in Seq(AnyMatch(Total))
         /\ Len(build.matches) = Total
         /\ \A t \in 1 .. Total : /\ build.matches[t] \in AnyMatch(Total)
                                  /\ IsMatch(build.matches[t], t, batch.trades)
         /\ build.markets \in Seq(Traded)
<1>1. /\ build.matches = AllMatches(batch.book, batch.trades)
      /\ build.markets = MarketsIn(build.matches)
  BY DEF InputKept, Build
<1>2. /\ build.matches \in Seq(AnyMatch(Total))
      /\ Len(build.matches) = Total
      /\ \A t \in 1 .. Total : IsMatch(build.matches[t], t, batch.trades)
  BY <1>1, InputFacts, MatchPerTrade DEF Total
<1>3. \A t \in 1 .. Total : build.matches[t] \in AnyMatch(Total)
  BY <1>2, InputFacts
<1>4. build.markets \in Seq({build.matches[k].market : k \in 1 .. Len(build.matches)})
  BY <1>1, <1>2, InputFacts, MarketsInElements
<1>5. {build.matches[k].market : k \in 1 .. Len(build.matches)} \subseteq Traded
  BY <1>2, InputFacts DEF IsMatch, MarketOf
<1>6. build.markets \in Seq(Traded)
  BY <1>4, <1>5
<1> QED
  BY <1>2, <1>3, <1>6

LEMMA PoolOrderFacts ==
  ASSUME InputKept
  PROVE  /\ build.poolOrders \in Seq(AnyOrder(Total))
         /\ \A k \in 1 .. Len(build.poolOrders) : \E t \in 1 .. Total :
              build.poolOrders[k].id = PoolOrderId(t)
<1>1. build.poolOrders = PoolOrders(build.matches)
  BY DEF InputKept, Build
<1>2. /\ build.poolOrders \in Seq(AnyOrder(Total))
      /\ \A k \in 1 .. Len(build.poolOrders) :
           /\ build.poolOrders[k].id.of = Pool
           /\ \E l \in 1 .. Len(build.matches) :
                build.poolOrders[k] \in {build.matches[l].bid, build.matches[l].offer}
  <2> DEFINE matches == build.matches
             n == Total
  <2>1. n \in Nat /\ matches \in Seq(AnyMatch(n))
    BY InputFacts, BuildFacts
  <2> HIDE DEF n, matches
  <2>2. /\ PoolOrders(matches) \in Seq(AnyOrder(n))
        /\ \A k \in 1 .. Len(PoolOrders(matches)) :
             /\ PoolOrders(matches)[k].id.of = Pool
             /\ \E l \in 1 .. Len(matches) :
                  PoolOrders(matches)[k] \in {matches[l].bid, matches[l].offer}
    BY <2>1, PoolOrdersElements
  <2> QED
    BY <1>1, <2>2 DEF n, matches
<1>3. \A k \in 1 .. Len(build.poolOrders) : \E t \in 1 .. Total :
        build.poolOrders[k].id = PoolOrderId(t)
  <2> SUFFICES ASSUME NEW k \in 1 .. Len(build.poolOrders)
               PROVE  \E t \in 1 .. Total : build.poolOrders[k].id = PoolOrderId(t)
    OBVIOUS
  <2>1. PICK t \in 1 .. Len(build.matches) :
          build.poolOrders[k] \in {build.matches[t].bid, build.matches[t].offer}
    BY <1>2
  <2>2. t \in 1 .. Total /\ IsMatch(build.matches[t], t, batch.trades)
    BY BuildFacts
  <2>3. build.poolOrders[k].id = PoolOrderId(t)
    BY <1>2, <2>1, <2>2 DEF IsMatch, IsSide
  <2> QED
    BY <2>2, <2>3
<1> QED
  BY <1>2, <1>3

TradesOf(m) == {t \in 1 .. Total : MarketOf(t) = m}

LEMMA MatchesFacts ==
  ASSUME InputKept, NEW m \in Markets
  PROVE  /\ Matches(m) \in Seq(AnyMatch(Total))
         /\ Len(Matches(m)) = Cardinality(TradesOf(m))
         /\ \A i \in 1 .. Len(Matches(m)) : \E t \in TradesOf(m) : Matches(m)[i] = build.matches[t]
         /\ \A t \in TradesOf(m) : \E i \in 1 .. Len(Matches(m)) : Matches(m)[i] = build.matches[t]
<1>1. Matches(m) = MatchesOf(build.matches, m)
  BY DEF InputKept, Build, Matches
<1>2. PlacesOf(build.matches, m) = TradesOf(m)
  BY BuildFacts DEF IsMatch, TradesOf, MarketOf, PlacesOf
<1> DEFINE K == PlacesOf(build.matches, m)
           ms == MatchesOf(build.matches, m)
<1>3. Total \in Nat /\ build.matches \in Seq(AnyMatch(Total))
  BY InputFacts, BuildFacts
<1>4. /\ ms \in Seq(AnyMatch(Total)) /\ Len(ms) = Cardinality(K)
      /\ \A i \in 1 .. Len(ms) : \E k \in K : ms[i] = build.matches[k]
      /\ \A k \in K : \E i \in 1 .. Len(ms) : ms[i] = build.matches[k]
  <2> SUFFICES ASSUME NEW n \in Nat, n = Total
               PROVE  /\ ms \in Seq(AnyMatch(n)) /\ Len(ms) = Cardinality(K)
                      /\ \A i \in 1 .. Len(ms) : \E k \in K : ms[i] = build.matches[k]
                      /\ \A k \in K : \E i \in 1 .. Len(ms) : ms[i] = build.matches[k]
    BY <1>3
  <2>1. build.matches \in Seq(AnyMatch(n))
    BY <1>3
  <2>2. /\ MatchesOf(build.matches, m) \in Seq(AnyMatch(n))
        /\ Len(MatchesOf(build.matches, m)) = Cardinality(PlacesOf(build.matches, m))
        /\ \A i \in 1 .. Len(MatchesOf(build.matches, m)) :
             \E k \in PlacesOf(build.matches, m) :
               MatchesOf(build.matches, m)[i] = build.matches[k]
        /\ \A k \in PlacesOf(build.matches, m) :
             \E i \in 1 .. Len(MatchesOf(build.matches, m)) :
               MatchesOf(build.matches, m)[i] = build.matches[k]
    BY <2>1, MatchesOfElements
  <2> QED
    BY <2>2
<1> HIDE DEF K, ms
<1>5. K = TradesOf(m) /\ Matches(m) = ms
  BY <1>1, <1>2 DEF K, ms
<1> QED
  BY <1>4, <1>5

(* What a match carries to the contract, and the orders it closes.         *)
LEMMA TupleFacts ==
  ASSUME InputKept, NEW t \in 1 .. Total
  PROVE  /\ Tuple(t).trade = t /\ Tuple(t).market = MarketOf(t) /\ Tuple(t).selected \in Nat
         /\ \A order \in Closed(Tuple(t)) :
              /\ order.id \in OrderIds /\ IsSide(order, t) /\ order.energy \in Nat
              /\ order \in [{"id", "energy", "by", "partner", "rate", "preferred"}
                           -> {order[f] : f \in DOMAIN order}]
<1> DEFINE match == build.matches[t]
           bidTerms == BidTerms(batch.book, match)
           offerTerms == OfferTerms(batch.book, match)
<1>1. match \in AnyMatch(Total) /\ IsMatch(match, t, batch.trades)
  BY BuildFacts
<1>2. batch.book.grain \in Nat \ {0}
  BY InputFacts DEF IsBook
<1> HIDE DEF match, bidTerms, offerTerms
<1>3. Tuple(t) = [trade |-> match.trade, market |-> match.market, isPreferred |-> Direct(match),
                  bid |-> OnChain(batch.book, match.bid, bidTerms),
                  offer |-> OnChain(batch.book, match.offer, offerTerms),
                  selected |-> Scale(match.quantity, batch.book.grain), price |-> match.price]
  BY DEF Tuple, MatchTuple, match, bidTerms, offerTerms
<1>4. ASSUME NEW side \in AnyOrder(Total), IsSide(side, t), NEW terms, NEW order,
             order = OnChain(batch.book, side, terms)
      PROVE  /\ order.id \in OrderIds /\ IsSide(order, t) /\ order.energy \in Nat
             /\ order \in [{"id", "energy", "by", "partner", "rate", "preferred"}
                          -> {order[f] : f \in DOMAIN order}]
  <2>1. side.id \in OrderIds /\ side.energy \in Nat
    BY <1>4 DEF AnyOrder, OrderIds, Total
  <2>2. order.id = side.id /\ order.energy = Scale(side.energy, batch.book.grain)
    BY <1>4 DEF OnChain
  <2>3. DOMAIN order = {"id", "energy", "by", "partner", "rate", "preferred"}
        /\ order = [f \in DOMAIN order |-> order[f]]
    BY <1>4 DEF OnChain
  <2>4. order \in [DOMAIN order -> {order[f] : f \in DOMAIN order}]
    BY <2>3
  <2> QED
    BY <2>1, <2>2, <2>3, <2>4, <1>2, <1>4, ScaleNat DEF IsSide
<1>5. /\ match.bid \in AnyOrder(Total) /\ IsSide(match.bid, t)
      /\ match.offer \in AnyOrder(Total) /\ IsSide(match.offer, t)
      /\ match.quantity \in Nat /\ match.trade = t /\ match.market = MarketOf(t)
  BY <1>1 DEF AnyMatch, IsMatch, MarketOf
<1>6. \A order \in Closed(Tuple(t)) :
        \/ order = OnChain(batch.book, match.bid, bidTerms)
        \/ order = OnChain(batch.book, match.offer, offerTerms)
  BY <1>3 DEF Closed
<1>7. Tuple(t).trade = t /\ Tuple(t).market = MarketOf(t) /\ Tuple(t).selected \in Nat
  BY <1>2, <1>3, <1>5, ScaleNat
<1> QED
  BY <1>4, <1>5, <1>6, <1>7

(* What a match leaves is a residual of its trade.                         *)
LEMMA OpenedFacts ==
  ASSUME InputKept, NEW t \in 1 .. Total, NEW order \in Opened(Tuple(t))
  PROVE  /\ order.id \in OrderIds /\ order.id.after = t /\ order.energy \in Nat
<1> DEFINE Fields == {"id", "energy", "by", "partner", "rate", "preferred"}
<1>1. PICK side \in Closed(Tuple(t)) : order \in LeftOver(side, Tuple(t))
  BY DEF Opened, Closed
<1>2. /\ Tuple(t).trade = t /\ Tuple(t).selected \in Nat
      /\ side.id \in OrderIds /\ side.energy \in Nat
      /\ side \in [Fields -> {side[f] : f \in DOMAIN side}]
  BY TupleFacts
<1>3. /\ side.energy > Tuple(t).selected
      /\ order = [side EXCEPT !.id = Residual(side.id.of, Tuple(t).trade),
                              !.energy = @ - Tuple(t).selected]
  BY <1>1 DEF LeftOver
<1>4. order.id = Residual(side.id.of, t) /\ order.energy = side.energy - Tuple(t).selected
  BY <1>2, <1>3
<1>5. Residual(side.id.of, t) \in OrderIds /\ Residual(side.id.of, t).after = t
  BY <1>2, InputFacts DEF OrderIds, Residual, Total
<1>6. side.energy - Tuple(t).selected \in Nat
  BY <1>2, <1>3
<1> QED
  BY <1>4, <1>5, <1>6

(* A transaction carries the matches of its markets and no other.          *)
LEMMA SentFacts ==
  ASSUME InputKept, NEW markets \in Seq(Passed)
  PROVE  /\ Len(Sent(markets)) \in Nat /\ DOMAIN Sent(markets) = 1 .. Len(Sent(markets))
         /\ \A k \in 1 .. Len(Sent(markets)) : \E t \in 1 .. Total :
              Sent(markets)[k] = Tuple(t) /\ MarketOf(t) \in Passed
         /\ \A t \in 1 .. Total : MarketOf(t) \in ToSet(markets) =>
              \E k \in 1 .. Len(Sent(markets)) : Sent(markets)[k] = Tuple(t)
<1> DEFINE parts == [k \in DOMAIN markets |-> Matches(markets[k])]
           ms == FlattenSeq(parts)
           S == AnyMatch(Total)
<1>1. /\ Passed \subseteq Markets /\ Total \in Nat
      /\ Len(markets) \in Nat /\ DOMAIN markets = 1 .. Len(markets)
      /\ \A k \in 1 .. Len(markets) : markets[k] \in Passed
  BY InputFacts
<1>2. MatchesOfAll(markets) = ms
  BY DEF MatchesOfAll
<1>3. /\ parts \in Seq(Seq(S)) /\ Len(parts) = Len(markets)
      /\ \A k \in 1 .. Len(markets) : parts[k] = Matches(markets[k])
  <2>1. \A k \in 1 .. Len(markets) : Matches(markets[k]) \in Seq(S)
    BY <1>1, MatchesFacts
  <2> QED
    BY <1>1, <2>1
<1> HIDE DEF parts
<1>4. /\ ms \in Seq(S)
      /\ \A x : Occurs(x, ms) <=> \E i \in 1 .. Len(parts) : Occurs(x, parts[i])
  BY <1>3, FlattenElements
<1> HIDE DEF ms, S
<1>5. /\ Len(ms) \in Nat /\ DOMAIN ms = 1 .. Len(ms)
      /\ Sent(markets) = [k \in 1 .. Len(ms) |-> MatchTuple(batch.book, ms[k])]
      /\ Len(Sent(markets)) = Len(ms) /\ DOMAIN Sent(markets) = 1 .. Len(ms)
  <2>1. Len(ms) \in Nat /\ DOMAIN ms = 1 .. Len(ms)
    BY <1>4
  <2>2. Sent(markets) = [k \in 1 .. Len(ms) |-> MatchTuple(batch.book, ms[k])]
    BY <1>2, <2>1 DEF Sent, Tuples
  <2> QED
    BY <2>1, <2>2
<1>6. ASSUME NEW k \in 1 .. Len(ms)
      PROVE  \E t \in 1 .. Total : Sent(markets)[k] = Tuple(t) /\ MarketOf(t) \in Passed
  <2>1. Occurs(ms[k], ms)
    BY DEF Occurs
  <2>2. PICK i \in 1 .. Len(markets) : Occurs(ms[k], Matches(markets[i]))
    BY <1>3, <1>4, <2>1
  <2>3. PICK l \in 1 .. Len(Matches(markets[i])) : Matches(markets[i])[l] = ms[k]
    BY <2>2 DEF Occurs
  <2>4. PICK t \in TradesOf(markets[i]) : ms[k] = build.matches[t]
    BY <1>1, <2>3, MatchesFacts
  <2>5. t \in 1 .. Total /\ MarketOf(t) \in Passed
    BY <1>1 DEF TradesOf
  <2> QED
    BY <1>5, <2>4, <2>5 DEF Tuple
<1>7. ASSUME NEW t \in 1 .. Total, MarketOf(t) \in ToSet(markets)
      PROVE  \E k \in 1 .. Len(ms) : Sent(markets)[k] = Tuple(t)
  <2>1. PICK i \in 1 .. Len(markets) : markets[i] = MarketOf(t)
    BY <1>1, <1>7 DEF ToSet
  <2>2. t \in TradesOf(markets[i]) /\ markets[i] \in Markets
    BY <1>1, <2>1 DEF TradesOf
  <2>3. PICK l \in 1 .. Len(Matches(markets[i])) : Matches(markets[i])[l] = build.matches[t]
    BY <2>2, MatchesFacts
  <2>4. Occurs(build.matches[t], parts[i])
    BY <1>3, <2>3 DEF Occurs
  <2>5. Occurs(build.matches[t], ms)
    BY <1>3, <1>4, <2>4
  <2>6. PICK k \in 1 .. Len(ms) : ms[k] = build.matches[t]
    BY <2>5 DEF Occurs
  <2> QED
    BY <1>5, <2>6 DEF Tuple
<1> QED
  BY <1>5, <1>6, <1>7

-----------------------------------------------------------------------------
(* The work of a run.                                                      *)

(* Packing puts together markets, and invents none.                        *)
IsPacked(markets, n, g) ==
  g = [k \in 0 .. n |-> IF k = 0 THEN << <<>> >> ELSE AddMarket(g[k - 1], markets[k])]

LEMMA PackedExists ==
  ASSUME NEW markets
  PROVE  \A n \in Nat : \E g : IsPacked(markets, n, g)
<1> DEFINE P == {n \in Nat : \E g : IsPacked(markets, n, g)}
<1>1. 0 \in P
  <2> DEFINE g == [k \in 0 .. 0 |-> << <<>> >>]
  <2>1. IsPacked(markets, 0, g)
    BY DEF IsPacked
  <2> QED
    BY <2>1
<1>2. ASSUME NEW n \in Nat, n \in P
      PROVE  n + 1 \in P
  <2>1. PICK g : IsPacked(markets, n, g)
    BY <1>2
  <2> DEFINE Step(k) == IF k = 0 THEN << <<>> >> ELSE AddMarket(g[k - 1], markets[k])
             h == [k \in 0 .. (n + 1) |-> Step(k)]
  <2>2. \A k \in 0 .. n : h[k] = g[k]
    <3>1. \A k \in 0 .. n : k \in 0 .. (n + 1)
      OBVIOUS
    <3>2. \A k \in 0 .. n : g[k] = Step(k)
      BY <2>1 DEF IsPacked
    <3> HIDE DEF Step
    <3> QED
      BY <3>1, <3>2
  <2>3. \A k \in 0 .. (n + 1) : k # 0 => k - 1 \in 0 .. n
    OBVIOUS
  <2>4. IsPacked(markets, n + 1, h)
    BY <2>2, <2>3 DEF IsPacked
  <2> HIDE DEF h
  <2> QED
    BY <2>4
<1> HIDE DEF P
<1>3. \A n \in Nat : n \in P
  BY <1>1, <1>2, Counting
<1> QED
  BY <1>3 DEF P

(* Chunks are made of the markets packed, and none of them is added.       *)
LEMMA AddMarketChunks ==
  ASSUME NEW M \in SUBSET Markets, NEW packed \in Seq(Seq(M)), packed # <<>>, NEW m \in M
  PROVE  AddMarket(packed, m) \in Seq(Seq(M)) /\ AddMarket(packed, m) # <<>>
<1>1. Len(packed) \in Nat \ {0} /\ packed[Len(packed)] \in Seq(M)
  OBVIOUS
<1> DEFINE new == Append(packed, <<m>>)
           grown == Append(Front(packed), Append(Last(packed), m))
<1>3. AddMarket(packed, m) = new \/ AddMarket(packed, m) = grown
  BY DEF AddMarket
<1>4. new \in Seq(Seq(M)) /\ new # <<>>
  <2>1. <<m>> \in Seq(M)
    OBVIOUS
  <2> QED
    BY <2>1
<1>5. grown \in Seq(Seq(M)) /\ grown # <<>>
  <2>1. Append(Last(packed), m) \in Seq(M)
    BY <1>1 DEF Last
  <2>2. Front(packed) \in Seq(Seq(M))
    BY <1>1 DEF Front
  <2>3. \A s \in Seq(Seq(M)), t \in Seq(M) : Append(s, t) \in Seq(Seq(M)) /\ Append(s, t) # <<>>
    OBVIOUS
  <2> QED
    BY <2>1, <2>2, <2>3
<1> HIDE DEF new, grown
<1> QED
  BY <1>3, <1>4, <1>5

LEMMA PackChunks ==
  ASSUME NEW M \in SUBSET Markets, NEW markets \in Seq(M)
  PROVE  Pack(markets) \in Seq(Seq(M))
<1> DEFINE n == Len(markets)
           g == CHOOSE g : IsPacked(markets, n, g)
<1>1. n \in Nat
  OBVIOUS
<1>2. IsPacked(markets, n, g)
  BY <1>1, PackedExists
<1>3. Pack(markets) = g[n]
  BY DEF Pack, Packed, IsPacked
<1> HIDE DEF g
<1>4. /\ g[0] = << <<>> >>
      /\ \A k \in 1 .. n : g[k] = AddMarket(g[k - 1], markets[k])
  <2>1. \A k \in 0 .. n : g[k] = IF k = 0 THEN << <<>> >> ELSE AddMarket(g[k - 1], markets[k])
    BY <1>2 DEF IsPacked
  <2> QED
    BY <1>1, <2>1
<1>5. \A k \in 1 .. n : markets[k] \in M
  OBVIOUS
<1> DEFINE P == {k \in 0 .. n : g[k] \in Seq(Seq(M)) /\ g[k] # <<>>}
<1> HIDE DEF n
<1>6. 0 \in P
  <2>1. <<>> \in Seq(M)
    OBVIOUS
  <2>2. << <<>> >> \in Seq(Seq(M)) /\ << <<>> >> # <<>>
    BY <2>1
  <2>3. 0 \in 0 .. n
    BY <1>1
  <2>4. g[0] \in Seq(Seq(M)) /\ g[0] # <<>>
    <3> DEFINE packed == << <<>> >>
    <3>1. packed \in Seq(Seq(M)) /\ packed # <<>> /\ g[0] = packed
      BY <1>4, <2>2
    <3> HIDE DEF packed
    <3> QED
      BY <3>1
  <2> HIDE DEF g
  <2> QED
    BY <2>3, <2>4
<1>7. ASSUME NEW k \in 0 .. n, k < n, k \in P
      PROVE  k + 1 \in P
  <2>1. k + 1 \in 1 .. n /\ (k + 1) - 1 = k /\ k + 1 \in 0 .. n
    BY <1>1, <1>7
  <2>2. g[k + 1] = AddMarket(g[k], markets[k + 1]) /\ markets[k + 1] \in M
    BY <1>4, <1>5, <2>1
  <2>3. g[k + 1] \in Seq(Seq(M)) /\ g[k + 1] # <<>>
    BY <1>7, <2>2, AddMarketChunks
  <2> QED
    BY <2>1, <2>3
<1> HIDE DEF P
<1>8. \A k \in 0 .. n : n >= k /\ k \in P
  BY <1>1, <1>6, <1>7, CountingTo
<1>9. n \in P
  BY <1>1, <1>8
<1> QED
  BY <1>3, <1>9 DEF P

(* Only markets passed by the validator are settled, and only their        *)
(* orders are placed.                                                      *)
LEMMA FreshPassed ==
  ASSUME InputKept
  PROVE  Fresh \in Seq(Passed)
<1> DEFINE K == {k \in DOMAIN build.markets : IsFresh(build.markets[k])}
<1>1. build.markets \in Seq(Traded)
  BY BuildFacts
<1>2. K \in SUBSET (1 .. Len(build.markets))
  BY <1>1
<1>3. Fresh = Subsequence(build.markets, K)
  BY DEF Fresh
<1>4. \A k \in K : build.markets[k] \in Passed
  BY <1>1 DEF IsFresh, Passed
<1> HIDE DEF K
<1>5. /\ Subsequence(build.markets, K) \in Seq(Traded)
      /\ \A i \in 1 .. Len(Subsequence(build.markets, K)) : \E k \in K :
           Subsequence(build.markets, K)[i] = build.markets[k]
  BY <1>1, <1>2, SubsequenceEmbeds, SubsequenceElements
<1> QED
  BY <1>3, <1>4, <1>5

LEMMA UnplacedPassed ==
  ASSUME InputKept
  PROVE  Unplaced \in Seq(Placeable)
<1> DEFINE orders == build.poolOrders
           K == {k \in DOMAIN orders : orders[k].id \in UsedOrders \ ledger.placed}
<1>1. /\ orders \in Seq(AnyOrder(Total))
      /\ \A k \in 1 .. Len(orders) : \E t \in 1 .. Total : orders[k].id = PoolOrderId(t)
  BY PoolOrderFacts
<1>2. DOMAIN orders = 1 .. Len(orders) /\ K \in SUBSET (1 .. Len(orders))
  BY <1>1
<1>3. Unplaced = Subsequence(orders, K)
  BY DEF Unplaced
<1>4. ASSUME NEW k \in K
      PROVE  orders[k] \in Placeable
  <2>1. PICK t \in 1 .. Total : orders[k].id = PoolOrderId(t)
    BY <1>1, <1>2
  <2>2. PICK u \in DOMAIN build.matches : /\ IsFresh(build.matches[u].market)
                                          /\ orders[k].id \in {build.matches[u].bid.id, build.matches[u].offer.id}
    BY <1>2 DEF UsedOrders, ToSet
  <2>3. u \in 1 .. Total /\ IsMatch(build.matches[u], u, batch.trades)
    BY BuildFacts
  <2>4. orders[k].id = PoolOrderId(u)
    BY <2>1, <2>2, <2>3 DEF IsMatch, IsSide, PoolOrderId
  <2>5. MarketOf(u) \in Passed
    BY <2>2, <2>3, InputFacts DEF IsMatch, IsFresh, Passed, MarketOf
  <2> QED
    BY <1>1, <1>2, <2>3, <2>4, <2>5 DEF Placeable, ForPassed, PoolOrderId
<1> HIDE DEF orders, K
<1>5. /\ Subsequence(orders, K) \in Seq(AnyOrder(Total))
      /\ \A i \in 1 .. Len(Subsequence(orders, K)) : \E k \in K : Subsequence(orders, K)[i] = orders[k]
  BY <1>1, <1>2, SubsequenceEmbeds, SubsequenceElements
<1> QED
  BY <1>3, <1>4, <1>5

-----------------------------------------------------------------------------
(* The chain.                                                              *)

(* What a transaction carries, and what the contract checks of it.         *)
Carries(ms) ==
  /\ Len(ms) \in Nat /\ DOMAIN ms = 1 .. Len(ms)
  /\ \A k \in 1 .. Len(ms) : /\ ms[k].trade \in 1 .. Total
                             /\ ms[k] = Tuple(ms[k].trade)
                             /\ MarketOf(ms[k].trade) \in Passed

FindsItsOrders(reg, ms) ==
  \A k \in 1 .. Len(ms) : Closed(ms[k]) \subseteq OpenAfter(reg, ms, k - 1)

(* After n matches an order stands open only if it did before or a match   *)
(* opened it, and no later match closed it.                                *)
LEMMA OpenAfterSource ==
  ASSUME NEW reg, NEW ms, NEW n \in Nat, NEW order \in OpenAfter(reg, ms, n)
  PROVE  /\ order \in reg.open \/ \E j \in 1 .. n : order \in Opened(ms[j])
         /\ \A j \in 1 .. n : order \notin Closed(ms[j])
BY DEF OpenAfter

(* A match is not executed twice: its orders were spent for good, and what *)
(* an earlier match of the same transaction leaves was spent before it.    *)
LEMMA NotDoneBefore ==
  ASSUME InputKept, NEW reg, NEW trades, ChainInv(reg, trades),
         NEW ms, Carries(ms), FindsItsOrders(reg, ms)
  PROVE  \A k \in 1 .. Len(ms) : ms[k].trade \notin Done(trades)
<1> DEFINE Again == {k \in 1 .. Len(ms) : ms[k].trade \in Done(trades)}
<1>1. SUFFICES ASSUME Again # {} PROVE FALSE
  OBVIOUS
<1>2. Again \in SUBSET Nat
  BY DEF Carries
<1>3. PICK k \in Again : \A j \in Again : k <= j
  BY <1>1, <1>2, Least
<1>4. k \in 1 .. Len(ms) /\ k - 1 \in Nat /\ Len(ms) \in Nat
  BY DEF Carries
<1>5. ms[k].bid \in Closed(ms[k]) /\ ms[k] = Tuple(ms[k].trade) /\ ms[k].trade \in Done(trades)
  BY <1>4 DEF Closed, Carries
<1>6. ms[k].bid \in OpenAfter(reg, ms, k - 1)
  BY <1>4, <1>5 DEF FindsItsOrders
<1>7. /\ ms[k].bid \notin reg.open
      /\ ms[k].bid.id.after # 0 => ms[k].bid.id.after \in Done(trades)
  BY <1>5 DEF ChainInv, SpentForGood
<1>8. PICK j \in 1 .. (k - 1) : ms[k].bid \in Opened(ms[j])
  BY <1>4, <1>6, <1>7, OpenAfterSource
<1>9. j \in 1 .. Len(ms) /\ j < k
  BY <1>4
<1>10. ms[j].trade \in 1 .. Total /\ ms[j] = Tuple(ms[j].trade)
  BY <1>9 DEF Carries
<1>11. ms[k].bid.id.after = ms[j].trade
  BY <1>8, <1>10, OpenedFacts
<1>12. ms[j].trade \in Done(trades)
  BY <1>7, <1>10, <1>11
<1> QED
  BY <1>3, <1>4, <1>9, <1>12

(* A call that finds its orders executes no trade twice.                   *)
LEMMA NotDoneTwice ==
  ASSUME NEW reg, NEW ms, Carries(ms), FindsItsOrders(reg, ms),
         NEW j \in 1 .. Len(ms), NEW k \in 1 .. Len(ms), ms[j].trade = ms[k].trade
  PROVE  j = k
<1>1. ASSUME NEW i \in 1 .. Len(ms), NEW l \in 1 .. Len(ms), i < l, ms[i].trade = ms[l].trade
      PROVE  FALSE
  <2>1. ms[l].bid \in Closed(ms[l]) /\ ms[i] = ms[l]
    BY <1>1 DEF Closed, Carries
  <2>2. l - 1 \in Nat /\ i \in 1 .. (l - 1)
    BY <1>1 DEF Carries
  <2>3. ms[l].bid \in OpenAfter(reg, ms, l - 1)
    BY <2>1 DEF FindsItsOrders
  <2> QED
    BY <2>1, <2>2, <2>3, OpenAfterSource
<1> QED
  BY <1>1 DEF Carries

(* The chain after the transaction.                                        *)
TradesIn(ms) == [k \in DOMAIN ms |-> ms[k].trade]

LEMMA TradesThen ==
  ASSUME NEW trades \in Seq(1 .. Total), NEW ms, Carries(ms)
  PROVE  /\ trades \o TradesIn(ms) \in Seq(1 .. Total)
         /\ Done(trades \o TradesIn(ms)) = Done(trades) \cup {ms[k].trade : k \in 1 .. Len(ms)}
<1> DEFINE new == TradesIn(ms)
           all == trades \o new
<1>1. /\ new \in Seq(1 .. Total) /\ Len(new) = Len(ms) /\ Len(ms) \in Nat
      /\ \A k \in 1 .. Len(ms) : new[k] = ms[k].trade
  BY DEF Carries, TradesIn
<1> HIDE DEF new
<1>2. all \in Seq(1 .. Total)
  BY <1>1
<1>3. /\ Len(all) = Len(trades) + Len(ms) /\ Len(trades) \in Nat
      /\ DOMAIN all = 1 .. (Len(trades) + Len(ms)) /\ DOMAIN trades = 1 .. Len(trades)
      /\ \A k \in 1 .. Len(trades) : all[k] = trades[k]
      /\ \A k \in 1 .. Len(ms) : all[Len(trades) + k] = ms[k].trade
  BY <1>1
<1> HIDE DEF all
<1>4. \A k \in 1 .. (Len(trades) + Len(ms)) :
        k \in 1 .. Len(trades) \/ (k - Len(trades) \in 1 .. Len(ms) /\ k = Len(trades) + (k - Len(trades)))
  BY <1>1, <1>3
<1>5. /\ \A k \in 1 .. Len(trades) : k \in 1 .. (Len(trades) + Len(ms))
      /\ \A k \in 1 .. Len(ms) : Len(trades) + k \in 1 .. (Len(trades) + Len(ms))
  BY <1>1, <1>3
<1>6. Done(all) \subseteq Done(trades) \cup {ms[k].trade : k \in 1 .. Len(ms)}
  <2> SUFFICES ASSUME NEW k \in 1 .. (Len(trades) + Len(ms))
               PROVE  all[k] \in Done(trades) \cup {ms[l].trade : l \in 1 .. Len(ms)}
    BY <1>3 DEF Done
  <2>1. CASE k \in 1 .. Len(trades)
    BY <1>3, <2>1 DEF Done
  <2>2. CASE k \notin 1 .. Len(trades)
    <3> DEFINE l == k - Len(trades)
    <3>1. l \in 1 .. Len(ms) /\ k = Len(trades) + l
      BY <1>4, <2>2
    <3> HIDE DEF l
    <3> QED
      BY <1>3, <3>1
  <2> QED
    BY <2>1, <2>2
<1>7. Done(trades) \cup {ms[k].trade : k \in 1 .. Len(ms)} \subseteq Done(all)
  BY <1>3, <1>5 DEF Done
<1> QED
  BY <1>2, <1>6, <1>7 DEF all, new

LEMMA TradesInjective ==
  ASSUME NEW trades \in Seq(1 .. Total), IsInjective(trades), NEW ms, Carries(ms),
         \A k \in 1 .. Len(ms) : ms[k].trade \notin Done(trades),
         \A j, k \in 1 .. Len(ms) : ms[j].trade = ms[k].trade => j = k
  PROVE  IsInjective(trades \o TradesIn(ms))
<1> DEFINE new == TradesIn(ms)
           all == trades \o new
           n == Len(trades)
<1>1. /\ new \in Seq(1 .. Total) /\ Len(new) = Len(ms) /\ Len(ms) \in Nat
      /\ \A k \in 1 .. Len(ms) : new[k] = ms[k].trade
  BY DEF Carries, TradesIn
<1> HIDE DEF new
<1>2. /\ n \in Nat /\ DOMAIN trades = 1 .. n
      /\ DOMAIN all = 1 .. (n + Len(ms))
      /\ \A k \in 1 .. n : all[k] = trades[k]
      /\ \A k \in 1 .. (n + Len(ms)) : k \notin 1 .. n => /\ k - n \in 1 .. Len(ms)
                                                          /\ all[k] = ms[k - n].trade
  BY <1>1
<1> HIDE DEF all, n
<1>3. \A k \in 1 .. n : trades[k] \in Done(trades)
  BY <1>2 DEF Done
<1>4. ASSUME NEW j \in 1 .. (n + Len(ms)), NEW k \in 1 .. (n + Len(ms)), all[j] = all[k]
      PROVE  j = k
  <2>1. CASE j \in 1 .. n /\ k \in 1 .. n
    BY <1>2, <1>4, <2>1 DEF IsInjective
  <2>2. CASE j \notin 1 .. n /\ k \notin 1 .. n
    <3>1. j - n = k - n
      BY <1>2, <1>4, <2>2
    <3> QED
      BY <1>1, <1>2, <3>1
  <2>3. CASE ~ (j \in 1 .. n <=> k \in 1 .. n)
    BY <1>2, <1>3, <1>4, <2>3
  <2> QED
    BY <2>1, <2>2, <2>3
<1>5. IsInjective(all)
  BY <1>2, <1>4 DEF IsInjective
<1> QED
  BY <1>5 DEF all, new

(* A transaction that is executed keeps the chain as it should be.         *)
LEMMA ExecutedChain ==
  ASSUME InputKept, NEW reg, NEW trades, ChainInv(reg, trades),
         NEW ms, Carries(ms), FindsItsOrders(reg, ms)
  PROVE  ChainInv(Executed(reg, ms), trades \o TradesIn(ms))
<1> DEFINE after == Executed(reg, ms)
           all == trades \o TradesIn(ms)
           New == {ms[k].trade : k \in 1 .. Len(ms)}
<1>1. /\ trades \in Seq(1 .. Total) /\ reg.known \subseteq OrderIds
      /\ \A order \in reg.open : order.id \in reg.known /\ order.energy \in Nat
      /\ \A id \in reg.known : id.of = Pool => ForPassed(id)
      /\ \A t \in Done(trades) : MarketOf(t) \in Passed
      /\ IsInjective(trades)
  BY DEF ChainInv, ChainIsPassed
<1>2. all \in Seq(1 .. Total) /\ Done(all) = Done(trades) \cup New
  BY <1>1, TradesThen
<1>3. IsInjective(all)
  BY <1>1, NotDoneBefore, NotDoneTwice, TradesInjective
<1> HIDE DEF all
<1>4. /\ Len(ms) \in Nat /\ DOMAIN ms = 1 .. Len(ms)
      /\ \A k \in 1 .. Len(ms) : /\ ms[k].trade \in 1 .. Total /\ ms[k].trade \in New
                                 /\ ms[k] = Tuple(ms[k].trade)
                                 /\ MarketOf(ms[k].trade) \in Passed
  BY DEF Carries
<1>5. /\ after.known = reg.known
                         \cup {order.id : order \in UNION {Opened(ms[k]) : k \in DOMAIN ms}}
      /\ after.open = OpenAfter(reg, ms, Len(ms))
  BY DEF Executed
<1> HIDE DEF after
<1>6. ASSUME NEW k \in 1 .. Len(ms), NEW order \in Opened(ms[k])
      PROVE  /\ order.id \in OrderIds /\ order.id.after = ms[k].trade /\ order.energy \in Nat
             /\ order.id \in after.known
             /\ order.id.of = Pool => ForPassed(order.id)
  <2>1. order \in Opened(Tuple(ms[k].trade)) /\ ms[k].trade \in 1 .. Total
    BY <1>4, <1>6
  <2>2. order.id \in OrderIds /\ order.id.after = ms[k].trade /\ order.energy \in Nat
    BY <2>1, OpenedFacts
  <2>3. order.id \in after.known
    BY <1>4, <1>5, <1>6
  <2>4. order.id.of = Pool => ForPassed(order.id)
    BY <1>4, <2>2 DEF ForPassed
  <2> QED
    BY <2>2, <2>3, <2>4
<1>7. ASSUME NEW order \in after.open
      PROVE  \/ order \in reg.open
             \/ \E k \in 1 .. Len(ms) : order \in Opened(ms[k])
  BY <1>4, <1>5, <1>7, OpenAfterSource
<1>8. \A k \in 1 .. Len(ms) : \A order \in Closed(ms[k]) : order \notin after.open
  BY <1>4, <1>5, OpenAfterSource
<1>9. ChainIsPassed(after, all)
  <2>1. \A id \in after.known :
          \/ id \in reg.known
          \/ \E k \in 1 .. Len(ms) : \E order \in Opened(ms[k]) : id = order.id
    BY <1>4, <1>5
  <2>2. after.known \subseteq OrderIds /\ reg.known \subseteq after.known
    BY <1>1, <1>5, <1>6, <2>1
  <2>3. \A id \in after.known : id.of = Pool => ForPassed(id)
    BY <1>1, <1>6, <2>1
  <2>4. \A order \in after.open : order.id \in after.known /\ order.energy \in Nat
    BY <1>1, <1>6, <1>7, <2>2
  <2>5. \A t \in Done(all) : MarketOf(t) \in Passed
    BY <1>1, <1>2, <1>4
  <2> QED
    BY <1>2, <2>2, <2>3, <2>4, <2>5 DEF ChainIsPassed
<1>10. SpentForGood(after, all)
  <2> SUFFICES ASSUME NEW t \in Done(all), NEW order \in Closed(Tuple(t))
               PROVE  /\ order \notin after.open /\ order.id \in after.known
                      /\ order.id.after # 0 => order.id.after \in Done(all)
    BY DEF SpentForGood
  <2>1. CASE t \in Done(trades)
    <3>1. /\ order \notin reg.open /\ order.id \in reg.known
          /\ order.id.after # 0 => order.id.after \in Done(trades)
      BY <2>1 DEF ChainInv, SpentForGood
    <3>2. ASSUME NEW k \in 1 .. Len(ms), order \in Opened(ms[k])
          PROVE  FALSE
      <4>1. order.id.after = ms[k].trade /\ ms[k].trade \in 1 .. Total
        BY <1>4, <1>6, <3>2
      <4>2. ms[k].trade \notin Done(trades)
        BY NotDoneBefore
      <4> QED
        BY <3>1, <4>1, <4>2
    <3> QED
      BY <1>2, <1>5, <1>7, <3>1, <3>2
  <2>2. CASE t \in New
    <3>1. PICK k \in 1 .. Len(ms) : t = ms[k].trade
      BY <2>2
    <3>2. order \in Closed(ms[k])
      BY <1>4, <3>1
    <3>3. order \notin after.open
      BY <1>8, <3>2
    <3>4. k - 1 \in Nat /\ order \in OpenAfter(reg, ms, k - 1)
      BY <1>4, <3>2 DEF FindsItsOrders
    <3>5. order \in reg.open \/ \E j \in 1 .. (k - 1) : order \in Opened(ms[j])
      BY <3>4, OpenAfterSource
    <3>6. CASE order \in reg.open
      <4>1. order.id \in after.known
        BY <1>1, <1>5, <3>6
      <4>2. order.id.of # Pool /\ order.id.after # 0 => order.id.after \in Done(trades)
        BY <3>6 DEF ChainInv, ResidualsAreDone
      <4>3. order.id.of = Pool => order.id = PoolOrderId(t)
        BY <1>4, <3>1, TupleFacts DEF IsSide
      <4>4. order.id.of = Pool => order.id.after = t
        BY <4>3 DEF PoolOrderId
      <4> QED
        BY <1>2, <3>3, <4>1, <4>2, <4>4
    <3>7. CASE \E j \in 1 .. (k - 1) : order \in Opened(ms[j])
      <4>1. PICK j \in 1 .. (k - 1) : order \in Opened(ms[j])
        BY <3>7
      <4>2. j \in 1 .. Len(ms)
        BY <1>4
      <4>3. order.id.after = ms[j].trade /\ order.id \in after.known /\ ms[j].trade \in New
        BY <1>4, <1>6, <4>1, <4>2
      <4> QED
        BY <1>2, <3>3, <4>3
    <3> QED
      BY <3>5, <3>6, <3>7
  <2> QED
    BY <1>2, <2>1, <2>2
<1>11. ResidualsAreDone(after, all)
  <2> SUFFICES ASSUME NEW order \in after.open, order.id.of # Pool, order.id.after # 0
               PROVE  order.id.after \in Done(all)
    BY DEF ResidualsAreDone
  <2>1. CASE order \in reg.open
    BY <1>2, <2>1 DEF ChainInv, ResidualsAreDone
  <2>2. ASSUME NEW k \in 1 .. Len(ms), order \in Opened(ms[k])
        PROVE  order.id.after \in Done(all)
    BY <1>2, <1>4, <1>6, <2>2
  <2> QED
    BY <1>7, <2>1, <2>2
<1> QED
  BY <1>3, <1>9, <1>10, <1>11 DEF ChainInv, after, all

(* So does a pool order that the registry takes.                           *)
LEMMA PlacedChain ==
  ASSUME InputKept, NEW reg, NEW trades, ChainInv(reg, trades),
         NEW order \in Placeable, order.id \notin reg.known
  PROVE  ChainInv(Placed(reg, PoolTuple(order)), trades)
<1> DEFINE tuple == PoolTuple(order)
           after == Placed(reg, tuple)
<1>1. order.id \in OrderIds /\ order.energy \in Nat /\ ForPassed(order.id)
  BY DEF Placeable, AnyOrder, OrderIds, Total
<1>2. tuple.id = order.id /\ tuple.energy = Scale(order.energy, batch.book.grain)
  BY DEF PoolTuple, OrderTuple, OnChain
<1>3. tuple.energy \in Nat
  BY <1>1, <1>2, InputFacts, ScaleNat DEF IsBook
<1> HIDE DEF tuple
<1>4. after.known = reg.known \cup {order.id} /\ after.open = reg.open \cup {tuple}
  BY <1>2 DEF Placed
<1> HIDE DEF after
<1>5. ChainIsPassed(after, trades)
  BY <1>1, <1>2, <1>3, <1>4 DEF ChainInv, ChainIsPassed
<1>6. SpentForGood(after, trades)
  <2> SUFFICES ASSUME NEW t \in Done(trades), NEW spent \in Closed(Tuple(t))
               PROVE  /\ spent \notin after.open /\ spent.id \in after.known
                      /\ spent.id.after # 0 => spent.id.after \in Done(trades)
    BY DEF SpentForGood
  <2>1. /\ spent \notin reg.open /\ spent.id \in reg.known
        /\ spent.id.after # 0 => spent.id.after \in Done(trades)
    BY DEF ChainInv, SpentForGood
  <2>2. spent # tuple
    BY <1>2, <2>1
  <2> QED
    BY <1>4, <2>1, <2>2
<1>7. ResidualsAreDone(after, trades)
  BY <1>1, <1>2, <1>4 DEF ChainInv, ResidualsAreDone, ForPassed
<1> QED
  BY <1>5, <1>6, <1>7 DEF ChainInv, after, tuple

(* What a mined transaction does to the chain, executed or reverted.       *)
LEMMA MinedChain ==
  ASSUME InputKept, ChainInv(registry, executed), NEW markets \in Seq(Passed), SettleMined(markets)
  PROVE  /\ ChainInv(registry', executed')
         /\ registry.known \subseteq registry'.known
         /\ Done(executed) \subseteq Done(executed')
         /\ ~ Refused(markets) =>
              \A t \in 1 .. Total : MarketOf(t) \in ToSet(markets) => t \in Done(executed')
<1> DEFINE ms == Sent(markets)
<1>1. CASE Refused(markets)
  <2>1. registry' = registry /\ executed' = executed
    BY <1>1 DEF SettleMined
  <2> QED
    BY <1>1, <2>1
<1>2. CASE ~ Refused(markets)
  <2>1. registry' = Executed(registry, ms) /\ executed' = executed \o TradesIn(ms)
    BY <1>2 DEF SettleMined, TradesIn
  <2>2. FindsItsOrders(registry, ms)
    <3>1. SettleAccepted(registry, ms, TradedOnChain) /\ DOMAIN ms = 1 .. Len(ms)
      BY <1>2, SentFacts DEF Refused
    <3> HIDE DEF ms
    <3> QED
      BY <3>1 DEF SettleAccepted, FindsItsOrders
  <2>3. /\ Len(ms) \in Nat /\ DOMAIN ms = 1 .. Len(ms)
        /\ \A k \in 1 .. Len(ms) : \E t \in 1 .. Total : ms[k] = Tuple(t) /\ MarketOf(t) \in Passed
        /\ \A t \in 1 .. Total : MarketOf(t) \in ToSet(markets) => \E k \in 1 .. Len(ms) : ms[k] = Tuple(t)
    BY SentFacts
  <2> HIDE DEF ms
  <2>4. \A t \in 1 .. Total : Tuple(t).trade = t
    BY TupleFacts
  <2>5. Carries(ms)
    BY <2>3, <2>4 DEF Carries
  <2>6. ChainInv(registry', executed')
    BY <2>1, <2>2, <2>5, ExecutedChain
  <2>7. Done(executed') = Done(executed) \cup {ms[k].trade : k \in 1 .. Len(ms)}
    <3>1. executed \in Seq(1 .. Total)
      BY DEF ChainInv, ChainIsPassed
    <3> QED
      BY <2>1, <2>5, <3>1, TradesThen
  <2>8. registry.known \subseteq registry'.known
    BY <2>1 DEF Executed
  <2>9. ASSUME NEW t \in 1 .. Total, MarketOf(t) \in ToSet(markets)
        PROVE  t \in Done(executed')
    <3>1. PICK k \in 1 .. Len(ms) : ms[k] = Tuple(t)
      BY <2>3, <2>9
    <3>2. ms[k].trade = t
      BY <2>4, <3>1
    <3> QED
      BY <2>7, <3>2
  <2> QED
    BY <2>6, <2>7, <2>8, <2>9
<1> QED
  BY <1>1, <1>2

-----------------------------------------------------------------------------
(* The invariant holds from the start, and every step keeps it.            *)
LEMMA InitInv == Init => IInv
<1> SUFFICES ASSUME Init PROVE IInv
  OBVIOUS
<1>1. InputKept
  BY DEF Init, InputKept
<1>2. WorkIsPassed
  <2>1. at = "idle" /\ toPlace \in Seq(Placeable) /\ chunks \in Seq(Seq(Passed))
    BY DEF Init
  <2>2. ledger \in [settled : SUBSET Passed, placed : SUBSET OrderIds]
    BY DEF Init, NewLedger
  <2>3. {reverted, forgotten} \subseteq BOOLEAN
    BY DEF Init
  <2>4. runs \in 0 .. MaxRuns /\ upsets \in 0 .. MaxUpsets
    BY SettlementAssumption DEF Init
  <2> QED
    BY <2>1, <2>2, <2>3, <2>4 DEF WorkIsPassed
<1>3. executed = <<>> /\ Done(executed) = {}
  BY DEF Init, Done
<1>4. /\ registry.known = {order.id : order \in PlacedByParticipants}
      /\ registry.open = PlacedByParticipants
  BY DEF Init, Registered
<1>5. ASSUME NEW order \in PlacedByParticipants
      PROVE  order.id \in OrderIds /\ order.id.of # Pool /\ order.id.after = 0 /\ order.energy \in Nat
  <2>1. PICK o \in Orders :
          order = OrderTuple([id |-> Original(o), energy |-> batch.book.energy[o]], 0)
    BY <1>5 DEF PlacedByParticipants
  <2>2. order.id = Original(o) /\ order.energy = Scale(batch.book.energy[o], batch.book.grain)
    BY <2>1 DEF OrderTuple, OnChain
  <2>3. order.energy \in Nat
    BY <1>1, <2>2, InputFacts, ScaleNat DEF IsBook
  <2>4. Original(o) \in OrderIds /\ Original(o).of # Pool /\ Original(o).after = 0
    BY <1>1, InputFacts, MatchBuilderAssumption DEF Original, OrderIds, Total
  <2> QED
    BY <2>2, <2>3, <2>4
<1>6. ChainInv(registry, executed)
  <2>1. executed \in Seq(1 .. Total) /\ IsInjective(executed)
    BY <1>3 DEF IsInjective
  <2>2. ChainIsPassed(registry, executed)
    BY <1>3, <1>4, <1>5, <2>1 DEF ChainIsPassed
  <2>3. SpentForGood(registry, executed) /\ ResidualsAreDone(registry, executed)
    BY <1>3, <1>4, <1>5 DEF SpentForGood, ResidualsAreDone
  <2> QED
    BY <2>1, <2>2, <2>3 DEF ChainInv
<1>7. Believed
  BY DEF Init, Believed, NewLedger
<1> QED
  BY <1>1, <1>2, <1>6, <1>7 DEF IInv

LEMMA SameInput ==
  ASSUME UNCHANGED input
  PROVE  /\ batch' = batch /\ build' = build /\ rejected' = rejected
         /\ Total' = Total /\ Traded' = Traded /\ Passed' = Passed
         /\ OrderIds' = OrderIds /\ Placeable' = Placeable
<1>1. batch' = batch /\ build' = build /\ rejected' = rejected
  BY DEF input
<1>2. Total' = Total /\ Traded' = Traded /\ OrderIds' = OrderIds
  BY <1>1 DEF Total, Traded, OrderIds
<1>3. Passed' = Passed
  BY <1>1, <1>2 DEF Passed
<1>4. Placeable' = Placeable
  BY <1>1, <1>2, <1>3 DEF Placeable, ForPassed, MarketOf
<1> QED
  BY <1>1, <1>2, <1>3, <1>4

(* A step leaves the input alone: what it does to the rest suffices.       *)
LEMMA StepInv ==
  ASSUME InputKept, UNCHANGED input,
         ChainInv(registry', executed'),
         at' \in {"idle", "register", "place", "settle"},
         toPlace' \in Seq(Placeable), chunks' \in Seq(Seq(Passed)),
         ledger' \in [settled : SUBSET Passed, placed : SUBSET OrderIds],
         {reverted', forgotten'} \subseteq BOOLEAN,
         runs' \in 0 .. MaxRuns, upsets' \in 0 .. MaxUpsets,
         \A t \in 1 .. Total : MarketOf(t) \in ledger'.settled => t \in Done(executed'),
         ledger'.placed \subseteq registry'.known
  PROVE  IInv'
<1>1. InputKept'
  BY SameInput DEF InputKept, Violated, Matches
<1>2. WorkIsPassed'
  BY SameInput DEF WorkIsPassed
<1>3. ChainInv(registry, executed)'
  <2>1. ChainIsPassed(registry, executed)'
    BY SameInput DEF ChainInv, ChainIsPassed, ForPassed, MarketOf
  <2>2. SpentForGood(registry, executed)'
    BY SameInput DEF ChainInv, SpentForGood, Tuple
  <2>3. ResidualsAreDone(registry, executed)' /\ IsInjective(executed)'
    BY DEF ChainInv, ResidualsAreDone
  <2> QED
    BY <2>1, <2>2, <2>3 DEF ChainInv
<1>4. Believed'
  BY SameInput DEF Believed, MarketOf
<1> QED
  BY <1>1, <1>2, <1>3, <1>4 DEF IInv

(* What the invariant says of the variables, as StepInv needs it.          *)
LEMMA Known ==
  ASSUME IInv
  PROVE  /\ InputKept /\ ChainInv(registry, executed)
         /\ at \in {"idle", "register", "place", "settle"}
         /\ toPlace \in Seq(Placeable) /\ chunks \in Seq(Seq(Passed))
         /\ ledger \in [settled : SUBSET Passed, placed : SUBSET OrderIds]
         /\ reverted \in BOOLEAN /\ forgotten \in BOOLEAN
         /\ runs \in 0 .. MaxRuns /\ upsets \in 0 .. MaxUpsets
         /\ \A t \in 1 .. Total : MarketOf(t) \in ledger.settled => t \in Done(executed)
         /\ ledger.placed \subseteq registry.known
BY DEF IInv, WorkIsPassed, Believed

LEMMA EndedRun ==
  ASSUME EndRun
  PROVE  at' = "idle" /\ toPlace' \in Seq(Placeable) /\ chunks' \in Seq(Seq(Passed))
BY DEF EndRun

LEMMA StartInv == IInv /\ Start => IInv'
<1> SUFFICES ASSUME IInv, Start PROVE IInv'
  OBVIOUS
<1> USE Known
<1>1. UNCHANGED <<input, ledger, registry, executed, reverted, forgotten, upsets>>
  BY DEF Start
<1>2. runs' \in 0 .. MaxRuns
  BY SettlementAssumption DEF Start
<1>3. /\ at' \in {"idle", "register", "place", "settle"}
      /\ toPlace' \in Seq(Placeable) /\ chunks' \in Seq(Seq(Passed))
  <2>1. Unplaced \in Seq(Placeable)
    BY UnplacedPassed
  <2>2. Pack(Fresh) \in Seq(Seq(Passed))
    BY FreshPassed, InputFacts, PackChunks
  <2> QED
    BY <2>1, <2>2 DEF Start
<1> QED
  BY <1>1, <1>2, <1>3, StepInv

LEMMA RegisterInv == IInv /\ Register => IInv'
<1> SUFFICES ASSUME IInv, Register PROVE IInv'
  OBVIOUS
<1> QED
  BY Known, StepInv DEF Register

LEMMA AllPlacedInv == IInv /\ AllPlaced => IInv'
<1> SUFFICES ASSUME IInv, AllPlaced PROVE IInv'
  OBVIOUS
<1> QED
  BY Known, StepInv DEF AllPlaced

LEMMA ReturnInv == IInv /\ Return => IInv'
<1> SUFFICES ASSUME IInv, Return PROVE IInv'
  OBVIOUS
<1> QED
  BY Known, EndedRun, StepInv DEF Return

LEMMA CallFailsInv == IInv /\ CallFails => IInv'
<1> SUFFICES ASSUME IInv, CallFails PROVE IInv'
  OBVIOUS
<1>1. upsets' \in 0 .. MaxUpsets
  BY Known, SettlementAssumption DEF CallFails, Upset
<1> QED
  BY <1>1, Known, EndedRun, StepInv DEF CallFails

LEMMA CrashInv == IInv /\ Crash => IInv'
<1> SUFFICES ASSUME IInv, Crash PROVE IInv'
  OBVIOUS
<1>1. upsets' \in 0 .. MaxUpsets
  BY Known, SettlementAssumption DEF Crash, Upset
<1>2. /\ ledger' \in [settled : SUBSET Passed, placed : SUBSET OrderIds]
      /\ ledger'.settled = {} /\ ledger'.placed = {}
  BY DEF Crash, NewLedger
<1>3. {reverted', forgotten'} \subseteq BOOLEAN
  BY Known DEF Crash
<1>4. /\ UNCHANGED <<input, registry, executed, runs>> /\ EndRun
  BY DEF Crash
<1> QED
  BY <1>1, <1>2, <1>3, <1>4, Known, EndedRun, StepInv

(* A pool order that has been mined, accepted or not.                      *)
LEMMA PlaceMinedChain ==
  ASSUME IInv, NEW order \in Placeable, PlaceMined(order)
  PROVE  /\ ChainInv(registry', executed)
         /\ registry.known \subseteq registry'.known
         /\ PlaceAccepted(registry, order) => order.id \in registry'.known
<1>1. CASE PlaceAccepted(registry, order)
  <2>1. registry' = Placed(registry, PoolTuple(order)) /\ order.id \notin registry.known
    BY <1>1 DEF PlaceMined, PlaceAccepted
  <2>2. ChainInv(registry', executed)
    BY <2>1, Known, PlacedChain
  <2>3. registry'.known = registry.known \cup {order.id}
    BY <2>1 DEF Placed, PoolTuple, OrderTuple, OnChain
  <2> QED
    BY <2>2, <2>3
<1>2. CASE ~ PlaceAccepted(registry, order)
  BY <1>2, Known DEF PlaceMined
<1> QED
  BY <1>1, <1>2

LEMMA PlaceInv == IInv /\ Place => IInv'
<1> SUFFICES ASSUME IInv, Place PROVE IInv'
  OBVIOUS
<1> DEFINE order == Head(toPlace)
<1>1. order \in Placeable /\ Tail(toPlace) \in Seq(Placeable) /\ order.id \in OrderIds
  <2>1. order \in Placeable /\ Tail(toPlace) \in Seq(Placeable)
    BY Known DEF Place
  <2> QED
    BY <2>1 DEF Placeable, AnyOrder, OrderIds, Total
<1> HIDE DEF order
<1>2. PlaceMined(order) /\ UNCHANGED <<input, executed, forgotten, runs, upsets>>
  BY DEF Place, order
<1>3. /\ ChainInv(registry', executed') /\ registry.known \subseteq registry'.known
      /\ PlaceAccepted(registry, order) => order.id \in registry'.known
  BY <1>1, <1>2, PlaceMinedChain
<1>4. {reverted', forgotten'} \subseteq BOOLEAN
  BY Known DEF Place
<1>5. CASE PlaceAccepted(registry, order)
  <2>1. /\ ledger' = [ledger EXCEPT !.placed = @ \cup {order.id}]
        /\ toPlace' = Tail(toPlace) /\ UNCHANGED <<at, chunks>>
    BY <1>5 DEF Place, order
  <2>2. /\ ledger' \in [settled : SUBSET Passed, placed : SUBSET OrderIds]
        /\ ledger'.settled = ledger.settled /\ ledger'.placed = ledger.placed \cup {order.id}
    BY <1>1, <2>1, Known
  <2> QED
    BY <1>1, <1>2, <1>3, <1>4, <1>5, <2>1, <2>2, Known, StepInv
<1>6. CASE ~ PlaceAccepted(registry, order)
  <2>1. EndRun /\ UNCHANGED ledger
    BY <1>6 DEF Place, order
  <2> QED
    BY <1>2, <1>3, <1>4, <2>1, Known, EndedRun, StepInv
<1> QED
  BY <1>5, <1>6

LEMMA FirstChunk ==
  ASSUME IInv, chunks # <<>>
  PROVE  /\ Head(chunks) \in Seq(Passed) /\ Tail(chunks) \in Seq(Seq(Passed))
         /\ ToSet(Head(chunks)) \subseteq Passed
<1>1. Head(chunks) \in Seq(Passed) /\ Tail(chunks) \in Seq(Seq(Passed))
  BY Known
<1> QED
  BY <1>1 DEF ToSet

LEMMA SettleInv == IInv /\ Settle => IInv'
<1> SUFFICES ASSUME IInv, Settle PROVE IInv'
  OBVIOUS
<1> DEFINE markets == Head(chunks)
<1>1. markets \in Seq(Passed) /\ Tail(chunks) \in Seq(Seq(Passed)) /\ ToSet(markets) \subseteq Passed
  BY FirstChunk DEF Settle
<1> HIDE DEF markets
<1>2. SettleMined(markets) /\ UNCHANGED <<input, forgotten, runs, upsets>>
  BY DEF Settle, markets
<1>3. /\ ChainInv(registry', executed') /\ registry.known \subseteq registry'.known
      /\ Done(executed) \subseteq Done(executed')
      /\ ~ Refused(markets) =>
           \A t \in 1 .. Total : MarketOf(t) \in ToSet(markets) => t \in Done(executed')
  BY <1>1, <1>2, Known, MinedChain
<1>4. {reverted', forgotten'} \subseteq BOOLEAN
  BY Known DEF Settle
<1>5. CASE Refused(markets)
  <2>1. EndRun /\ UNCHANGED ledger
    BY <1>5 DEF Settle, markets
  <2> QED
    BY <1>2, <1>3, <1>4, <2>1, Known, EndedRun, StepInv
<1>6. CASE ~ Refused(markets)
  <2>1. /\ ledger' = [ledger EXCEPT !.settled = @ \cup ToSet(markets)]
        /\ chunks' = Tail(chunks) /\ UNCHANGED <<at, toPlace>>
    BY <1>6 DEF Settle, markets
  <2>2. /\ ledger' \in [settled : SUBSET Passed, placed : SUBSET OrderIds]
        /\ ledger'.settled = ledger.settled \cup ToSet(markets) /\ ledger'.placed = ledger.placed
    BY <1>1, <2>1, Known
  <2>3. \A t \in 1 .. Total : MarketOf(t) \in ledger'.settled => t \in Done(executed')
    BY <1>3, <1>6, <2>2, Known
  <2> QED
    BY <1>1, <1>2, <1>3, <1>4, <2>1, <2>2, <2>3, Known, StepInv
<1> QED
  BY <1>5, <1>6

LEMMA ReceiptMissedInv == IInv /\ ReceiptMissed => IInv'
<1> SUFFICES ASSUME IInv, ReceiptMissed PROVE IInv'
  OBVIOUS
<1>1. /\ UNCHANGED <<input, ledger, reverted, runs>> /\ EndRun /\ forgotten' = TRUE
      /\ upsets' \in 0 .. MaxUpsets
  BY Known, SettlementAssumption DEF ReceiptMissed, Upset
<1>2. /\ ChainInv(registry', executed') /\ registry.known \subseteq registry'.known
      /\ Done(executed) \subseteq Done(executed')
  <2>1. CASE toPlace # <<>> /\ PlaceMined(Head(toPlace)) /\ UNCHANGED executed
    <3>1. Head(toPlace) \in Placeable
      BY <2>1, Known
    <3> QED
      BY <2>1, <3>1, PlaceMinedChain
  <2>2. CASE chunks # <<>> /\ SettleMined(Head(chunks))
    <3>1. Head(chunks) \in Seq(Passed)
      BY <2>2, FirstChunk
    <3> QED
      BY <2>2, <3>1, Known, MinedChain
  <2> QED
    BY <2>1, <2>2 DEF ReceiptMissed
<1> QED
  BY <1>1, <1>2, Known, EndedRun, StepInv

LEMMA NextInv == IInv /\ [Next]_vars => IInv'
<1> SUFFICES ASSUME IInv, [Next]_vars PROVE IInv'
  OBVIOUS
<1>1. CASE UNCHANGED vars
  BY <1>1, Known, StepInv DEF vars, input
<1> QED
  BY <1>1, StartInv, RegisterInv, PlaceInv, AllPlacedInv, SettleInv, ReturnInv, CallFailsInv,
     ReceiptMissedInv, CrashInv DEF Next

(* The invariant, whatever the batch, its markets and its orders.          *)
THEOREM SettlementInvariant == Spec => []IInv
<1> QED
  BY InitInv, NextInv, PTL DEF Spec

-----------------------------------------------------------------------------
(* Whatever the batch, its markets and its orders: the variables have      *)
(* their types (models.py, settlement_chain.py).                           *)
THEOREM SettlementType == Spec => []TypeOK
<1>1. IInv => TypeOK
  <2> SUFFICES ASSUME IInv PROVE TypeOK
    OBVIOUS
  <2> USE Known
  <2>1. \A k \in DOMAIN build.matches : \A order \in {build.matches[k].bid, build.matches[k].offer} :
          order.id \in OrderIds /\ order.energy \in Nat \ {0}
    <3>1. DOMAIN build.matches = 1 .. Total
      BY BuildFacts, InputFacts
    <3>2. \A order \in AnyOrder(Total) : order.id \in OrderIds /\ order.energy \in Nat \ {0}
      BY DEF AnyOrder, OrderIds, Total
    <3> QED
      BY <3>1, <3>2, BuildFacts DEF AnyMatch
  <2>2. \A k \in DOMAIN toPlace : toPlace[k].id \in OrderIds
    <3>1. \A k \in DOMAIN toPlace : toPlace[k] \in Placeable
      OBVIOUS
    <3> QED
      BY <3>1 DEF Placeable, AnyOrder, OrderIds, Total
  <2>3. chunks \in Chunks
    <3>1. \A s \in Seq(Passed) : s \in Seq(Markets)
      BY InputFacts
    <3> QED
      BY <3>1 DEF Chunks
  <2>4. /\ registry.known \subseteq OrderIds
        /\ \A order \in registry.open : order.id \in registry.known /\ order.energy \in Nat
        /\ executed \in Seq(DOMAIN batch.trades)
    BY InputFacts DEF ChainInv, ChainIsPassed
  <2>5. /\ batch \in Batches /\ rejected \subseteq Traded
        /\ ledger.settled \subseteq Traded /\ ledger.placed \subseteq OrderIds
    BY InputFacts DEF InputKept, Passed
  <2> QED
    BY <2>1, <2>2, <2>3, <2>4, <2>5 DEF TypeOK
<1> QED
  BY <1>1, SettlementInvariant, PTL

(* Whatever the batch, and wherever a call fails or the process stops: a   *)
(* market the validator rejected is never settled, and none of its orders  *)
(* is placed (engine.py:117).                                              *)
THEOREM SettlementHeldBack == Spec => []HeldBackUntouched
<1>1. IInv => HeldBackUntouched
  <2> SUFFICES ASSUME IInv, NEW m \in rejected
               PROVE  ExecutedOf(m) = {} /\ PoolOrdersOf(m) \cap registry.known = {}
    BY DEF HeldBackUntouched
  <2>1. InputKept /\ ChainIsPassed(registry, executed) /\ m \in Markets /\ m \notin Passed
    BY Known, InputFacts DEF ChainInv, Passed
  <2>2. ExecutedOf(m) = {}
    BY <2>1 DEF ExecutedOf, ChainIsPassed, Done, MarketOf
  <2>3. ASSUME NEW order \in ToSet(PoolOrders(Matches(m))), order.id \in registry.known
        PROVE  FALSE
    <3>1. /\ Total \in Nat /\ Matches(m) \in Seq(AnyMatch(Total))
          /\ \A i \in 1 .. Len(Matches(m)) : \E t \in TradesOf(m) : Matches(m)[i] = build.matches[t]
      BY <2>1, InputFacts, MatchesFacts
    <3>2. PICK k \in 1 .. Len(PoolOrders(Matches(m))) : PoolOrders(Matches(m))[k] = order
      BY <2>3, <3>1, PoolOrdersElements DEF ToSet
    <3>3. order.id.of = Pool /\ \E l \in 1 .. Len(Matches(m)) : order \in {Matches(m)[l].bid, Matches(m)[l].offer}
      BY <3>1, <3>2, PoolOrdersElements
    <3>4. PICK t \in TradesOf(m) : order \in {build.matches[t].bid, build.matches[t].offer}
      BY <3>1, <3>3
    <3>5. t \in 1 .. Total /\ MarketOf(t) = m
      BY DEF TradesOf
    <3>6. order.id.after = t
      <4>1. IsMatch(build.matches[t], t, batch.trades)
        BY <2>1, <3>5, BuildFacts
      <4>2. IsSide(order, t)
        BY <3>4, <4>1 DEF IsMatch
      <4> QED
        BY <3>3, <4>2 DEF IsSide, PoolOrderId
    <3>7. ForPassed(order.id)
      BY <2>1, <2>3, <3>3 DEF ChainIsPassed
    <3> QED
      BY <2>1, <3>5, <3>6, <3>7 DEF ForPassed
  <2> QED
    BY <2>2, <2>3 DEF PoolOrdersOf
<1> QED
  BY <1>1, SettlementInvariant, PTL

(* Whatever the batch, and wherever a call fails, a receipt is missed or   *)
(* the process stops: what the ledger calls settled is executed on the     *)
(* chain (engine.py:168).                                                  *)
THEOREM SettlementLedgerIsTrue == Spec => []LedgerIsTrue
<1>1. IInv => LedgerIsTrue
  <2> SUFFICES ASSUME IInv PROVE LedgerIsTrue
    OBVIOUS
  <2>1. /\ InputKept /\ Total \in Nat /\ DOMAIN batch.trades = 1 .. Total
        /\ executed \in Seq(1 .. Total) /\ IsInjective(executed)
    BY Known, InputFacts DEF ChainInv, ChainIsPassed
  <2>2. ASSUME NEW m \in ledger.settled
        PROVE  Cardinality(ExecutedOf(m)) = Len(Matches(m))
    <3>1. m \in Markets /\ ledger.settled \subseteq Passed
      BY <2>1, Known, InputFacts
    <3>2. \A t \in TradesOf(m) : t \in Done(executed)
      BY Known DEF TradesOf
    <3> DEFINE f == [k \in ExecutedOf(m) |-> executed[k]]
    <3>3. /\ ExecutedOf(m) \subseteq 1 .. Len(executed) /\ Len(executed) \in Nat
          /\ DOMAIN executed = 1 .. Len(executed)
      BY <2>1 DEF ExecutedOf
    <3>4. f \in Bijection(ExecutedOf(m), TradesOf(m))
      <4>1. \A k \in ExecutedOf(m) : executed[k] \in TradesOf(m)
        BY <2>1, <3>3 DEF ExecutedOf, TradesOf, MarketOf
      <4>2. \A j, k \in ExecutedOf(m) : executed[j] = executed[k] => j = k
        BY <2>1, <3>3 DEF IsInjective
      <4>3. \A t \in TradesOf(m) : \E k \in ExecutedOf(m) : executed[k] = t
        BY <3>2 DEF Done, TradesOf, ExecutedOf, MarketOf
      <4> QED
        BY <4>1, <4>2, <4>3 DEF Bijection, Injection, Surjection, IsInjective
    <3>5. IsFiniteSet(ExecutedOf(m))
      <4>1. IsFiniteSet(1 .. Len(executed))
        BY <3>3, FS_Interval
      <4> QED
        BY <3>3, <4>1, FS_Subset
    <3>6. Cardinality(ExecutedOf(m)) = Cardinality(TradesOf(m))
      BY <3>4, <3>5, FS_Bijection DEF ExistsBijection
    <3> QED
      BY <2>1, <3>1, <3>6, MatchesFacts
  <2> QED
    BY <2>1, <2>2, Known DEF LedgerIsTrue
<1> QED
  BY <1>1, SettlementInvariant, PTL

-----------------------------------------------------------------------------
(* The matches of a market without a violation, and the orders they take.  *)
SidesOf(t) == {batch.trades[t].bid, batch.trades[t].offer}

LEMMA PassedValid ==
  ASSUME InputKept, NEW m \in Passed
  PROVE  /\ \A t \in TradesOf(m) : MatchValid(batch.book, build.matches[t])
         /\ Selected(batch.book, Matches(m)) = Scale(batch.traded[m], batch.book.grain)
<1>1. m \in Markets /\ m \in Traded /\ m \notin rejected
  BY InputFacts DEF Passed
<1>2. SettlementValid(batch.book, Matches(m), batch.traded[m])
  BY <1>1 DEF InputKept, Violated
<1>3. /\ \A k \in DOMAIN Matches(m) : MatchValid(batch.book, Matches(m)[k])
      /\ Selected(batch.book, Matches(m)) = Scale(batch.traded[m], batch.book.grain)
  BY <1>2 DEF SettlementValid
<1>4. ASSUME NEW t \in TradesOf(m)
      PROVE  MatchValid(batch.book, build.matches[t])
  <2>1. Matches(m) \in Seq(AnyMatch(Total))
    BY <1>1, MatchesFacts
  <2>2. PICK i \in 1 .. Len(Matches(m)) : Matches(m)[i] = build.matches[t]
    BY <1>1, MatchesFacts
  <2>3. i \in DOMAIN Matches(m)
    BY <2>1
  <2> QED
    BY <1>3, <2>2, <2>3
<1> QED
  BY <1>3, <1>4

LEMMA TakesFacts ==
  ASSUME InputKept, NEW t \in 1 .. Total
  PROVE  TakesForms(batch.book, batch.trades, t, build.matches[t])
<1>1. build.matches = AllMatches(batch.book, batch.trades)
  BY DEF InputKept, Build
<1> QED
  BY <1>1, InputFacts, MatchesChain DEF Total

(* The two sides of a match that passed are of two orders.                 *)
LEMMA PassedSides ==
  ASSUME InputKept, NEW t \in 1 .. Total, MarketOf(t) \in Passed
  PROVE  batch.trades[t].bid # batch.trades[t].offer
<1> DEFINE match == build.matches[t]
<1>1. MatchValid(batch.book, match)
  BY PassedValid DEF TradesOf
<1>2. match.bid.id.of = batch.trades[t].bid /\ match.offer.id.of = batch.trades[t].offer
  BY TakesFacts DEF TakesForms, TakesSide
<1>3. BidTerms(batch.book, match).by # OfferTerms(batch.book, match).by
  BY <1>1 DEF MatchValid
<1> HIDE DEF match
<1> QED
  BY <1>2, <1>3 DEF BidTerms, OfferTerms, TermsOf

(* In a batch in which rounding sells no order out, none of the trades of  *)
(* a market without a violation comes too late.                            *)
LEMMA PassedNeverSoldOut ==
  ASSUME InputKept, ~ UsedUpOrderPasses, NEW t \in 1 .. Total, MarketOf(t) \in Passed,
         NEW o \in Orders, o \in SidesOf(t)
  PROVE  NeverSoldOut(batch.book, batch.trades, o)
<1> DEFINE trades == batch.trades
           legs == {k \in DOMAIN trades : o \in {trades[k].bid, trades[k].offer}}
           units == [k \in legs |-> Scale(trades[k].quantity, batch.book.grain)]
<1>1. /\ IsBook(batch.book) /\ trades \in Seq(Trades) /\ InOneMarket(trades)
      /\ Total \in Nat /\ DOMAIN trades = 1 .. Total /\ Len(trades) = Total
  <2>1. batch \in Batches
    BY DEF InputKept
  <2> QED
    BY <2>1, InputFacts, SettlementAssumption DEF Total
<1> SUFFICES ASSUME NEW l \in 1 .. Total, o \in SidesOf(l)
             PROVE  /\ trades[l].bid # trades[l].offer
                    /\ SoldTo(batch.book, trades, o, l - 1) < Capacity(batch.book, o)
  BY <1>1 DEF NeverSoldOut, LegsTo, SidesOf
<1>2. MarketOf(l) \in Passed
  <2>1. MarketOf(l) = MarketOf(t)
    BY <1>1 DEF InOneMarket, MarketOf, SidesOf
  <2> QED
    BY <2>1
<1>3. trades[l].bid # trades[l].offer
  BY <1>2, PassedSides
<1>4. ~ (SumFunctionOnSet(units, {k \in legs : k < l}) >= Capacity(batch.book, o))
  <2>1. ~ SoldOut(o)
    BY DEF UsedUpOrderPasses
  <2>2. l \in legs /\ trades[l].market \notin rejected
    BY <1>1, <1>2 DEF SidesOf, Passed, MarketOf
  <2> QED
    BY <2>1, <2>2 DEF SoldOut, Capacity
<1>5. {k \in legs : k < l} = LegsTo(trades, o, l - 1)
  <2>1. \A k \in 1 .. Total : k < l <=> k \in 1 .. (l - 1)
    BY <1>1
  <2>2. \A k \in 1 .. (l - 1) : k \in 1 .. Total
    BY <1>1
  <2> QED
    BY <1>1, <2>1, <2>2 DEF LegsTo
<1>6. /\ SoldTo(batch.book, trades, o, l - 1) \in Nat /\ Capacity(batch.book, o) \in Nat
      /\ l - 1 \in 0 .. Total
  <2>1. l - 1 \in 0 .. Len(trades)
    BY <1>1
  <2>2. Capacity(batch.book, o) \in Nat
    BY <1>1, ScaleNat DEF Capacity, IsBook
  <2> QED
    BY <1>1, <2>1, <2>2, SoldToNat
<1>7. SumFunctionOnSet(units, LegsTo(trades, o, l - 1)) = SoldTo(batch.book, trades, o, l - 1)
  <2> DEFINE T == LegsTo(trades, o, l - 1)
             f == UnitsOf(batch.book, trades)
  <2>1. \A k \in T : k \in legs /\ k \in 1 .. Total /\ k \in 1 .. Len(trades)
    BY <1>1, <1>5, <1>6 DEF LegsTo
  <2>2. \A k \in T : units[k] = f[k]
    BY <2>1 DEF UnitsOf
  <2>3. \A k \in 1 .. Len(trades) : f[k] \in Int
    <3>1. \A k \in 1 .. Len(trades) : trades[k] \in Trades
      BY <1>1
    <3>2. \A k \in 1 .. Len(trades) : Scale(trades[k].quantity, batch.book.grain) \in Nat
      BY <1>1, <3>1, ScaleNat DEF Trades, IsBook
    <3> QED
      BY <3>2 DEF UnitsOf
  <2>4. IsFiniteSet(T)
    <3>1. T \subseteq 1 .. Total /\ IsFiniteSet(1 .. Total)
      BY <1>1, <2>1, FS_Interval
    <3> HIDE DEF T
    <3> QED
      BY <3>1, FS_Subset
  <2>5. Summands(f, T)
    <3> HIDE DEF T, f
    <3> QED
      BY <2>1, <2>3, <2>4 DEF Summands
  <2> HIDE DEF T, f, units
  <2>6. SumFunctionOnSet(units, T) = SumFunctionOnSet(f, T)
    BY <2>2, <2>5, SumSame
  <2> QED
    BY <2>6 DEF SoldTo, T, f
<1>8. ~ (SoldTo(batch.book, trades, o, l - 1) >= Capacity(batch.book, o))
  <2> HIDE DEF units
  <2>1. SumFunctionOnSet(units, {k \in legs : k < l}) = SoldTo(batch.book, trades, o, l - 1)
    BY <1>5, <1>7
  <2> QED
    BY <1>4, <2>1
<1>9. SoldTo(batch.book, trades, o, l - 1) < Capacity(batch.book, o)
  <2> SUFFICES ASSUME NEW a \in Nat, NEW b \in Nat, ~ (a >= b)
               PROVE  a < b
    BY <1>6, <1>8
  <2> QED
    OBVIOUS
<1> QED
  BY <1>3, <1>9

(* What was said of the matches of a batch, for the tuples of this one.    *)
LEMMA ClosedForms ==
  ASSUME InputKept, NEW t \in 1 .. Total, NEW side \in Closed(Tuple(t))
  PROVE  /\ side.id.of \in SidesOf(t) /\ side.id.of \in Orders \cup {Pool}
         /\ side.id.of = Pool => side.id = PoolOrderId(t)
BY TakesFacts, InputFacts, ClosedSides DEF Tuple, SidesOf, Total

(* The order of a participant that a match closes stands as its trades     *)
(* before have left it.                                                    *)
LEMMA ClosedForm ==
  ASSUME InputKept, ~ UsedUpOrderPasses, NEW t \in 1 .. Total, MarketOf(t) \in Passed,
         NEW side \in Closed(Tuple(t)), side.id.of # Pool
  PROVE  /\ side.id.of \in Orders
         /\ NeverSoldOut(batch.book, batch.trades, side.id.of)
         /\ \E form : /\ side = SideTuple(batch.book, side.id.of, form)
                      /\ IsForm(batch.book, batch.trades, side.id.of, t - 1, form)
<1>1. side.id.of \in Orders /\ side.id.of \in SidesOf(t)
  BY ClosedForms
<1>2. NeverSoldOut(batch.book, batch.trades, side.id.of)
  BY <1>1, PassedNeverSoldOut
<1> QED
  BY <1>1, <1>2, TakesFacts, InputFacts, ClosedStands DEF Tuple, Total

(* No two matches that passed close the same order.                        *)
LEMMA ClosedOnce ==
  ASSUME InputKept, ~ UsedUpOrderPasses,
         NEW t \in 1 .. Total, NEW u \in 1 .. Total, MarketOf(t) \in Passed, MarketOf(u) \in Passed,
         NEW side, side \in Closed(Tuple(t)), side \in Closed(Tuple(u))
  PROVE  t = u
<1>1. side.id.of # Pool => NeverSoldOut(batch.book, batch.trades, side.id.of)
  BY ClosedForm
<1> QED
  BY <1>1, TakesFacts, InputFacts, ClosedByOne DEF Tuple, Total

(* The residual that a match takes is the one that the last match of the   *)
(* order before it leaves on the chain.                                    *)
LEMMA OpenedByLast ==
  ASSUME InputKept, ~ UsedUpOrderPasses, NEW t \in 1 .. Total, MarketOf(t) \in Passed,
         NEW o \in Orders, o \in SidesOf(t), NEW form, form.id.after # 0,
         IsForm(batch.book, batch.trades, o, t - 1, form)
  PROVE  /\ form.id.after \in 1 .. (t - 1) /\ MarketOf(form.id.after) = MarketOf(t)
         /\ SideTuple(batch.book, o, form) \in Opened(Tuple(form.id.after))
<1> DEFINE l == form.id.after
<1>1. /\ IsBook(batch.book) /\ batch.trades \in Seq(Trades) /\ InOneMarket(batch.trades)
      /\ Total \in Nat /\ DOMAIN batch.trades = 1 .. Total /\ Len(batch.trades) = Total
  <2>1. batch \in Batches
    BY DEF InputKept
  <2> QED
    BY <2>1, InputFacts, SettlementAssumption DEF Total
<1>2. \A k \in 1 .. (t - 1) : /\ build.matches[k].trade = k
                              /\ TakesForms(batch.book, batch.trades, k, build.matches[k])
  <2>1. \A k \in 1 .. Total : build.matches[k].trade = k
    BY TupleFacts DEF Tuple, MatchTuple
  <2> QED
    BY <1>1, <2>1, TakesFacts
<1>3. NeverSoldOut(batch.book, batch.trades, o)
  BY PassedNeverSoldOut
<1>4. /\ l \in 1 .. (t - 1) /\ o \in {batch.trades[l].bid, batch.trades[l].offer}
      /\ SideTuple(batch.book, o, form) \in Opened(MatchTuple(batch.book, build.matches[l]))
  BY <1>1, <1>2, <1>3, LeftByLast DEF SidesOf
<1>5. l \in DOMAIN batch.trades /\ t \in DOMAIN batch.trades
  BY <1>1, <1>4
<1> HIDE DEF l
<1>6. MarketOf(l) = MarketOf(t)
  BY <1>1, <1>4, <1>5 DEF InOneMarket, MarketOf, SidesOf
<1> QED
  BY <1>4, <1>6 DEF Tuple, l

-----------------------------------------------------------------------------
(* A transaction of whole markets is accepted.                             *)

(* The validator checks what the contract checks of a match.               *)
LEMMA MatchOfPassed ==
  ASSUME InputKept, NEW t \in 1 .. Total, MarketOf(t) \in Passed
  PROVE  MatchAccepted(Tuple(t))
<1>1. MatchValid(batch.book, build.matches[t])
  BY PassedValid DEF TradesOf
<1> QED
  BY <1>1, ContractAgrees DEF Tuple

(* Nothing placed is lost: an order of a participant or of the pool stands *)
(* open until a match closes it.                                           *)
KeepsOrders(reg, trades) ==
  /\ \A order \in PlacedByParticipants :
       order \in reg.open \/ \E t \in Done(trades) : order \in Closed(Tuple(t))
  /\ \A t \in 1 .. Total : PoolOrderId(t) \in reg.known =>
       \/ t \in Done(trades)
       \/ \A side \in Closed(Tuple(t)) : side.id.of = Pool => side \in reg.open

(* The matches of a transaction are in the order of their trades, market   *)
(* by market, each once, and none of their markets has been executed.      *)
InOrder(ms) ==
  /\ \A k \in 1 .. Len(ms), l \in 1 .. Total :
       l < ms[k].trade /\ MarketOf(l) = MarketOf(ms[k].trade)
         => \E j \in 1 .. (k - 1) : ms[j].trade = l
  /\ \A j, k \in 1 .. Len(ms) : ms[j].trade = ms[k].trade => j = k

NoneDone(trades, ms) ==
  \A k \in 1 .. Len(ms), t \in Done(trades) : MarketOf(t) # MarketOf(ms[k].trade)

PoolIsPlaced(reg, ms) ==
  \A k \in 1 .. Len(ms) : Pool \in SidesOf(ms[k].trade) => PoolOrderId(ms[k].trade) \in reg.known

LEMMA DoneFacts ==
  ASSUME NEW reg, NEW trades, ChainInv(reg, trades), NEW t \in Done(trades)
  PROVE  t \in 1 .. Total /\ MarketOf(t) \in Passed
<1>1. trades \in Seq(1 .. Total) /\ MarketOf(t) \in Passed
  BY DEF ChainInv, ChainIsPassed
<1>2. PICK k \in DOMAIN trades : t = trades[k]
  BY DEF Done
<1>3. \A S : \A s \in Seq(S) : \A l \in DOMAIN s : s[l] \in S
  OBVIOUS
<1>4. t \in 1 .. Total
  BY <1>1, <1>2, <1>3
<1> QED
  BY <1>1, <1>4

LEMMA FindsAll ==
  ASSUME InputKept, ~ UsedUpOrderPasses, NEW reg, NEW trades,
         ChainInv(reg, trades), KeepsOrders(reg, trades),
         NEW ms, Carries(ms), InOrder(ms), NoneDone(trades, ms), PoolIsPlaced(reg, ms)
  PROVE  FindsItsOrders(reg, ms)
<1> SUFFICES ASSUME NEW k \in 1 .. Len(ms), NEW side \in Closed(ms[k])
             PROVE  side \in OpenAfter(reg, ms, k - 1)
  BY DEF FindsItsOrders
<1> DEFINE t == ms[k].trade
           o == side.id.of
<1>1. /\ Len(ms) \in Nat /\ k \in Nat \ {0} /\ k <= Len(ms)
      /\ \A j \in 1 .. Len(ms) : /\ ms[j].trade \in 1 .. Total
                                 /\ ms[j] = Tuple(ms[j].trade)
                                 /\ MarketOf(ms[j].trade) \in Passed
  BY DEF Carries
<1>2. t \in 1 .. Total /\ ms[k] = Tuple(t) /\ MarketOf(t) \in Passed /\ side \in Closed(Tuple(t))
  BY <1>1
<1>3. \A j \in 1 .. (k - 1) : j \in 1 .. Len(ms) /\ j # k
  BY <1>1
<1> HIDE DEF t
<1>4. ASSUME NEW j \in 1 .. (k - 1)
      PROVE  side \notin Closed(ms[j])
  <2>1. j \in 1 .. Len(ms) /\ j # k /\ ms[j].trade # t
    BY <1>3 DEF InOrder, t
  <2>2. ms[j].trade \in 1 .. Total /\ ms[j] = Tuple(ms[j].trade) /\ MarketOf(ms[j].trade) \in Passed
    BY <1>1, <2>1
  <2> SUFFICES ASSUME side \in Closed(Tuple(ms[j].trade)) PROVE FALSE
    BY <2>2
  <2> QED
    BY <1>2, <2>1, <2>2, ClosedOnce
<1>5. side \in reg.open \/ \E j \in 1 .. (k - 1) : side \in Opened(ms[j])
  <2>1. t \notin Done(trades)
    BY <1>2 DEF NoneDone, t
  <2>2. CASE o = Pool
    <3>1. side.id = PoolOrderId(t) /\ o \in SidesOf(t)
      BY <1>2, <2>2, ClosedForms
    <3>2. PoolOrderId(t) \in reg.known
      BY <2>2, <3>1 DEF PoolIsPlaced, t
    <3> QED
      BY <1>2, <2>1, <2>2, <3>2 DEF KeepsOrders
  <2>3. CASE o # Pool
    <3>1. /\ o \in Orders
          /\ \E form : side = SideTuple(batch.book, o, form) /\ IsForm(batch.book, batch.trades, o, t - 1, form)
      BY <1>2, <2>3, ClosedForm
    <3>2. PICK form : side = SideTuple(batch.book, o, form) /\ IsForm(batch.book, batch.trades, o, t - 1, form)
      BY <3>1
    <3>3. o \in SidesOf(t)
      BY <1>2, ClosedForms
    <3>4. CASE form.id.after = 0
      <4>1. form = [id |-> Original(o), energy |-> batch.book.energy[o]]
        BY <3>2, <3>4 DEF IsForm
      <4>2. side = OrderTuple([id |-> Original(o), energy |-> batch.book.energy[o]], 0)
        <5>1. OrderTuple(form, 0) = SideTuple(batch.book, o, form)
          BY <3>1, <4>1, MatchBuilderAssumption DEF OrderTuple, SideTuple, TermsOf, Original
        <5> QED
          BY <3>2, <4>1, <5>1
      <4>3. side \in PlacedByParticipants
        BY <3>1, <4>2 DEF PlacedByParticipants
      <4>4. ASSUME NEW u \in Done(trades), side \in Closed(Tuple(u))
            PROVE  FALSE
        <5>1. u \in 1 .. Total /\ MarketOf(u) \in Passed
          BY <4>4, DoneFacts
        <5> QED
          BY <1>2, <2>1, <4>4, <5>1, ClosedOnce
      <4> QED
        BY <4>3, <4>4 DEF KeepsOrders
    <3>5. CASE form.id.after # 0
      <4>1. /\ form.id.after \in 1 .. (t - 1) /\ MarketOf(form.id.after) = MarketOf(t)
            /\ side \in Opened(Tuple(form.id.after))
        BY <1>2, <3>1, <3>2, <3>3, <3>5, OpenedByLast
      <4>2. form.id.after < t /\ form.id.after \in 1 .. Total
        BY <1>2, <4>1, InputFacts
      <4>3. PICK j \in 1 .. (k - 1) : ms[j].trade = form.id.after
        BY <4>1, <4>2 DEF InOrder, t
      <4>4. ms[j] = Tuple(form.id.after)
        BY <1>1, <1>3, <4>3
      <4> QED
        BY <4>1, <4>4
    <3> QED
      BY <3>4, <3>5
  <2> QED
    BY <2>2, <2>3
<1> QED
  BY <1>4, <1>5 DEF OpenAfter

(* The matches of a market come in the order of its trades.                *)
LEMMA MatchesInOrder ==
  ASSUME InputKept, NEW m \in Markets
  PROVE  /\ Matches(m) \in Seq(AnyMatch(Total))
         /\ \E h : Embeds(h, Matches(m), build.matches, TradesOf(m))
<1>1. Matches(m) = MatchesOf(build.matches, m)
  BY DEF InputKept, Build, Matches
<1>2. PlacesOf(build.matches, m) = TradesOf(m)
  BY BuildFacts DEF IsMatch, TradesOf, MarketOf, PlacesOf
<1>3. Total \in Nat /\ build.matches \in Seq(AnyMatch(Total)) /\ Len(build.matches) = Total
  BY InputFacts, BuildFacts
<1> DEFINE K == PlacesOf(build.matches, m)
           S == AnyMatch(Total)
<1>4. K \in SUBSET (1 .. Len(build.matches)) /\ DOMAIN build.matches = 1 .. Len(build.matches)
  BY <1>3 DEF PlacesOf
<1>5. Matches(m) = Subsequence(build.matches, K)
  BY <1>1, <1>4 DEF MatchesOf, PlacesOf
<1> HIDE DEF K, S
<1>6. build.matches \in Seq(S)
  BY <1>3 DEF S
<1>7. /\ Subsequence(build.matches, K) \in Seq(S)
      /\ \E h : Embeds(h, Subsequence(build.matches, K), build.matches, K)
  BY <1>4, <1>6, SubsequenceEmbeds
<1> QED
  BY <1>2, <1>5, <1>7 DEF K, S

(* Where the matches of the markets are in their transaction.              *)
Block(ms, markets, off, i) ==
  /\ off[i] \in Nat
  /\ \A a \in 1 .. Len(Matches(markets[i])) :
       /\ off[i] + a \in 1 .. Len(ms)
       /\ ms[off[i] + a] = MatchTuple(batch.book, Matches(markets[i])[a])

LEMMA SentBlocks ==
  ASSUME InputKept, NEW markets \in Seq(Passed)
  PROVE  /\ Len(Sent(markets)) \in Nat /\ DOMAIN Sent(markets) = 1 .. Len(Sent(markets))
         /\ \E off : /\ \A i \in 1 .. Len(markets) : Block(Sent(markets), markets, off, i)
                     /\ \A k \in 1 .. Len(Sent(markets)) : \E i \in 1 .. Len(markets) :
                          \E a \in 1 .. Len(Matches(markets[i])) : k = off[i] + a
<1> DEFINE parts == [k \in DOMAIN markets |-> Matches(markets[k])]
           ms == FlattenSeq(parts)
           S == AnyMatch(Total)
<1>1. /\ Passed \subseteq Markets /\ Len(markets) \in Nat /\ DOMAIN markets = 1 .. Len(markets)
      /\ \A k \in 1 .. Len(markets) : markets[k] \in Passed
  BY InputFacts
<1>2. MatchesOfAll(markets) = ms
  BY DEF MatchesOfAll
<1>3. /\ parts \in Seq(Seq(S)) /\ Len(parts) = Len(markets)
      /\ \A k \in 1 .. Len(markets) : parts[k] = Matches(markets[k])
  <2>1. \A k \in 1 .. Len(markets) : Matches(markets[k]) \in Seq(S)
    BY <1>1, MatchesInOrder
  <2> QED
    BY <1>1, <2>1
<1> HIDE DEF parts, S
<1>4. ms \in Seq(S) /\ \E off : LaidOut(ms, parts, Len(parts), off)
  BY <1>3, FlattenElements, FlattenLaidOut
<1> HIDE DEF ms
<1>5. /\ Len(ms) \in Nat /\ DOMAIN ms = 1 .. Len(ms)
      /\ Sent(markets) = [k \in 1 .. Len(ms) |-> MatchTuple(batch.book, ms[k])]
      /\ Len(Sent(markets)) = Len(ms) /\ DOMAIN Sent(markets) = 1 .. Len(ms)
  <2>1. Len(ms) \in Nat /\ DOMAIN ms = 1 .. Len(ms)
    BY <1>4
  <2>2. Sent(markets) = [k \in 1 .. Len(ms) |-> MatchTuple(batch.book, ms[k])]
    BY <1>2, <2>1 DEF Sent, Tuples
  <2> QED
    BY <2>1, <2>2
<1>6. PICK off : LaidOut(ms, parts, Len(parts), off)
  BY <1>4
<1>7. ASSUME NEW i \in 1 .. Len(markets)
      PROVE  Block(Sent(markets), markets, off, i)
  <2>1. /\ off[i] \in Nat
        /\ \A a \in 1 .. Len(parts[i]) : off[i] + a \in 1 .. Len(ms) /\ ms[off[i] + a] = parts[i][a]
    BY <1>3, <1>6 DEF LaidOut
  <2> QED
    BY <1>3, <1>5, <2>1 DEF Block
<1>8. \A k \in 1 .. Len(ms) : \E i \in 1 .. Len(parts) : \E a \in 1 .. Len(parts[i]) : k = off[i] + a
  BY <1>6 DEF LaidOut
<1>9. ASSUME NEW k \in 1 .. Len(Sent(markets))
      PROVE  \E i \in 1 .. Len(markets) : \E a \in 1 .. Len(Matches(markets[i])) : k = off[i] + a
  <2>1. PICK i \in 1 .. Len(parts) : \E a \in 1 .. Len(parts[i]) : k = off[i] + a
    BY <1>5, <1>8
  <2>2. i \in 1 .. Len(markets) /\ parts[i] = Matches(markets[i])
    BY <1>3
  <2> QED
    BY <2>1, <2>2
<1>10. Len(Sent(markets)) \in Nat /\ DOMAIN Sent(markets) = 1 .. Len(Sent(markets))
  BY <1>5
<1> QED
  BY <1>7, <1>9, <1>10

LEMMA SentInOrder ==
  ASSUME InputKept, NEW markets \in Seq(Passed), Distinct(markets)
  PROVE  InOrder(Sent(markets))
<1> DEFINE ms == Sent(markets)
           H(i) == CHOOSE h : Embeds(h, Matches(markets[i]), build.matches, TradesOf(markets[i]))
<1>1. /\ Passed \subseteq Markets /\ Len(markets) \in Nat /\ Total \in Nat
      /\ \A i \in 1 .. Len(markets) : markets[i] \in Passed /\ markets[i] \in Markets
  BY InputFacts
<1>2. ASSUME NEW i \in 1 .. Len(markets)
      PROVE  /\ Embeds(H(i), Matches(markets[i]), build.matches, TradesOf(markets[i]))
             /\ Len(Matches(markets[i])) \in Nat
  BY <1>1, MatchesInOrder
<1> HIDE DEF H
<1>3. PICK off : /\ \A i \in 1 .. Len(markets) : Block(ms, markets, off, i)
                 /\ \A k \in 1 .. Len(ms) : \E i \in 1 .. Len(markets) :
                      \E a \in 1 .. Len(Matches(markets[i])) : k = off[i] + a
  BY SentBlocks
<1> HIDE DEF ms
<1>4. ASSUME NEW i \in 1 .. Len(markets), NEW a \in 1 .. Len(Matches(markets[i]))
      PROVE  /\ H(i)[a] \in 1 .. Total /\ MarketOf(H(i)[a]) = markets[i]
             /\ off[i] + a \in 1 .. Len(ms) /\ ms[off[i] + a].trade = H(i)[a]
  <2>1. H(i)[a] \in TradesOf(markets[i]) /\ Matches(markets[i])[a] = build.matches[H(i)[a]]
    BY <1>2 DEF Embeds
  <2>2. H(i)[a] \in 1 .. Total /\ MarketOf(H(i)[a]) = markets[i]
    BY <2>1 DEF TradesOf
  <2>3. off[i] + a \in 1 .. Len(ms) /\ ms[off[i] + a] = Tuple(H(i)[a])
    BY <1>3, <2>1 DEF Block, Tuple
  <2>4. Tuple(H(i)[a]).trade = H(i)[a]
    BY <2>2, TupleFacts
  <2> QED
    BY <2>2, <2>3, <2>4
<1>5. ASSUME NEW k \in 1 .. Len(ms), NEW l \in 1 .. Total,
             l < ms[k].trade, MarketOf(l) = MarketOf(ms[k].trade)
      PROVE  \E j \in 1 .. (k - 1) : ms[j].trade = l
  <2>1. PICK i \in 1 .. Len(markets) : \E a \in 1 .. Len(Matches(markets[i])) : k = off[i] + a
    BY <1>3
  <2>2. PICK a \in 1 .. Len(Matches(markets[i])) : k = off[i] + a
    BY <2>1
  <2>3. ms[k].trade = H(i)[a] /\ MarketOf(ms[k].trade) = markets[i]
    BY <1>4, <2>2
  <2>4. l \in TradesOf(markets[i])
    BY <1>5, <2>3 DEF TradesOf
  <2>5. PICK b \in 1 .. Len(Matches(markets[i])) : H(i)[b] = l
    BY <1>2, <2>4 DEF Embeds
  <2>6. b < a
    <3>1. ~ (b > a) /\ b # a
      <4>1. ASSUME b > a PROVE H(i)[a] < H(i)[b]
        BY <1>2, <4>1 DEF Embeds
      <4>2. H(i)[b] < H(i)[a] /\ H(i)[b] \in 1 .. Total /\ H(i)[a] \in 1 .. Total
        BY <1>4, <1>5, <2>3, <2>5
      <4> QED
        BY <1>1, <4>1, <4>2
    <3> QED
      BY <1>2, <3>1
  <2>7. off[i] + b \in 1 .. (k - 1)
    <3>1. off[i] + b \in 1 .. Len(ms) /\ off[i] \in Nat
      BY <1>3, <1>4 DEF Block
    <3> QED
      BY <1>2, <2>2, <2>6, <3>1
  <2>8. ms[off[i] + b].trade = l
    BY <1>4, <2>5
  <2> QED
    BY <2>7, <2>8
<1>6. ASSUME NEW j \in 1 .. Len(ms), NEW k \in 1 .. Len(ms), ms[j].trade = ms[k].trade
      PROVE  j = k
  <2>1. PICK i1 \in 1 .. Len(markets) : \E a \in 1 .. Len(Matches(markets[i1])) : j = off[i1] + a
    BY <1>3
  <2>2. PICK a1 \in 1 .. Len(Matches(markets[i1])) : j = off[i1] + a1
    BY <2>1
  <2>3. PICK i2 \in 1 .. Len(markets) : \E a \in 1 .. Len(Matches(markets[i2])) : k = off[i2] + a
    BY <1>3
  <2>4. PICK a2 \in 1 .. Len(Matches(markets[i2])) : k = off[i2] + a2
    BY <2>3
  <2>5. /\ H(i1)[a1] = H(i2)[a2] /\ markets[i1] = markets[i2]
    BY <1>4, <1>6, <2>2, <2>4
  <2>6. i1 = i2
    BY <2>5 DEF Distinct
  <2>7. a1 = a2
    <3> DEFINE h == H(i1)
               mine == Matches(markets[i1])
               its == TradesOf(markets[i1])
    <3>1. its \in SUBSET Nat
      BY <1>1 DEF TradesOf
    <3>2. Embeds(h, mine, build.matches, its) /\ Len(mine) \in Nat
      BY <1>2
    <3>3. a1 \in 1 .. Len(mine) /\ a2 \in 1 .. Len(mine) /\ h[a1] = h[a2]
      BY <2>5, <2>6
    <3> HIDE DEF h, mine, its
    <3>4. \A i, l \in 1 .. Len(mine) : h[i] = h[l] => i = l
      BY <3>1, <3>2, EmbedsInjective
    <3> QED
      BY <3>3, <3>4
  <2> QED
    BY <2>2, <2>4, <2>6, <2>7
<1>7. InOrder(ms)
  BY <1>5, <1>6 DEF InOrder
<1> QED
  BY <1>7 DEF ms


(* The matches of a market in the transaction sell what the validator      *)
(* compared with the clearing result.                                      *)
LEMMA TotalsAgree ==
  ASSUME InputKept, NEW markets \in Seq(Passed), Distinct(markets), NEW i \in 1 .. Len(markets)
  PROVE  TotalOf(Sent(markets), markets[i]) = TradedOnChain[markets[i]]
<1> DEFINE ms == Sent(markets)
           m == markets[i]
           mine == Matches(m)
           grain == batch.book.grain
           f == [k \in DOMAIN ms |-> ms[k].selected]
           g == [k \in DOMAIN ms |-> IF ms[k].market = m THEN ms[k].selected ELSE 0]
           part == [a \in DOMAIN mine |-> Scale(mine[a].quantity, grain)]
<1>1. /\ m \in Passed /\ m \in Markets /\ Total \in Nat /\ grain \in Nat \ {0}
      /\ \A j \in 1 .. Len(markets) : markets[j] \in Passed /\ markets[j] \in Markets
  BY InputFacts DEF IsBook
<1>2. ASSUME NEW j \in 1 .. Len(markets)
      PROVE  /\ Len(Matches(markets[j])) \in Nat /\ DOMAIN Matches(markets[j]) = 1 .. Len(Matches(markets[j]))
             /\ \A a \in 1 .. Len(Matches(markets[j])) :
                  /\ Matches(markets[j])[a].market = markets[j]
                  /\ Matches(markets[j])[a].quantity \in Nat
  <2>1. /\ Matches(markets[j]) \in Seq(AnyMatch(Total))
        /\ \A a \in 1 .. Len(Matches(markets[j])) : \E t \in TradesOf(markets[j]) :
             Matches(markets[j])[a] = build.matches[t]
    BY <1>1, MatchesFacts
  <2>2. \A t \in TradesOf(markets[j]) :
          build.matches[t].market = markets[j] /\ build.matches[t].quantity \in Nat
    BY BuildFacts DEF TradesOf, IsMatch, AnyMatch, MarketOf
  <2> QED
    BY <2>1, <2>2
<1>3. Len(ms) \in Nat /\ DOMAIN ms = 1 .. Len(ms)
  BY SentBlocks
<1>4. PICK off : /\ \A j \in 1 .. Len(markets) : Block(ms, markets, off, j)
                 /\ \A k \in 1 .. Len(ms) : \E j \in 1 .. Len(markets) :
                      \E a \in 1 .. Len(Matches(markets[j])) : k = off[j] + a
  BY SentBlocks
<1> HIDE DEF ms
<1>5. ASSUME NEW j \in 1 .. Len(markets), NEW a \in 1 .. Len(Matches(markets[j]))
      PROVE  /\ off[j] \in Nat /\ off[j] + a \in 1 .. Len(ms)
             /\ ms[off[j] + a].market = markets[j]
             /\ ms[off[j] + a].selected = Scale(Matches(markets[j])[a].quantity, grain)
  <2>1. /\ off[j] \in Nat /\ off[j] + a \in 1 .. Len(ms)
        /\ ms[off[j] + a] = MatchTuple(batch.book, Matches(markets[j])[a])
    BY <1>4 DEF Block
  <2>2. Matches(markets[j])[a].market = markets[j]
    BY <1>2
  <2>3. \A match : /\ MatchTuple(batch.book, match).market = match.market
                   /\ MatchTuple(batch.book, match).selected = Scale(match.quantity, grain)
    BY DEF MatchTuple
  <2> HIDE DEF grain
  <2> QED
    BY <2>1, <2>2, <2>3
<1>6. Summands(f, DOMAIN ms)
  <2>1. \A k \in DOMAIN ms : ms[k].selected \in Nat
    <3> SUFFICES ASSUME NEW k \in 1 .. Len(ms) PROVE ms[k].selected \in Nat
      BY <1>3
    <3>1. PICK j \in 1 .. Len(markets) : \E a \in 1 .. Len(Matches(markets[j])) : k = off[j] + a
      BY <1>4
    <3>2. PICK a \in 1 .. Len(Matches(markets[j])) : k = off[j] + a
      BY <3>1
    <3>3. Matches(markets[j])[a].quantity \in Nat
      BY <1>2
    <3>4. ms[k].selected = Scale(Matches(markets[j])[a].quantity, grain)
      BY <1>5, <3>2
    <3> QED
      BY <1>1, <3>3, <3>4, ScaleNat
  <2>2. IsFiniteSet(DOMAIN ms)
    BY <1>3, FS_Interval
  <2> QED
    BY <2>1, <2>2 DEF Summands
<1> DEFINE K == {k \in DOMAIN ms : ms[k].market = m}
           h == [a \in 1 .. Len(mine) |-> off[i] + a]
<1>7. SumFunctionOnSet(g, DOMAIN ms) = SumFunctionOnSet(f, K)
  <2> DEFINE T == DOMAIN ms
  <2>1. \A k \in T : g[k] = IF k \in K THEN f[k] ELSE 0
    OBVIOUS
  <2>2. K \in SUBSET T
    OBVIOUS
  <2>3. Summands(f, T)
    BY <1>6
  <2> HIDE DEF f, g, K, T
  <2>4. SumFunctionOnSet(g, T) = SumFunctionOnSet(f, K)
    BY <2>1, <2>2, <2>3, SumWhere
  <2> QED
    BY <2>4 DEF T
<1>8. K = {h[a] : a \in 1 .. Len(mine)}
  <2>1. ASSUME NEW k \in K PROVE \E a \in 1 .. Len(mine) : k = h[a]
    <3>1. PICK j \in 1 .. Len(markets) : \E a \in 1 .. Len(Matches(markets[j])) : k = off[j] + a
      BY <1>3, <1>4
    <3>2. PICK a \in 1 .. Len(Matches(markets[j])) : k = off[j] + a
      BY <3>1
    <3>3. markets[j] = markets[i]
      BY <1>5, <3>2
    <3>4. j = i
      BY <3>3 DEF Distinct
    <3> QED
      BY <3>2, <3>4
  <2>2. \A a \in 1 .. Len(mine) : h[a] \in K
    BY <1>3, <1>5
  <2> QED
    BY <2>1, <2>2
<1>9. SumFunctionOnSet(part, 1 .. Len(mine)) = SumFunctionOnSet(f, {h[a] : a \in 1 .. Len(mine)})
  <2>1. \A a \in 1 .. Len(mine) : f[h[a]] \in Int /\ part[a] = f[h[a]]
    <3>1. \A a \in 1 .. Len(mine) : Scale(mine[a].quantity, grain) \in Nat
      BY <1>1, <1>2, ScaleNat
    <3>2. \A a \in 1 .. Len(mine) : h[a] \in DOMAIN ms /\ ms[h[a]].selected = Scale(mine[a].quantity, grain)
      BY <1>3, <1>5
    <3>3. DOMAIN mine = 1 .. Len(mine)
      BY <1>2
    <3> QED
      BY <3>1, <3>2, <3>3
  <2>2. \A a, b \in 1 .. Len(mine) : h[a] = h[b] => a = b
    BY <1>5
  <2> DEFINE T == 1 .. Len(mine)
  <2>3. IsFiniteSet(T)
    BY <1>2, FS_Interval
  <2>4. /\ \A a \in T : f[h[a]] \in Int /\ part[a] = f[h[a]]
        /\ \A a, b \in T : h[a] = h[b] => a = b
    BY <2>1, <2>2
  <2> HIDE DEF f, h, part, T
  <2>5. SumFunctionOnSet(part, T) = SumFunctionOnSet(f, {h[a] : a \in T})
    BY <2>3, <2>4, SumRenamed
  <2> QED
    BY <2>5 DEF T
<1>10. Selected(batch.book, mine) = SumFunctionOnSet(part, 1 .. Len(mine))
  BY <1>2 DEF Selected, SumFunction
<1>11. TotalOf(ms, m) = SumFunctionOnSet(g, DOMAIN ms)
  BY DEF TotalOf, SumFunction
<1>12. Selected(batch.book, mine) = TradedOnChain[m]
  BY <1>1, PassedValid DEF TradedOnChain
<1> HIDE DEF f, g, part, K, h
<1>13. TotalOf(ms, m) = TradedOnChain[m]
  BY <1>7, <1>8, <1>9, <1>10, <1>11, <1>12
<1> QED
  BY <1>13 DEF ms, m

SentIsReady(reg, trades, ms) ==
  /\ ChainInv(reg, trades) /\ KeepsOrders(reg, trades)
  /\ NoneDone(trades, ms) /\ PoolIsPlaced(reg, ms)

(* What the transaction carries is of markets that passed.                 *)
LEMMA SentCarries ==
  ASSUME InputKept, NEW markets \in Seq(Passed)
  PROVE  /\ Carries(Sent(markets))
         /\ \A k \in 1 .. Len(Sent(markets)) : \E i \in 1 .. Len(markets) :
              MarketOf(Sent(markets)[k].trade) = markets[i]
<1> DEFINE ms == Sent(markets)
<1>1. /\ Len(ms) \in Nat /\ DOMAIN ms = 1 .. Len(ms)
      /\ \A k \in 1 .. Len(ms) : \E t \in 1 .. Total : ms[k] = Tuple(t) /\ MarketOf(t) \in Passed
  BY SentFacts
<1>2. PICK off : /\ \A j \in 1 .. Len(markets) : Block(ms, markets, off, j)
                 /\ \A k \in 1 .. Len(ms) : \E j \in 1 .. Len(markets) :
                      \E a \in 1 .. Len(Matches(markets[j])) : k = off[j] + a
  BY SentBlocks
<1> HIDE DEF ms
<1>3. \A t \in 1 .. Total : Tuple(t).trade = t /\ Tuple(t).market = MarketOf(t)
  BY TupleFacts
<1>4. Carries(ms)
  BY <1>1, <1>3 DEF Carries
<1>5. ASSUME NEW k \in 1 .. Len(ms)
      PROVE  \E i \in 1 .. Len(markets) : MarketOf(ms[k].trade) = markets[i]
  <2>1. PICK i \in 1 .. Len(markets) : \E a \in 1 .. Len(Matches(markets[i])) : k = off[i] + a
    BY <1>2
  <2>2. PICK a \in 1 .. Len(Matches(markets[i])) : k = off[i] + a
    BY <2>1
  <2>3. ms[k] = MatchTuple(batch.book, Matches(markets[i])[a])
    BY <1>2, <2>2 DEF Block
  <2>4. markets[i] \in Markets
    BY InputFacts
  <2>5. PICK t \in TradesOf(markets[i]) : Matches(markets[i])[a] = build.matches[t]
    BY <2>4, MatchesFacts
  <2>6. ms[k] = Tuple(t) /\ t \in 1 .. Total /\ MarketOf(t) = markets[i]
    BY <2>3, <2>5 DEF Tuple, TradesOf
  <2> QED
    BY <1>3, <2>6
<1> QED
  BY <1>4, <1>5 DEF ms

LEMMA SentAccepted ==
  ASSUME InputKept, ~ UsedUpOrderPasses, NEW markets \in Seq(Passed), Distinct(markets),
         NEW reg, NEW trades, SentIsReady(reg, trades, Sent(markets))
  PROVE  SettleAccepted(reg, Sent(markets), TradedOnChain)
<1> DEFINE ms == Sent(markets)
<1>1. /\ Carries(ms) /\ InOrder(ms)
      /\ \A k \in 1 .. Len(ms) : \E i \in 1 .. Len(markets) : MarketOf(ms[k].trade) = markets[i]
  BY SentCarries, SentInOrder
<1>2. \A i \in 1 .. Len(markets) : TotalOf(ms, markets[i]) = TradedOnChain[markets[i]]
  BY TotalsAgree
<1> HIDE DEF ms
<1>3. FindsItsOrders(reg, ms)
  BY <1>1, FindsAll DEF SentIsReady, ms
<1>4. DOMAIN ms = 1 .. Len(ms)
  BY <1>1 DEF Carries
<1>5. ASSUME NEW k \in 1 .. Len(ms)
      PROVE  /\ MatchAccepted(ms[k]) /\ Closed(ms[k]) \subseteq OpenAfter(reg, ms, k - 1)
             /\ TotalOf(ms, ms[k].market) = TradedOnChain[ms[k].market]
  <2>1. ms[k].trade \in 1 .. Total /\ ms[k] = Tuple(ms[k].trade) /\ MarketOf(ms[k].trade) \in Passed
    BY <1>1 DEF Carries
  <2> DEFINE t == ms[k].trade
  <2>2. t \in 1 .. Total /\ ms[k] = Tuple(t) /\ MarketOf(t) \in Passed
    BY <2>1
  <2> HIDE DEF t
  <2>3. MatchAccepted(ms[k])
    BY <2>2, MatchOfPassed
  <2>4. ms[k].market = MarketOf(t)
    BY <2>2, TupleFacts
  <2>5. PICK i \in 1 .. Len(markets) : MarketOf(t) = markets[i]
    BY <1>1 DEF t
  <2>6. TotalOf(ms, ms[k].market) = TradedOnChain[ms[k].market]
    BY <1>2, <2>4, <2>5
  <2> QED
    BY <1>3, <2>3, <2>6 DEF FindsItsOrders
<1>6. SettleAccepted(reg, ms, TradedOnChain)
  BY <1>4, <1>5 DEF SettleAccepted
<1> QED
  BY <1>6 DEF ms

-----------------------------------------------------------------------------
(* Each market is in the work of a run once.                               *)
LEMMA MarketsOnce ==
  ASSUME InputKept
  PROVE  Distinct(build.markets)
<1> DEFINE matches == build.matches
           markets == [k \in DOMAIN matches |-> matches[k].market]
           K == {k \in DOMAIN matches : \A l \in 1 .. k - 1 : matches[l].market # matches[k].market}
           S == Markets
<1>1. matches \in Seq(AnyMatch(Total)) /\ \A k \in 1 .. Len(matches) : matches[k] \in AnyMatch(Total)
  BY BuildFacts
<1>2. /\ DOMAIN matches = 1 .. Len(matches) /\ Len(matches) \in Nat
      /\ markets \in Seq(S) /\ Len(markets) = Len(matches)
      /\ K \in SUBSET (1 .. Len(markets))
  <2>1. DOMAIN matches = 1 .. Len(matches) /\ Len(matches) \in Nat
    BY <1>1
  <2>2. \A k \in 1 .. Len(matches) : matches[k].market \in S
    BY <1>1 DEF AnyMatch
  <2> HIDE DEF S, matches
  <2>3. markets \in Seq(S) /\ Len(markets) = Len(matches)
    BY <2>1, <2>2
  <2> QED
    BY <2>1, <2>3
<1>3. build.markets = Subsequence(markets, K)
  BY DEF InputKept, Build, MarketsIn
<1>4. \A k, l \in K : markets[k] = markets[l] => k = l
  <2> SUFFICES ASSUME NEW k \in K, NEW l \in K, markets[k] = markets[l], k < l
               PROVE  FALSE
    BY <1>2
  <2>1. k \in 1 .. l - 1
    BY <1>2
  <2> QED
    BY <1>2, <2>1
<1> HIDE DEF matches, markets, K, S
<1>5. PICK h : /\ \A i \in 1 .. Len(Subsequence(markets, K)) :
                    h[i] \in K /\ Subsequence(markets, K)[i] = markets[h[i]]
               /\ \A i, j \in 1 .. Len(Subsequence(markets, K)) : h[i] = h[j] => i = j
  <2>1. TakesFrom(Subsequence(markets, K), markets, K)
    BY <1>2, SubsequencePlaces
  <2> QED
    BY <2>1 DEF TakesFrom
<1> QED
  BY <1>3, <1>4, <1>5 DEF Distinct

LEMMA FreshOnce ==
  ASSUME InputKept
  PROVE  /\ Distinct(Fresh)
         /\ \A i \in 1 .. Len(Fresh) : IsFresh(Fresh[i])
<1> DEFINE markets == build.markets
           K == {k \in DOMAIN markets : IsFresh(markets[k])}
           S == Traded
<1>1. markets \in Seq(S) /\ DOMAIN markets = 1 .. Len(markets) /\ Distinct(markets)
  BY BuildFacts, MarketsOnce
<1>2. K \in SUBSET (1 .. Len(markets)) /\ \A k \in K : IsFresh(markets[k])
  BY <1>1
<1>3. Fresh = Subsequence(markets, K)
  BY DEF Fresh
<1> HIDE DEF markets, K, S
<1>4. PICK h : /\ \A i \in 1 .. Len(Subsequence(markets, K)) :
                    h[i] \in K /\ Subsequence(markets, K)[i] = markets[h[i]]
               /\ \A i, j \in 1 .. Len(Subsequence(markets, K)) : h[i] = h[j] => i = j
  <2>1. TakesFrom(Subsequence(markets, K), markets, K)
    BY <1>1, <1>2, SubsequencePlaces
  <2> QED
    BY <2>1 DEF TakesFrom
<1>5. \A k, l \in K : markets[k] = markets[l] => k = l
  BY <1>1, <1>2 DEF Distinct
<1> DEFINE fresh == Subsequence(markets, K)
<1>6. \A i \in 1 .. Len(fresh) : h[i] \in K /\ fresh[i] = markets[h[i]]
  BY <1>4
<1>7. \A i, j \in 1 .. Len(fresh) : h[i] = h[j] => i = j
  BY <1>4
<1> HIDE DEF fresh
<1>8. Distinct(fresh)
  BY <1>5, <1>6, <1>7 DEF Distinct
<1>9. \A i \in 1 .. Len(fresh) : IsFresh(fresh[i])
  BY <1>2, <1>6
<1> QED
  BY <1>3, <1>8, <1>9 DEF fresh

(* Transactions that are to settle each market once.                       *)
Holds(work, m) == \E i \in 1 .. Len(work) : Occurs(m, work[i])

EachOnce(work) ==
  /\ \A i \in 1 .. Len(work) : Distinct(work[i])
  /\ \A i, j \in 1 .. Len(work) : \A m : Occurs(m, work[i]) /\ Occurs(m, work[j]) => i = j

LEMMA AppendHolds ==
  ASSUME NEW S, NEW work \in Seq(Seq(S)), NEW s \in Seq(S), EachOnce(work), Distinct(s),
         \A x : Occurs(x, s) => ~ Holds(work, x)
  PROVE  /\ EachOnce(Append(work, s))
         /\ \A x : Holds(Append(work, s), x) <=> Holds(work, x) \/ Occurs(x, s)
<1> DEFINE all == Append(work, s)
           n == Len(work)
<1>1. /\ n \in Nat /\ Len(all) = n + 1
      /\ \A i \in 1 .. n : all[i] = work[i]
      /\ all[n + 1] = s
  BY AppendProperties
<1>2. \A i \in 1 .. (n + 1) : i \in 1 .. n \/ i = n + 1
  BY <1>1
<1>3. n + 1 \in 1 .. (n + 1) /\ \A i \in 1 .. n : i \in 1 .. (n + 1)
  BY <1>1
<1> HIDE DEF all, n
<1>4. \A x : \A i \in 1 .. n : Occurs(x, work[i]) => Holds(work, x)
  BY DEF Holds, n
<1>5. \A i \in 1 .. (n + 1) : Distinct(all[i])
  BY <1>1, <1>2 DEF EachOnce, n
<1>6. ASSUME NEW i \in 1 .. (n + 1), NEW j \in 1 .. (n + 1), NEW x, Occurs(x, all[i]), Occurs(x, all[j])
      PROVE  i = j
  <2>1. CASE i \in 1 .. n /\ j \in 1 .. n
    BY <1>1, <1>6, <2>1 DEF EachOnce, n
  <2>2. CASE i \in 1 .. n /\ j = n + 1
    BY <1>1, <1>4, <1>6, <2>2
  <2>3. CASE i = n + 1 /\ j \in 1 .. n
    BY <1>1, <1>4, <1>6, <2>3
  <2>4. CASE i = n + 1 /\ j = n + 1
    BY <2>4
  <2> QED
    BY <1>2, <2>1, <2>2, <2>3, <2>4
<1>7. EachOnce(all)
  BY <1>1, <1>5, <1>6 DEF EachOnce
<1>8. \A x : Holds(all, x) <=> Holds(work, x) \/ Occurs(x, s)
  <2> TAKE x
  <2>1. Holds(all, x) => Holds(work, x) \/ Occurs(x, s)
    BY <1>1, <1>2, <1>4 DEF Holds
  <2>2. Holds(work, x) => Holds(all, x)
    BY <1>1, <1>3 DEF Holds, n
  <2>3. Occurs(x, s) => Holds(all, x)
    BY <1>1, <1>3 DEF Holds
  <2> QED
    BY <2>1, <2>2, <2>3
<1> QED
  BY <1>7, <1>8 DEF all

(* Without its last, or without its first, there is no more in it.         *)
LEMMA FrontHolds ==
  ASSUME NEW S, NEW work \in Seq(Seq(S)), work # <<>>, EachOnce(work)
  PROVE  /\ Front(work) \in Seq(Seq(S)) /\ Last(work) \in Seq(S)
         /\ EachOnce(Front(work)) /\ Distinct(Last(work))
         /\ \A x : Holds(work, x) <=> Holds(Front(work), x) \/ Occurs(x, Last(work))
         /\ \A x : ~ (Holds(Front(work), x) /\ Occurs(x, Last(work)))
<1> DEFINE n == Len(work)
           front == Front(work)
<1>0. n \in Nat \ {0} /\ n - 1 \in 0 .. n /\ work[n] \in Seq(S)
  OBVIOUS
<1>1. /\ n \in Nat \ {0} /\ Last(work) = work[n] /\ work[n] \in Seq(S)
      /\ front \in Seq(Seq(S)) /\ Len(front) = n - 1
      /\ \A i \in 1 .. (n - 1) : front[i] = work[i]
  <2>1. front \in Seq(Seq(S))
    BY <1>0 DEF Front
  <2>2. Len(front) = n - 1
    <3>1. \A k \in Nat \ {0} : (IF 1 <= k - 1 THEN (k - 1) - 1 + 1 ELSE 0) = k - 1
      OBVIOUS
    <3>2. n - 1 \in Int /\ \A i \in 1 .. (n - 1) : work[i] \in Seq(S)
      BY <1>0
    <3>3. Len(SubSeq(work, 1, n - 1)) = IF 1 <= n - 1 THEN (n - 1) - 1 + 1 ELSE 0
      BY <3>2, SubSeqProperties
    <3> QED
      BY <1>0, <3>1, <3>3 DEF Front
  <2>3. \A i \in 1 .. (n - 1) : front[i] = work[i]
    BY <1>0 DEF Front
  <2> QED
    BY <1>0, <2>1, <2>2, <2>3 DEF Last
<1>2. /\ \A i \in 1 .. n : i \in 1 .. (n - 1) \/ i = n
      /\ \A i \in 1 .. (n - 1) : i \in 1 .. n /\ i # n
      /\ n \in 1 .. n
  BY <1>1
<1> HIDE DEF front, n
<1>3. EachOnce(front) /\ Distinct(work[n])
  BY <1>1, <1>2 DEF EachOnce, n
<1>4. \A x : Holds(work, x) <=> Holds(front, x) \/ Occurs(x, work[n])
  <2> TAKE x
  <2>1. Holds(work, x) <=> \E i \in 1 .. n : Occurs(x, work[i])
    BY DEF Holds, n
  <2>2. Holds(front, x) <=> \E i \in 1 .. (n - 1) : Occurs(x, work[i])
    BY <1>1 DEF Holds
  <2> QED
    BY <1>2, <2>1, <2>2
<1>5. \A x : ~ (Holds(front, x) /\ Occurs(x, work[n]))
  BY <1>1, <1>2 DEF Holds, EachOnce, n
<1> QED
  BY <1>1, <1>3, <1>4, <1>5 DEF front

LEMMA TailHolds ==
  ASSUME NEW S, NEW work \in Seq(Seq(S)), work # <<>>, EachOnce(work)
  PROVE  /\ EachOnce(Tail(work)) /\ Distinct(Head(work))
         /\ \A x : Occurs(x, Head(work)) => Holds(work, x)
         /\ \A x : Holds(Tail(work), x) => Holds(work, x)
         /\ \A x : ~ (Holds(Tail(work), x) /\ Occurs(x, Head(work)))
<1> DEFINE n == Len(work)
           rest == Tail(work)
<1>1. /\ n \in Nat \ {0} /\ Head(work) = work[1] /\ Len(rest) = n - 1
      /\ \A i \in 1 .. (n - 1) : rest[i] = work[i + 1]
  OBVIOUS
<1>2. /\ \A i \in 1 .. (n - 1) : i + 1 \in 1 .. n /\ i + 1 # 1
      /\ \A i, j \in 1 .. (n - 1) : i + 1 = j + 1 => i = j
      /\ 1 \in 1 .. n
  BY <1>1
<1> HIDE DEF rest, n
<1>3. Distinct(work[1]) /\ \A x : Occurs(x, work[1]) => Holds(work, x)
  BY <1>2 DEF EachOnce, Holds, n
<1>4. EachOnce(rest)
  <2>1. \A i \in 1 .. (n - 1) : Distinct(rest[i])
    BY <1>1, <1>2 DEF EachOnce, n
  <2>2. ASSUME NEW i \in 1 .. (n - 1), NEW j \in 1 .. (n - 1), NEW x, Occurs(x, rest[i]), Occurs(x, rest[j])
        PROVE  i = j
    <3>1. i + 1 = j + 1
      BY <1>1, <1>2, <2>2 DEF EachOnce, n
    <3> QED
      BY <1>2, <3>1
  <2> QED
    BY <1>1, <2>1, <2>2 DEF EachOnce
<1>5. \A x : Holds(rest, x) => \E i \in 1 .. (n - 1) : Occurs(x, work[i + 1])
  BY <1>1 DEF Holds
<1>6. \A x : Holds(rest, x) => Holds(work, x)
  BY <1>2, <1>5 DEF Holds, n
<1>7. \A x : ~ (Holds(rest, x) /\ Occurs(x, work[1]))
  BY <1>2, <1>5 DEF EachOnce, n
<1> QED
  BY <1>1, <1>3, <1>4, <1>6, <1>7 DEF rest

(* A longer transaction.                                                   *)
LEMMA AppendOccurs ==
  ASSUME NEW S, NEW s \in Seq(S), NEW m \in S, Distinct(s), ~ Occurs(m, s)
  PROVE  /\ Distinct(Append(s, m))
         /\ \A x : Occurs(x, Append(s, m)) <=> Occurs(x, s) \/ x = m
<1> DEFINE all == Append(s, m)
           n == Len(s)
<1>1. /\ n \in Nat /\ Len(all) = n + 1
      /\ \A i \in 1 .. n : all[i] = s[i]
      /\ all[n + 1] = m
  BY AppendProperties
<1>2. /\ \A i \in 1 .. (n + 1) : i \in 1 .. n \/ i = n + 1
      /\ \A i \in 1 .. n : i \in 1 .. (n + 1)
      /\ n + 1 \in 1 .. (n + 1)
  BY <1>1
<1> HIDE DEF all, n
<1>3. \A i \in 1 .. n : s[i] # m
  BY DEF Occurs, n
<1>4. \A i, j \in 1 .. n : s[i] = s[j] => i = j
  BY DEF Distinct, n
<1>5. \A i, j \in 1 .. (n + 1) : all[i] = all[j] => i = j
  BY <1>1, <1>2, <1>3, <1>4
<1>6. \A x : Occurs(x, all) <=> Occurs(x, s) \/ x = m
  BY <1>1, <1>2 DEF Occurs, n
<1> QED
  BY <1>1, <1>5, <1>6 DEF Distinct, all

LEMMA AddMarketOnce ==
  ASSUME NEW M \in SUBSET Markets, NEW packed \in Seq(Seq(M)), packed # <<>>, NEW m \in M,
         EachOnce(packed), ~ Holds(packed, m)
  PROVE  /\ EachOnce(AddMarket(packed, m))
         /\ \A x : Holds(AddMarket(packed, m), x) <=> Holds(packed, x) \/ x = m
<1> DEFINE new == Append(packed, <<m>>)
           grown == Append(Front(packed), Append(Last(packed), m))
<1>1. AddMarket(packed, m) = new \/ AddMarket(packed, m) = grown
  BY DEF AddMarket
<1>2. /\ EachOnce(new)
      /\ \A x : Holds(new, x) <=> Holds(packed, x) \/ x = m
  <2> DEFINE one == <<m>>
  <2>1. one \in Seq(M) /\ Distinct(one) /\ \A x : Occurs(x, one) <=> x = m
    BY DEF Distinct, Occurs
  <2> HIDE DEF one
  <2>2. \A x : Occurs(x, one) => ~ Holds(packed, x)
    BY <2>1
  <2>3. /\ EachOnce(Append(packed, one))
        /\ \A x : Holds(Append(packed, one), x) <=> Holds(packed, x) \/ Occurs(x, one)
    BY <2>1, <2>2, AppendHolds
  <2> QED
    BY <2>1, <2>3 DEF one
<1>3. /\ EachOnce(grown)
      /\ \A x : Holds(grown, x) <=> Holds(packed, x) \/ x = m
  <2> DEFINE front == Front(packed)
             last == Last(packed)
             longer == Append(last, m)
  <2>1. /\ front \in Seq(Seq(M)) /\ last \in Seq(M) /\ EachOnce(front) /\ Distinct(last)
        /\ \A x : Holds(packed, x) <=> Holds(front, x) \/ Occurs(x, last)
        /\ \A x : ~ (Holds(front, x) /\ Occurs(x, last))
    BY FrontHolds
  <2> HIDE DEF front, last
  <2>2. longer \in Seq(M)
    BY <2>1
  <2>3. /\ Distinct(longer)
        /\ \A x : Occurs(x, longer) <=> Occurs(x, last) \/ x = m
    BY <2>1, AppendOccurs
  <2> HIDE DEF longer
  <2>4. \A x : Occurs(x, longer) => ~ Holds(front, x)
    BY <2>1, <2>3
  <2>5. /\ EachOnce(Append(front, longer))
        /\ \A x : Holds(Append(front, longer), x) <=> Holds(front, x) \/ Occurs(x, longer)
    BY <2>1, <2>2, <2>3, <2>4, AppendHolds
  <2> QED
    BY <2>1, <2>3, <2>5 DEF front, last, longer
<1> HIDE DEF new, grown
<1> QED
  BY <1>1, <1>2, <1>3

(* Packing loses no market and doubles none.                               *)
LEMMA PackOnce ==
  ASSUME NEW M \in SUBSET Markets, NEW markets \in Seq(M), Distinct(markets)
  PROVE  /\ EachOnce(Pack(markets))
         /\ \A x : Holds(Pack(markets), x) <=> Occurs(x, markets)
<1> DEFINE n == Len(markets)
           g == CHOOSE g : IsPacked(markets, n, g)
<1>1. n \in Nat
  OBVIOUS
<1>2. IsPacked(markets, n, g)
  BY <1>1, PackedExists
<1>3. Pack(markets) = g[n]
  BY DEF Pack, Packed, IsPacked
<1> HIDE DEF g
<1>4. /\ g[0] = << <<>> >>
      /\ \A k \in 1 .. n : g[k] = AddMarket(g[k - 1], markets[k])
  <2>1. \A k \in 0 .. n : g[k] = IF k = 0 THEN << <<>> >> ELSE AddMarket(g[k - 1], markets[k])
    BY <1>2 DEF IsPacked
  <2> QED
    BY <1>1, <2>1
<1>5. /\ \A k \in 1 .. n : markets[k] \in M
      /\ \A j, k \in 1 .. n : markets[j] = markets[k] => j = k
  BY DEF Distinct
<1> DEFINE First(k, x) == \E j \in 1 .. k : markets[j] = x
           P == {k \in 0 .. n : /\ g[k] \in Seq(Seq(M)) /\ g[k] # <<>> /\ EachOnce(g[k])
                                /\ \A x : Holds(g[k], x) <=> First(k, x)}
<1> HIDE DEF n
<1>6. 0 \in P
  <2> DEFINE none == <<>>
             packed == <<none>>
  <2>1. none \in Seq(M) /\ Distinct(none) /\ \A x : ~ Occurs(x, none)
    BY DEF Distinct, Occurs
  <2>2. packed \in Seq(Seq(M)) /\ packed # <<>> /\ Len(packed) = 1 /\ packed[1] = none
    BY <2>1
  <2>3. 0 \in 0 .. n /\ \A i \in 1 .. 1 : i = 1
    BY <1>1
  <2>4. g[0] = packed
    BY <1>4
  <2>5. \A x : ~ First(0, x)
    OBVIOUS
  <2> HIDE DEF none, packed, First
  <2>6. EachOnce(packed) /\ \A x : ~ Holds(packed, x)
    BY <2>1, <2>2, <2>3 DEF EachOnce, Holds
  <2> QED
    BY <2>2, <2>3, <2>4, <2>5, <2>6
<1>7. ASSUME NEW k \in 0 .. n, k < n, k \in P
      PROVE  k + 1 \in P
  <2>1. k + 1 \in 1 .. n /\ (k + 1) - 1 = k /\ k + 1 \in 0 .. n
    BY <1>1, <1>7
  <2>2. /\ g[k + 1] = AddMarket(g[k], markets[k + 1]) /\ markets[k + 1] \in M
        /\ g[k] \in Seq(Seq(M)) /\ g[k] # <<>> /\ EachOnce(g[k])
        /\ \A x : Holds(g[k], x) <=> First(k, x)
    BY <1>4, <1>5, <1>7, <2>1
  <2>3. ~ First(k, markets[k + 1])
    BY <1>1, <1>5, <2>1
  <2>4. \A x : First(k + 1, x) <=> First(k, x) \/ x = markets[k + 1]
    <3>1. /\ \A j \in 1 .. (k + 1) : j \in 1 .. k \/ j = k + 1
          /\ \A j \in 1 .. k : j \in 1 .. (k + 1)
          /\ k + 1 \in 1 .. (k + 1)
      BY <1>1
    <3> QED
      BY <3>1
  <2> HIDE DEF First
  <2>5. g[k + 1] \in Seq(Seq(M)) /\ g[k + 1] # <<>>
    BY <2>2, AddMarketChunks
  <2>6. ~ Holds(g[k], markets[k + 1])
    BY <2>2, <2>3
  <2>7. /\ EachOnce(g[k + 1])
        /\ \A x : Holds(g[k + 1], x) <=> Holds(g[k], x) \/ x = markets[k + 1]
    BY <2>2, <2>6, AddMarketOnce
  <2>8. \A x : Holds(g[k + 1], x) <=> First(k + 1, x)
    BY <2>2, <2>4, <2>7
  <2> QED
    BY <2>1, <2>5, <2>7, <2>8
<1> HIDE DEF P
<1>8. \A k \in 0 .. n : n >= k /\ k \in P
  BY <1>1, <1>6, <1>7, CountingTo
<1>9. n \in P
  BY <1>1, <1>8
<1>10. EachOnce(g[n]) /\ \A x : Holds(g[n], x) <=> First(n, x)
  BY <1>9 DEF P
<1> QED
  BY <1>3, <1>10 DEF Occurs, n

-----------------------------------------------------------------------------
(* An order of the pool, as a match of the batch has it.                   *)
IsPoolSide(order, t) ==
  /\ t \in 1 .. Total
  /\ order.id = PoolOrderId(t)
  /\ order \in {build.matches[t].bid, build.matches[t].offer}

LEMMA BuiltPoolOrders ==
  ASSUME InputKept
  PROVE  /\ build.poolOrders \in Seq(AnyOrder(Total))
         /\ \A k \in 1 .. Len(build.poolOrders) : \E t : IsPoolSide(build.poolOrders[k], t)
         /\ \A t \in 1 .. Total : Pool \in SidesOf(t) =>
              \E k \in 1 .. Len(build.poolOrders) : build.poolOrders[k].id = PoolOrderId(t)
         /\ \A j, k \in 1 .. Len(build.poolOrders) :
              build.poolOrders[j].id = build.poolOrders[k].id /\ ForPassed(build.poolOrders[j].id)
                => j = k
<1> DEFINE pool == build.poolOrders
           matches == build.matches
<1>1. pool = PoolOrders(matches)
  BY DEF InputKept, Build
<1>2. /\ Total \in Nat /\ matches \in Seq(AnyMatch(Total)) /\ Len(matches) = Total
      /\ \A t \in 1 .. Total : IsSide(matches[t].bid, t) /\ IsSide(matches[t].offer, t)
  BY InputFacts, BuildFacts DEF IsMatch
<1> HIDE DEF pool, matches
<1>3. /\ pool \in Seq(AnyOrder(Total))
      /\ \A k \in 1 .. Len(pool) :
           /\ pool[k].id.of = Pool
           /\ \E l \in 1 .. Total : pool[k] \in {matches[l].bid, matches[l].offer}
      /\ \A t \in 1 .. Total : \A side \in {matches[t].bid, matches[t].offer} :
           side.id.of = Pool => \E i \in 1 .. Len(pool) : pool[i] = side
      /\ \A i, j \in 1 .. Len(pool) : pool[i].id = pool[j].id /\ i # j =>
           \E t \in 1 .. Total : /\ pool[i].id = PoolOrderId(t)
                                 /\ matches[t].bid.id.of = Pool /\ matches[t].offer.id.of = Pool
  <2> SUFFICES ASSUME NEW n \in Nat, n = Total
               PROVE  /\ pool \in Seq(AnyOrder(n))
                      /\ \A k \in 1 .. Len(pool) :
                           /\ pool[k].id.of = Pool
                           /\ \E l \in 1 .. n : pool[k] \in {matches[l].bid, matches[l].offer}
                      /\ \A t \in 1 .. n : \A side \in {matches[t].bid, matches[t].offer} :
                           side.id.of = Pool => \E i \in 1 .. Len(pool) : pool[i] = side
                      /\ \A i, j \in 1 .. Len(pool) : pool[i].id = pool[j].id /\ i # j =>
                           \E t \in 1 .. n : /\ pool[i].id = PoolOrderId(t)
                                             /\ matches[t].bid.id.of = Pool /\ matches[t].offer.id.of = Pool
    BY <1>2
  <2>1. /\ matches \in Seq(AnyMatch(n)) /\ Len(matches) = n
        /\ \A t \in 1 .. Len(matches) : IsSide(matches[t].bid, t) /\ IsSide(matches[t].offer, t)
    BY <1>2
  <2>2. /\ PoolOrders(matches) \in Seq(AnyOrder(n))
        /\ \A k \in 1 .. Len(PoolOrders(matches)) :
             /\ PoolOrders(matches)[k].id.of = Pool
             /\ \E l \in 1 .. Len(matches) :
                  PoolOrders(matches)[k] \in {matches[l].bid, matches[l].offer}
    BY <2>1, PoolOrdersElements
  <2>3. \A t \in 1 .. Len(matches) : \A side \in {matches[t].bid, matches[t].offer} :
          side.id.of = Pool => \E i \in 1 .. Len(PoolOrders(matches)) : PoolOrders(matches)[i] = side
    BY <2>1, PoolOrdersPlaces
  <2>4. \A i, j \in 1 .. Len(PoolOrders(matches)) :
          PoolOrders(matches)[i].id = PoolOrders(matches)[j].id /\ i # j =>
            \E t \in 1 .. Len(matches) : /\ PoolOrders(matches)[i].id = PoolOrderId(t)
                                         /\ matches[t].bid.id.of = Pool
                                         /\ matches[t].offer.id.of = Pool
    BY <2>1, PoolOrdersPlaces
  <2> QED
    BY <1>1, <2>1, <2>2, <2>3, <2>4
<1>4. ASSUME NEW t \in 1 .. Total
      PROVE  matches[t].bid.id.of = batch.trades[t].bid /\ matches[t].offer.id.of = batch.trades[t].offer
  BY TakesFacts DEF TakesForms, TakesSide, matches
<1>5. ASSUME NEW k \in 1 .. Len(pool)
      PROVE  \E t : IsPoolSide(pool[k], t)
  <2>1. PICK t \in 1 .. Total : pool[k] \in {matches[t].bid, matches[t].offer}
    BY <1>3
  <2>2. pool[k].id = PoolOrderId(t)
    BY <1>2, <1>3, <2>1 DEF IsSide
  <2> QED
    BY <2>1, <2>2 DEF IsPoolSide, matches
<1>6. ASSUME NEW t \in 1 .. Total, Pool \in SidesOf(t)
      PROVE  \E k \in 1 .. Len(pool) : pool[k].id = PoolOrderId(t)
  <2>1. PICK side \in {matches[t].bid, matches[t].offer} : side.id.of = Pool
    BY <1>4, <1>6 DEF SidesOf
  <2>2. PICK k \in 1 .. Len(pool) : pool[k] = side
    BY <1>3, <2>1
  <2>3. side.id = PoolOrderId(t)
    BY <1>2, <2>1 DEF IsSide
  <2> QED
    BY <2>2, <2>3
<1>7. ASSUME NEW j \in 1 .. Len(pool), NEW k \in 1 .. Len(pool), pool[j].id = pool[k].id, ForPassed(pool[j].id)
      PROVE  j = k
  <2> SUFFICES ASSUME j # k PROVE FALSE
    OBVIOUS
  <2>1. PICK t \in 1 .. Total : /\ pool[j].id = PoolOrderId(t)
                                /\ matches[t].bid.id.of = Pool /\ matches[t].offer.id.of = Pool
    BY <1>3, <1>7
  <2>2. MarketOf(t) \in Passed
    BY <1>7, <2>1 DEF ForPassed, PoolOrderId
  <2>3. batch.trades[t].bid # batch.trades[t].offer
    BY <2>2, PassedSides
  <2> QED
    BY <1>4, <2>1, <2>3
<1> QED
  BY <1>3, <1>5, <1>6, <1>7 DEF pool

(* What a run places for markets that are fresh.                           *)
LEMMA UnplacedReady ==
  ASSUME InputKept
  PROVE  /\ \A k \in 1 .. Len(Unplaced) : /\ Unplaced[k].id \notin ledger.placed
                                          /\ \E t : IsPoolSide(Unplaced[k], t) /\ IsFresh(MarketOf(t))
         /\ \A j, k \in 1 .. Len(Unplaced) : Unplaced[j].id = Unplaced[k].id => j = k
         /\ \A t \in 1 .. Total : Pool \in SidesOf(t) /\ IsFresh(MarketOf(t)) =>
              PoolOrderId(t) \in ledger.placed \/ \E k \in 1 .. Len(Unplaced) : Unplaced[k].id = PoolOrderId(t)
<1> DEFINE orders == build.poolOrders
           K == {k \in DOMAIN orders : orders[k].id \in UsedOrders \ ledger.placed}
           new == Subsequence(orders, K)
           S == AnyOrder(Total)
<1>1. /\ orders \in Seq(S)
      /\ \A k \in 1 .. Len(orders) : \E t : IsPoolSide(orders[k], t)
      /\ \A t \in 1 .. Total : Pool \in SidesOf(t) => \E k \in 1 .. Len(orders) : orders[k].id = PoolOrderId(t)
      /\ \A j, k \in 1 .. Len(orders) : orders[j].id = orders[k].id /\ ForPassed(orders[j].id) => j = k
  BY BuiltPoolOrders
<1>2. DOMAIN orders = 1 .. Len(orders) /\ K \in SUBSET (1 .. Len(orders))
  BY <1>1
<1>3. Unplaced = new
  BY DEF Unplaced
<1>4. ASSUME NEW t \in 1 .. Total
      PROVE  PoolOrderId(t) \in UsedOrders <=> Pool \in SidesOf(t) /\ IsFresh(MarketOf(t))
  <2>0. /\ DOMAIN build.matches = 1 .. Total
        /\ \A u \in 1 .. Total : IsMatch(build.matches[u], u, batch.trades)
    BY BuildFacts
  <2>1. \A u \in 1 .. Total : build.matches[u].market = MarketOf(u)
    BY <2>0 DEF IsMatch, MarketOf
  <2>2. \A u \in 1 .. Total : /\ build.matches[u].bid.id.of = batch.trades[u].bid
                              /\ build.matches[u].offer.id.of = batch.trades[u].offer
    BY TakesFacts DEF TakesForms, TakesSide
  <2>3. \A u \in 1 .. Total : \A side \in {build.matches[u].bid, build.matches[u].offer} :
          side.id.of = Pool => side.id = PoolOrderId(u)
    BY <2>0 DEF IsMatch, IsSide
  <2>4. ASSUME PoolOrderId(t) \in UsedOrders
        PROVE  Pool \in SidesOf(t) /\ IsFresh(MarketOf(t))
    <3>1. PICK u \in 1 .. Total : /\ IsFresh(build.matches[u].market)
                                  /\ PoolOrderId(t) \in {build.matches[u].bid.id, build.matches[u].offer.id}
      BY <2>0, <2>4 DEF UsedOrders, ToSet
    <3>2. PICK side \in {build.matches[u].bid, build.matches[u].offer} : side.id = PoolOrderId(t)
      BY <3>1
    <3>3. side.id.of = Pool
      BY <3>2 DEF PoolOrderId
    <3>4. side.id = PoolOrderId(u)
      BY <2>3, <3>2, <3>3
    <3>5. t = u
      BY <3>2, <3>4 DEF PoolOrderId
    <3> QED
      BY <2>1, <2>2, <3>1, <3>3, <3>5 DEF SidesOf
  <2>5. ASSUME Pool \in SidesOf(t), IsFresh(MarketOf(t))
        PROVE  PoolOrderId(t) \in UsedOrders
    <3>1. PICK side \in {build.matches[t].bid, build.matches[t].offer} : side.id.of = Pool
      BY <2>2, <2>5 DEF SidesOf
    <3>2. PoolOrderId(t) \in {build.matches[t].bid.id, build.matches[t].offer.id}
      BY <2>3, <3>1
    <3>3. IsFresh(build.matches[t].market) /\ build.matches[t] \in ToSet(build.matches)
      BY <2>0, <2>1, <2>5 DEF ToSet
    <3> QED
      BY <3>2, <3>3 DEF UsedOrders
  <2> QED
    BY <2>4, <2>5
<1>5. ASSUME NEW k \in K
      PROVE  \E t : IsPoolSide(orders[k], t) /\ IsFresh(MarketOf(t)) /\ ForPassed(orders[k].id)
  <2>1. PICK t : IsPoolSide(orders[k], t)
    BY <1>1, <1>2
  <2>2. t \in 1 .. Total /\ orders[k].id = PoolOrderId(t)
    BY <2>1 DEF IsPoolSide
  <2>3. IsFresh(MarketOf(t))
    BY <1>4, <2>2
  <2>4. MarketOf(t) \in Passed
    BY <2>2, <2>3, InputFacts DEF IsFresh, Passed
  <2> QED
    BY <2>1, <2>2, <2>3, <2>4 DEF ForPassed, PoolOrderId
<1>6. \A k \in K : orders[k].id \notin ledger.placed
  OBVIOUS
<1>7. \A k \in 1 .. Len(orders) : orders[k].id \in UsedOrders /\ orders[k].id \notin ledger.placed => k \in K
  BY <1>2
<1> HIDE DEF orders, K, S
<1>8. PICK h : /\ \A i \in 1 .. Len(new) : h[i] \in K /\ new[i] = orders[h[i]]
               /\ \A i, j \in 1 .. Len(new) : h[i] = h[j] => i = j
  <2>1. TakesFrom(new, orders, K)
    BY <1>1, <1>2, SubsequencePlaces
  <2> QED
    BY <2>1 DEF TakesFrom
<1>9. \A k \in K : \E i \in 1 .. Len(new) : new[i] = orders[k]
  BY <1>1, <1>2, SubsequenceElements
<1> HIDE DEF new
<1>10. \A k \in 1 .. Len(new) : /\ new[k].id \notin ledger.placed
                                /\ \E t : IsPoolSide(new[k], t) /\ IsFresh(MarketOf(t))
  BY <1>5, <1>6, <1>8
<1>11. ASSUME NEW j \in 1 .. Len(new), NEW k \in 1 .. Len(new), new[j].id = new[k].id
       PROVE  j = k
  <2>1. /\ h[j] \in K /\ h[k] \in K /\ orders[h[j]].id = orders[h[k]].id
    BY <1>8, <1>11
  <2>2. ForPassed(orders[h[j]].id) /\ h[j] \in 1 .. Len(orders) /\ h[k] \in 1 .. Len(orders)
    BY <1>2, <1>5, <2>1
  <2>3. h[j] = h[k]
    BY <1>1, <2>1, <2>2
  <2> QED
    BY <1>8, <2>3
<1>12. ASSUME NEW t \in 1 .. Total, Pool \in SidesOf(t), IsFresh(MarketOf(t)), PoolOrderId(t) \notin ledger.placed
       PROVE  \E k \in 1 .. Len(new) : new[k].id = PoolOrderId(t)
  <2>1. PICK k \in 1 .. Len(orders) : orders[k].id = PoolOrderId(t)
    BY <1>1, <1>12
  <2>2. k \in K
    BY <1>4, <1>7, <1>12, <2>1
  <2>3. PICK i \in 1 .. Len(new) : new[i] = orders[k]
    BY <1>9, <2>2
  <2> QED
    BY <2>1, <2>3
<1> QED
  BY <1>3, <1>10, <1>11, <1>12

-----------------------------------------------------------------------------
(* A ledger that misses nothing lists what the chain holds, and a run that *)
(* goes by it works on markets that are not settled and places orders that *)
(* are not known.                                                          *)
Listed(led, reg, trades) ==
  /\ KeepsOrders(reg, trades)
  /\ \A t \in Done(trades) : MarketOf(t) \in led.settled
  /\ \A t \in 1 .. Total :
       PoolOrderId(t) \in reg.known => PoolOrderId(t) \in led.placed \/ t \in Done(trades)

OrdersAhead(todo, reg) ==
  /\ \A k \in 1 .. Len(todo) : todo[k].id \notin reg.known /\ \E t : IsPoolSide(todo[k], t)
  /\ \A j, k \in 1 .. Len(todo) : todo[j].id = todo[k].id => j = k

WorkAhead(todo, work, led, reg) ==
  /\ EachOnce(work)
  /\ \A m \in led.settled : ~ Holds(work, m)
  /\ OrdersAhead(todo, reg)
  /\ \A t \in 1 .. Total : Holds(work, MarketOf(t)) /\ Pool \in SidesOf(t) =>
       PoolOrderId(t) \in reg.known \/ \E k \in 1 .. Len(todo) : todo[k].id = PoolOrderId(t)

InPhase(phase, todo, work) ==
  /\ phase \in {"settle", "idle"} => todo = <<>>
  /\ phase = "idle" => work = <<>>

Complete ==
  /\ Listed(ledger, registry, executed)
  /\ WorkAhead(toPlace, chunks, ledger, registry)
  /\ InPhase(at, toPlace, chunks)
  /\ reverted => UsedUpOrderPasses

NothingMissed == forgotten \/ Complete

LEMMA SameMatches ==
  ASSUME UNCHANGED input
  PROVE  /\ Total' = Total /\ PlacedByParticipants' = PlacedByParticipants
         /\ UsedUpOrderPasses' = UsedUpOrderPasses
         /\ \A t : MarketOf(t)' = MarketOf(t) /\ Tuple(t)' = Tuple(t) /\ SidesOf(t)' = SidesOf(t)
<1>1. batch' = batch /\ build' = build /\ rejected' = rejected
  BY DEF input
<1>2. PlacedByParticipants' = PlacedByParticipants
  BY <1>1 DEF PlacedByParticipants, OrderTuple
<1>3. UsedUpOrderPasses' = UsedUpOrderPasses
  BY <1>1 DEF UsedUpOrderPasses, SoldOut
<1> QED
  BY <1>1, <1>2, <1>3 DEF Total, MarketOf, Tuple, SidesOf

LEMMA StepComplete ==
  ASSUME UNCHANGED input,
         Listed(ledger', registry', executed'),
         WorkAhead(toPlace', chunks', ledger', registry'),
         InPhase(at', toPlace', chunks'),
         reverted' => UsedUpOrderPasses
  PROVE  NothingMissed'
<1>1. batch' = batch /\ build' = build
  BY DEF input
<1>2. KeepsOrders(registry, executed)'
  BY SameMatches DEF Listed, KeepsOrders
<1>3. Listed(ledger, registry, executed)'
  BY <1>2, SameMatches DEF Listed
<1>4. OrdersAhead(toPlace, registry)'
  BY <1>1, SameMatches DEF WorkAhead, OrdersAhead, IsPoolSide
<1>5. WorkAhead(toPlace, chunks, ledger, registry)'
  BY <1>4, SameMatches DEF WorkAhead
<1>6. InPhase(at, toPlace, chunks)'
  BY DEF InPhase
<1>7. (reverted => UsedUpOrderPasses)'
  BY SameMatches
<1> QED
  BY <1>3, <1>5, <1>6, <1>7 DEF NothingMissed, Complete

(* A run that has ended has no work ahead.                                 *)
LEMMA NoWorkAhead ==
  ASSUME NEW led, NEW reg
  PROVE  WorkAhead(<<>>, <<>>, led, reg) /\ InPhase("idle", <<>>, <<>>)
BY DEF WorkAhead, OrdersAhead, EachOnce, Holds, InPhase

LEMMA InitComplete == Init => NothingMissed
<1> SUFFICES ASSUME Init PROVE NothingMissed
  OBVIOUS
<1>1. InputKept
  BY DEF Init, InputKept
<1>2. executed = <<>> /\ Done(executed) = {} /\ ~ reverted
  BY DEF Init, Done
<1>3. /\ registry.known = {order.id : order \in PlacedByParticipants}
      /\ registry.open = PlacedByParticipants
  BY DEF Init, Registered
<1>4. \A id \in registry.known : id.of # Pool
  <2>1. \A order \in PlacedByParticipants : order.id.of # Pool
    <3> SUFFICES ASSUME NEW o \in Orders
                 PROVE  OrderTuple([id |-> Original(o), energy |-> batch.book.energy[o]], 0).id.of # Pool
      BY DEF PlacedByParticipants
    <3> QED
      BY MatchBuilderAssumption DEF OrderTuple, OnChain, Original
  <2> QED
    BY <1>3, <2>1
<1>5. \A t : PoolOrderId(t) \notin registry.known
  BY <1>4 DEF PoolOrderId
<1>6. Listed(ledger, registry, executed)
  BY <1>2, <1>3, <1>5 DEF Listed, KeepsOrders
<1>7. WorkAhead(toPlace, chunks, ledger, registry) /\ InPhase(at, toPlace, chunks)
  BY NoWorkAhead DEF Init
<1> QED
  BY <1>2, <1>6, <1>7 DEF NothingMissed, Complete

LEMMA StartComplete == IInv /\ NothingMissed /\ Start => NothingMissed'
<1> SUFFICES ASSUME IInv, NothingMissed, Start PROVE NothingMissed'
  OBVIOUS
<1>1. UNCHANGED <<input, ledger, registry, executed, reverted, forgotten>>
  BY DEF Start
<1> SUFFICES ASSUME Complete PROVE NothingMissed'
  BY <1>1 DEF NothingMissed
<1>2. InputKept /\ at = "idle"
  BY Known DEF Start
<1>3. CASE UNCHANGED <<at, toPlace, chunks>>
  BY <1>1, <1>3, StepComplete DEF Complete
<1>4. CASE at' = "register" /\ toPlace' = Unplaced /\ chunks' = Pack(Fresh)
  <2>1. Listed(ledger, registry, executed)
    BY DEF Complete
  <2>2. /\ Fresh \in Seq(Passed) /\ Distinct(Fresh) /\ Passed \in SUBSET Markets
        /\ \A i \in 1 .. Len(Fresh) : IsFresh(Fresh[i])
    BY <1>2, FreshPassed, FreshOnce, InputFacts
  <2> DEFINE work == Pack(Fresh)
  <2>3. EachOnce(work) /\ \A x : Holds(work, x) <=> Occurs(x, Fresh)
    BY <2>2, PackOnce
  <2> HIDE DEF work
  <2>4. \A x : Holds(work, x) => IsFresh(x)
    BY <2>2, <2>3 DEF Occurs
  <2>5. \A m \in ledger.settled : ~ Holds(work, m)
    BY <2>4 DEF IsFresh
  <2>6. /\ \A k \in 1 .. Len(Unplaced) : /\ Unplaced[k].id \notin ledger.placed
                                         /\ \E t : IsPoolSide(Unplaced[k], t) /\ IsFresh(MarketOf(t))
        /\ \A j, k \in 1 .. Len(Unplaced) : Unplaced[j].id = Unplaced[k].id => j = k
        /\ \A t \in 1 .. Total : Pool \in SidesOf(t) /\ IsFresh(MarketOf(t)) =>
             PoolOrderId(t) \in ledger.placed \/ \E k \in 1 .. Len(Unplaced) : Unplaced[k].id = PoolOrderId(t)
    BY <1>2, UnplacedReady
  <2>7. ASSUME NEW k \in 1 .. Len(Unplaced)
        PROVE  Unplaced[k].id \notin registry.known
    <3>1. PICK t : IsPoolSide(Unplaced[k], t) /\ IsFresh(MarketOf(t))
      BY <2>6
    <3>2. t \in 1 .. Total /\ Unplaced[k].id = PoolOrderId(t)
      BY <3>1 DEF IsPoolSide
    <3>3. t \notin Done(executed)
      BY <2>1, <3>1 DEF Listed, IsFresh
    <3> QED
      BY <2>1, <2>6, <3>2, <3>3 DEF Listed
  <2>8. OrdersAhead(Unplaced, registry)
    BY <2>6, <2>7 DEF OrdersAhead
  <2>9. ledger.placed \subseteq registry.known
    BY Known
  <2>10. WorkAhead(Unplaced, work, ledger, registry)
    BY <2>3, <2>4, <2>5, <2>6, <2>8, <2>9 DEF WorkAhead
  <2>11. InPhase("register", Unplaced, work)
    BY DEF InPhase
  <2>12. reverted => UsedUpOrderPasses
    BY DEF Complete
  <2> QED
    BY <1>1, <1>4, <2>1, <2>10, <2>11, <2>12, StepComplete DEF work
<1> QED
  BY <1>3, <1>4 DEF Start

(* Steps that leave the chain and the ledger alone.                        *)
LEMMA QuietComplete ==
  ASSUME IInv, NothingMissed, UNCHANGED <<input, ledger, registry, executed, reverted, forgotten>>,
         \/ UNCHANGED <<at, toPlace, chunks>>
         \/ Register \/ AllPlaced
         \/ EndRun
  PROVE  NothingMissed'
<1> SUFFICES ASSUME Complete PROVE NothingMissed'
  BY DEF NothingMissed
<1>1. CASE EndRun
  <2>1. WorkAhead(toPlace', chunks', ledger', registry') /\ InPhase(at', toPlace', chunks')
    BY <1>1, NoWorkAhead DEF EndRun
  <2> QED
    BY <2>1, StepComplete DEF Complete
<1>2. CASE UNCHANGED <<at, toPlace, chunks>>
  BY <1>2, StepComplete DEF Complete
<1>3. CASE Register \/ AllPlaced
  <2>1. UNCHANGED <<toPlace, chunks>> /\ InPhase(at', toPlace', chunks')
    BY <1>3 DEF Register, AllPlaced, InPhase
  <2> QED
    BY <2>1, StepComplete DEF Complete
<1> QED
  BY <1>1, <1>2, <1>3

(* The tuple of a pool order is the side that its match closes.            *)
LEMMA PoolTupleIsSide ==
  ASSUME InputKept, NEW order, NEW t, IsPoolSide(order, t), MarketOf(t) \in Passed,
         NEW side \in Closed(Tuple(t)), side.id.of = Pool
  PROVE  side = PoolTuple(order)
<1> DEFINE match == build.matches[t]
           book == batch.book
<1>1. t \in 1 .. Total /\ order.id = PoolOrderId(t) /\ order \in {match.bid, match.offer}
  BY DEF IsPoolSide
<1>2. order.id.of = Pool /\ order.id.after = t
  BY <1>1 DEF PoolOrderId
<1>3. match.bid.id.of = batch.trades[t].bid /\ match.offer.id.of = batch.trades[t].offer
  BY <1>1, TakesFacts DEF TakesForms, TakesSide
<1>4. batch.trades[t].bid # batch.trades[t].offer
  BY <1>1, PassedSides
<1>5. /\ Tuple(t).bid = OrderTuple(match.bid, book.upper)
      /\ Tuple(t).offer = OrderTuple(match.offer, book.lower)
  BY DEF Tuple, MatchTuple, OrderTuple, BidTerms, OfferTerms
<1>6. Tuple(t).bid.id = match.bid.id /\ Tuple(t).offer.id = match.offer.id
  BY <1>5 DEF OrderTuple, OnChain
<1>7. side = Tuple(t).bid \/ side = Tuple(t).offer
  BY DEF Closed
<1>8. PoolTuple(order) = IF match.bid = order THEN OrderTuple(order, book.upper)
                                              ELSE OrderTuple(order, book.lower)
  BY <1>2 DEF PoolTuple
<1> HIDE DEF match, book
<1>9. CASE order = match.bid
  <2>1. match.offer.id.of # Pool
    BY <1>2, <1>3, <1>4, <1>9
  <2>2. side = Tuple(t).bid
    BY <1>6, <1>7, <2>1
  <2> QED
    BY <1>5, <1>8, <1>9, <2>2
<1>10. CASE order # match.bid
  <2>1. order = match.offer
    BY <1>1, <1>10
  <2>2. match.bid.id.of # Pool
    BY <1>2, <1>3, <1>4, <2>1
  <2>3. side = Tuple(t).offer
    BY <1>6, <1>7, <2>2
  <2> QED
    BY <1>5, <1>8, <1>10, <2>1, <2>3
<1> QED
  BY <1>9, <1>10

LEMMA PlaceComplete == IInv /\ NothingMissed /\ Place => NothingMissed'
<1> SUFFICES ASSUME IInv, NothingMissed, Place PROVE NothingMissed'
  OBVIOUS
<1> DEFINE order == Head(toPlace)
           rest == Tail(toPlace)
<1>1. /\ toPlace # <<>> /\ at = "place" /\ PlaceMined(order)
      /\ UNCHANGED <<input, executed, forgotten>>
      /\ reverted' = (reverted \/ ~ PlaceAccepted(registry, order))
  BY DEF Place
<1> SUFFICES ASSUME Complete PROVE NothingMissed'
  BY <1>1 DEF NothingMissed
<1>2. /\ InputKept /\ toPlace \in Seq(Placeable)
      /\ ledger \in [settled : SUBSET Passed, placed : SUBSET OrderIds]
  BY Known
<1>3. /\ Listed(ledger, registry, executed) /\ WorkAhead(toPlace, chunks, ledger, registry)
      /\ reverted => UsedUpOrderPasses
  BY DEF Complete
<1>4. /\ Len(toPlace) \in Nat \ {0} /\ order = toPlace[1] /\ order \in Placeable
      /\ Len(rest) = Len(toPlace) - 1
      /\ \A k \in 1 .. (Len(toPlace) - 1) : rest[k] = toPlace[k + 1]
  BY <1>1, <1>2
<1>5. PICK t : IsPoolSide(order, t) /\ order.id \notin registry.known
  BY <1>3, <1>4 DEF WorkAhead, OrdersAhead
<1>6. t \in 1 .. Total /\ order.id = PoolOrderId(t) /\ MarketOf(t) \in Passed
  BY <1>4, <1>5 DEF IsPoolSide, Placeable, ForPassed, PoolOrderId
<1>7. PlaceAccepted(registry, order)
  BY <1>5 DEF PlaceAccepted
<1>8. /\ ledger' = [ledger EXCEPT !.placed = @ \cup {order.id}]
      /\ toPlace' = rest /\ UNCHANGED <<at, chunks>>
      /\ registry' = Placed(registry, PoolTuple(order))
  BY <1>7 DEF Place, PlaceMined
<1>9. /\ ledger'.settled = ledger.settled /\ ledger'.placed = ledger.placed \cup {order.id}
      /\ registry'.known = registry.known \cup {order.id}
      /\ registry'.open = registry.open \cup {PoolTuple(order)}
  BY <1>2, <1>8 DEF Placed, PoolTuple, OrderTuple, OnChain
<1> HIDE DEF order, rest
<1>10. \A side \in Closed(Tuple(t)) : side.id.of = Pool => side \in registry'.open
  BY <1>2, <1>5, <1>6, <1>9, PoolTupleIsSide
<1>11. \A u \in 1 .. Total : PoolOrderId(u) = PoolOrderId(t) => u = t
  BY DEF PoolOrderId
<1>12. KeepsOrders(registry', executed)
  <2>1. KeepsOrders(registry, executed)
    BY <1>3 DEF Listed
  <2> QED
    BY <1>6, <1>9, <1>10, <1>11, <2>1 DEF KeepsOrders
<1>13. Listed(ledger', registry', executed)
  BY <1>3, <1>6, <1>9, <1>12 DEF Listed
<1>14. /\ \A k \in 1 .. Len(rest) : k + 1 \in 1 .. Len(toPlace) /\ k + 1 # 1 /\ rest[k] = toPlace[k + 1]
       /\ \A k \in 1 .. Len(toPlace) : k # 1 => k - 1 \in 1 .. Len(rest) /\ rest[k - 1] = toPlace[k]
       /\ 1 \in 1 .. Len(toPlace)
       /\ \A j, k \in 1 .. Len(rest) : j + 1 = k + 1 => j = k
  BY <1>4
<1>15. OrdersAhead(rest, registry')
  <2>1. OrdersAhead(toPlace, registry)
    BY <1>3 DEF WorkAhead
  <2>2. ASSUME NEW k \in 1 .. Len(rest)
        PROVE  rest[k].id \notin registry'.known /\ \E u : IsPoolSide(rest[k], u)
    <3>1. toPlace[k + 1].id # toPlace[1].id
      BY <1>14, <2>1 DEF OrdersAhead
    <3> QED
      BY <1>4, <1>9, <1>14, <2>1, <3>1 DEF OrdersAhead
  <2>3. ASSUME NEW j \in 1 .. Len(rest), NEW k \in 1 .. Len(rest), rest[j].id = rest[k].id
        PROVE  j = k
    <3>1. /\ j + 1 \in 1 .. Len(toPlace) /\ k + 1 \in 1 .. Len(toPlace)
          /\ toPlace[j + 1].id = toPlace[k + 1].id
      BY <1>14, <2>3
    <3>2. j + 1 = k + 1
      BY <2>1, <3>1 DEF OrdersAhead
    <3> QED
      BY <1>14, <2>3, <3>2
  <2> QED
    BY <2>2, <2>3 DEF OrdersAhead
<1>16. WorkAhead(rest, chunks, ledger', registry')
  <2>1. ASSUME NEW u \in 1 .. Total, Holds(chunks, MarketOf(u)), Pool \in SidesOf(u)
        PROVE  PoolOrderId(u) \in registry'.known \/ \E k \in 1 .. Len(rest) : rest[k].id = PoolOrderId(u)
    <3>1. CASE PoolOrderId(u) \in registry.known
      BY <1>9, <3>1
    <3>2. ASSUME NEW k \in 1 .. Len(toPlace), toPlace[k].id = PoolOrderId(u)
          PROVE  PoolOrderId(u) \in registry'.known \/ \E l \in 1 .. Len(rest) : rest[l].id = PoolOrderId(u)
      <4>1. CASE k = 1
        BY <1>4, <1>9, <3>2, <4>1
      <4>2. CASE k # 1
        BY <1>14, <3>2, <4>2
      <4> QED
        BY <4>1, <4>2
    <3> QED
      BY <1>3, <2>1, <3>1, <3>2 DEF WorkAhead
  <2> QED
    BY <1>3, <1>9, <1>15, <2>1 DEF WorkAhead
<1>17. InPhase(at, rest, chunks)
  BY <1>1 DEF InPhase
<1>18. reverted' = reverted
  BY <1>1, <1>3, <1>7, Known
<1> QED
  BY <1>1, <1>3, <1>8, <1>13, <1>16, <1>17, <1>18, StepComplete

(* What a transaction that is executed does to the orders.                 *)
LEMMA ExecutedKeeps ==
  ASSUME InputKept, NEW reg, NEW trades, KeepsOrders(reg, trades), trades \in Seq(1 .. Total),
         NEW ms, Carries(ms)
  PROVE  /\ KeepsOrders(Executed(reg, ms), trades \o TradesIn(ms))
         /\ \A t \in 1 .. Total : PoolOrderId(t) \in Executed(reg, ms).known =>
              PoolOrderId(t) \in reg.known \/ t \in Done(trades \o TradesIn(ms))
<1> DEFINE after == Executed(reg, ms)
           all == trades \o TradesIn(ms)
<1>1. Done(all) = Done(trades) \cup {ms[k].trade : k \in 1 .. Len(ms)}
  BY TradesThen
<1> HIDE DEF all
<1>2. /\ Len(ms) \in Nat /\ DOMAIN ms = 1 .. Len(ms)
      /\ \A k \in 1 .. Len(ms) : ms[k].trade \in 1 .. Total /\ ms[k] = Tuple(ms[k].trade)
                                 /\ ms[k].trade \in Done(all)
  BY <1>1 DEF Carries
<1>3. /\ after.known = reg.known
                         \cup {order.id : order \in UNION {Opened(ms[k]) : k \in DOMAIN ms}}
      /\ after.open = OpenAfter(reg, ms, Len(ms))
  BY DEF Executed
<1> HIDE DEF after
<1>4. \A order \in reg.open : order \in after.open \/ \E k \in 1 .. Len(ms) : order \in Closed(ms[k])
  BY <1>3 DEF OpenAfter
<1>5. \A order \in reg.open :
        order \in after.open \/ \E t \in Done(all) : t \in 1 .. Total /\ order \in Closed(Tuple(t))
  BY <1>2, <1>4
<1>6. ASSUME NEW t \in 1 .. Total, PoolOrderId(t) \in after.known
      PROVE  PoolOrderId(t) \in reg.known \/ t \in Done(all)
  <2> SUFFICES ASSUME NEW k \in 1 .. Len(ms), NEW order \in Opened(ms[k]), order.id = PoolOrderId(t)
               PROVE  t \in Done(all)
    BY <1>2, <1>3, <1>6
  <2>1. order \in Opened(Tuple(ms[k].trade)) /\ ms[k].trade \in 1 .. Total
    BY <1>2
  <2>2. order.id.after = ms[k].trade
    BY <2>1, OpenedFacts
  <2> QED
    BY <1>2, <2>2 DEF PoolOrderId
<1>7. ASSUME NEW order \in PlacedByParticipants
      PROVE  order \in after.open \/ \E t \in Done(all) : order \in Closed(Tuple(t))
  BY <1>1, <1>5 DEF KeepsOrders
<1>8. ASSUME NEW t \in 1 .. Total, PoolOrderId(t) \in after.known, t \notin Done(all),
             NEW side \in Closed(Tuple(t)), side.id.of = Pool
      PROVE  side \in after.open
  <2>1. PoolOrderId(t) \in reg.known /\ t \notin Done(trades)
    BY <1>1, <1>6, <1>8
  <2>2. side \in reg.open
    BY <1>8, <2>1 DEF KeepsOrders
  <2>3. ASSUME NEW u \in Done(all), u \in 1 .. Total, side \in Closed(Tuple(u))
        PROVE  FALSE
    <3>1. side.id = PoolOrderId(t) /\ side.id = PoolOrderId(u)
      BY <1>8, <2>3, ClosedForms
    <3> QED
      BY <1>8, <2>3, <3>1 DEF PoolOrderId
  <2> QED
    BY <1>5, <2>2, <2>3
<1>9. KeepsOrders(after, all)
  BY <1>7, <1>8 DEF KeepsOrders
<1> QED
  BY <1>6, <1>9 DEF after, all

LEMMA SettleComplete == IInv /\ NothingMissed /\ Settle => NothingMissed'
<1> SUFFICES ASSUME IInv, NothingMissed, Settle PROVE NothingMissed'
  OBVIOUS
<1> DEFINE markets == Head(chunks)
           rest == Tail(chunks)
           ms == Sent(markets)
<1>1. /\ chunks # <<>> /\ at = "settle" /\ SettleMined(markets)
      /\ UNCHANGED <<input, forgotten>>
      /\ reverted' = (reverted \/ Refused(markets))
      /\ IF Refused(markets) THEN EndRun /\ UNCHANGED ledger
         ELSE /\ ledger' = [ledger EXCEPT !.settled = @ \cup ToSet(markets)]
              /\ chunks' = rest /\ UNCHANGED <<at, toPlace>>
  BY DEF Settle
<1> SUFFICES ASSUME Complete PROVE NothingMissed'
  BY <1>1 DEF NothingMissed
<1>2. /\ InputKept /\ ChainInv(registry, executed) /\ chunks \in Seq(Seq(Passed))
      /\ ledger \in [settled : SUBSET Passed, placed : SUBSET OrderIds]
      /\ executed \in Seq(1 .. Total)
  BY Known DEF ChainInv, ChainIsPassed
<1>3. /\ Listed(ledger, registry, executed) /\ WorkAhead(toPlace, chunks, ledger, registry)
      /\ reverted => UsedUpOrderPasses
      /\ toPlace = <<>>
  BY <1>1 DEF Complete, InPhase
<1>4. markets \in Seq(Passed) /\ ToSet(markets) \subseteq Passed
  BY <1>1, FirstChunk
<1>5. EachOnce(chunks)
  BY <1>3 DEF WorkAhead
<1>6. /\ EachOnce(rest) /\ Distinct(markets)
      /\ \A x : Occurs(x, markets) => Holds(chunks, x)
      /\ \A x : Holds(rest, x) => Holds(chunks, x)
      /\ \A x : ~ (Holds(rest, x) /\ Occurs(x, markets))
  BY <1>1, <1>2, <1>5, TailHolds
<1>7. /\ Carries(ms)
      /\ \A k \in 1 .. Len(ms) : \E i \in 1 .. Len(markets) : MarketOf(ms[k].trade) = markets[i]
  BY <1>2, <1>4, SentCarries
<1> HIDE DEF markets, rest, ms
<1>8. \A x : Occurs(x, markets) <=> x \in ToSet(markets)
  BY <1>4 DEF Occurs, ToSet
<1>9. \A k \in 1 .. Len(ms) : Occurs(MarketOf(ms[k].trade), markets)
  BY <1>7 DEF Occurs
<1>10. ASSUME ~ UsedUpOrderPasses
       PROVE  ~ Refused(markets)
  <2>1. NoneDone(executed, ms)
    BY <1>3, <1>6, <1>9 DEF NoneDone, Listed, WorkAhead
  <2>2. PoolIsPlaced(registry, ms)
    <3> SUFFICES ASSUME NEW k \in 1 .. Len(ms), Pool \in SidesOf(ms[k].trade)
                 PROVE  PoolOrderId(ms[k].trade) \in registry.known
      BY DEF PoolIsPlaced
    <3>1. ms[k].trade \in 1 .. Total /\ Holds(chunks, MarketOf(ms[k].trade))
      BY <1>6, <1>7, <1>9 DEF Carries
    <3>2. Len(toPlace) = 0
      BY <1>3
    <3>3. ~ \E j \in 1 .. Len(toPlace) : TRUE
      BY <3>2
    <3> QED
      BY <1>3, <3>1, <3>3 DEF WorkAhead
  <2>3. SentIsReady(registry, executed, ms)
    BY <1>2, <1>3, <2>1, <2>2 DEF SentIsReady, Listed
  <2>4. SettleAccepted(registry, ms, TradedOnChain)
    BY <1>2, <1>4, <1>6, <1>10, <2>3, SentAccepted DEF ms
  <2> QED
    BY <2>4 DEF Refused, ms
<1>11. reverted' => UsedUpOrderPasses
  BY <1>1, <1>3, <1>10
<1>12. CASE Refused(markets)
  <2>1. UNCHANGED <<ledger, registry, executed>> /\ EndRun
    BY <1>1, <1>12 DEF SettleMined
  <2>2. WorkAhead(toPlace', chunks', ledger', registry') /\ InPhase(at', toPlace', chunks')
    BY <2>1, NoWorkAhead DEF EndRun
  <2> QED
    BY <1>1, <1>3, <1>11, <2>1, <2>2, StepComplete
<1>13. CASE ~ Refused(markets)
  <2>1. /\ ledger' = [ledger EXCEPT !.settled = @ \cup ToSet(markets)]
        /\ chunks' = rest /\ UNCHANGED <<at, toPlace>>
        /\ registry' = Executed(registry, ms) /\ executed' = executed \o TradesIn(ms)
    BY <1>1, <1>13 DEF SettleMined, TradesIn, ms
  <2>2. ledger'.settled = ledger.settled \cup ToSet(markets) /\ ledger'.placed = ledger.placed
    BY <1>2, <2>1
  <2>3. Done(executed') = Done(executed) \cup {ms[k].trade : k \in 1 .. Len(ms)}
    BY <1>2, <1>7, <2>1, TradesThen
  <2>4. KeepsOrders(registry, executed)
    BY <1>3 DEF Listed
  <2>5. /\ KeepsOrders(registry', executed')
        /\ \A t \in 1 .. Total : PoolOrderId(t) \in registry'.known =>
             PoolOrderId(t) \in registry.known \/ t \in Done(executed')
    BY <1>2, <1>7, <2>1, <2>4, ExecutedKeeps
  <2>6. \A t \in Done(executed') : MarketOf(t) \in ledger'.settled
    BY <1>3, <1>8, <1>9, <2>2, <2>3 DEF Listed
  <2>7. Listed(ledger', registry', executed')
    BY <1>3, <2>2, <2>3, <2>5, <2>6 DEF Listed
  <2>8. registry.known \subseteq registry'.known
    BY <2>1 DEF Executed
  <2>9. \A m \in ledger'.settled : ~ Holds(rest, m)
    BY <1>3, <1>6, <1>8, <2>2 DEF WorkAhead
  <2>10. OrdersAhead(toPlace, registry')
    <3>1. Len(toPlace) = 0
      BY <1>3
    <3> QED
      BY <3>1 DEF OrdersAhead
  <2>11. WorkAhead(toPlace, rest, ledger', registry')
    BY <1>3, <1>6, <2>8, <2>9, <2>10 DEF WorkAhead
  <2>12. InPhase(at, toPlace, rest)
    BY <1>1, <1>3 DEF InPhase
  <2> QED
    BY <1>1, <1>11, <2>1, <2>7, <2>11, <2>12, StepComplete
<1> QED
  BY <1>12, <1>13

LEMMA CrashComplete == IInv /\ NothingMissed /\ Crash => NothingMissed'
<1> SUFFICES ASSUME IInv, NothingMissed, Crash PROVE NothingMissed'
  OBVIOUS
<1>1. /\ EndRun /\ UNCHANGED <<input, registry, executed, reverted>>
      /\ ledger' = NewLedger /\ forgotten' = (forgotten \/ ledger # NewLedger)
  BY DEF Crash
<1>2. CASE forgotten \/ ledger # NewLedger
  BY <1>1, <1>2 DEF NothingMissed
<1>3. CASE ~ forgotten /\ ledger = NewLedger
  <2>1. UNCHANGED <<ledger, forgotten>>
    BY <1>1, <1>3, Known
  <2> QED
    BY <1>1, <2>1, QuietComplete
<1> QED
  BY <1>2, <1>3

LEMMA NextComplete == IInv /\ NothingMissed /\ [Next]_vars => NothingMissed'
<1> SUFFICES ASSUME IInv, NothingMissed, [Next]_vars PROVE NothingMissed'
  OBVIOUS
<1>1. CASE UNCHANGED vars
  BY <1>1, QuietComplete DEF vars, input
<1>2. CASE Register \/ AllPlaced
  BY <1>2, QuietComplete DEF Register, AllPlaced
<1>3. CASE Return \/ CallFails
  BY <1>3, QuietComplete DEF Return, CallFails
<1>4. CASE ReceiptMissed
  BY <1>4 DEF ReceiptMissed, NothingMissed
<1> QED
  BY <1>1, <1>2, <1>3, <1>4, StartComplete, PlaceComplete, SettleComplete, CrashComplete DEF Next

(* The contract refuses a transaction only of an engine whose ledger       *)
(* misses something, or for an order that is used up and sold again, which *)
(* match_builder.py:137 leaves to the validator: whatever the batch, the   *)
(* forms the builder chains are those the contract opens, whole markets    *)
(* arrive in the order that the chain of forms needs (engine.py:108), the  *)
(* pool's orders are open by then, and nothing settled is sent again.      *)
THEOREM SettlementNothingReverts == Spec => []NothingReverts
<1>1. IInv /\ NothingMissed => NothingReverts
  BY DEF NothingMissed, Complete, NothingReverts
<1>2. Init => IInv /\ NothingMissed
  BY InitInv, InitComplete
<1>3. IInv /\ NothingMissed /\ [Next]_vars => (IInv /\ NothingMissed)'
  BY NextInv, NextComplete
<1> QED
  BY <1>1, <1>2, <1>3, PTL DEF Spec
=============================================================================
