----------------------------- MODULE Allocation -----------------------------
(***************************************************************************)
(* Steps 5 to 7 of run_clearing (src/clearing.py) with src/preferences.py: *)
(* the pro-rata shares, the greedy matching of mutual preferred partners,  *)
(* the seller-side differential prices and the trades made of them.        *)
(*                                                                         *)
(* Arithmetic is exact: energy is counted in 1 / (Supply * Demand) of the  *)
(* unit of the orders, and prices in 1 / (100 * volume) ct, so that every  *)
(* share and every subsidy is a whole number.  What floats add is rounding *)
(* and the threshold 1e-9 that stands for zero.  The sigmoid is left out:  *)
(* any price may come of it.                                               *)
(***************************************************************************)
EXTENDS Subsequences, SequencesExt, Functions, FiniteSets

CONSTANTS
  NumBids, NumOffers,   \* orders on each side, in the order the store lists them
  Buyers, Sellers,      \* who may have created them
  Nobody,               \* no preferred partner
  Amounts,              \* what the orders may be about: [bids, offers], a quantity each
  Prices,               \* clearing prices, ct per kWh
  GreenRate, GreyRate,  \* subsidy and levy rates, in percent
  LevyCap               \* ct per kWh

ASSUME AllocationAssumption ==
  /\ NumBids \in Nat \ {0} /\ NumOffers \in Nat \ {0}
  /\ \A amounts \in Amounts : /\ amounts.bids \in [1 .. NumBids -> Nat \ {0}]
                               /\ amounts.offers \in [1 .. NumOffers -> Nat \ {0}]
  /\ Prices \subseteq Nat
  /\ GreenRate \in Nat /\ GreyRate \in Nat /\ LevyCap \in Nat
  /\ Nobody \notin Buyers \cup Sellers

Bids == 1 .. NumBids
Offers == 1 .. NumOffers
PoolOrder == 0       \* the pool's standing order on either side of the market

Green == "GREEN"
Grey == "GREY"
Neutral == "NEUTRAL"

VARIABLES
  bids, offers,          \* the open orders
  price,                 \* the clearing price
  bidAlloc, offerAlloc,  \* [Bids -> Nat], [Offers -> Nat]: "allocated_energy"
  at,                    \* "open", "pairs" or "traded"
  pair,                  \* the next pair of orders to look at
  matches,               \* preference_matches: a sequence of [bid, offer, energy]
  trades                 \* the trades posted: of [bid, offer, quantity, price]

vars == <<bids, offers, price, bidAlloc, offerAlloc, at, pair, matches, trades>>
inputs == <<bids, offers, price>>

BuyerTerms == [by : Buyers, partner : Sellers \cup {Nobody}]
SellerTerms == [by : Sellers, partner : Buyers \cup {Nobody}, energy : {Green, Grey, Neutral}]

Bid(terms, quantity) == [by |-> terms.by, partner |-> terms.partner, quantity |-> quantity]
Offer(terms, quantity) ==
  [by |-> terms.by, partner |-> terms.partner, quantity |-> quantity, energy |-> terms.energy]

Init ==
  /\ \E amounts \in Amounts :
       /\ bids \in {[i \in Bids |-> Bid(terms[i], amounts.bids[i])] : terms \in [Bids -> BuyerTerms]}
       /\ offers \in {[j \in Offers |-> Offer(terms[j], amounts.offers[j])] :
                       terms \in [Offers -> SellerTerms]}
  /\ price \in Prices
  /\ bidAlloc = [i \in Bids |-> 0]
  /\ offerAlloc = [j \in Offers |-> 0]
  /\ at = "open"
  /\ pair = <<1, 1>>
  /\ matches = <<>>
  /\ trades = <<>>

-----------------------------------------------------------------------------
(* Step 5: the short side is served in full, the long side pro rata.       *)
Lesser(a, b) == IF a <= b THEN a ELSE b

Supply == SumFunction([j \in Offers |-> offers[j].quantity])
Demand == SumFunction([i \in Bids |-> bids[i].quantity])

Traded == Lesser(Supply, Demand)

BidShare(i) == bids[i].quantity * Traded * Supply
OfferShare(j) == offers[j].quantity * Traded * Demand

Allocate ==
  /\ at = "open"
  /\ bidAlloc' = [i \in Bids |-> BidShare(i)]
  /\ offerAlloc' = [j \in Offers |-> OfferShare(j)]
  /\ at' = "pairs"
  /\ UNCHANGED <<inputs, pair, matches, trades>>

-----------------------------------------------------------------------------
(* Step 6: the pairs that prefer each other are matched in the order of    *)
(* the lists, each with all that both have left.                           *)
(* Mutant: one side's wish is enough.                                      *)
OneSided(i, j) == bids[i].partner = offers[j].by

Mutual(i, j) == bids[i].partner = offers[j].by /\ offers[j].partner = bids[i].by

MatchEnergy(i, j) == Lesser(bidAlloc[i], offerAlloc[j])

(* Mutant of NextPair: a bid looks at one offer only.                      *)
NextBid(i, j) == <<i + 1, 1>>
NextPair(i, j) == IF j < NumOffers THEN <<i, j + 1>> ELSE <<i + 1, 1>>

MatchPair(i, j) ==
  /\ at = "pairs"
  /\ pair = <<i, j>>
  /\ Mutual(i, j) /\ bidAlloc[i] > 0 /\ offerAlloc[j] > 0
  /\ bidAlloc' = [bidAlloc EXCEPT ![i] = @ - MatchEnergy(i, j)]
  /\ offerAlloc' = [offerAlloc EXCEPT ![j] = @ - MatchEnergy(i, j)]
  /\ matches' = Append(matches, [bid |-> i, offer |-> j, energy |-> MatchEnergy(i, j)])
  /\ pair' = NextPair(i, j)
  /\ UNCHANGED <<inputs, at, trades>>

SkipPair(i, j) ==
  /\ at = "pairs"
  /\ pair = <<i, j>>
  /\ ~ (Mutual(i, j) /\ bidAlloc[i] > 0 /\ offerAlloc[j] > 0)
  /\ pair' = NextPair(i, j)
  /\ UNCHANGED <<inputs, bidAlloc, offerAlloc, at, matches, trades>>

-----------------------------------------------------------------------------
(* Step 6b: the levy on grey offers pays for the subsidy of green ones, on *)
(* what is left of them for the pool.  Prices are in 1 / (100 * Volume) ct.*)
Left(energy) == {j \in Offers : offers[j].energy = energy /\ offerAlloc[j] > 0}
VolumeOf(energy) == SumFunctionOnSet(offerAlloc, Left(energy))

Adjusted ==
  /\ GreenRate # 0 \/ GreyRate # 0
  /\ VolumeOf(Green) > 0
  /\ VolumeOf(Grey) > 0

Volume == IF Adjusted THEN VolumeOf(Green) ELSE 1
ClearingPrice == 100 * price * Volume

Levy == Lesser(price * GreyRate, 100 * LevyCap)
LevyRevenue == Levy * VolumeOf(Grey)
TargetSubsidy == price * GreenRate * VolumeOf(Green)

(* Mutant of SubsidyTotal: the subsidy is not scaled to the revenue.       *)
Unscaled == TargetSubsidy
SubsidyTotal == Lesser(TargetSubsidy, LevyRevenue)

SellerPrice(j) ==
  ClearingPrice + CASE Adjusted /\ j \in Left(Green) -> SubsidyTotal
                    [] Adjusted /\ j \in Left(Grey) -> - (Levy * Volume)
                    [] OTHER -> 0

(* Step 7: direct trades of each bid's matches, then what is left of each  *)
(* order against the pool.                                                 *)
(* Mutant of Attached: by actor, so that each bid of a buyer repeats them. *)
AttachedByActor(i) ==
  Subsequence(matches, {k \in DOMAIN matches : bids[matches[k].bid].by = bids[i].by})
Attached(i) == Subsequence(matches, {k \in DOMAIN matches : matches[k].bid = i})

Trade(bid, offer, quantity, tradePrice) ==
  [bid |-> bid, offer |-> offer, quantity |-> quantity, price |-> tradePrice]

DirectTrades ==
  LET attached == FlattenSeq([i \in Bids |-> Attached(i)]) IN
  [k \in DOMAIN attached |->
     Trade(attached[k].bid, attached[k].offer, attached[k].energy, ClearingPrice)]

BuyerTrades ==
  Subsequence([i \in Bids |-> Trade(i, PoolOrder, bidAlloc[i], ClearingPrice)],
              {i \in Bids : bidAlloc[i] > 0})
SellerTrades ==
  Subsequence([j \in Offers |-> Trade(PoolOrder, j, offerAlloc[j], SellerPrice(j))],
              {j \in Offers : offerAlloc[j] > 0})

GenerateTrades ==
  /\ at = "pairs"
  /\ pair = <<NumBids + 1, 1>>
  /\ trades' = DirectTrades \o BuyerTrades \o SellerTrades
  /\ at' = "traded"
  /\ UNCHANGED <<inputs, bidAlloc, offerAlloc, pair, matches>>

Next ==
  \/ Allocate
  \/ \E i \in Bids, j \in Offers : MatchPair(i, j) \/ SkipPair(i, j)
  \/ GenerateTrades

Spec == Init /\ [][Next]_vars

-----------------------------------------------------------------------------
Done == at = "traded"
QuantityOf(T) == SumFunctionOnSet([k \in DOMAIN trades |-> trades[k].quantity], T)
PaidFor(T) == SumFunctionOnSet([k \in DOMAIN trades |-> trades[k].quantity * trades[k].price], T)
BidTrades(i) == {k \in DOMAIN trades : trades[k].bid = i}
OfferTrades(j) == {k \in DOMAIN trades : trades[k].offer = j}

(* Preferences move energy between partners and pool, and never change how *)
(* much anybody trades: the trades of an order add up to its pro-rata      *)
(* share, which is at most its quantity, and no trade is made twice.       *)
SharesTraded ==
  Done =>
    /\ \A i \in Bids :
         /\ QuantityOf(BidTrades(i)) = BidShare(i)
         /\ BidShare(i) <= bids[i].quantity * Supply * Demand
    /\ \A j \in Offers :
         /\ QuantityOf(OfferTrades(j)) = OfferShare(j)
         /\ OfferShare(j) <= offers[j].quantity * Supply * Demand

(* Greedy matching is exhaustive: of two partners who name each other, one *)
(* has nothing left for the pool.                                          *)
PartnersFirst ==
  Done => \A i \in Bids, j \in Offers :
            Mutual(i, j) => bidAlloc[i] = 0 \/ offerAlloc[j] = 0

(* Nobody is matched directly with somebody he did not name.               *)
DirectByConsent ==
  \A k \in DOMAIN trades :
    trades[k].bid # PoolOrder /\ trades[k].offer # PoolOrder =>
      /\ bids[trades[k].bid].partner = offers[trades[k].offer].by
      /\ offers[trades[k].offer].partner = bids[trades[k].bid].by

(* The pool neither keeps energy nor pays out more than it collects: what  *)
(* the buyers pay it and what it pays the sellers differ by the part of    *)
(* the levy that exceeds the subsidy (pool_residual_ct), never below zero. *)
PoolSettles ==
  Done =>
    LET residual == PaidFor(OfferTrades(PoolOrder)) - PaidFor(BidTrades(PoolOrder)) IN
    /\ QuantityOf(OfferTrades(PoolOrder)) = QuantityOf(BidTrades(PoolOrder))
    /\ residual = IF Adjusted THEN (LevyRevenue - SubsidyTotal) * Volume ELSE 0
    /\ residual >= 0
=============================================================================
