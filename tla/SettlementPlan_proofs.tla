----------------------- MODULE SettlementPlan_proofs -----------------------
(***************************************************************************)
(* Theorems about Allocation: preferences and pool share out exactly what  *)
(* the pro-rata step gave to each order, partners come first and only by   *)
(* consent, and the pool settles with nothing missing.  Theorems about     *)
(* SettlementPlan: which of the markets so cleared are settled, that the   *)
(* contract executes what the dry run lets pass, and what rounding does.   *)
(***************************************************************************)
EXTENDS SettlementPlan, ExchangeFacts

AnyPair == [bid : Bids, offer : Offers, energy : Nat \ {0}]
AnyTrade == [bid : Bids \cup {PoolOrder}, offer : Offers \cup {PoolOrder}, quantity : Nat, price : Int]
AnyBid == [by : Buyers, partner : Sellers \cup {Nobody}, quantity : Nat \ {0}]
AnyOffer == [by : Sellers, partner : Buyers \cup {Nobody}, quantity : Nat \ {0},
             energy : {Green, Grey, Neutral}]

TypeOK ==
  /\ bids \in [Bids -> AnyBid] /\ offers \in [Offers -> AnyOffer]
  /\ price \in Nat
  /\ bidAlloc \in [Bids -> Nat] /\ offerAlloc \in [Offers -> Nat]
  /\ at \in {"open", "pairs", "traded"}
  /\ pair \in (1 .. NumBids + 1) \X Offers
  /\ matches \in Seq(AnyPair)

(* The part of a match that is the bid's, and the offer's.                 *)
OfBid(i) == [m \in AnyPair |-> IF m.bid = i THEN m.energy ELSE 0]
OfOffer(j) == [m \in AnyPair |-> IF m.offer = j THEN m.energy ELSE 0]

(* What an order has left and what its matches took is its share.          *)
Accounted ==
  at # "open" =>
    /\ \A i \in Bids : bidAlloc[i] + Weight(matches, OfBid(i)) = BidShare(i)
    /\ \A j \in Offers : offerAlloc[j] + Weight(matches, OfOffer(j)) = OfferShare(j)

(* What is left on either side is the same.                                *)
Balanced == SumFunctionOnSet(bidAlloc, Bids) = SumFunctionOnSet(offerAlloc, Offers)

Consenting == \A k \in 1 .. Len(matches) : Mutual(matches[k].bid, matches[k].offer)

(* The partners that have been looked at have not both something left.     *)
LookedAt(i, j) == i < pair[1] \/ (i = pair[1] /\ j < pair[2])
Exhausted ==
  \A i \in Bids, j \in Offers :
    LookedAt(i, j) /\ Mutual(i, j) => bidAlloc[i] = 0 \/ offerAlloc[j] = 0

InPhase ==
  /\ at = "open" => pair = <<1, 1>> /\ matches = <<>>
  /\ at = "traded" => /\ pair = <<NumBids + 1, 1>>
                      /\ trades = DirectTrades \o BuyerTrades \o SellerTrades
  /\ at # "traded" => trades = <<>>

IInv == TypeOK /\ Accounted /\ Balanced /\ Consenting /\ Exhausted /\ InPhase

LEMMA Sizes == NumBids \in Nat \ {0} /\ NumOffers \in Nat \ {0}
BY AllocationAssumption

USE Sizes DEF Bids, Offers

-----------------------------------------------------------------------------
(* The shares are whole numbers, and those of each side add up to the same.*)
LEMMA BothSides ==
  /\ IsFiniteSet(Bids) /\ IsFiniteSet(Offers) /\ NumBids \in Nat /\ NumOffers \in Nat
  /\ PoolOrder \notin Bids /\ PoolOrder \notin Offers
BY FS_Interval DEF PoolOrder

LEMMA QuantitiesAddUp ==
  ASSUME TypeOK
  PROVE  /\ Supply \in Nat /\ Demand \in Nat /\ Traded \in Nat
         /\ Traded <= Supply /\ Traded <= Demand
<1> DEFINE f == [i \in Bids |-> bids[i].quantity]
           g == [j \in Offers |-> offers[j].quantity]
<1>1. \A i \in Bids : f[i] \in Nat
  BY DEF TypeOK, AnyBid
<1>2. \A j \in Offers : g[j] \in Nat
  BY DEF TypeOK, AnyOffer
<1>3. Demand = SumFunctionOnSet(f, Bids) /\ Supply = SumFunctionOnSet(g, Offers)
  BY DEF Demand, Supply, SumFunction
<1> HIDE DEF f, g
<1>4. Demand \in Nat
  BY <1>1, <1>3, BothSides, SumNat
<1>5. Supply \in Nat
  BY <1>2, <1>3, BothSides, SumNat
<1> QED
  BY <1>4, <1>5 DEF Traded, Lesser

LEMMA SharesAreNat ==
  ASSUME TypeOK
  PROVE  /\ \A i \in Bids : BidShare(i) \in Nat
         /\ \A j \in Offers : OfferShare(j) \in Nat
<1>1. \A a, b \in Nat : a * b \in Nat
  OBVIOUS
<1>2. /\ \A i \in Bids : bids[i].quantity \in Nat
      /\ \A j \in Offers : offers[j].quantity \in Nat
  BY DEF TypeOK, AnyBid, AnyOffer
<1> QED
  BY <1>1, <1>2, QuantitiesAddUp DEF BidShare, OfferShare

(* No share exceeds the quantity of its order.                             *)
LEMMA SharesAreBounded ==
  ASSUME TypeOK
  PROVE  /\ \A i \in Bids : BidShare(i) <= bids[i].quantity * Supply * Demand
         /\ \A j \in Offers : OfferShare(j) <= offers[j].quantity * Supply * Demand
<1>1. \A q, a, b, c \in Nat : a <= b => q * a * c <= q * c * b
  <2> SUFFICES ASSUME NEW q \in Nat, NEW a \in Nat, NEW b \in Nat, NEW c \in Nat, a <= b
               PROVE  q * a * c <= q * c * b
    OBVIOUS
  <2>1. PICK d \in Nat : b = a + d
    BY b - a \in Nat, b = a + (b - a)
  <2>2. q * c * b = q * a * c + q * c * d
    BY <2>1
  <2>3. q * c * d \in Nat /\ q * a * c \in Nat
    OBVIOUS
  <2> QED
    BY <2>2, <2>3
<1>2. \A q, a, b, c \in Nat : a <= b => q * a * c <= q * b * c
  <2> SUFFICES ASSUME NEW q \in Nat, NEW a \in Nat, NEW b \in Nat, NEW c \in Nat, a <= b
               PROVE  q * a * c <= q * b * c
    OBVIOUS
  <2>1. q * a * c <= q * c * b
    BY <1>1
  <2>2. q * c * b = q * b * c
    OBVIOUS
  <2> QED
    BY <2>1, <2>2
<1>3. /\ \A i \in Bids : bids[i].quantity \in Nat
      /\ \A j \in Offers : offers[j].quantity \in Nat
  BY DEF TypeOK, AnyBid, AnyOffer
<1> QED
  BY <1>1, <1>2, <1>3, QuantitiesAddUp DEF BidShare, OfferShare

(* Each side gets the traded energy, the last order what rounding left.    *)
LEMMA SharesBalance ==
  ASSUME TypeOK
  PROVE  /\ SumFunctionOnSet([i \in Bids |-> BidShare(i)], Bids) = Traded * Supply * Demand
         /\ SumFunctionOnSet([j \in Offers |-> OfferShare(j)], Offers) = Traded * Supply * Demand
<1> DEFINE f == [i \in Bids |-> bids[i].quantity]
           g == [j \in Offers |-> offers[j].quantity]
           fs == [i \in Bids |-> BidShare(i)]
           gs == [j \in Offers |-> OfferShare(j)]
<1>1. Demand = SumFunctionOnSet(f, Bids) /\ Supply = SumFunctionOnSet(g, Offers)
  BY DEF Demand, Supply, SumFunction
<1>2. Summands(f, Bids) /\ Summands(g, Offers)
  <2>1. \A i \in Bids : bids[i].quantity \in Int
    BY DEF TypeOK, AnyBid
  <2>2. \A j \in Offers : offers[j].quantity \in Int
    BY DEF TypeOK, AnyOffer
  <2> QED
    BY <2>1, <2>2, BothSides DEF Summands
<1>3. /\ Traded * Supply \in Int /\ Traded * Demand \in Int
      /\ \A q, a, b \in Int : q * a * b = q * (a * b)
  BY QuantitiesAddUp
<1>4. \A i \in Bids : fs[i] = f[i] * (Traded * Supply)
  BY <1>2, <1>3, QuantitiesAddUp DEF BidShare, Summands
<1>5. \A j \in Offers : gs[j] = g[j] * (Traded * Demand)
  BY <1>2, <1>3, QuantitiesAddUp DEF OfferShare, Summands
<1> HIDE DEF f, g, fs, gs
<1>6. SumFunctionOnSet(fs, Bids) = Demand * (Traded * Supply)
  BY <1>1, <1>2, <1>3, <1>4, SumTimes
<1>7. SumFunctionOnSet(gs, Offers) = Supply * (Traded * Demand)
  BY <1>1, <1>2, <1>3, <1>5, SumTimes
<1>8. /\ Demand * (Traded * Supply) = Traded * Supply * Demand
      /\ Supply * (Traded * Demand) = Traded * Supply * Demand
  BY QuantitiesAddUp
<1> QED
  BY <1>6, <1>7, <1>8 DEF fs, gs

-----------------------------------------------------------------------------
(* The inductive invariant.                                                *)
LEMMA Weights ==
  /\ \A i \in Bids : Weighing(AnyPair, OfBid(i))
  /\ \A j \in Offers : Weighing(AnyPair, OfOffer(j))
BY DEF Weighing, OfBid, OfOffer, AnyPair

LEMMA InitIInv == Init => IInv
<1> SUFFICES ASSUME Init
             PROVE  IInv
  OBVIOUS
<1>1. TypeOK
  <2>1. PICK amounts \in Amounts :
          /\ bids \in {[i \in Bids |-> Bid(terms[i], amounts.bids[i])] : terms \in [Bids -> BuyerTerms]}
          /\ offers \in {[j \in Offers |-> Offer(terms[j], amounts.offers[j])] :
                           terms \in [Offers -> SellerTerms]}
    BY DEF Init
  <2>2. bids \in [Bids -> AnyBid]
    <3>1. PICK terms \in [Bids -> BuyerTerms] :
            bids = [i \in Bids |-> Bid(terms[i], amounts.bids[i])]
      BY <2>1
    <3>2. \A i \in Bids : amounts.bids[i] \in Nat \ {0} /\ terms[i] \in BuyerTerms
      BY AllocationAssumption
    <3>3. \A i \in Bids : Bid(terms[i], amounts.bids[i]) \in AnyBid
      BY <3>2 DEF Bid, BuyerTerms, AnyBid
    <3> QED
      BY <3>1, <3>3
  <2>3. offers \in [Offers -> AnyOffer]
    <3>1. PICK terms \in [Offers -> SellerTerms] :
            offers = [j \in Offers |-> Offer(terms[j], amounts.offers[j])]
      BY <2>1
    <3>2. \A j \in Offers : amounts.offers[j] \in Nat \ {0} /\ terms[j] \in SellerTerms
      BY AllocationAssumption
    <3>3. \A j \in Offers : Offer(terms[j], amounts.offers[j]) \in AnyOffer
      BY <3>2 DEF Offer, SellerTerms, AnyOffer
    <3> QED
      BY <3>1, <3>3
  <2>4. pair \in (1 .. NumBids + 1) \X Offers
    BY DEF Init
  <2> QED
    BY <2>2, <2>3, <2>4, AllocationAssumption DEF Init, TypeOK
<1>2. Accounted /\ Exhausted /\ Consenting /\ InPhase
  BY DEF Init, Accounted, Exhausted, LookedAt, Consenting, InPhase
<1>3. Balanced
  <2>1. SumFunctionOnSet(bidAlloc, Bids) = 0 /\ SumFunctionOnSet(offerAlloc, Offers) = 0
    BY BothSides, SumZero DEF Init
  <2> QED
    BY <2>1 DEF Balanced
<1> QED
  BY <1>1, <1>2, <1>3 DEF IInv

(* The orders do not change, and what is computed from them.               *)
LEMMA OrdersStay ==
  ASSUME UNCHANGED inputs
  PROVE  /\ \A i \in Bids : BidShare(i)' = BidShare(i)
         /\ \A j \in Offers : OfferShare(j)' = OfferShare(j)
         /\ \A i \in Bids, j \in Offers : Mutual(i, j)' <=> Mutual(i, j)
<1>1. Supply' = Supply
  BY DEF inputs, Supply
<1>2. Demand' = Demand
  BY DEF inputs, Demand
<1>3. Traded' = Traded
  BY <1>1, <1>2 DEF Traded
<1> QED
  BY <1>1, <1>2, <1>3 DEF inputs, BidShare, OfferShare, Mutual
LEMMA TradesStay ==
  ASSUME UNCHANGED <<inputs, bidAlloc, offerAlloc, matches>>
  PROVE  (DirectTrades \o BuyerTrades \o SellerTrades)' = DirectTrades \o BuyerTrades \o SellerTrades
<1>1. \A i \in Bids : Attached(i)' = Attached(i)
  BY DEF Attached
<1>2. /\ VolumeOf(Green)' = VolumeOf(Green) /\ VolumeOf(Grey)' = VolumeOf(Grey)
      /\ Left(Green)' = Left(Green) /\ Left(Grey)' = Left(Grey)
  <2>1. Left(Green)' = Left(Green) /\ Left(Grey)' = Left(Grey)
    BY DEF inputs, Left
  <2> QED
    BY <2>1 DEF VolumeOf
<1>3. Volume' = Volume /\ ClearingPrice' = ClearingPrice /\ (Adjusted' <=> Adjusted)
  BY <1>2 DEF inputs, Volume, ClearingPrice, Adjusted
<1>4. SubsidyTotal' = SubsidyTotal /\ Levy' = Levy
  BY <1>2 DEF inputs, SubsidyTotal, TargetSubsidy, LevyRevenue, Levy
<1>5. DirectTrades' = DirectTrades
  BY <1>1, <1>3 DEF DirectTrades, Trade
<1>6. BuyerTrades' = BuyerTrades
  BY <1>3 DEF BuyerTrades, Trade
<1>7. \A j \in Offers : SellerPrice(j)' = SellerPrice(j)
  BY <1>2, <1>3, <1>4 DEF SellerPrice
<1>8. SellerTrades' = SellerTrades
  BY <1>7 DEF SellerTrades, Trade
<1> QED
  BY <1>5, <1>6, <1>8

LEMMA AllocateKeeps ==
  ASSUME IInv, Allocate
  PROVE  IInv'
<1> USE DEF Allocate
<1>1. TypeOK'
  <2>1. bidAlloc' \in [Bids -> Nat] /\ offerAlloc' \in [Offers -> Nat]
    BY SharesAreNat DEF IInv
  <2> QED
    BY <2>1 DEF IInv, TypeOK, inputs
<1>2. Accounted'
  <2>1. matches' = <<>>
    BY DEF IInv, InPhase
  <2>2. \A w : Weight(matches', w) = 0
    BY <2>1, WeightEmpty
  <2>3. \A i \in Bids : bidAlloc'[i] = BidShare(i) /\ BidShare(i) \in Nat /\ BidShare(i)' = BidShare(i)
    BY SharesAreNat, OrdersStay DEF IInv
  <2>4. \A j \in Offers : /\ offerAlloc'[j] = OfferShare(j) /\ OfferShare(j) \in Nat
                          /\ OfferShare(j)' = OfferShare(j)
    BY SharesAreNat, OrdersStay DEF IInv
  <2> QED
    BY <2>2, <2>3, <2>4 DEF Accounted
<1>3. Balanced'
  BY SharesBalance DEF IInv, Balanced
<1>4. Consenting'
  BY DEF IInv, InPhase, Consenting
<1>5. Exhausted'
  <2>1. pair' = <<1, 1>>
    BY DEF IInv, InPhase
  <2> QED
    BY <2>1 DEF Exhausted, LookedAt
<1>6. InPhase'
  BY DEF IInv, InPhase
<1> QED
  BY <1>1, <1>2, <1>3, <1>4, <1>5, <1>6 DEF IInv

(* What a pair that is looked at leaves behind.                            *)
LEMMA PairPasses ==
  ASSUME TypeOK, NEW i \in Bids, NEW j \in Offers, pair = <<i, j>>, pair' = NextPair(i, j)
  PROVE  /\ pair' \in (1 .. NumBids + 1) \X Offers
         /\ \A k \in Bids, l \in Offers : LookedAt(k, l)' => LookedAt(k, l) \/ (k = i /\ l = j)
<1>1. CASE j < NumOffers
  BY <1>1 DEF NextPair, LookedAt
<1>2. CASE j = NumOffers
  <2>1. pair' = <<i + 1, 1>>
    BY <1>2 DEF NextPair
  <2>2. i + 1 \in 1 .. NumBids + 1 /\ 1 \in Offers
    OBVIOUS
  <2>3. pair'[1] = i + 1 /\ pair'[2] = 1 /\ pair[1] = i /\ pair[2] = j
    BY <2>1
  <2>4. ASSUME NEW k \in Bids, NEW l \in Offers, LookedAt(k, l)'
        PROVE  LookedAt(k, l) \/ (k = i /\ l = j)
    <3>1. k < i + 1 /\ l <= j
      BY <1>2, <2>3, <2>4 DEF LookedAt
    <3> QED
      BY <2>3, <3>1 DEF LookedAt
  <2> QED
    BY <2>1, <2>2, <2>4
<1>3. j < NumOffers \/ j = NumOffers
  OBVIOUS
<1> QED
  BY <1>1, <1>2, <1>3

LEMMA SkipPairKeeps ==
  ASSUME IInv, NEW i \in Bids, NEW j \in Offers, SkipPair(i, j)
  PROVE  IInv'
<1> USE DEF SkipPair
<1>1. /\ pair' \in (1 .. NumBids + 1) \X Offers
      /\ \A k \in Bids, l \in Offers : LookedAt(k, l)' => LookedAt(k, l) \/ (k = i /\ l = j)
  BY PairPasses DEF IInv
<1>2. TypeOK'
  BY <1>1 DEF IInv, TypeOK, inputs
<1>3. Accounted'
  BY OrdersStay DEF IInv, Accounted
<1>4. Consenting'
  <2>1. \A k \in 1 .. Len(matches) : matches[k] \in AnyPair
    BY DEF IInv, TypeOK
  <2>2. \A k \in 1 .. Len(matches) : matches[k].bid \in Bids /\ matches[k].offer \in Offers
    BY <2>1 DEF AnyPair
  <2> QED
    BY <2>2, OrdersStay DEF IInv, Consenting
<1>5. Balanced' /\ InPhase'
  BY DEF IInv, Balanced, InPhase
<1>6. Exhausted'
  <2>1. bidAlloc[i] \in Nat /\ offerAlloc[j] \in Nat
    BY DEF IInv, TypeOK
  <2>2. Mutual(i, j) => bidAlloc[i] = 0 \/ offerAlloc[j] = 0
    BY <2>1
  <2> QED
    BY <1>1, <2>2, OrdersStay DEF IInv, Exhausted
<1> QED
  BY <1>2, <1>3, <1>4, <1>5, <1>6 DEF IInv

LEMMA MatchPairKeeps ==
  ASSUME IInv, NEW i \in Bids, NEW j \in Offers, MatchPair(i, j)
  PROVE  IInv'
<1> DEFINE e == MatchEnergy(i, j)
           m == [bid |-> i, offer |-> j, energy |-> e]
<1>1. /\ at = "pairs" /\ pair = <<i, j>> /\ Mutual(i, j) /\ pair' = NextPair(i, j)
      /\ bidAlloc' = [bidAlloc EXCEPT ![i] = @ - e]
      /\ offerAlloc' = [offerAlloc EXCEPT ![j] = @ - e]
      /\ matches' = Append(matches, m)
      /\ bidAlloc[i] > 0 /\ offerAlloc[j] > 0
      /\ UNCHANGED <<inputs, at, trades>>
  BY DEF MatchPair
<1>2. /\ bidAlloc \in [Bids -> Nat] /\ offerAlloc \in [Offers -> Nat] /\ matches \in Seq(AnyPair)
      /\ bidAlloc[i] \in Nat /\ offerAlloc[j] \in Nat
  BY DEF IInv, TypeOK
<1>3. e \in Nat \ {0} /\ e <= bidAlloc[i] /\ e <= offerAlloc[j]
      /\ (e = bidAlloc[i] \/ e = offerAlloc[j])
  BY <1>1, <1>2 DEF MatchEnergy, Lesser
<1> HIDE DEF e
<1>4. m \in AnyPair
  BY <1>3 DEF AnyPair
<1>5. /\ pair' \in (1 .. NumBids + 1) \X Offers
      /\ \A k \in Bids, l \in Offers : LookedAt(k, l)' => LookedAt(k, l) \/ (k = i /\ l = j)
  BY <1>1, PairPasses DEF IInv
<1>6. /\ bidAlloc' \in [Bids -> Nat] /\ offerAlloc' \in [Offers -> Nat]
      /\ bidAlloc'[i] = bidAlloc[i] - e /\ \A k \in Bids \ {i} : bidAlloc'[k] = bidAlloc[k]
      /\ offerAlloc'[j] = offerAlloc[j] - e /\ \A k \in Offers \ {j} : offerAlloc'[k] = offerAlloc[k]
  <2>1. bidAlloc[i] - e \in Nat /\ offerAlloc[j] - e \in Nat
    BY <1>2, <1>3
  <2>2. /\ bidAlloc' \in [Bids -> Nat]
        /\ bidAlloc'[i] = bidAlloc[i] - e /\ \A k \in Bids \ {i} : bidAlloc'[k] = bidAlloc[k]
    BY <1>1, <1>2, <2>1
  <2>3. /\ offerAlloc' \in [Offers -> Nat]
        /\ offerAlloc'[j] = offerAlloc[j] - e /\ \A k \in Offers \ {j} : offerAlloc'[k] = offerAlloc[k]
    BY <1>1, <1>2, <2>1
  <2> QED
    BY <2>2, <2>3
<1>7. TypeOK'
  <2>1. matches' \in Seq(AnyPair)
    BY <1>1, <1>2, <1>4
  <2> QED
    BY <1>1, <1>5, <1>6, <2>1 DEF IInv, TypeOK, inputs
<1>8. Accounted'
  <2>1. ASSUME NEW k \in Bids
        PROVE  bidAlloc'[k] + Weight(matches', OfBid(k)) = BidShare(k)
    <3>1. Weight(matches', OfBid(k)) = Weight(matches, OfBid(k)) + OfBid(k)[m]
      BY <1>1, <1>2, <1>4, Weights, WeightAppend
    <3>2. Weight(matches, OfBid(k)) \in Int
      BY <1>2, Weights, WeightInt
    <3>3. OfBid(k)[m] = IF k = i THEN e ELSE 0
      BY <1>4 DEF OfBid
    <3>4. bidAlloc[k] + Weight(matches, OfBid(k)) = BidShare(k) /\ bidAlloc[k] \in Nat
      BY <1>1, <1>2 DEF IInv, Accounted
    <3>5. CASE k = i
      <4>1. /\ bidAlloc'[k] = bidAlloc[k] - e /\ e \in Int
            /\ Weight(matches', OfBid(k)) = Weight(matches, OfBid(k)) + e
        BY <1>3, <1>6, <3>1, <3>3, <3>5
      <4> QED
        BY <3>2, <3>4, <4>1
    <3>6. CASE k # i
      <4>1. bidAlloc'[k] = bidAlloc[k] /\ Weight(matches', OfBid(k)) = Weight(matches, OfBid(k)) + 0
        BY <1>6, <3>1, <3>3, <3>6
      <4> QED
        BY <3>2, <3>4, <4>1
    <3> QED
      BY <3>5, <3>6
  <2>2. ASSUME NEW k \in Offers
        PROVE  offerAlloc'[k] + Weight(matches', OfOffer(k)) = OfferShare(k)
    <3>1. Weight(matches', OfOffer(k)) = Weight(matches, OfOffer(k)) + OfOffer(k)[m]
      BY <1>1, <1>2, <1>4, Weights, WeightAppend
    <3>2. Weight(matches, OfOffer(k)) \in Int
      BY <1>2, Weights, WeightInt
    <3>3. OfOffer(k)[m] = IF k = j THEN e ELSE 0
      BY <1>4 DEF OfOffer
    <3>4. offerAlloc[k] + Weight(matches, OfOffer(k)) = OfferShare(k) /\ offerAlloc[k] \in Nat
      BY <1>1, <1>2 DEF IInv, Accounted
    <3>5. CASE k = j
      <4>1. /\ offerAlloc'[k] = offerAlloc[k] - e /\ e \in Int
            /\ Weight(matches', OfOffer(k)) = Weight(matches, OfOffer(k)) + e
        BY <1>3, <1>6, <3>1, <3>3, <3>5
      <4> QED
        BY <3>2, <3>4, <4>1
    <3>6. CASE k # j
      <4>1. offerAlloc'[k] = offerAlloc[k] /\ Weight(matches', OfOffer(k)) = Weight(matches, OfOffer(k)) + 0
        BY <1>6, <3>1, <3>3, <3>6
      <4> QED
        BY <3>2, <3>4, <4>1
    <3> QED
      BY <3>5, <3>6
  <2> QED
    BY <1>1, <2>1, <2>2, OrdersStay DEF Accounted
<1>9. Balanced'
  <2>1. /\ Summands(bidAlloc, Bids) /\ Summands(offerAlloc, Offers)
        /\ bidAlloc'[i] \in Int /\ offerAlloc'[j] \in Int
    <3>1. \A k \in Bids : bidAlloc[k] \in Int /\ bidAlloc'[k] \in Int
      BY <1>2, <1>6
    <3>2. \A k \in Offers : offerAlloc[k] \in Int /\ offerAlloc'[k] \in Int
      BY <1>2, <1>6
    <3> QED
      BY <3>1, <3>2, BothSides DEF Summands
  <2>2. SumFunctionOnSet(bidAlloc', Bids) = SumFunctionOnSet(bidAlloc, Bids) + bidAlloc'[i] - bidAlloc[i]
    <3> HIDE DEF Bids
    <3>1. i \in Bids /\ \A k \in Bids \ {i} : bidAlloc'[k] = bidAlloc[k]
      BY <1>6 DEF Bids
    <3> QED
      BY <2>1, <3>1, SumChange
  <2>3. SumFunctionOnSet(offerAlloc', Offers)
          = SumFunctionOnSet(offerAlloc, Offers) + offerAlloc'[j] - offerAlloc[j]
    <3> HIDE DEF Offers
    <3>1. j \in Offers /\ \A k \in Offers \ {j} : offerAlloc'[k] = offerAlloc[k]
      BY <1>6 DEF Offers
    <3> QED
      BY <2>1, <3>1, SumChange
  <2>4. SumFunctionOnSet(bidAlloc, Bids) \in Int /\ SumFunctionOnSet(offerAlloc, Offers) \in Int
    BY <2>1, SumInt
  <2>5. SumFunctionOnSet(bidAlloc, Bids) = SumFunctionOnSet(offerAlloc, Offers)
    BY DEF IInv, Balanced
  <2> QED
    BY <1>2, <1>3, <1>6, <2>2, <2>3, <2>4, <2>5 DEF Balanced
<1>10. Consenting'
  <2> SUFFICES ASSUME NEW k \in 1 .. Len(matches')
               PROVE  Mutual(matches'[k].bid, matches'[k].offer)
    BY <1>1 DEF Consenting, Mutual, inputs
  <2>1. CASE k \in 1 .. Len(matches)
    <3>1. matches'[k] = matches[k] /\ matches[k] \in AnyPair
      BY <1>1, <1>2, <2>1
    <3>2. matches[k].bid \in Bids /\ matches[k].offer \in Offers
      BY <3>1 DEF AnyPair
    <3>3. Mutual(matches[k].bid, matches[k].offer)
      BY <2>1 DEF IInv, Consenting
    <3> QED
      BY <3>1, <3>3
  <2>2. CASE k \notin 1 .. Len(matches)
    <3>1. matches'[k] = m
      <4>1. Len(matches') = Len(matches) + 1 /\ Len(matches) \in Nat /\ matches'[Len(matches) + 1] = m
        BY <1>1, <1>2
      <4>2. k = Len(matches) + 1
        BY <2>2, <4>1
      <4> QED
        BY <4>1, <4>2
    <3> QED
      BY <1>1, <3>1
  <2> QED
    BY <2>1, <2>2
<1>11. Exhausted'
  <2> SUFFICES ASSUME NEW k \in Bids, NEW l \in Offers, LookedAt(k, l)', Mutual(k, l)
               PROVE  bidAlloc'[k] = 0 \/ offerAlloc'[l] = 0
    BY <1>1, OrdersStay DEF Exhausted
  <2>1. CASE k = i /\ l = j
    <3>1. CASE e = bidAlloc[i]
      <4>1. bidAlloc'[i] = 0
        BY <1>2, <1>6, <3>1
      <4> QED
        BY <2>1, <4>1
    <3>2. CASE e = offerAlloc[j]
      <4>1. offerAlloc'[j] = 0
        BY <1>2, <1>6, <3>2
      <4> QED
        BY <2>1, <4>1
    <3> QED
      BY <1>3, <3>1, <3>2
  <2>2. CASE LookedAt(k, l)
    <3>1. bidAlloc[k] = 0 \/ offerAlloc[l] = 0
      BY <2>2 DEF IInv, Exhausted
    <3>2. (bidAlloc[k] = 0 => k # i) /\ (offerAlloc[l] = 0 => l # j)
      BY <1>1
    <3> QED
      BY <1>6, <3>1, <3>2
  <2> QED
    BY <1>5, <2>1, <2>2
<1>12. InPhase'
  BY <1>1 DEF IInv, InPhase
<1> QED
  BY <1>7, <1>8, <1>9, <1>10, <1>11, <1>12 DEF IInv

LEMMA GenerateTradesKeeps ==
  ASSUME IInv, GenerateTrades
  PROVE  IInv'
<1> USE DEF GenerateTrades
<1>1. TypeOK'
  BY DEF IInv, TypeOK, inputs
<1>2. Accounted'
  BY OrdersStay DEF IInv, Accounted
<1>3. Consenting'
  <2>1. \A k \in 1 .. Len(matches) : matches[k] \in AnyPair
    BY DEF IInv, TypeOK
  <2>2. \A k \in 1 .. Len(matches) : matches[k].bid \in Bids /\ matches[k].offer \in Offers
    BY <2>1 DEF AnyPair
  <2> QED
    BY <2>2, OrdersStay DEF IInv, Consenting
<1>4. Balanced'
  BY DEF IInv, Balanced
<1>5. Exhausted'
  BY OrdersStay DEF IInv, Exhausted, LookedAt
<1>6. InPhase'
  BY TradesStay DEF InPhase
<1> QED
  BY <1>1, <1>2, <1>3, <1>4, <1>5, <1>6 DEF IInv

LEMMA StutterKeeps ==
  ASSUME IInv, UNCHANGED vars
  PROVE  IInv'
<1> USE DEF vars
<1>1. UNCHANGED inputs
  BY DEF inputs
<1>2. TypeOK'
  BY DEF IInv, TypeOK
<1>3. Accounted'
  BY <1>1, OrdersStay DEF IInv, Accounted
<1>4. Consenting'
  <2>1. \A k \in 1 .. Len(matches) : matches[k] \in AnyPair
    BY DEF IInv, TypeOK
  <2>2. \A k \in 1 .. Len(matches) : matches[k].bid \in Bids /\ matches[k].offer \in Offers
    BY <2>1 DEF AnyPair
  <2> QED
    BY <1>1, <2>2, OrdersStay DEF IInv, Consenting
<1>5. Balanced'
  BY DEF IInv, Balanced
<1>6. Exhausted'
  BY <1>1, OrdersStay DEF IInv, Exhausted, LookedAt
<1>7. InPhase'
  BY <1>1, TradesStay DEF IInv, InPhase
<1> QED
  BY <1>2, <1>3, <1>4, <1>5, <1>6, <1>7 DEF IInv

(* What the orders have left and what is matched add up throughout, and    *)
(* the partners passed are served (clearing.py:197, preferences.py:74).    *)
THEOREM AllocationInvariant == Spec => []IInv
<1>1. Init => IInv
  BY InitIInv
<1>2. IInv /\ [Next]_vars => IInv'
  BY AllocateKeeps, MatchPairKeeps, SkipPairKeeps, GenerateTradesKeeps, StutterKeeps DEF Next
<1> QED
  BY <1>1, <1>2, PTL DEF Spec

-----------------------------------------------------------------------------
(* The trades.  Attaching the matches to their bids reorders them only.    *)
AllAttached == FlattenSeq([i \in Bids |-> Attached(i)])
BuyerLegs == [i \in Bids |-> Trade(i, PoolOrder, bidAlloc[i], ClearingPrice)]
SellerLegs == [j \in Offers |-> Trade(PoolOrder, j, offerAlloc[j], SellerPrice(j))]
ServedBids == {i \in Bids : bidAlloc[i] > 0}
ServedOffers == {j \in Offers : offerAlloc[j] > 0}

(* The matches attached to the bids are those made, in another order.      *)
LEMMA AttachedAre ==
  ASSUME TypeOK
  PROVE  /\ AllAttached \in Seq(AnyPair)
         /\ \A k \in 1 .. Len(AllAttached) : \E l \in 1 .. Len(matches) : AllAttached[k] = matches[l]
         /\ \A u : Weighing(AnyPair, u) => Weight(AllAttached, u) = Weight(matches, u)
<1> DEFINE K(i) == {k \in DOMAIN matches : matches[k].bid = i}
           ss == [i \in Bids |-> Attached(i)]
<1>1. /\ matches \in Seq(AnyPair) /\ DOMAIN matches = 1 .. Len(matches) /\ Len(matches) \in Nat
      /\ \A k \in 1 .. Len(matches) : matches[k] \in AnyPair
  BY DEF TypeOK
<1>2. \A i : K(i) \in SUBSET (1 .. Len(matches))
  BY <1>1
<1>3. \A i : Attached(i) = Subsequence(matches, K(i))
  BY DEF Attached
<1> HIDE DEF K
<1>4. \A i : Attached(i) \in Seq(AnyPair)
  BY <1>1, <1>2, <1>3, SubsequenceEmbeds
<1>5. /\ ss \in Seq(Seq(AnyPair)) /\ Len(ss) = NumBids
      /\ \A i \in 1 .. NumBids : ss[i] = Attached(i)
  BY <1>4
<1>6. AllAttached = FlattenSeq(ss)
  BY DEF AllAttached
<1> HIDE DEF ss
<1>7. /\ AllAttached \in Seq(AnyPair)
      /\ \A x : Occurs(x, AllAttached) => \E i \in 1 .. NumBids : Occurs(x, Attached(i))
  <2>1. /\ FlattenSeq(ss) \in Seq(AnyPair)
        /\ \A x : Occurs(x, FlattenSeq(ss)) <=> \E i \in 1 .. Len(ss) : Occurs(x, ss[i])
    BY <1>5, FlattenElements
  <2> QED
    BY <1>5, <1>6, <2>1
<1>8. ASSUME NEW k \in 1 .. Len(AllAttached)
      PROVE  \E l \in 1 .. Len(matches) : AllAttached[k] = matches[l]
  <2>1. Occurs(AllAttached[k], AllAttached)
    BY DEF Occurs
  <2>2. PICK i \in 1 .. NumBids : Occurs(AllAttached[k], Attached(i))
    BY <1>7, <2>1
  <2>3. PICK n \in 1 .. Len(Subsequence(matches, K(i))) : Subsequence(matches, K(i))[n] = AllAttached[k]
    BY <1>3, <2>2 DEF Occurs
  <2>4. PICK l \in K(i) : AllAttached[k] = matches[l]
    BY <1>1, <1>2, <2>3, SubsequenceElements
  <2> QED
    BY <1>2, <2>4
<1>9. ASSUME NEW u, Weighing(AnyPair, u)
      PROVE  Weight(AllAttached, u) = Weight(matches, u)
  <2> DEFINE f == [k \in DOMAIN matches |-> u[matches[k]]]
             c == [k \in DOMAIN matches |-> matches[k].bid]
             h == [i \in 1 .. NumBids |-> SumFunctionOnSet(f, {k \in DOMAIN matches : c[k] = i})]
             g == [i \in 1 .. Len(ss) |-> Weight(ss[i], u)]
  <2>1. Summands(f, DOMAIN matches) /\ \A k \in DOMAIN matches : c[k] \in 1 .. NumBids
    <3>1. Summands(f, DOMAIN matches)
      BY <1>1, <1>9, WeightTerms
    <3>2. \A k \in DOMAIN matches : matches[k] \in AnyPair
      BY <1>1
    <3>3. \A k \in DOMAIN matches : c[k] \in 1 .. NumBids
      BY <3>2 DEF AnyPair
    <3> QED
      BY <3>1, <3>3
  <2>2. Weight(AllAttached, u) = SumFunctionOnSet(g, 1 .. NumBids)
    BY <1>5, <1>6, <1>9, FlattenWeight
  <2>3. \A i \in 1 .. NumBids : g[i] = SumFunctionOnSet(f, K(i))
    <3> SUFFICES ASSUME NEW i \in 1 .. NumBids
                 PROVE  g[i] = SumFunctionOnSet(f, K(i))
      OBVIOUS
    <3>1. g[i] = Weight(Subsequence(matches, K(i)), u)
      BY <1>3, <1>5
    <3>2. Weight(Subsequence(matches, K(i)), u) = SumFunctionOnSet(f, K(i))
      BY <1>1, <1>2, <1>9, SubsequenceWeight
    <3> QED
      BY <3>1, <3>2
  <2>4. \A i \in 1 .. NumBids : h[i] = SumFunctionOnSet(f, K(i))
    <3>1. \A i : {k \in DOMAIN matches : c[k] = i} = K(i)
      BY DEF K
    <3> HIDE DEF f
    <3> QED
      BY <3>1
  <2>5. Weight(matches, u) = SumFunctionOnSet(f, DOMAIN matches)
    BY DEF Weight
  <2>6. NumBids \in Nat
    OBVIOUS
  <2>7. SumFunctionOnSet(h, 1 .. NumBids) = SumFunctionOnSet(f, DOMAIN matches)
    <3> HIDE DEF f, c
    <3> QED
      BY <2>1, <2>6, SumParts
  <2>8. \A i : K(i) \in SUBSET DOMAIN matches
    BY DEF K
  <2> HIDE DEF f, g, h, c
  <2>9. Summands(h, 1 .. NumBids)
    <3>1. \A i \in 1 .. NumBids : h[i] \in Int
      BY <2>1, <2>4, <2>8, SumInt
    <3> QED
      BY <2>6, <3>1, FS_Interval DEF Summands
  <2>10. SumFunctionOnSet(g, 1 .. NumBids) = SumFunctionOnSet(h, 1 .. NumBids)
    BY <2>3, <2>4, <2>9, SumSame
  <2> QED
    BY <2>2, <2>5, <2>7, <2>10
<1> QED
  BY <1>7, <1>8, <1>9

(* The prices are whole numbers, and the subsidy is no more than the levy. *)
LEMMA PricesAre ==
  ASSUME TypeOK
  PROVE  /\ VolumeOf(Green) \in Nat /\ VolumeOf(Grey) \in Nat /\ Volume \in Nat
         /\ ClearingPrice \in Nat /\ Levy \in Nat /\ LevyRevenue \in Nat
         /\ SubsidyTotal \in Nat /\ SubsidyTotal <= LevyRevenue
         /\ \A j \in Offers : SellerPrice(j) \in Int
<1>1. \A e : VolumeOf(e) \in Nat
  <2> SUFFICES ASSUME NEW e
               PROVE  SumFunctionOnSet(offerAlloc, Left(e)) \in Nat
    BY DEF VolumeOf
  <2>1. Left(e) \subseteq Offers /\ \A j \in Left(e) : offerAlloc[j] \in Nat
    BY DEF Left, TypeOK
  <2>2. IsFiniteSet(Left(e))
    BY <2>1, BothSides, FS_Subset
  <2> QED
    BY <2>1, <2>2, SumNat
<1>2. \A a, b \in Nat : a * b \in Nat
  OBVIOUS
<1>3. price \in Nat /\ GreenRate \in Nat /\ GreyRate \in Nat /\ LevyCap \in Nat
  BY AllocationAssumption DEF TypeOK
<1>4. Volume \in Nat
  BY <1>1 DEF Volume
<1>5. Levy \in Nat
  <2>1. price * GreyRate \in Nat /\ 100 * LevyCap \in Nat
    BY <1>2, <1>3
  <2> QED
    BY <2>1 DEF Levy, Lesser
<1>6. ClearingPrice \in Nat
  BY <1>2, <1>3, <1>4 DEF ClearingPrice
<1>7. LevyRevenue \in Nat
  BY <1>1, <1>2, <1>5 DEF LevyRevenue
<1>8. TargetSubsidy \in Nat
  BY <1>1, <1>2, <1>3 DEF TargetSubsidy
<1>9. SubsidyTotal \in Nat /\ SubsidyTotal <= LevyRevenue
  BY <1>7, <1>8 DEF SubsidyTotal, Lesser
<1>10. \A j \in Offers : SellerPrice(j) \in Int
  <2>1. - (Levy * Volume) \in Int
    BY <1>2, <1>4, <1>5
  <2> QED
    BY <1>6, <1>9, <2>1 DEF SellerPrice
<1> QED
  BY <1>1, <1>4, <1>5, <1>6, <1>7, <1>9, <1>10

(* What is written is a trade; every direct trade is one of the matches.   *)
LEMMA TradesAre ==
  ASSUME TypeOK
  PROVE  /\ DirectTrades \in Seq(AnyTrade) /\ BuyerTrades \in Seq(AnyTrade)
         /\ SellerTrades \in Seq(AnyTrade)
         /\ BuyerLegs \in Seq(AnyTrade) /\ SellerLegs \in Seq(AnyTrade)
         /\ Len(DirectTrades) = Len(AllAttached)
         /\ DOMAIN DirectTrades = DOMAIN AllAttached
         /\ \A k \in 1 .. Len(DirectTrades) :
              DirectTrades[k] = Trade(AllAttached[k].bid, AllAttached[k].offer,
                                      AllAttached[k].energy, ClearingPrice)
<1>1. ClearingPrice \in Int /\ \A j \in Offers : SellerPrice(j) \in Int
  BY PricesAre
<1>2. AllAttached \in Seq(AnyPair)
  BY AttachedAre
<1>3. DirectTrades = [k \in DOMAIN AllAttached |->
                        Trade(AllAttached[k].bid, AllAttached[k].offer,
                              AllAttached[k].energy, ClearingPrice)]
  BY DEF DirectTrades, AllAttached
<1>4. \A k \in 1 .. Len(AllAttached) :
        Trade(AllAttached[k].bid, AllAttached[k].offer, AllAttached[k].energy, ClearingPrice) \in AnyTrade
  <2>1. \A k \in 1 .. Len(AllAttached) : AllAttached[k] \in AnyPair
    BY <1>2
  <2> QED
    BY <1>1, <2>1 DEF AnyPair, AnyTrade, Trade
<1>5. /\ DOMAIN AllAttached = 1 .. Len(AllAttached) /\ Len(AllAttached) \in Nat
  BY <1>2
<1>6. /\ DirectTrades \in Seq(AnyTrade) /\ Len(DirectTrades) = Len(AllAttached)
      /\ DOMAIN DirectTrades = DOMAIN AllAttached
  BY <1>3, <1>4, <1>5
<1>7. BuyerLegs \in Seq(AnyTrade) /\ Len(BuyerLegs) = NumBids
  <2>1. \A i \in Bids : Trade(i, PoolOrder, bidAlloc[i], ClearingPrice) \in AnyTrade
    BY <1>1 DEF TypeOK, AnyTrade, Trade
  <2> QED
    BY <2>1 DEF BuyerLegs
<1>8. SellerLegs \in Seq(AnyTrade) /\ Len(SellerLegs) = NumOffers
  <2>1. \A j \in Offers : Trade(PoolOrder, j, offerAlloc[j], SellerPrice(j)) \in AnyTrade
    BY <1>1 DEF TypeOK, AnyTrade, Trade
  <2> QED
    BY <2>1 DEF SellerLegs
<1>9. BuyerTrades \in Seq(AnyTrade) /\ SellerTrades \in Seq(AnyTrade)
  <2>1. BuyerTrades = Subsequence(BuyerLegs, ServedBids) /\ ServedBids \in SUBSET (1 .. Len(BuyerLegs))
    BY <1>7 DEF BuyerTrades, BuyerLegs, ServedBids
  <2>2. /\ SellerTrades = Subsequence(SellerLegs, ServedOffers)
        /\ ServedOffers \in SUBSET (1 .. Len(SellerLegs))
    BY <1>8 DEF SellerTrades, SellerLegs, ServedOffers
  <2> QED
    BY <1>7, <1>8, <2>1, <2>2, SubsequenceEmbeds
<1> QED
  BY <1>3, <1>5, <1>6, <1>7, <1>8, <1>9

(* What the trades weigh is the sum over the matches and both sides' rests.*)
LEMMA WeightOfTrades ==
  ASSUME TypeOK, NEW w, Weighing(AnyTrade, w)
  PROVE  /\ Summands([i \in Bids |-> w[BuyerLegs[i]]], Bids)
         /\ Summands([j \in Offers |-> w[SellerLegs[j]]], Offers)
         /\ Weight(DirectTrades, w) \in Int
         /\ Weight(DirectTrades \o BuyerTrades \o SellerTrades, w)
              = Weight(DirectTrades, w)
                  + SumFunctionOnSet([i \in Bids |-> w[BuyerLegs[i]]], ServedBids)
                  + SumFunctionOnSet([j \in Offers |-> w[SellerLegs[j]]], ServedOffers)
<1> DEFINE f == [i \in Bids |-> w[BuyerLegs[i]]]
           g == [j \in Offers |-> w[SellerLegs[j]]]
<1>1. /\ DirectTrades \in Seq(AnyTrade) /\ BuyerTrades \in Seq(AnyTrade)
      /\ SellerTrades \in Seq(AnyTrade) /\ DirectTrades \o BuyerTrades \in Seq(AnyTrade)
      /\ BuyerLegs \in Seq(AnyTrade) /\ SellerLegs \in Seq(AnyTrade)
      /\ DOMAIN BuyerLegs = Bids /\ DOMAIN SellerLegs = Offers
  BY TradesAre DEF BuyerLegs, SellerLegs
<1>2. /\ Len(BuyerLegs) = NumBids /\ Len(SellerLegs) = NumOffers
  BY DEF BuyerLegs, SellerLegs
<1>3. Weight(BuyerTrades, w) = SumFunctionOnSet(f, ServedBids)
  <2>1. BuyerTrades = Subsequence(BuyerLegs, ServedBids) /\ ServedBids \in SUBSET (1 .. Len(BuyerLegs))
    BY <1>2 DEF BuyerTrades, BuyerLegs, ServedBids
  <2>2. Weight(Subsequence(BuyerLegs, ServedBids), w)
          = SumFunctionOnSet([k \in DOMAIN BuyerLegs |-> w[BuyerLegs[k]]], ServedBids)
    <3>1. BuyerLegs \in Seq(AnyTrade) /\ ServedBids \in SUBSET (1 .. Len(BuyerLegs))
      BY <1>1, <2>1
    <3> QED
      BY <3>1, SubsequenceWeight
  <2> QED
    BY <1>1, <2>1, <2>2
<1>4. Weight(SellerTrades, w) = SumFunctionOnSet(g, ServedOffers)
  <2>1. /\ SellerTrades = Subsequence(SellerLegs, ServedOffers)
        /\ ServedOffers \in SUBSET (1 .. Len(SellerLegs))
    BY <1>2 DEF SellerTrades, SellerLegs, ServedOffers
  <2>2. Weight(SellerTrades, w)
          = SumFunctionOnSet([k \in DOMAIN SellerLegs |-> w[SellerLegs[k]]], ServedOffers)
    <3>1. SellerLegs \in Seq(AnyTrade) /\ ServedOffers \in SUBSET (1 .. Len(SellerLegs))
      BY <1>1, <2>1
    <3>2. Weight(Subsequence(SellerLegs, ServedOffers), w)
            = SumFunctionOnSet([k \in DOMAIN SellerLegs |-> w[SellerLegs[k]]], ServedOffers)
      BY <3>1, SubsequenceWeight
    <3> QED
      BY <2>1, <3>2
  <2> QED
    BY <1>1, <2>2
<1>5. /\ Weight(DirectTrades \o BuyerTrades \o SellerTrades, w)
          = Weight(DirectTrades \o BuyerTrades, w) + Weight(SellerTrades, w)
      /\ Weight(DirectTrades \o BuyerTrades, w) = Weight(DirectTrades, w) + Weight(BuyerTrades, w)
  BY <1>1, WeightConcat
<1>6. Weight(DirectTrades, w) \in Int
  BY <1>1, WeightInt
<1>7. Summands(f, Bids) /\ Summands(g, Offers)
  <2>1. /\ Summands([k \in DOMAIN BuyerLegs |-> w[BuyerLegs[k]]], DOMAIN BuyerLegs)
        /\ Summands([k \in DOMAIN SellerLegs |-> w[SellerLegs[k]]], DOMAIN SellerLegs)
    BY <1>1, WeightTerms
  <2> QED
    BY <1>1, <2>1
<1> HIDE DEF f, g
<1> QED
  BY <1>3, <1>4, <1>5, <1>6, <1>7 DEF f, g

(* The part of a trade that is an order's, in energy and in money.         *)
BidPart(i) == [t \in AnyTrade |-> IF t.bid = i THEN t.quantity ELSE 0]
OfferPart(j) == [t \in AnyTrade |-> IF t.offer = j THEN t.quantity ELSE 0]
BidPaid == [t \in AnyTrade |-> IF t.bid = PoolOrder THEN t.quantity * t.price ELSE 0]
OfferPaid == [t \in AnyTrade |-> IF t.offer = PoolOrder THEN t.quantity * t.price ELSE 0]

LEMMA Parts ==
  /\ \A i : Weighing(AnyTrade, BidPart(i)) /\ Weighing(AnyTrade, OfferPart(i))
  /\ Weighing(AnyTrade, BidPaid) /\ Weighing(AnyTrade, OfferPaid)
<1>1. \A t \in AnyTrade : t.quantity \in Int /\ t.quantity * t.price \in Int
  <2>1. \A a, b \in Int : a * b \in Int
    OBVIOUS
  <2> QED
    BY <2>1 DEF AnyTrade
<1> QED
  BY <1>1 DEF Weighing, BidPart, OfferPart, BidPaid, OfferPaid

(* The quantities and payments the properties speak of, as weights.        *)
LEMMA PartsOfTrades ==
  ASSUME trades \in Seq(AnyTrade)
  PROVE  /\ \A i : QuantityOf(BidTrades(i)) = Weight(trades, BidPart(i))
         /\ \A j : QuantityOf(OfferTrades(j)) = Weight(trades, OfferPart(j))
         /\ PaidFor(BidTrades(PoolOrder)) = Weight(trades, BidPaid)
         /\ PaidFor(OfferTrades(PoolOrder)) = Weight(trades, OfferPaid)
<1> DEFINE q == [k \in DOMAIN trades |-> trades[k].quantity]
           p == [k \in DOMAIN trades |-> trades[k].quantity * trades[k].price]
<1>1. /\ DOMAIN trades = 1 .. Len(trades) /\ Len(trades) \in Nat /\ IsFiniteSet(1 .. Len(trades))
      /\ \A k \in DOMAIN trades : trades[k] \in AnyTrade
  BY FS_Interval
<1>2. \A k \in DOMAIN trades : trades[k].quantity \in Int /\ trades[k].price \in Int
  BY <1>1 DEF AnyTrade
<1>3. Summands(q, DOMAIN trades) /\ Summands(p, DOMAIN trades)
  <2>1. \A a, b \in Int : a * b \in Int
    OBVIOUS
  <2> QED
    BY <1>1, <1>2, <2>1 DEF Summands
<1> HIDE DEF q, p
<1>4. ASSUME NEW i
      PROVE  /\ QuantityOf(BidTrades(i)) = Weight(trades, BidPart(i))
             /\ QuantityOf(OfferTrades(i)) = Weight(trades, OfferPart(i))
  <2> DEFINE fb == [k \in DOMAIN trades |-> BidPart(i)[trades[k]]]
             fo == [k \in DOMAIN trades |-> OfferPart(i)[trades[k]]]
  <2>1. \A k \in DOMAIN trades : fb[k] = IF k \in BidTrades(i) THEN q[k] ELSE 0
    BY <1>1 DEF BidPart, BidTrades, q
  <2>2. \A k \in DOMAIN trades : fo[k] = IF k \in OfferTrades(i) THEN q[k] ELSE 0
    BY <1>1 DEF OfferPart, OfferTrades, q
  <2>3. DOMAIN trades \cap BidTrades(i) = BidTrades(i) /\ DOMAIN trades \cap OfferTrades(i) = OfferTrades(i)
    BY DEF BidTrades, OfferTrades
  <2> HIDE DEF fb, fo
  <2>4. SumFunctionOnSet(fb, DOMAIN trades) = SumFunctionOnSet(q, BidTrades(i))
    <3> DEFINE T == DOMAIN trades
               K == BidTrades(i)
    <3>1. Summands(q, T) /\ T \cap K = K
      BY <1>3, <2>3
    <3>2. \A k \in T : fb[k] = IF k \in K THEN q[k] ELSE 0
      BY <2>1
    <3> HIDE DEF T, K
    <3>3. SumFunctionOnSet(fb, T) = SumFunctionOnSet(q, T \cap K)
      BY <3>1, <3>2, SumFilter
    <3> QED
      BY <3>1, <3>3 DEF T, K
  <2>5. SumFunctionOnSet(fo, DOMAIN trades) = SumFunctionOnSet(q, OfferTrades(i))
    <3> DEFINE T == DOMAIN trades
               K == OfferTrades(i)
    <3>1. Summands(q, T) /\ T \cap K = K
      BY <1>3, <2>3
    <3>2. \A k \in T : fo[k] = IF k \in K THEN q[k] ELSE 0
      BY <2>2
    <3> HIDE DEF T, K
    <3>3. SumFunctionOnSet(fo, T) = SumFunctionOnSet(q, T \cap K)
      BY <3>1, <3>2, SumFilter
    <3> QED
      BY <3>1, <3>3 DEF T, K
  <2> QED
    BY <2>4, <2>5 DEF Weight, QuantityOf, fb, fo, q
<1>5. PaidFor(BidTrades(PoolOrder)) = Weight(trades, BidPaid)
  <2> DEFINE f == [k \in DOMAIN trades |-> BidPaid[trades[k]]]
  <2>1. \A k \in DOMAIN trades : f[k] = IF k \in BidTrades(PoolOrder) THEN p[k] ELSE 0
    BY <1>1 DEF BidPaid, BidTrades, p
  <2>2. DOMAIN trades \cap BidTrades(PoolOrder) = BidTrades(PoolOrder)
    BY DEF BidTrades
  <2> HIDE DEF f
  <2>3. SumFunctionOnSet(f, DOMAIN trades) = SumFunctionOnSet(p, BidTrades(PoolOrder))
    <3>1. SumFunctionOnSet(f, DOMAIN trades) = SumFunctionOnSet(p, DOMAIN trades \cap BidTrades(PoolOrder))
      BY <1>3, <2>1, SumFilter
    <3> QED
      BY <2>2, <3>1
  <2> QED
    BY <2>3 DEF Weight, PaidFor, f, p
<1>6. PaidFor(OfferTrades(PoolOrder)) = Weight(trades, OfferPaid)
  <2> DEFINE f == [k \in DOMAIN trades |-> OfferPaid[trades[k]]]
  <2>1. \A k \in DOMAIN trades : f[k] = IF k \in OfferTrades(PoolOrder) THEN p[k] ELSE 0
    BY <1>1 DEF OfferPaid, OfferTrades, p
  <2>2. DOMAIN trades \cap OfferTrades(PoolOrder) = OfferTrades(PoolOrder)
    BY DEF OfferTrades
  <2> HIDE DEF f
  <2>3. SumFunctionOnSet(f, DOMAIN trades) = SumFunctionOnSet(p, OfferTrades(PoolOrder))
    <3>1. SumFunctionOnSet(f, DOMAIN trades) = SumFunctionOnSet(p, DOMAIN trades \cap OfferTrades(PoolOrder))
      BY <1>3, <2>1, SumFilter
    <3> QED
      BY <2>2, <3>1
  <2> QED
    BY <2>3 DEF Weight, PaidFor, f, p
<1> QED
  BY <1>4, <1>5, <1>6

-----------------------------------------------------------------------------
(* The properties.                                                         *)
LEMMA TradesTyped ==
  ASSUME IInv, at = "traded"
  PROVE  trades \in Seq(AnyTrade) /\ trades = DirectTrades \o BuyerTrades \o SellerTrades
<1>1. DirectTrades \in Seq(AnyTrade) /\ BuyerTrades \in Seq(AnyTrade) /\ SellerTrades \in Seq(AnyTrade)
  BY TradesAre DEF IInv
<1>2. DirectTrades \o BuyerTrades \o SellerTrades \in Seq(AnyTrade)
  BY <1>1
<1> QED
  BY <1>2 DEF IInv, InPhase

(* The pool stands on the other side of every leg that is not direct.      *)
LEMMA Legs ==
  ASSUME TypeOK
  PROVE  /\ \A i \in Bids : /\ BuyerLegs[i] \in AnyTrade
                            /\ BuyerLegs[i].bid = i /\ BuyerLegs[i].offer = PoolOrder
                            /\ BuyerLegs[i].quantity = bidAlloc[i]
                            /\ BuyerLegs[i].price = ClearingPrice
         /\ \A j \in Offers : /\ SellerLegs[j] \in AnyTrade
                              /\ SellerLegs[j].bid = PoolOrder /\ SellerLegs[j].offer = j
                              /\ SellerLegs[j].quantity = offerAlloc[j]
                              /\ SellerLegs[j].price = SellerPrice(j)
<1>1. /\ \A i \in Bids : BuyerLegs[i] = Trade(i, PoolOrder, bidAlloc[i], ClearingPrice)
      /\ \A j \in Offers : SellerLegs[j] = Trade(PoolOrder, j, offerAlloc[j], SellerPrice(j))
  BY DEF BuyerLegs, SellerLegs
<1>2. \A j \in Offers : SellerPrice(j) \in Int
  BY PricesAre
<1>3. ClearingPrice \in Int
  BY PricesAre
<1>4. \A i \in Bids : Trade(i, PoolOrder, bidAlloc[i], ClearingPrice) \in AnyTrade
  BY <1>3 DEF Trade, TypeOK, AnyTrade
<1>5. \A j \in Offers : Trade(PoolOrder, j, offerAlloc[j], SellerPrice(j)) \in AnyTrade
  BY <1>2 DEF Trade, TypeOK, AnyTrade
<1>6. \A b, o, q, p : LET t == Trade(b, o, q, p) IN
                     t.bid = b /\ t.offer = o /\ t.quantity = q /\ t.price = p
  BY DEF Trade
<1> HIDE DEF Bids, Offers
<1> QED
  BY <1>1, <1>4, <1>5, <1>6

(* A direct trade is between partners who named each other.                *)
LEMMA DirectLegs ==
  ASSUME IInv
  PROVE  \A k \in 1 .. Len(DirectTrades) :
           /\ DirectTrades[k].bid \in Bids /\ DirectTrades[k].offer \in Offers
           /\ Mutual(DirectTrades[k].bid, DirectTrades[k].offer)
<1> SUFFICES ASSUME NEW k \in 1 .. Len(DirectTrades)
             PROVE  /\ DirectTrades[k].bid \in Bids /\ DirectTrades[k].offer \in Offers
                    /\ Mutual(DirectTrades[k].bid, DirectTrades[k].offer)
  OBVIOUS
<1>1. /\ k \in 1 .. Len(AllAttached)
      /\ DirectTrades[k].bid = AllAttached[k].bid /\ DirectTrades[k].offer = AllAttached[k].offer
  BY TradesAre DEF IInv, Trade
<1>2. PICK l \in 1 .. Len(matches) : AllAttached[k] = matches[l]
  BY <1>1, AttachedAre DEF IInv
<1>3. matches[l] \in AnyPair /\ Mutual(matches[l].bid, matches[l].offer)
  BY DEF IInv, TypeOK, Consenting
<1> QED
  BY <1>1, <1>2, <1>3 DEF AnyPair

LEMMA ConsentFollows == IInv => DirectByConsent
<1> SUFFICES ASSUME IInv, NEW k \in DOMAIN trades, trades[k].bid # PoolOrder, trades[k].offer # PoolOrder
             PROVE  Mutual(trades[k].bid, trades[k].offer)
  BY DEF DirectByConsent, Mutual
<1>1. at = "traded"
  BY DEF IInv, TypeOK, InPhase
<1>2. trades = DirectTrades \o BuyerTrades \o SellerTrades
  BY <1>1, TradesTyped
<1>3. /\ DirectTrades \in Seq(AnyTrade) /\ BuyerTrades \in Seq(AnyTrade)
      /\ SellerTrades \in Seq(AnyTrade)
  BY TradesAre DEF IInv
<1>4. CASE k \in 1 .. Len(DirectTrades)
  <2>1. trades[k] = DirectTrades[k]
    BY <1>2, <1>3, <1>4
  <2> QED
    BY <1>4, <2>1, DirectLegs
<1>5. ASSUME NEW n \in 1 .. Len(BuyerTrades)
      PROVE  BuyerTrades[n].offer = PoolOrder
  <2>1. /\ BuyerTrades = Subsequence(BuyerLegs, ServedBids)
        /\ ServedBids \in SUBSET (1 .. Len(BuyerLegs)) /\ BuyerLegs \in Seq(AnyTrade)
    BY TradesAre DEF IInv, BuyerTrades, BuyerLegs, ServedBids
  <2>2. \E i \in ServedBids : BuyerTrades[n] = BuyerLegs[i]
    BY <2>1, SubsequenceElements
  <2> QED
    BY <2>2, Legs DEF IInv, ServedBids
<1>6. ASSUME NEW n \in 1 .. Len(SellerTrades)
      PROVE  SellerTrades[n].bid = PoolOrder
  <2>1. /\ SellerTrades = Subsequence(SellerLegs, ServedOffers)
        /\ ServedOffers \in SUBSET (1 .. Len(SellerLegs)) /\ SellerLegs \in Seq(AnyTrade)
    BY TradesAre DEF IInv, SellerTrades, SellerLegs, ServedOffers
  <2>2. \E j \in ServedOffers : SellerTrades[n] = SellerLegs[j]
    BY <2>1, SubsequenceElements
  <2> QED
    BY <2>2, Legs DEF IInv, ServedOffers
<1>7. CASE k \notin 1 .. Len(DirectTrades)
  <2> DEFINE n == k - Len(DirectTrades)
  <2>1. \/ n \in 1 .. Len(BuyerTrades) /\ trades[k] = BuyerTrades[n]
        \/ /\ n - Len(BuyerTrades) \in 1 .. Len(SellerTrades)
           /\ trades[k] = SellerTrades[n - Len(BuyerTrades)]
    BY <1>2, <1>3, <1>7
  <2> QED
    BY <1>5, <1>6, <2>1
<1> QED
  BY <1>4, <1>7

(* Direct trades are made by mutual consent only (preferences.py:43).      *)
THEOREM AllocationByConsent == Spec => []DirectByConsent
<1>1. IInv => DirectByConsent
  BY ConsentFollows
<1> QED
  BY <1>1, AllocationInvariant, PTL

(* Two partners who name each other do not both trade with the pool        *)
(* (preferences.py:74).                                                    *)
THEOREM AllocationPartnersFirst == Spec => []PartnersFirst
<1>1. IInv => PartnersFirst
  BY DEF IInv, InPhase, Exhausted, LookedAt, PartnersFirst, Done
<1> QED
  BY <1>1, AllocationInvariant, PTL

(* What the legs with the pool contribute to an order is what it has left. *)
LEMMA RestOfBids ==
  ASSUME TypeOK, NEW w, Weighing(AnyTrade, w), NEW i \in Bids,
         \A k \in Bids : w[BuyerLegs[k]] = IF k = i THEN bidAlloc[k] ELSE 0
  PROVE  SumFunctionOnSet([k \in Bids |-> w[BuyerLegs[k]]], ServedBids) = bidAlloc[i]
<1> DEFINE f == [k \in Bids |-> w[BuyerLegs[k]]]
<1>1. ServedBids \subseteq Bids /\ \A k \in Bids : bidAlloc[k] \in Nat
  BY DEF ServedBids, TypeOK
<1>2. IsFiniteSet(ServedBids)
  BY <1>1, BothSides, FS_Subset
<1>3. \A k \in ServedBids \ {i} : f[k] = 0
  BY <1>1
<1>4. f[i] = bidAlloc[i] /\ f[i] \in Int
  BY <1>1
<1>5. CASE i \in ServedBids
  <2> HIDE DEF f
  <2> QED
    <3>1. SumFunctionOnSet(f, ServedBids) = f[i]
      BY <1>2, <1>3, <1>4, <1>5, SumSingle
    <3> QED
      BY <1>4, <3>1 DEF f
<1>6. CASE i \notin ServedBids
  <2>1. \A k \in ServedBids : f[k] = 0
    BY <1>3, <1>6
  <2>2. bidAlloc[i] = 0
    BY <1>1, <1>6 DEF ServedBids
  <2> HIDE DEF f
  <2>3. SumFunctionOnSet(f, ServedBids) = 0
    BY <1>2, <2>1, SumZero
  <2> QED
    BY <2>2, <2>3 DEF f
<1> QED
  BY <1>5, <1>6

(* What an offer has left goes into one leg with the pool, if any.         *)
LEMMA RestOfOffers ==
  ASSUME TypeOK, NEW w, Weighing(AnyTrade, w), NEW j \in Offers,
         \A k \in Offers : w[SellerLegs[k]] = IF k = j THEN offerAlloc[k] ELSE 0
  PROVE  SumFunctionOnSet([k \in Offers |-> w[SellerLegs[k]]], ServedOffers) = offerAlloc[j]
<1> DEFINE f == [k \in Offers |-> w[SellerLegs[k]]]
<1>1. ServedOffers \subseteq Offers /\ \A k \in Offers : offerAlloc[k] \in Nat
  BY DEF ServedOffers, TypeOK
<1>2. IsFiniteSet(ServedOffers)
  BY <1>1, BothSides, FS_Subset
<1>3. \A k \in ServedOffers \ {j} : f[k] = 0
  BY <1>1
<1>4. f[j] = offerAlloc[j] /\ f[j] \in Int
  BY <1>1
<1>5. CASE j \in ServedOffers
  <2> HIDE DEF f
  <2> QED
    <3>1. SumFunctionOnSet(f, ServedOffers) = f[j]
      BY <1>2, <1>3, <1>4, <1>5, SumSingle
    <3> QED
      BY <1>4, <3>1 DEF f
<1>6. CASE j \notin ServedOffers
  <2>1. \A k \in ServedOffers : f[k] = 0
    BY <1>3, <1>6
  <2>2. offerAlloc[j] = 0
    BY <1>1, <1>6 DEF ServedOffers
  <2> HIDE DEF f
  <2>3. SumFunctionOnSet(f, ServedOffers) = 0
    BY <1>2, <2>1, SumZero
  <2> QED
    BY <2>2, <2>3 DEF f
<1> QED
  BY <1>5, <1>6

(* Weights that one side's legs with the pool do not have.                 *)
LEMMA NoneOfBids ==
  ASSUME NEW w, \A k \in Bids : w[BuyerLegs[k]] = 0
  PROVE  SumFunctionOnSet([k \in Bids |-> w[BuyerLegs[k]]], ServedBids) = 0
<1>1. IsFiniteSet(ServedBids) /\ ServedBids \subseteq Bids
  BY BothSides, FS_Subset DEF ServedBids
<1>2. \A k \in ServedBids : [l \in Bids |-> w[BuyerLegs[l]]][k] = 0
  BY <1>1
<1> QED
  BY <1>1, <1>2, SumZero

LEMMA NoneOfOffers ==
  ASSUME NEW w, \A k \in Offers : w[SellerLegs[k]] = 0
  PROVE  SumFunctionOnSet([k \in Offers |-> w[SellerLegs[k]]], ServedOffers) = 0
<1>1. IsFiniteSet(ServedOffers) /\ ServedOffers \subseteq Offers
  BY BothSides, FS_Subset DEF ServedOffers
<1>2. \A k \in ServedOffers : [l \in Offers |-> w[SellerLegs[l]]][k] = 0
  BY <1>1
<1> QED
  BY <1>1, <1>2, SumZero

(* The direct trades weigh what the matches weigh, and nothing at the pool.*)
LEMMA DirectWeights ==
  ASSUME TypeOK
  PROVE  /\ \A i \in Bids : Weight(DirectTrades, BidPart(i)) = Weight(matches, OfBid(i))
         /\ \A j \in Offers : Weight(DirectTrades, OfferPart(j)) = Weight(matches, OfOffer(j))
         /\ Weight(DirectTrades, BidPart(PoolOrder)) = 0 /\ Weight(DirectTrades, OfferPart(PoolOrder)) = 0
         /\ Weight(DirectTrades, BidPaid) = 0 /\ Weight(DirectTrades, OfferPaid) = 0
<1>1. /\ AllAttached \in Seq(AnyPair)
      /\ \A u : Weighing(AnyPair, u) => Weight(AllAttached, u) = Weight(matches, u)
      /\ \A k \in DOMAIN AllAttached : AllAttached[k] \in AnyPair
  BY AttachedAre
<1>2. /\ DOMAIN DirectTrades = DOMAIN AllAttached
      /\ \A k \in DOMAIN AllAttached :
           /\ DirectTrades[k] \in AnyTrade
           /\ DirectTrades[k].bid = AllAttached[k].bid /\ DirectTrades[k].offer = AllAttached[k].offer
           /\ DirectTrades[k].quantity = AllAttached[k].energy
  BY TradesAre DEF Trade
<1>3. \A k \in DOMAIN AllAttached : DirectTrades[k].bid # PoolOrder /\ DirectTrades[k].offer # PoolOrder
  BY <1>1, <1>2 DEF AnyPair, PoolOrder
<1>4. ASSUME NEW i \in Bids
      PROVE  Weight(DirectTrades, BidPart(i)) = Weight(matches, OfBid(i))
  <2>1. \A k \in DOMAIN AllAttached : BidPart(i)[DirectTrades[k]] = OfBid(i)[AllAttached[k]]
    BY <1>1, <1>2 DEF BidPart, OfBid
  <2>2. Weight(DirectTrades, BidPart(i)) = Weight(AllAttached, OfBid(i))
    <3>1. /\ AllAttached \in Seq(AnyPair) /\ Weighing(AnyPair, OfBid(i))
          /\ DOMAIN DirectTrades = DOMAIN AllAttached
      BY <1>1, <1>2, Weights
    <3> QED
      BY <2>1, <3>1, WeightMapped
  <2> QED
    BY <1>1, <2>2, Weights
<1>5. ASSUME NEW j \in Offers
      PROVE  Weight(DirectTrades, OfferPart(j)) = Weight(matches, OfOffer(j))
  <2>1. \A k \in DOMAIN AllAttached : OfferPart(j)[DirectTrades[k]] = OfOffer(j)[AllAttached[k]]
    BY <1>1, <1>2 DEF OfferPart, OfOffer
  <2>2. Weight(DirectTrades, OfferPart(j)) = Weight(AllAttached, OfOffer(j))
    <3>1. /\ AllAttached \in Seq(AnyPair) /\ Weighing(AnyPair, OfOffer(j))
          /\ DOMAIN DirectTrades = DOMAIN AllAttached
      BY <1>1, <1>2, Weights
    <3> QED
      BY <2>1, <3>1, WeightMapped
  <2> QED
    BY <1>1, <2>2, Weights
<1>6. ASSUME NEW w, \A k \in DOMAIN AllAttached : w[DirectTrades[k]] = 0
      PROVE  Weight(DirectTrades, w) = 0
  <2> DEFINE f == [k \in DOMAIN DirectTrades |-> w[DirectTrades[k]]]
  <2>1. \A k \in DOMAIN DirectTrades : f[k] = 0
    BY <1>2, <1>6
  <2>2. IsFiniteSet(DOMAIN DirectTrades)
    <3>1. DOMAIN AllAttached = 1 .. Len(AllAttached) /\ Len(AllAttached) \in Nat
      BY <1>1
    <3> QED
      BY <1>2, <3>1, FS_Interval
  <2> HIDE DEF f
  <2>3. SumFunctionOnSet(f, DOMAIN DirectTrades) = 0
    BY <2>1, <2>2, SumZero
  <2> QED
    BY <2>3 DEF f, Weight
<1>7. /\ Weight(DirectTrades, BidPart(PoolOrder)) = 0 /\ Weight(DirectTrades, OfferPart(PoolOrder)) = 0
  BY <1>2, <1>3, <1>6 DEF BidPart, OfferPart
<1>8. /\ Weight(DirectTrades, BidPaid) = 0 /\ Weight(DirectTrades, OfferPaid) = 0
  BY <1>2, <1>3, <1>6 DEF BidPaid, OfferPaid
<1> QED
  BY <1>4, <1>5, <1>7, <1>8

LEMMA SharesFollow == IInv => SharesTraded
<1> SUFFICES ASSUME IInv, at = "traded"
             PROVE  /\ \A i \in Bids : QuantityOf(BidTrades(i)) = BidShare(i)
                    /\ \A j \in Offers : QuantityOf(OfferTrades(j)) = OfferShare(j)
  BY SharesAreBounded DEF IInv, SharesTraded, Done
<1>1. TypeOK /\ trades \in Seq(AnyTrade) /\ trades = DirectTrades \o BuyerTrades \o SellerTrades
  BY TradesTyped DEF IInv
<1>2. ASSUME NEW i \in Bids
      PROVE  QuantityOf(BidTrades(i)) = BidShare(i)
  <2> DEFINE w == BidPart(i)
             A == SumFunctionOnSet([k \in Bids |-> w[BuyerLegs[k]]], ServedBids)
             B == SumFunctionOnSet([k \in Offers |-> w[SellerLegs[k]]], ServedOffers)
  <2>1. Weighing(AnyTrade, w)
    BY Parts
  <2>2. A = bidAlloc[i]
    <3>1. \A k \in Bids : w[BuyerLegs[k]] = IF k = i THEN bidAlloc[k] ELSE 0
      BY <1>1, Legs DEF BidPart
    <3> HIDE DEF w
    <3> QED
      BY <1>1, <2>1, <3>1, RestOfBids
  <2>3. B = 0
    <3>1. \A k \in Offers : w[SellerLegs[k]] = 0
      BY <1>1, Legs, BothSides DEF BidPart
    <3> HIDE DEF w
    <3> QED
      BY <3>1, NoneOfOffers
  <2>4. Weight(trades, w) = Weight(DirectTrades, w) + A + B
    BY <1>1, <2>1, WeightOfTrades
  <2>5. Weight(DirectTrades, w) = Weight(matches, OfBid(i))
    BY <1>1, DirectWeights
  <2>6. QuantityOf(BidTrades(i)) = Weight(trades, w)
    BY <1>1, PartsOfTrades
  <2>7. bidAlloc[i] + Weight(matches, OfBid(i)) = BidShare(i)
    BY DEF IInv, Accounted
  <2>8. bidAlloc[i] \in Int /\ Weight(matches, OfBid(i)) \in Int
    <3>1. bidAlloc[i] \in Int /\ matches \in Seq(AnyPair)
      BY <1>1 DEF TypeOK
    <3>2. Weight(matches, OfBid(i)) \in Int
      BY <3>1, Weights, WeightInt
    <3> QED
      BY <3>1, <3>2
  <2> HIDE DEF w, A, B
  <2> QED
    BY <2>2, <2>3, <2>4, <2>5, <2>6, <2>7, <2>8
<1>3. ASSUME NEW j \in Offers
      PROVE  QuantityOf(OfferTrades(j)) = OfferShare(j)
  <2> DEFINE w == OfferPart(j)
             A == SumFunctionOnSet([k \in Bids |-> w[BuyerLegs[k]]], ServedBids)
             B == SumFunctionOnSet([k \in Offers |-> w[SellerLegs[k]]], ServedOffers)
  <2>1. Weighing(AnyTrade, w)
    BY Parts
  <2>2. A = 0
    <3>1. \A k \in Bids : w[BuyerLegs[k]] = 0
      BY <1>1, Legs, BothSides DEF OfferPart
    <3> HIDE DEF w
    <3> QED
      BY <3>1, NoneOfBids
  <2>3. B = offerAlloc[j]
    <3>1. \A k \in Offers : w[SellerLegs[k]] = IF k = j THEN offerAlloc[k] ELSE 0
      BY <1>1, Legs DEF OfferPart
    <3> HIDE DEF w
    <3> QED
      BY <1>1, <2>1, <3>1, RestOfOffers
  <2>4. Weight(trades, w) = Weight(DirectTrades, w) + A + B
    BY <1>1, <2>1, WeightOfTrades
  <2>5. Weight(DirectTrades, w) = Weight(matches, OfOffer(j))
    BY <1>1, DirectWeights
  <2>6. QuantityOf(OfferTrades(j)) = Weight(trades, w)
    BY <1>1, PartsOfTrades
  <2>7. offerAlloc[j] + Weight(matches, OfOffer(j)) = OfferShare(j)
    BY DEF IInv, Accounted
  <2>8. offerAlloc[j] \in Int /\ Weight(matches, OfOffer(j)) \in Int
    <3>1. offerAlloc[j] \in Int /\ matches \in Seq(AnyPair)
      BY <1>1 DEF TypeOK
    <3>2. Weight(matches, OfOffer(j)) \in Int
      BY <3>1, Weights, WeightInt
    <3> QED
      BY <3>1, <3>2
  <2> HIDE DEF w, A, B
  <2> QED
    BY <2>2, <2>3, <2>4, <2>5, <2>6, <2>7, <2>8
<1> QED
  BY <1>2, <1>3

(* Every order trades its pro-rata share, direct and pool legs together,   *)
(* and never more than its quantity (clearing.py:197, preferences.py:255). *)
THEOREM AllocationSharesTraded == Spec => []SharesTraded
<1>1. IInv => SharesTraded
  BY SharesFollow
<1> QED
  BY <1>1, AllocationInvariant, PTL

(* The legs with the pool are those of the orders with something left.     *)
LEMMA ServedIsLeft ==
  ASSUME TypeOK
  PROVE  /\ SumFunctionOnSet(bidAlloc, ServedBids) = SumFunctionOnSet(bidAlloc, Bids)
         /\ SumFunctionOnSet(offerAlloc, ServedOffers) = SumFunctionOnSet(offerAlloc, Offers)
         /\ Summands(bidAlloc, ServedBids) /\ Summands(offerAlloc, ServedOffers)
<1> HIDE DEF Bids, Offers
<1>1. Summands(bidAlloc, Bids) /\ Summands(offerAlloc, Offers)
  BY BothSides DEF Summands, TypeOK
<1>2. \A i \in Bids : bidAlloc[i] = IF i \in ServedBids THEN bidAlloc[i] ELSE 0
  BY DEF ServedBids, TypeOK
<1>3. \A j \in Offers : offerAlloc[j] = IF j \in ServedOffers THEN offerAlloc[j] ELSE 0
  BY DEF ServedOffers, TypeOK
<1>4. Bids \cap ServedBids = ServedBids /\ Offers \cap ServedOffers = ServedOffers
  BY DEF ServedBids, ServedOffers
<1>5. SumFunctionOnSet(bidAlloc, Bids) = SumFunctionOnSet(bidAlloc, Bids \cap ServedBids)
  BY <1>1, <1>2, SumFilter
<1>6. SumFunctionOnSet(offerAlloc, Offers) = SumFunctionOnSet(offerAlloc, Offers \cap ServedOffers)
  BY <1>1, <1>3, SumFilter
<1>7. Summands(bidAlloc, ServedBids) /\ Summands(offerAlloc, ServedOffers)
  BY <1>1, <1>4, FS_Subset DEF Summands
<1> QED
  BY <1>4, <1>5, <1>6, <1>7

(* The pool takes from the sellers what it hands to the buyers.            *)
LEMMA PoolEnergy ==
  ASSUME IInv, at = "traded"
  PROVE  /\ QuantityOf(OfferTrades(PoolOrder)) = SumFunctionOnSet(bidAlloc, Bids)
         /\ QuantityOf(BidTrades(PoolOrder)) = SumFunctionOnSet(offerAlloc, Offers)
<1>1. TypeOK /\ trades \in Seq(AnyTrade) /\ trades = DirectTrades \o BuyerTrades \o SellerTrades
  BY TradesTyped DEF IInv
<1>2. QuantityOf(OfferTrades(PoolOrder)) = SumFunctionOnSet(bidAlloc, Bids)
  <2> DEFINE w == OfferPart(PoolOrder)
             f == [k \in Bids |-> w[BuyerLegs[k]]]
             A == SumFunctionOnSet(f, ServedBids)
             B == SumFunctionOnSet([k \in Offers |-> w[SellerLegs[k]]], ServedOffers)
  <2>1. Weighing(AnyTrade, w)
    BY Parts
  <2>2. A = SumFunctionOnSet(bidAlloc, ServedBids)
    <3>1. \A k \in ServedBids : f[k] = bidAlloc[k]
      BY <1>1, Legs DEF OfferPart, ServedBids
    <3> HIDE DEF f
    <3> QED
      BY <1>1, <3>1, ServedIsLeft, SumSame
  <2>3. B = 0
    <3>1. \A k \in Offers : w[SellerLegs[k]] = 0
      BY <1>1, Legs, BothSides DEF OfferPart
    <3> HIDE DEF w
    <3> QED
      BY <3>1, NoneOfOffers
  <2>4. Weight(trades, w) = Weight(DirectTrades, w) + A + B
    BY <1>1, <2>1, WeightOfTrades
  <2>5. Weight(DirectTrades, w) = 0
    BY <1>1, DirectWeights
  <2>6. QuantityOf(OfferTrades(PoolOrder)) = Weight(trades, w)
    BY <1>1, PartsOfTrades
  <2>7. A \in Int
    BY <1>1, <2>2, ServedIsLeft, SumInt
  <2>8. A = SumFunctionOnSet(bidAlloc, Bids)
    BY <1>1, <2>2, ServedIsLeft
  <2> HIDE DEF w, A, B
  <2> QED
    BY <2>3, <2>4, <2>5, <2>6, <2>7, <2>8
<1>3. QuantityOf(BidTrades(PoolOrder)) = SumFunctionOnSet(offerAlloc, Offers)
  <2> DEFINE w == BidPart(PoolOrder)
             f == [k \in Offers |-> w[SellerLegs[k]]]
             A == SumFunctionOnSet([k \in Bids |-> w[BuyerLegs[k]]], ServedBids)
             B == SumFunctionOnSet(f, ServedOffers)
  <2>1. Weighing(AnyTrade, w)
    BY Parts
  <2>2. B = SumFunctionOnSet(offerAlloc, ServedOffers)
    <3>1. \A k \in ServedOffers : f[k] = offerAlloc[k]
      BY <1>1, Legs DEF BidPart, ServedOffers
    <3> HIDE DEF f
    <3> QED
      BY <1>1, <3>1, ServedIsLeft, SumSame
  <2>3. A = 0
    <3>1. \A k \in Bids : w[BuyerLegs[k]] = 0
      BY <1>1, Legs, BothSides DEF BidPart
    <3> HIDE DEF w
    <3> QED
      BY <3>1, NoneOfBids
  <2>4. Weight(trades, w) = Weight(DirectTrades, w) + A + B
    BY <1>1, <2>1, WeightOfTrades
  <2>5. Weight(DirectTrades, w) = 0
    BY <1>1, DirectWeights
  <2>6. QuantityOf(BidTrades(PoolOrder)) = Weight(trades, w)
    BY <1>1, PartsOfTrades
  <2>7. B \in Int
    BY <1>1, <2>2, ServedIsLeft, SumInt
  <2>8. B = SumFunctionOnSet(offerAlloc, Offers)
    BY <1>1, <2>2, ServedIsLeft
  <2> HIDE DEF w, A, B
  <2> QED
    BY <2>3, <2>4, <2>5, <2>6, <2>7, <2>8
<1> QED
  BY <1>2, <1>3

(* What the pool is paid: the clearing price for all it hands out.         *)
LEMMA PoolIncome ==
  ASSUME IInv, at = "traded"
  PROVE  PaidFor(OfferTrades(PoolOrder)) = SumFunctionOnSet(bidAlloc, Bids) * ClearingPrice
<1> DEFINE w == OfferPaid
           f == [k \in Bids |-> w[BuyerLegs[k]]]
           A == SumFunctionOnSet(f, ServedBids)
           B == SumFunctionOnSet([k \in Offers |-> w[SellerLegs[k]]], ServedOffers)
<1>1. TypeOK /\ trades \in Seq(AnyTrade) /\ trades = DirectTrades \o BuyerTrades \o SellerTrades
  BY TradesTyped DEF IInv
<1>2. Weighing(AnyTrade, w) /\ ClearingPrice \in Int
  BY <1>1, Parts, PricesAre
<1>3. A = SumFunctionOnSet(bidAlloc, ServedBids) * ClearingPrice
  <2>1. \A k \in ServedBids : f[k] = bidAlloc[k] * ClearingPrice
    BY <1>1, Legs DEF OfferPaid, ServedBids
  <2> HIDE DEF f
  <2> QED
    BY <1>1, <1>2, <2>1, ServedIsLeft, SumTimes
<1>4. B = 0
  <2>1. \A k \in Offers : w[SellerLegs[k]] = 0
    BY <1>1, Legs, BothSides DEF OfferPaid
  <2> HIDE DEF w
  <2> QED
    BY <2>1, NoneOfOffers
<1>5. Weight(trades, w) = Weight(DirectTrades, w) + A + B
  BY <1>1, <1>2, WeightOfTrades
<1>6. Weight(DirectTrades, w) = 0 /\ PaidFor(OfferTrades(PoolOrder)) = Weight(trades, w)
  BY <1>1, DirectWeights, PartsOfTrades
<1>7. A \in Int
  <2>1. \A a, b \in Int : a * b \in Int
    OBVIOUS
  <2>2. SumFunctionOnSet(bidAlloc, ServedBids) \in Int
    BY <1>1, ServedIsLeft, SumInt
  <2> QED
    BY <1>2, <1>3, <2>1, <2>2
<1>8. A = SumFunctionOnSet(bidAlloc, Bids) * ClearingPrice
  BY <1>1, <1>3, ServedIsLeft
<1> HIDE DEF w, A, B
<1> QED
  BY <1>4, <1>5, <1>6, <1>7, <1>8

(* What the levy takes and the subsidy gives, by what is left of each kind.*)
Given(j) == IF j \in Left(Green) THEN offerAlloc[j] * SubsidyTotal ELSE 0
Taken(j) == IF j \in Left(Grey) THEN offerAlloc[j] * (- (Levy * Volume)) ELSE 0

(* The subsidy and the levy of the pool, each summed over its offers.      *)
LEMMA GivenAndTaken ==
  ASSUME TypeOK
  PROVE  /\ \A j \in Offers : Given(j) \in Int /\ Taken(j) \in Int
         /\ SumFunctionOnSet([j \in ServedOffers |-> Given(j)], ServedOffers)
              = VolumeOf(Green) * SubsidyTotal
         /\ SumFunctionOnSet([j \in ServedOffers |-> Taken(j)], ServedOffers)
              = VolumeOf(Grey) * (- (Levy * Volume))
<1> DEFINE s == SubsidyTotal
           l == - (Levy * Volume)
           f == [j \in ServedOffers |-> offerAlloc[j] * s]
           g == [j \in ServedOffers |-> offerAlloc[j] * l]
           F == [j \in ServedOffers |-> Given(j)]
           G == [j \in ServedOffers |-> Taken(j)]
<1>1. \A a, b \in Int : a * b \in Int /\ - a \in Int
  OBVIOUS
<1>2. s \in Int /\ l \in Int
  BY <1>1, PricesAre
<1>3. \A j \in Offers : offerAlloc[j] \in Int
  BY DEF TypeOK
<1>4. \A j \in Offers : Given(j) \in Int /\ Taken(j) \in Int
  BY <1>1, <1>2, <1>3 DEF Given, Taken
<1>5. /\ ServedOffers \subseteq Offers /\ Summands(offerAlloc, ServedOffers)
      /\ IsFiniteSet(ServedOffers)
  BY ServedIsLeft DEF ServedOffers, Summands
<1>6. \A j \in ServedOffers : /\ F[j] = IF j \in Left(Green) THEN f[j] ELSE 0
                             /\ G[j] = IF j \in Left(Grey) THEN g[j] ELSE 0
  BY DEF Given, Taken
<1>7. /\ ServedOffers \cap Left(Green) = Left(Green)
      /\ ServedOffers \cap Left(Grey) = Left(Grey)
  BY DEF ServedOffers, Left
<1>8. \A j \in ServedOffers : /\ f[j] = offerAlloc[j] * s /\ f[j] \in Int
                             /\ g[j] = offerAlloc[j] * l /\ g[j] \in Int
  BY <1>1, <1>2, <1>3, <1>5
<1> HIDE DEF s, l, f, g, F, G
<1>9. Summands(f, ServedOffers) /\ Summands(g, ServedOffers)
  BY <1>5, <1>8 DEF Summands
<1>10. SumFunctionOnSet(F, ServedOffers) = VolumeOf(Green) * s
  <2> DEFINE K == Left(Green)
  <2>1. K \subseteq ServedOffers /\ ServedOffers \cap K = K
    BY <1>7
  <2>2. Summands(offerAlloc, K) /\ \A j \in K : f[j] = offerAlloc[j] * s
    BY <1>5, <1>8, <2>1, FS_Subset DEF Summands
  <2>3. \A j \in ServedOffers : F[j] = IF j \in K THEN f[j] ELSE 0
    BY <1>6
  <2>4. VolumeOf(Green) = SumFunctionOnSet(offerAlloc, K)
    BY DEF VolumeOf
  <2> HIDE DEF K
  <2>5. SumFunctionOnSet(F, ServedOffers) = SumFunctionOnSet(f, ServedOffers \cap K)
    BY <1>9, <2>3, SumFilter
  <2>6. SumFunctionOnSet(f, K) = SumFunctionOnSet(offerAlloc, K) * s
    BY <1>2, <2>2, SumTimes
  <2> QED
    BY <2>1, <2>4, <2>5, <2>6
<1>11. SumFunctionOnSet(G, ServedOffers) = VolumeOf(Grey) * l
  <2> DEFINE K == Left(Grey)
  <2>1. K \subseteq ServedOffers /\ ServedOffers \cap K = K
    BY <1>7
  <2>2. Summands(offerAlloc, K) /\ \A j \in K : g[j] = offerAlloc[j] * l
    BY <1>5, <1>8, <2>1, FS_Subset DEF Summands
  <2>3. \A j \in ServedOffers : G[j] = IF j \in K THEN g[j] ELSE 0
    BY <1>6
  <2>4. VolumeOf(Grey) = SumFunctionOnSet(offerAlloc, K)
    BY DEF VolumeOf
  <2> HIDE DEF K
  <2>5. SumFunctionOnSet(G, ServedOffers) = SumFunctionOnSet(g, ServedOffers \cap K)
    BY <1>9, <2>3, SumFilter
  <2>6. SumFunctionOnSet(g, K) = SumFunctionOnSet(offerAlloc, K) * l
    BY <1>2, <2>2, SumTimes
  <2> QED
    BY <2>1, <2>4, <2>5, <2>6
<1> QED
  BY <1>4, <1>10, <1>11 DEF s, l, F, G

(* A seller is paid the clearing price, and the subsidy or the levy.       *)
LEMMA SellerPriceSplits ==
  ASSUME TypeOK, NEW j \in Offers
  PROVE  offerAlloc[j] * SellerPrice(j)
           = offerAlloc[j] * ClearingPrice + (IF Adjusted THEN Given(j) + Taken(j) ELSE 0)
<1> DEFINE a == offerAlloc[j]
           c == ClearingPrice
           s == SubsidyTotal
           l == - (Levy * Volume)
<1>1. a \in Int /\ c \in Int /\ s \in Int /\ l \in Int
  <2>1. \A x, y \in Int : x * y \in Int /\ - x \in Int
    OBVIOUS
  <2> QED
    <3>1. a \in Int
      BY DEF TypeOK
    <3>2. c \in Int /\ s \in Int /\ Levy \in Int /\ Volume \in Int
      BY PricesAre
    <3>3. l \in Int
      BY <2>1, <3>2
    <3> QED
      BY <3>1, <3>2, <3>3
<1>2. ~ (j \in Left(Green) /\ j \in Left(Grey))
  BY DEF Left, Green, Grey
<1>3. SellerPrice(j) = c + (IF Adjusted /\ j \in Left(Green) THEN s
                           ELSE IF Adjusted /\ j \in Left(Grey) THEN l ELSE 0)
  BY <1>2 DEF SellerPrice
<1>4. /\ Given(j) = IF j \in Left(Green) THEN a * s ELSE 0
      /\ Taken(j) = IF j \in Left(Grey) THEN a * l ELSE 0
  BY DEF Given, Taken
<1> HIDE DEF a, c, s, l
<1>5. \A x, y, z \in Int : x * (y + z) = x * y + x * z /\ x * y \in Int
  OBVIOUS
<1>6. CASE Adjusted /\ j \in Left(Green)
  BY <1>1, <1>2, <1>3, <1>4, <1>5, <1>6 DEF a, c
<1>7. CASE Adjusted /\ j \in Left(Grey)
  BY <1>1, <1>2, <1>3, <1>4, <1>5, <1>7 DEF a, c
<1>8. CASE Adjusted /\ j \notin Left(Green) /\ j \notin Left(Grey)
  <2>1. SellerPrice(j) = c /\ Given(j) = 0 /\ Taken(j) = 0
    BY <1>1, <1>3, <1>4, <1>8
  <2> QED
    BY <1>1, <1>5, <1>8, <2>1 DEF a, c
<1>9. CASE ~ Adjusted
  <2>1. SellerPrice(j) = c
    BY <1>1, <1>3, <1>9
  <2> QED
    BY <1>1, <1>5, <1>9, <2>1 DEF a, c
<1> QED
  BY <1>6, <1>7, <1>8, <1>9

(* What the pool pays the sellers in total.                                *)
LEMMA PoolExpense ==
  ASSUME IInv, at = "traded"
  PROVE  PaidFor(BidTrades(PoolOrder))
           = SumFunctionOnSet(offerAlloc, Offers) * ClearingPrice
               + (IF Adjusted THEN VolumeOf(Green) * SubsidyTotal + VolumeOf(Grey) * (- (Levy * Volume))
                  ELSE 0)
<1> DEFINE w == BidPaid
           c == ClearingPrice
           f == [j \in Offers |-> w[SellerLegs[j]]]
           A == SumFunctionOnSet([k \in Bids |-> w[BuyerLegs[k]]], ServedBids)
           B == SumFunctionOnSet(f, ServedOffers)
           p == [j \in ServedOffers |-> offerAlloc[j] * c]
           F == [j \in ServedOffers |-> Given(j)]
           G == [j \in ServedOffers |-> Taken(j)]
           FG == [j \in ServedOffers |-> F[j] + G[j]]
<1>1. TypeOK /\ trades \in Seq(AnyTrade) /\ trades = DirectTrades \o BuyerTrades \o SellerTrades
  BY TradesTyped DEF IInv
<1>2. Weighing(AnyTrade, w) /\ c \in Int
  BY <1>1, Parts, PricesAre
<1>3. \A a, b \in Int : a * b \in Int /\ a + b \in Int
  OBVIOUS
<1>4. /\ ServedOffers \subseteq Offers /\ Summands(offerAlloc, ServedOffers)
      /\ IsFiniteSet(ServedOffers)
  BY <1>1, ServedIsLeft DEF ServedOffers, Summands
<1>5. /\ \A j \in ServedOffers : p[j] = offerAlloc[j] * c /\ p[j] \in Int
      /\ \A j \in ServedOffers : F[j] \in Int /\ G[j] \in Int /\ FG[j] = F[j] + G[j] /\ FG[j] \in Int
  <2>1. \A j \in ServedOffers : p[j] = offerAlloc[j] * c /\ p[j] \in Int
    BY <1>2, <1>3, <1>4 DEF Summands
  <2>2. \A j \in ServedOffers : F[j] \in Int /\ G[j] \in Int
    BY <1>1, <1>4, GivenAndTaken
  <2> HIDE DEF F, G
  <2>3. \A j \in ServedOffers : FG[j] = F[j] + G[j] /\ FG[j] \in Int
    BY <1>3, <2>2
  <2> QED
    BY <2>1, <2>2, <2>3
<1>6. \A j \in ServedOffers : f[j] = p[j] + (IF Adjusted THEN FG[j] ELSE 0)
  <2> SUFFICES ASSUME NEW j \in ServedOffers
               PROVE  f[j] = p[j] + (IF Adjusted THEN FG[j] ELSE 0)
    OBVIOUS
  <2>1. f[j] = offerAlloc[j] * SellerPrice(j)
    BY <1>1, <1>4, Legs DEF BidPaid
  <2>2. offerAlloc[j] * SellerPrice(j)
          = offerAlloc[j] * ClearingPrice + (IF Adjusted THEN Given(j) + Taken(j) ELSE 0)
    BY <1>1, <1>4, SellerPriceSplits
  <2> QED
    BY <2>1, <2>2
<1>7. /\ SumFunctionOnSet(F, ServedOffers) = VolumeOf(Green) * SubsidyTotal
      /\ SumFunctionOnSet(G, ServedOffers) = VolumeOf(Grey) * (- (Levy * Volume))
  BY <1>1, GivenAndTaken
<1>8. A = 0
  <2>1. \A k \in Bids : w[BuyerLegs[k]] = 0
    BY <1>1, Legs, BothSides DEF BidPaid
  <2> HIDE DEF w
  <2> QED
    BY <2>1, NoneOfBids
<1>9. Weight(trades, w) = Weight(DirectTrades, w) + A + B
  BY <1>1, <1>2, WeightOfTrades
<1>10. Weight(DirectTrades, w) = 0 /\ PaidFor(BidTrades(PoolOrder)) = Weight(trades, w)
  BY <1>1, DirectWeights, PartsOfTrades
<1>11. /\ SumFunctionOnSet(offerAlloc, ServedOffers) = SumFunctionOnSet(offerAlloc, Offers)
       /\ SumFunctionOnSet(offerAlloc, ServedOffers) \in Int
  BY <1>1, <1>4, ServedIsLeft, SumInt
<1> HIDE DEF w, c, f, p, F, G, FG
<1>12. Summands(p, ServedOffers) /\ Summands(F, ServedOffers) /\ Summands(G, ServedOffers)
       /\ Summands(FG, ServedOffers)
  BY <1>4, <1>5 DEF Summands
<1>13. SumFunctionOnSet(p, ServedOffers) = SumFunctionOnSet(offerAlloc, Offers) * c
  <2>1. \A j \in ServedOffers : p[j] = offerAlloc[j] * c
    BY <1>5
  <2>2. SumFunctionOnSet(p, ServedOffers) = SumFunctionOnSet(offerAlloc, ServedOffers) * c
    <3>1. c \in Int /\ Summands(offerAlloc, ServedOffers)
      BY <1>2, <1>4
    <3> QED
      BY <2>1, <3>1, SumTimes
  <2> QED
    BY <1>11, <2>2
<1>14. SumFunctionOnSet(FG, ServedOffers)
         = VolumeOf(Green) * SubsidyTotal + VolumeOf(Grey) * (- (Levy * Volume))
  BY <1>5, <1>7, <1>12, SumPlus
<1>15. SumFunctionOnSet(p, ServedOffers) \in Int /\ SumFunctionOnSet(FG, ServedOffers) \in Int
  BY <1>12, SumInt
<1>16. CASE Adjusted
  <2>1. \A j \in ServedOffers : f[j] = p[j] + FG[j]
    BY <1>6, <1>16
  <2>2. B = SumFunctionOnSet(p, ServedOffers) + SumFunctionOnSet(FG, ServedOffers)
    BY <1>12, <2>1, SumPlus
  <2> HIDE DEF A, B
  <2> QED
    BY <1>8, <1>9, <1>10, <1>13, <1>14, <1>15, <1>16, <2>2 DEF c
<1>17. CASE ~ Adjusted
  <2>1. \A j \in ServedOffers : f[j] = p[j]
    BY <1>5, <1>6, <1>17
  <2>2. B = SumFunctionOnSet(p, ServedOffers)
    BY <1>12, <2>1, SumSame
  <2> HIDE DEF A, B
  <2> QED
    BY <1>8, <1>9, <1>10, <1>13, <1>15, <1>17, <2>2 DEF c
<1> QED
  BY <1>16, <1>17

LEMMA PoolFollows == IInv => PoolSettles
<1> SUFFICES ASSUME IInv, at = "traded"
             PROVE  PoolSettles
  BY DEF PoolSettles, Done
<1> DEFINE e == SumFunctionOnSet(bidAlloc, Bids)
           c == ClearingPrice
           s == SubsidyTotal
           l == Levy
           v == VolumeOf(Green)
           y == VolumeOf(Grey)
           income == PaidFor(OfferTrades(PoolOrder))
           expense == PaidFor(BidTrades(PoolOrder))
<1>1. TypeOK /\ e = SumFunctionOnSet(offerAlloc, Offers)
  BY DEF IInv, Balanced
<1>2. QuantityOf(OfferTrades(PoolOrder)) = QuantityOf(BidTrades(PoolOrder))
  BY <1>1, PoolEnergy
<1>3. e \in Int
  <2>1. Summands(bidAlloc, Bids)
    BY <1>1, BothSides DEF TypeOK, Summands
  <2> QED
    BY <2>1, SumInt
<1>4. /\ c \in Nat /\ s \in Nat /\ l \in Nat /\ v \in Nat /\ y \in Nat /\ Volume \in Nat
      /\ LevyRevenue = l * y /\ s <= LevyRevenue
  BY <1>1, PricesAre DEF LevyRevenue
<1>5. income = e * c /\ expense = e * c + (IF Adjusted THEN v * s + y * (- (l * Volume)) ELSE 0)
  BY <1>1, PoolIncome, PoolExpense
<1>6. Adjusted => Volume = v
  BY DEF Volume
<1>7. PoolSettles <=> /\ income - expense = IF Adjusted THEN (LevyRevenue - s) * Volume ELSE 0
                      /\ income - expense >= 0
  BY <1>2 DEF PoolSettles, Done
<1> HIDE DEF e, c, s, l, v, y, income, expense
<1>8. e * c \in Int
  BY <1>3, <1>4
<1>9. CASE ~ Adjusted
  BY <1>5, <1>7, <1>8, <1>9
<1>10. CASE Adjusted
  <2>1. v * s \in Int /\ y * (- (l * v)) \in Int
    BY <1>4
  <2>2. income - expense = - (v * s) - y * (- (l * v))
    BY <1>5, <1>6, <1>8, <1>10, <2>1
  <2>3. - (v * s) - y * (- (l * v)) = (l * y - s) * v
    BY <1>4
  <2>4. PICK d \in Nat : l * y = s + d
    <3>1. l * y \in Nat
      BY <1>4
    <3>2. l * y - s \in Nat /\ l * y = s + (l * y - s)
      BY <1>4, <3>1
    <3> QED
      BY <3>2
  <2>5. (l * y - s) * v = d * v /\ d * v >= 0
    BY <1>4, <2>4
  <2> QED
    BY <1>4, <1>6, <1>7, <1>10, <2>2, <2>3, <2>5
<1> QED
  BY <1>9, <1>10

(* The pool hands out the energy it takes, and keeps no more than what the *)
(* levy raises beyond the subsidy, which is never negative                 *)
(* (preferences.py:131, compute_seller_price_adjustments).                 *)
THEOREM AllocationPoolSettles == Spec => []PoolSettles
<1>1. IInv => PoolSettles
  BY PoolFollows
<1> QED
  BY <1>1, AllocationInvariant, PTL

-----------------------------------------------------------------------------
(* Every trade is of some energy, and has a bid or an offer in it.         *)
LEMMA TradesArePositive ==
  ASSUME IInv, at = "traded", NEW k \in 1 .. Len(trades)
  PROVE  trades[k].quantity > 0
<1>1. /\ trades = DirectTrades \o BuyerTrades \o SellerTrades
      /\ DirectTrades \in Seq(AnyTrade) /\ BuyerTrades \in Seq(AnyTrade)
      /\ SellerTrades \in Seq(AnyTrade)
      /\ BuyerLegs \in Seq(AnyTrade) /\ SellerLegs \in Seq(AnyTrade)
  BY TradesTyped, TradesAre DEF IInv
<1>2. TypeOK
  BY DEF IInv
<1>3. ASSUME NEW d \in 1 .. Len(DirectTrades)
      PROVE  DirectTrades[d].quantity > 0
  <2>1. DirectTrades[d].quantity = AllAttached[d].energy /\ Len(DirectTrades) = Len(AllAttached)
    BY <1>2, TradesAre DEF Trade
  <2>2. AllAttached[d] \in AnyPair
    BY <1>2, <2>1, AttachedAre
  <2> QED
    BY <2>1, <2>2 DEF AnyPair
<1>4. ASSUME NEW d \in 1 .. Len(BuyerTrades)
      PROVE  BuyerTrades[d].quantity > 0
  <2>1. /\ BuyerTrades = Subsequence(BuyerLegs, ServedBids)
        /\ ServedBids \in SUBSET (1 .. Len(BuyerLegs))
    BY <1>1 DEF BuyerTrades, BuyerLegs, ServedBids
  <2>2. PICK i \in ServedBids : BuyerTrades[d] = BuyerLegs[i]
    BY <1>1, <2>1, SubsequenceElements
  <2> QED
    BY <1>2, <2>2, Legs DEF ServedBids
<1>5. ASSUME NEW d \in 1 .. Len(SellerTrades)
      PROVE  SellerTrades[d].quantity > 0
  <2>1. /\ SellerTrades = Subsequence(SellerLegs, ServedOffers)
        /\ ServedOffers \in SUBSET (1 .. Len(SellerLegs))
    BY <1>1 DEF SellerTrades, SellerLegs, ServedOffers
  <2>2. PICK j \in ServedOffers : SellerTrades[d] = SellerLegs[j]
    BY <1>1, <2>1, SubsequenceElements
  <2> QED
    BY <1>2, <2>2, Legs DEF ServedOffers
<1> DEFINE a == DirectTrades
           b == BuyerTrades
           c == SellerTrades
<1> HIDE DEF a, b, c
<1>6. a \in Seq(AnyTrade) /\ b \in Seq(AnyTrade) /\ c \in Seq(AnyTrade) /\ trades = a \o b \o c
  BY <1>1 DEF a, b, c
<1>7. \/ k \in 1 .. Len(a) /\ trades[k] = a[k]
      \/ k - Len(a) \in 1 .. Len(b) /\ trades[k] = b[k - Len(a)]
      \/ k - (Len(a) + Len(b)) \in 1 .. Len(c) /\ trades[k] = c[k - (Len(a) + Len(b))]
  BY <1>6
<1> QED
  BY <1>3, <1>4, <1>5, <1>7 DEF a, b, c

-----------------------------------------------------------------------------
(* The dry run reads the orders and the trades of a cleared market.        *)
LEMMA SomeEnergy ==
  ASSUME TypeOK
  PROVE  Supply \in Nat \ {0} /\ Demand \in Nat \ {0} /\ Volume \in Nat \ {0}
<1> DEFINE f == [i \in Bids |-> bids[i].quantity]
           g == [j \in Offers |-> offers[j].quantity]
<1>1. \A i \in Bids : f[i] \in Nat \ {0}
  BY DEF TypeOK, AnyBid
<1>2. \A j \in Offers : g[j] \in Nat \ {0}
  BY DEF TypeOK, AnyOffer
<1>3. Demand = SumFunctionOnSet(f, Bids) /\ Supply = SumFunctionOnSet(g, Offers)
  BY DEF Demand, Supply, SumFunction
<1>4. 1 \in Bids /\ 1 \in Offers
  OBVIOUS
<1> HIDE DEF f, g
<1>5. Demand \in Nat /\ f[1] <= Demand
  BY <1>1, <1>3, <1>4, BothSides, SumNat
<1>6. Supply \in Nat /\ g[1] <= Supply
  BY <1>2, <1>3, <1>4, BothSides, SumNat
<1>7. Volume \in Nat \ {0}
  BY PricesAre DEF Volume, Adjusted
<1> QED
  BY <1>1, <1>2, <1>4, <1>5, <1>6, <1>7

Book == BookFor(units, limits)
Grain == units * Supply * Demand

LEMMA TimesPositive == \A a, b \in Nat \ {0} : a * b \in Nat \ {0}
  OBVIOUS

LEMMA OrdersOfBook ==
  /\ \A i \in Bids : /\ BidOrder(i) = <<"bid", i>> /\ <<"bid", i>> \in Orders
                     /\ OrderOf(<<"bid", i>>) = bids[i]
  /\ \A j \in Offers : /\ OfferOrder(j) = <<"offer", j>> /\ <<"offer", j>> \in Orders
                       /\ OrderOf(<<"offer", j>>) = offers[j]
  /\ \A o \in Orders : \/ \E i \in Bids : o = <<"bid", i>>
                       \/ \E j \in Offers : o = <<"offer", j>>
  /\ BidOrder(PoolOrder) = Pool /\ OfferOrder(PoolOrder) = Pool
<1>1. Orders = BidOrders \cup OfferOrders
  BY PlanAssumption
<1> QED
  BY <1>1, BothSides DEF BidOrders, OfferOrders, BidOrder, OfferOrder, OrderOf

LEMMA BooksAre ==
  ASSUME TypeOK, NEW scale \in Scales, NEW asked \in Limits
  PROVE  IsBook(BookFor(scale, asked))
<1> DEFINE book == BookFor(scale, asked)
<1>1. Supply \in Nat \ {0} /\ Demand \in Nat \ {0} /\ scale \in Nat \ {0}
  BY SomeEnergy, PlanAssumption
<1>2. asked.bid \in Nat /\ asked.offer \in Nat /\ asked.preferred \in Nat
  BY PlanAssumption
<1>3. book.grain \in Nat \ {0}
  <2>1. book.grain = scale * Supply * Demand
    BY DEF BookFor
  <2> QED
    BY <1>1, <2>1, TimesPositive
<1>4. \A o \in Orders : OrderOf(o).quantity \in Nat \ {0}
  <2>1. /\ \A i \in Bids : bids[i].quantity \in Nat \ {0}
        /\ \A j \in Offers : offers[j].quantity \in Nat \ {0}
    BY DEF TypeOK, AnyBid, AnyOffer
  <2> SUFFICES ASSUME NEW o \in Orders
               PROVE  OrderOf(o).quantity \in Nat \ {0}
    OBVIOUS
  <2>2. CASE \E i \in Bids : o = <<"bid", i>>
    BY <2>1, <2>2, OrdersOfBook
  <2>3. CASE \E j \in Offers : o = <<"offer", j>>
    BY <2>1, <2>3, OrdersOfBook
  <2> QED
    BY <2>2, <2>3, OrdersOfBook
<1>5. book.energy \in [Orders -> Nat \ {0}]
  <2>1. book.energy = [o \in Orders |-> OrderOf(o).quantity * Supply * Demand]
    BY DEF BookFor
  <2>2. \A o \in Orders : OrderOf(o).quantity * Supply * Demand \in Nat \ {0}
    BY <1>1, <1>4, TimesPositive
  <2> QED
    BY <2>1, <2>2
<1>6. \A o \in Orders : {book.terms[o].rate, book.terms[o].preferred} \subseteq Nat
  BY <1>2 DEF BookFor
<1>7. book.lower \in Nat /\ book.upper \in Nat
  <2>1. KUpper \in Nat /\ KLower \in Nat
    BY PlanAssumption
  <2> QED
    BY <2>1 DEF BookFor
<1> HIDE DEF book
<1>8. IsBook(book)
  BY <1>3, <1>5, <1>6, <1>7 DEF IsBook
<1> QED
  BY <1>8 DEF book

LEMMA WireTradesAre ==
  ASSUME IInv, at = "traded"
  PROVE  /\ WireTrades \in Seq(Trades) /\ Len(WireTrades) = Len(trades) /\ Len(trades) \in Nat
         /\ DOMAIN WireTrades = 1 .. Len(trades) /\ DOMAIN trades = 1 .. Len(trades)
         /\ \A k \in 1 .. Len(trades) :
              WireTrades[k] = WireTrade(trades[k]) /\ trades[k] \in AnyTrade
<1>1. trades \in Seq(AnyTrade)
  BY TradesTyped
<1>2. /\ DOMAIN trades = 1 .. Len(trades) /\ Len(trades) \in Nat
      /\ \A k \in 1 .. Len(trades) : trades[k] \in AnyTrade
  BY <1>1
<1>3. ASSUME NEW k \in 1 .. Len(trades)
      PROVE  WireTrade(trades[k]) \in Trades
  <2> DEFINE trade == trades[k]
  <2>1. /\ trade.bid \in Bids \cup {PoolOrder} /\ trade.offer \in Offers \cup {PoolOrder}
        /\ trade.quantity \in Nat \ {0} /\ trade.price \in Int
    BY <1>2, TradesArePositive DEF AnyTrade
  <2> HIDE DEF trade
  <2>2. BidOrder(trade.bid) \in Orders \cup {Pool} /\ OfferOrder(trade.offer) \in Orders \cup {Pool}
    BY <2>1, OrdersOfBook
  <2>3. Scale(trade.price, Volume) \in Int
    BY <2>1, SomeEnergy, ScaleInt DEF IInv
  <2>4. Market \in Markets
    BY PlanAssumption
  <2>5. WireTrade(trade) \in Trades
    BY <2>1, <2>2, <2>3, <2>4 DEF WireTrade, Trades
  <2> QED
    BY <2>5 DEF trade
<1>4. WireTrades = [k \in 1 .. Len(trades) |-> WireTrade(trades[k])]
  BY <1>2 DEF WireTrades
<1> QED
  BY <1>2, <1>3, <1>4

(* What the market is registered with when it is submitted.                *)
Registry == Registered(Participants(Book) \cup PoolSide(Book))
TradedUnits == [m \in {Market} |-> Scale(TradedEnergy, Book.grain)]

(* The plan is what the builder makes of the trades, and the outcome what  *)
(* the dry run and the contract say of it.                                 *)
Planned ==
  /\ outcome \in {"open", "planned", "held back", "settled", "reverted"}
  /\ outcome # "open" => /\ at = "traded"
                         /\ units \in Scales /\ limits \in Limits
                         /\ plan = AllMatches(Book, WireTrades)

Judged ==
  /\ outcome = "held back" => ~ SettlementValid(Book, plan, TradedEnergy)
  /\ outcome \in {"planned", "settled", "reverted"} => SettlementValid(Book, plan, TradedEnergy)
  /\ outcome = "settled" => SettleAccepted(Registry, Tuples(Book, plan), TradedUnits)
  /\ outcome = "reverted" => ~ SettleAccepted(Registry, Tuples(Book, plan), TradedUnits)

PlanInv == IInv /\ Planned /\ Judged

LEMMA PlanInitInv == PlanInit => PlanInv
<1> SUFFICES ASSUME PlanInit
             PROVE  PlanInv
  OBVIOUS
<1>1. IInv
  BY InitIInv DEF PlanInit
<1>2. outcome = "open"
  BY DEF PlanInit
<1> QED
  BY <1>1, <1>2 DEF PlanInv, Planned, Judged

LEMMA NextIInv == IInv /\ [Next]_vars => IInv'
<1> SUFFICES ASSUME IInv, [Next]_vars
             PROVE  IInv'
  OBVIOUS
<1>1. CASE Allocate
  BY <1>1, AllocateKeeps
<1>2. CASE \E i \in Bids, j \in Offers : MatchPair(i, j) \/ SkipPair(i, j)
  BY <1>2, MatchPairKeeps, SkipPairKeeps
<1>3. CASE GenerateTrades
  BY <1>3, GenerateTradesKeeps
<1>4. CASE UNCHANGED vars
  BY <1>4, StutterKeeps
<1> QED
  BY <1>1, <1>2, <1>3, <1>4 DEF Next

(* The step reads the market, and changes nothing of it.                   *)
LEMMA MarketStays ==
  ASSUME UNCHANGED vars
  PROVE  /\ WireTrades' = WireTrades /\ TradedEnergy' = TradedEnergy
         /\ Book' = BookFor(units', limits')
<1>1. Supply' = Supply /\ Demand' = Demand /\ Traded' = Traded
  BY DEF vars, Supply, Demand, Traded, Lesser
<1>2. \A o : OrderOf(o)' = OrderOf(o)
  BY DEF vars, OrderOf
<1>3. Volume' = Volume
  BY DEF vars, Volume, VolumeOf, Left, Adjusted
<1>4. WireTrades' = WireTrades
  <2>1. \A trade : WireTrade(trade)' = WireTrade(trade)
    BY <1>3 DEF WireTrade
  <2>2. trades' = trades
    BY DEF vars
  <2> QED
    BY <2>1, <2>2 DEF WireTrades
<1>5. TradedEnergy' = TradedEnergy
  BY <1>1 DEF TradedEnergy
<1>6. Book' = BookFor(units', limits')
  BY <1>1, <1>2 DEF Book, BookFor
<1> QED
  BY <1>4, <1>5, <1>6

LEMMA PlanStays ==
  ASSUME PlanInv, UNCHANGED <<vars, limits, units, plan>>
  PROVE  /\ WireTrades' = WireTrades /\ TradedEnergy' = TradedEnergy /\ Book' = Book
         /\ Registry' = Registry /\ TradedUnits' = TradedUnits
<1>1. WireTrades' = WireTrades /\ TradedEnergy' = TradedEnergy /\ Book' = Book
  BY MarketStays DEF Book
<1>2. Participants(Book)' = Participants(Book)
  BY <1>1 DEF Participants, Submitted, OnChain, TermsOf
<1>3. PoolSide(Book)' = PoolSide(Book)
  BY <1>1 DEF PoolSide, Submitted, OnChain, TermsOf
<1>4. Registry' = Registry
  BY <1>2, <1>3 DEF Registry
<1>5. TradedUnits' = TradedUnits
  BY <1>1 DEF TradedUnits
<1> QED
  BY <1>1, <1>4, <1>5

LEMMA ClearKeepsPlan ==
  ASSUME PlanInv, Clear
  PROVE  PlanInv'
<1>1. IInv'
  BY NextIInv DEF PlanInv, Clear
<1>2. at # "traded"
  BY DEF Clear, Next, Allocate, MatchPair, SkipPair, GenerateTrades
<1>3. outcome = "open" /\ outcome' = "open"
  BY <1>2 DEF PlanInv, Planned, Clear, planVars
<1> QED
  BY <1>1, <1>3 DEF PlanInv, Planned, Judged

LEMMA PlanMarketKeepsPlan ==
  ASSUME PlanInv, PlanMarket
  PROVE  PlanInv'
<1>1. UNCHANGED vars /\ at = "traded"
  BY DEF PlanMarket
<1>2. IInv'
  BY <1>1, StutterKeeps DEF PlanInv
<1>3. PICK asked \in Limits, scale \in Scales :
        /\ limits' = asked /\ units' = scale
        /\ plan' = AllMatches(BookFor(scale, asked), WireTrades)
        /\ outcome' = IF SettlementValid(BookFor(scale, asked),
                                         AllMatches(BookFor(scale, asked), WireTrades), TradedEnergy)
                      THEN "planned" ELSE "held back"
  BY DEF PlanMarket
<1>4. Book' = BookFor(scale, asked) /\ WireTrades' = WireTrades /\ TradedEnergy' = TradedEnergy
  BY <1>1, <1>3, MarketStays
<1>5. AllMatches(Book, WireTrades)' = AllMatches(BookFor(scale, asked), WireTrades)
  BY <1>4 DEF AllMatches, NothingBuilt, AddTrade, Side, Moved, Remaining
<1>6. SettlementValid(Book, plan, TradedEnergy)'
        = SettlementValid(BookFor(scale, asked), plan', TradedEnergy)
  BY <1>4 DEF SettlementValid, MatchValid, Selected, PriceAgrees, BidTerms, OfferTerms, TermsOf
<1>7. at' = "traded"
  BY <1>1 DEF vars
<1> QED
  BY <1>2, <1>3, <1>5, <1>6, <1>7 DEF PlanInv, Planned, Judged

LEMMA SubmitMarketKeepsPlan ==
  ASSUME PlanInv, SubmitMarket
  PROVE  PlanInv'
<1>1. UNCHANGED <<vars, limits, units, plan>> /\ UNCHANGED vars
  BY DEF SubmitMarket
<1>2. IInv'
  BY <1>1, StutterKeeps DEF PlanInv
<1>3. /\ WireTrades' = WireTrades /\ TradedEnergy' = TradedEnergy /\ Book' = Book
      /\ Registry' = Registry /\ TradedUnits' = TradedUnits
  BY <1>1, PlanStays
<1>4. /\ outcome = "planned"
      /\ outcome' = IF SettleAccepted(Registry, Tuples(Book, plan), TradedUnits)
                    THEN "settled" ELSE "reverted"
  BY DEF SubmitMarket, Registry, TradedUnits, Book
<1>5. AllMatches(Book, WireTrades)' = AllMatches(Book, WireTrades)
  BY <1>3
<1>6. SettlementValid(Book, plan, TradedEnergy)' = SettlementValid(Book, plan, TradedEnergy)
  BY <1>1, <1>3
<1>7. SettleAccepted(Registry, Tuples(Book, plan), TradedUnits)'
        = SettleAccepted(Registry, Tuples(Book, plan), TradedUnits)
  BY <1>1, <1>3
<1>8. at' = at /\ units' = units /\ limits' = limits /\ plan' = plan
  BY <1>1 DEF vars
<1> QED
  BY <1>2, <1>4, <1>5, <1>6, <1>7, <1>8 DEF PlanInv, Planned, Judged

LEMMA PlanInvariant == PlanSpec => []PlanInv
<1>1. ASSUME PlanInv, [PlanNext]_allVars
      PROVE  PlanInv'
  <2>1. CASE Clear
    BY <1>1, <2>1, ClearKeepsPlan
  <2>2. CASE PlanMarket
    BY <1>1, <2>2, PlanMarketKeepsPlan
  <2>3. CASE SubmitMarket
    BY <1>1, <2>3, SubmitMarketKeepsPlan
  <2>4. CASE UNCHANGED allVars
    <3>1. UNCHANGED <<vars, limits, units, plan>> /\ UNCHANGED vars /\ outcome' = outcome
      BY <2>4 DEF allVars, planVars
    <3>2. IInv'
      BY <1>1, <3>1, StutterKeeps DEF PlanInv
    <3>3. /\ WireTrades' = WireTrades /\ TradedEnergy' = TradedEnergy /\ Book' = Book
          /\ Registry' = Registry /\ TradedUnits' = TradedUnits
      BY <1>1, <3>1, PlanStays
    <3>4. at' = at /\ units' = units /\ limits' = limits /\ plan' = plan
      BY <3>1 DEF vars
    <3>5. Planned'
      BY <1>1, <3>1, <3>3, <3>4 DEF PlanInv, Planned
    <3>6. Judged'
      BY <1>1, <3>1, <3>3, <3>4 DEF PlanInv, Judged
    <3> QED
      BY <3>2, <3>5, <3>6 DEF PlanInv
  <2> QED
    BY <1>1, <2>1, <2>2, <2>3, <2>4 DEF PlanNext
<1> QED
  BY PlanInitInv, <1>1, PTL DEF PlanSpec

(* What a plan is made from.                                               *)
LEMMA PlanReads ==
  ASSUME PlanInv, outcome # "open"
  PROVE  /\ IInv /\ at = "traded" /\ IsBook(Book) /\ WireTrades \in Seq(Trades)
         /\ plan = AllMatches(Book, WireTrades)
         /\ Book.grain = Grain /\ Grain \in Nat \ {0}
<1>1. /\ IInv /\ at = "traded" /\ units \in Scales /\ limits \in Limits
      /\ plan = AllMatches(Book, WireTrades)
  BY DEF PlanInv, Planned
<1>2. IsBook(Book) /\ WireTrades \in Seq(Trades)
  BY <1>1, BooksAre, WireTradesAre DEF Book, IInv
<1>3. Book.grain = Grain
  BY DEF Book, BookFor, Grain
<1> QED
  BY <1>1, <1>2, <1>3 DEF IsBook

(* Whose orders a trade is about.                                          *)
LEMMA WireSides ==
  ASSUME IInv, at = "traded", NEW k \in 1 .. Len(trades)
  PROVE  /\ WireTrades[k].bid = BidOrder(trades[k].bid)
         /\ WireTrades[k].offer = OfferOrder(trades[k].offer)
         /\ WireTrades[k].quantity = trades[k].quantity /\ WireTrades[k].market = Market
         /\ WireTrades[k].price = Scale(trades[k].price, Volume)
         /\ trades[k].bid \in Bids \cup {PoolOrder} /\ trades[k].offer \in Offers \cup {PoolOrder}
         /\ trades[k].quantity \in Nat \ {0}
         /\ \A i \in Bids : <<"bid", i>> \in {WireTrades[k].bid, WireTrades[k].offer} <=> trades[k].bid = i
         /\ \A j \in Offers :
              <<"offer", j>> \in {WireTrades[k].bid, WireTrades[k].offer} <=> trades[k].offer = j
         /\ WireTrades[k].bid = Pool <=> trades[k].bid = PoolOrder
         /\ WireTrades[k].offer = Pool <=> trades[k].offer = PoolOrder
         /\ WireTrades[k].bid = WireTrades[k].offer => WireTrades[k].bid = Pool
<1> DEFINE b == trades[k].bid
           o == trades[k].offer
<1>1. /\ WireTrades[k].bid = BidOrder(b) /\ WireTrades[k].offer = OfferOrder(o)
      /\ WireTrades[k].quantity = trades[k].quantity /\ WireTrades[k].market = Market
      /\ WireTrades[k].price = Scale(trades[k].price, Volume)
  BY WireTradesAre DEF WireTrade
<1>2. b \in Bids \cup {PoolOrder} /\ o \in Offers \cup {PoolOrder} /\ trades[k].quantity \in Nat \ {0}
  BY WireTradesAre, TradesArePositive DEF AnyTrade
<1> HIDE DEF b, o
<1>3. /\ b = PoolOrder \/ (b \in Bids /\ BidOrder(b) = <<"bid", b>> /\ BidOrder(b) # Pool)
      /\ o = PoolOrder \/ (o \in Offers /\ OfferOrder(o) = <<"offer", o>> /\ OfferOrder(o) # Pool)
  BY <1>2, OrdersOfBook, MatchBuilderAssumption
<1>4. /\ \A i \in Bids : <<"bid", i>> # Pool /\ i # PoolOrder
      /\ \A j \in Offers : <<"offer", j>> # Pool /\ j # PoolOrder
  BY OrdersOfBook, MatchBuilderAssumption, BothSides
<1>5. BidOrder(PoolOrder) = Pool /\ OfferOrder(PoolOrder) = Pool
  BY OrdersOfBook
<1>6. /\ \A i, j : <<"bid", i>> # <<"offer", j>>
      /\ \A i, j : <<"bid", i>> = <<"bid", j>> => i = j
      /\ \A i, j : <<"offer", i>> = <<"offer", j>> => i = j
  OBVIOUS
<1>7. \A i \in Bids : <<"bid", i>> \in {BidOrder(b), OfferOrder(o)} <=> b = i
  BY <1>3, <1>4, <1>5, <1>6
<1>8. \A j \in Offers : <<"offer", j>> \in {BidOrder(b), OfferOrder(o)} <=> o = j
  BY <1>3, <1>4, <1>5, <1>6
<1>9. /\ BidOrder(b) = Pool <=> b = PoolOrder
      /\ OfferOrder(o) = Pool <=> o = PoolOrder
      /\ BidOrder(b) = OfferOrder(o) => BidOrder(b) = Pool
  BY <1>3, <1>4, <1>5, <1>6
<1> QED
  BY <1>1, <1>2, <1>7, <1>8, <1>9 DEF b, o

(* Units of the chain: of each trade, and of each order.                   *)
LEMMA UnitsAre ==
  ASSUME PlanInv, outcome # "open"
  PROVE  /\ \A k \in 1 .. Len(trades) :
              /\ UnitsOf(Book, WireTrades)[k] = InUnits(trades[k].quantity)
              /\ InUnits(trades[k].quantity) \in Nat
         /\ \A i \in Bids : Capacity(Book, <<"bid", i>>) = InUnits(bids[i].quantity * Supply * Demand)
         /\ \A j \in Offers :
              Capacity(Book, <<"offer", j>>) = InUnits(offers[j].quantity * Supply * Demand)
<1>1. /\ IInv /\ at = "traded" /\ Book.grain = Grain /\ Grain \in Nat \ {0}
  BY PlanReads
<1>2. \A q : InUnits(q) = Scale(q, Grain)
  BY DEF InUnits, Grain
<1>3. ASSUME NEW k \in 1 .. Len(trades)
      PROVE  /\ UnitsOf(Book, WireTrades)[k] = InUnits(trades[k].quantity)
             /\ InUnits(trades[k].quantity) \in Nat
  <2>1. WireTrades[k].quantity = trades[k].quantity /\ trades[k].quantity \in Nat
    BY <1>1, WireSides
  <2>2. Len(WireTrades) = Len(trades)
    BY <1>1, WireTradesAre
  <2>3. UnitsOf(Book, WireTrades)[k] = Scale(WireTrades[k].quantity, Grain)
    BY <1>1, <2>2 DEF UnitsOf
  <2> QED
    BY <1>1, <1>2, <2>1, <2>3, ScaleNat
<1>4. \A o \in Orders : Capacity(Book, o) = InUnits(OrderOf(o).quantity * Supply * Demand)
  BY <1>1, <1>2 DEF Capacity, Book, BookFor
<1> QED
  BY <1>3, <1>4, OrdersOfBook

(* How the legs of an order are counted by the builder and by the plan.    *)
LEMMA LegsAre ==
  ASSUME IInv, at = "traded", NEW k \in 0 .. Len(trades)
  PROVE  /\ \A i \in Bids : LegsTo(WireTrades, <<"bid", i>>, k) = {l \in BidTrades(i) : l <= k}
         /\ \A j \in Offers : LegsTo(WireTrades, <<"offer", j>>, k) = {l \in OfferTrades(j) : l <= k}
<1>1. DOMAIN trades = 1 .. Len(trades) /\ Len(trades) \in Nat
  BY WireTradesAre
<1>2. \A l : l \in 1 .. k <=> l \in 1 .. Len(trades) /\ l <= k
  BY <1>1
<1>3. ASSUME NEW i \in Bids
      PROVE  LegsTo(WireTrades, <<"bid", i>>, k) = {l \in BidTrades(i) : l <= k}
  <2>1. \A l \in 1 .. Len(trades) :
          <<"bid", i>> \in {WireTrades[l].bid, WireTrades[l].offer} <=> trades[l].bid = i
    BY WireSides
  <2> QED
    BY <1>1, <1>2, <2>1 DEF LegsTo, BidTrades
<1>4. ASSUME NEW j \in Offers
      PROVE  LegsTo(WireTrades, <<"offer", j>>, k) = {l \in OfferTrades(j) : l <= k}
  <2>1. \A l \in 1 .. Len(trades) :
          <<"offer", j>> \in {WireTrades[l].bid, WireTrades[l].offer} <=> trades[l].offer = j
    BY WireSides
  <2> QED
    BY <1>1, <1>2, <2>1 DEF LegsTo, OfferTrades
<1> QED
  BY <1>3, <1>4

(* An order that rounding does not use up before its last trade is never   *)
(* sold out.                                                               *)
LEMMA NotSoldOut ==
  ASSUME PlanInv, outcome # "open", NEW o \in Orders, NEW T,
         LegsTo(WireTrades, o, Len(trades)) = T,
         \A k \in 1 .. Len(trades) : LegsTo(WireTrades, o, k - 1) = {l \in T : l < k},
         NEW quantity, Capacity(Book, o) = InUnits(quantity * Supply * Demand),
         ~ SoldOut(T, quantity)
  PROVE  NeverSoldOut(Book, WireTrades, o)
<1>1. /\ IInv /\ at = "traded" /\ IsBook(Book) /\ WireTrades \in Seq(Trades)
      /\ Len(WireTrades) = Len(trades) /\ Len(trades) \in Nat
  BY PlanReads, WireTradesAre
<1>2. T \in SUBSET (1 .. Len(trades)) /\ \A l \in T : o \in {WireTrades[l].bid, WireTrades[l].offer}
  BY DEF LegsTo
<1>3. ASSUME NEW k \in T
      PROVE  SoldTo(Book, WireTrades, o, k - 1) < Capacity(Book, o)
  <2> DEFINE f == [l \in T |-> InUnits(trades[l].quantity)]
             U == {l \in T : l < k}
             u == UnitsOf(Book, WireTrades)
  <2>1. k \in 1 .. Len(trades) /\ k - 1 \in 0 .. Len(trades)
    BY <1>1, <1>2
  <2>2. SoldTo(Book, WireTrades, o, k - 1) = SumFunctionOnSet(u, U)
    BY <2>1 DEF SoldTo
  <2>3. IsFiniteSet(U)
    <3>1. IsFiniteSet(1 .. Len(trades)) /\ U \in SUBSET (1 .. Len(trades))
      BY <1>1, <1>2, FS_Interval
    <3> QED
      BY <3>1, FS_Subset
  <2>4. \A l \in U : u[l] = f[l] /\ u[l] \in Int
    BY <1>2, UnitsAre
  <2> HIDE DEF u
  <2>5. Summands(u, U)
    BY <2>3, <2>4 DEF Summands
  <2>6. SumFunctionOnSet(f, U) = SumFunctionOnSet(u, U)
    <3> HIDE DEF f, U
    <3> QED
      BY <2>4, <2>5, SumSame
  <2>7. ~ (SumFunctionOnSet(f, U) >= Capacity(Book, o))
    BY DEF SoldOut
  <2>8. SumFunctionOnSet(f, U) \in Int
    <3> HIDE DEF f, U
    <3> QED
      BY <2>5, <2>6, SumInt
  <2>9. Capacity(Book, o) \in Int
    <3>1. Book.energy[o] \in Nat /\ Book.grain \in Nat \ {0}
      BY <1>1 DEF IsBook
    <3>2. Scale(Book.energy[o], Book.grain) \in Nat
      BY <3>1, ScaleNat
    <3> QED
      BY <3>2 DEF Capacity
  <2> HIDE DEF f, U
  <2> QED
    BY <2>2, <2>6, <2>7, <2>8, <2>9
<1>4. \A l \in T : WireTrades[l].bid # WireTrades[l].offer
  BY <1>1, <1>2, WireSides, MatchBuilderAssumption
<1> QED
  BY <1>1, <1>3, <1>4 DEF NeverSoldOut

LEMMA NoneUsedUp ==
  ASSUME PlanInv, outcome # "open", ~ UsedUpOrder
  PROVE  \A o \in Orders : NeverSoldOut(Book, WireTrades, o)
<1>1. IInv /\ at = "traded" /\ DOMAIN trades = 1 .. Len(trades) /\ Len(trades) \in Nat
  BY PlanReads, WireTradesAre
<1>2. \A k \in 1 .. Len(trades) :
        k - 1 \in 0 .. Len(trades) /\ \A l \in 1 .. Len(trades) : l <= k - 1 <=> l < k
  BY <1>1
<1>3. Len(trades) \in 0 .. Len(trades) /\ \A l \in 1 .. Len(trades) : l <= Len(trades)
  BY <1>1
<1>4. ASSUME NEW i \in Bids
      PROVE  NeverSoldOut(Book, WireTrades, <<"bid", i>>)
  <2> DEFINE T == BidTrades(i)
             o == <<"bid", i>>
  <2>1. T \in SUBSET (1 .. Len(trades))
    BY <1>1 DEF BidTrades
  <2>2. LegsTo(WireTrades, o, Len(trades)) = T
    <3>1. LegsTo(WireTrades, o, Len(trades)) = {l \in T : l <= Len(trades)}
      BY <1>1, <1>3, LegsAre
    <3> HIDE DEF T, o
    <3> QED
      BY <1>3, <2>1, <3>1
  <2>3. \A k \in 1 .. Len(trades) : LegsTo(WireTrades, o, k - 1) = {l \in T : l < k}
    BY <1>1, <1>2, <2>1, LegsAre
  <2>4. Capacity(Book, o) = InUnits(bids[i].quantity * Supply * Demand) /\ o \in Orders
    BY UnitsAre, OrdersOfBook
  <2>5. ~ SoldOut(T, bids[i].quantity)
    BY DEF UsedUpOrder, BidTrades
  <2> HIDE DEF T, o
  <2>6. NeverSoldOut(Book, WireTrades, o)
    BY <2>2, <2>3, <2>4, <2>5, NotSoldOut
  <2> QED
    BY <2>6 DEF o
<1>5. ASSUME NEW j \in Offers
      PROVE  NeverSoldOut(Book, WireTrades, <<"offer", j>>)
  <2> DEFINE T == OfferTrades(j)
             o == <<"offer", j>>
  <2>1. T \in SUBSET (1 .. Len(trades))
    BY <1>1 DEF OfferTrades
  <2>2. LegsTo(WireTrades, o, Len(trades)) = T
    <3>1. LegsTo(WireTrades, o, Len(trades)) = {l \in T : l <= Len(trades)}
      BY <1>1, <1>3, LegsAre
    <3> HIDE DEF T, o
    <3> QED
      BY <1>3, <2>1, <3>1
  <2>3. \A k \in 1 .. Len(trades) : LegsTo(WireTrades, o, k - 1) = {l \in T : l < k}
    BY <1>1, <1>2, <2>1, LegsAre
  <2>4. Capacity(Book, o) = InUnits(offers[j].quantity * Supply * Demand) /\ o \in Orders
    BY UnitsAre, OrdersOfBook
  <2>5. ~ SoldOut(T, offers[j].quantity)
    BY DEF UsedUpOrder, OfferTrades
  <2> HIDE DEF T, o
  <2>6. NeverSoldOut(Book, WireTrades, o)
    BY <2>2, <2>3, <2>4, <2>5, NotSoldOut
  <2> QED
    BY <2>6 DEF o
<1> QED
  BY <1>4, <1>5, OrdersOfBook

(* A valid plan of orders that are never sold out is executed.             *)
LEMMA PlanAccepted ==
  ASSUME PlanInv, outcome # "open", SettlementValid(Book, plan, TradedEnergy),
         \A o \in Orders : NeverSoldOut(Book, WireTrades, o)
  PROVE  SettleAccepted(Registry, Tuples(Book, plan), TradedUnits)
<1>1. /\ IInv /\ at = "traded" /\ IsBook(Book) /\ WireTrades \in Seq(Trades)
      /\ plan = AllMatches(Book, WireTrades)
      /\ Len(WireTrades) = Len(trades) /\ Len(trades) \in Nat
  BY PlanReads, WireTradesAre
<1>2. \A k \in 1 .. Len(WireTrades) : WireTrades[k].market = Market
  BY <1>1, WireSides
<1>3. \A o \in Orders :
        SideTuple(Book, o, [id |-> Original(o), energy |-> Book.energy[o]]) \in Registry.open
  <2> SUFFICES ASSUME NEW o \in Orders
               PROVE  SideTuple(Book, o, [id |-> Original(o), energy |-> Book.energy[o]]) \in Registry.open
    OBVIOUS
  <2>1. o # Pool
    BY MatchBuilderAssumption
  <2>2. SideTuple(Book, o, [id |-> Original(o), energy |-> Book.energy[o]])
          = Submitted(Book, [id |-> Original(o), energy |-> Book.energy[o]], 0)
    BY <2>1 DEF SideTuple, Submitted, TermsOf, Original
  <2> QED
    BY <2>2 DEF Registry, Registered, Participants
<1>4. ASSUME NEW k \in 1 .. Len(WireTrades), NEW side \in Closed(MatchTuple(Book, plan[k])),
             side.id.of = Pool
      PROVE  side \in Registry.open
  <2>1. k \in DOMAIN plan
    <3>1. /\ AllMatches(Book, WireTrades) \in Seq(AnyMatch(Len(WireTrades)))
          /\ Len(AllMatches(Book, WireTrades)) = Len(WireTrades)
      BY <1>1, MatchPerTrade
    <3> QED
      BY <1>1, <3>1
  <2>2. CASE side = MatchTuple(Book, plan[k]).bid
    <3>1. side = Submitted(Book, plan[k].bid, Book.upper)
      BY <2>2 DEF MatchTuple, Submitted, BidTerms
    <3>2. plan[k].bid.id.of = Pool
      BY <1>4, <3>1 DEF Submitted, OnChain
    <3> QED
      BY <2>1, <3>1, <3>2 DEF Registry, Registered, PoolSide
  <2>3. CASE side = MatchTuple(Book, plan[k]).offer
    <3>1. side = Submitted(Book, plan[k].offer, Book.lower)
      BY <2>3 DEF MatchTuple, Submitted, OfferTerms
    <3>2. plan[k].offer.id.of = Pool
      BY <1>4, <3>1 DEF Submitted, OnChain
    <3> QED
      BY <2>1, <3>1, <3>2 DEF Registry, Registered, PoolSide
  <2> QED
    BY <2>2, <2>3 DEF Closed
<1>5. TradedUnits[Market] = Scale(TradedEnergy, Book.grain)
  BY DEF TradedUnits
<1> QED
  BY <1>1, <1>2, <1>3, <1>4, <1>5, ValidIsAccepted

(* What the dry run lets pass the contract executes, unless rounding has   *)
(* sold an order out: the residuals that the builder chains are the ones   *)
(* that the contract leaves.                                               *)
THEOREM PlanPassedIsExecuted == PlanSpec => []PassedIsExecuted
<1>1. PlanInv => PassedIsExecuted
  <2> SUFFICES ASSUME PlanInv, outcome = "reverted", ~ UsedUpOrder
               PROVE  FALSE
    BY DEF PassedIsExecuted
  <2>1. /\ SettlementValid(Book, plan, TradedEnergy)
        /\ ~ SettleAccepted(Registry, Tuples(Book, plan), TradedUnits)
    BY DEF PlanInv, Judged
  <2> QED
    BY <2>1, NoneUsedUp, PlanAccepted
<1> QED
  BY <1>1, PlanInvariant, PTL

(* Quantities and their units, by trade.                                   *)
Quantities == [k \in DOMAIN trades |-> trades[k].quantity]
UnitsMade == UnitsOf(Book, WireTrades)

LEMMA QuantitiesAre ==
  ASSUME IInv, at = "traded"
  PROVE  /\ DOMAIN trades = 1 .. Len(trades) /\ Len(trades) \in Nat /\ IsFiniteSet(DOMAIN trades)
         /\ \A k \in DOMAIN trades : Quantities[k] = trades[k].quantity /\ Quantities[k] \in Nat \ {0}
         /\ Summands(Quantities, DOMAIN trades)
         /\ \A T : QuantityOf(T) = SumFunctionOnSet(Quantities, T)
<1>1. DOMAIN trades = 1 .. Len(trades) /\ Len(trades) \in Nat
  BY WireTradesAre
<1>2. IsFiniteSet(DOMAIN trades)
  BY <1>1, FS_Interval
<1>3. \A k \in DOMAIN trades : Quantities[k] = trades[k].quantity /\ Quantities[k] \in Nat \ {0}
  BY <1>1, WireSides DEF Quantities
<1>4. \A T : QuantityOf(T) = SumFunctionOnSet(Quantities, T)
  BY DEF QuantityOf, Quantities
<1>5. Summands(Quantities, DOMAIN trades)
  BY <1>2, <1>3 DEF Summands
<1> QED
  BY <1>1, <1>2, <1>3, <1>4, <1>5

LEMMA UnitsMadeAre ==
  ASSUME PlanInv, outcome # "open"
  PROVE  /\ \A k \in DOMAIN trades : /\ UnitsMade[k] = InUnits(trades[k].quantity)
                                     /\ UnitsMade[k] \in Nat
         /\ Summands(UnitsMade, DOMAIN trades)
         /\ Selected(Book, plan) = SumFunctionOnSet(UnitsMade, DOMAIN trades)
<1>1. /\ IInv /\ at = "traded" /\ IsBook(Book) /\ WireTrades \in Seq(Trades)
      /\ plan = AllMatches(Book, WireTrades) /\ Len(WireTrades) = Len(trades)
  BY PlanReads, WireTradesAre
<1>2. DOMAIN trades = 1 .. Len(trades) /\ IsFiniteSet(DOMAIN trades)
  BY <1>1, QuantitiesAre
<1>3. \A k \in DOMAIN trades : UnitsMade[k] = InUnits(trades[k].quantity) /\ UnitsMade[k] \in Nat
  BY <1>2, UnitsAre DEF UnitsMade
<1>4. /\ DOMAIN plan = 1 .. Len(trades)
      /\ \A k \in 1 .. Len(trades) : plan[k].quantity = WireTrades[k].quantity
  <2>1. /\ AllMatches(Book, WireTrades) \in Seq(AnyMatch(Len(WireTrades)))
        /\ Len(AllMatches(Book, WireTrades)) = Len(WireTrades)
    BY <1>1, MatchPerTrade
  <2>2. \A k \in 1 .. Len(WireTrades) : TakesForms(Book, WireTrades, k, AllMatches(Book, WireTrades)[k])
    BY <1>1, MatchesChain
  <2> QED
    BY <1>1, <2>1, <2>2 DEF TakesForms
<1>5. [k \in DOMAIN plan |-> Scale(plan[k].quantity, Book.grain)] = UnitsMade
  BY <1>1, <1>4 DEF UnitsMade, UnitsOf
<1>6. DOMAIN UnitsMade = DOMAIN trades
  BY <1>1, <1>2 DEF UnitsMade, UnitsOf
<1>7. Selected(Book, plan) = SumFunctionOnSet(UnitsMade, DOMAIN trades)
  BY <1>5, <1>6 DEF Selected, SumFunction
<1>8. Summands(UnitsMade, DOMAIN trades)
  BY <1>2, <1>3 DEF Summands
<1> QED
  BY <1>3, <1>7, <1>8

(* The bids take what is traded; what is not of a bid is of the pool.      *)
LEMMA TradedInAll ==
  ASSUME IInv, at = "traded"
  PROVE  /\ QuantityOf({k \in DOMAIN trades : trades[k].bid # PoolOrder}) = TradedEnergy
         /\ QuantityOf(DOMAIN trades) = TradedEnergy + QuantityOf(BidTrades(PoolOrder))
         /\ TradedEnergy \in Nat
<1> DEFINE T == {k \in DOMAIN trades : trades[k].bid # PoolOrder}
           c == [k \in T |-> trades[k].bid]
           Of(i) == {k \in T : c[k] = i}
<1>1. /\ Summands(Quantities, DOMAIN trades)
      /\ \A K : QuantityOf(K) = SumFunctionOnSet(Quantities, K)
  BY QuantitiesAre
<1>2. Summands(Quantities, T)
  <2>1. T \in SUBSET DOMAIN trades
    OBVIOUS
  <2> HIDE DEF T
  <2> QED
    BY <1>1, <2>1, FS_Subset DEF Summands
<1>3. \A k \in T : c[k] \in 1 .. NumBids
  BY QuantitiesAre, WireSides
<1>4. \A i \in Bids : Of(i) = BidTrades(i)
  BY BothSides DEF BidTrades
<1>5. \A i \in Bids : SumFunctionOnSet(Quantities, Of(i)) = BidShare(i)
  <2>1. SharesTraded
    BY SharesFollow
  <2> QED
    BY <1>1, <1>4, <2>1 DEF SharesTraded, Done
<1>6. [i \in 1 .. NumBids |-> SumFunctionOnSet(Quantities, Of(i))] = [i \in Bids |-> BidShare(i)]
  BY <1>5
<1>7. SumFunctionOnSet([i \in 1 .. NumBids |-> SumFunctionOnSet(Quantities, Of(i))], 1 .. NumBids)
        = SumFunctionOnSet(Quantities, T)
  <2> HIDE DEF T, c
  <2> QED
    BY <1>2, <1>3, SumParts
<1>8. SumFunctionOnSet([i \in Bids |-> BidShare(i)], Bids) = TradedEnergy
  BY SharesBalance DEF IInv, TradedEnergy
<1>9. QuantityOf(T) = TradedEnergy
  BY <1>1, <1>6, <1>7, <1>8
<1>10. QuantityOf(DOMAIN trades) = QuantityOf(T) + QuantityOf(BidTrades(PoolOrder))
  <2>1. DOMAIN trades = T \cup BidTrades(PoolOrder) /\ T \cap BidTrades(PoolOrder) = {}
    BY DEF BidTrades
  <2> HIDE DEF T
  <2> QED
    BY <1>1, <2>1, SumSplit
<1>11. TradedEnergy \in Nat
  BY QuantitiesAddUp, \A a, b \in Nat : a * b \in Nat DEF IInv, TradedEnergy
<1> QED
  BY <1>9, <1>10, <1>11

-----------------------------------------------------------------------------
LEMMA Cancels ==
  \A a, b \in Nat, c \in Nat \ {0} :
    /\ a * c <= b * c => a <= b
    /\ a * c = b * c => a = b
<1> SUFFICES ASSUME NEW a \in Nat, NEW b \in Nat, NEW c \in Nat \ {0}
             PROVE  /\ a * c <= b * c => a <= b
                    /\ a * c = b * c => a = b
  OBVIOUS
<1>1. ASSUME NEW x \in Nat, NEW y \in Nat, x < y
      PROVE  x * c < y * c
  <2>1. PICK d \in Nat \ {0} : y = x + d
    BY <1>1, y - x \in Nat \ {0}, y = x + (y - x)
  <2>2. y * c = x * c + d * c /\ d * c \in Nat \ {0} /\ x * c \in Nat
    BY <2>1, TimesPositive
  <2> QED
    BY <2>2
<1>2. a * c \in Nat /\ b * c \in Nat
  OBVIOUS
<1>3. a < b \/ a = b \/ b < a
  OBVIOUS
<1>4. a < b => a * c < b * c
  BY <1>1
<1>5. b < a => b * c < a * c
  BY <1>1
<1> QED
  BY <1>2, <1>3, <1>4, <1>5

LEMMA WholeTrades ==
  ASSUME PlanInv, outcome # "open", WholeUnits, NEW T \in SUBSET DOMAIN trades
  PROVE  /\ SumFunctionOnSet(UnitsMade, T) \in Nat
         /\ QuantityOf(T) = SumFunctionOnSet(UnitsMade, T) * Grain
<1>1. IInv /\ at = "traded" /\ Grain \in Nat \ {0} /\ Book.grain = Grain
  BY PlanReads
<1>2. IsFiniteSet(T) /\ \A k \in T : UnitsMade[k] \in Nat
  BY <1>1, QuantitiesAre, UnitsMadeAre, FS_Subset
<1>3. \A k \in T : Quantities[k] = UnitsMade[k] * Grain
  <2> SUFFICES ASSUME NEW k \in T
               PROVE  Quantities[k] = UnitsMade[k] * Grain
    OBVIOUS
  <2>1. k \in DOMAIN trades
    OBVIOUS
  <2>2. Quantities[k] = trades[k].quantity /\ trades[k].quantity \in Nat
    BY <1>1, <2>1, QuantitiesAre
  <2>3. trades[k].quantity % Grain = 0
    BY <2>1 DEF WholeUnits, Whole, Grain
  <2>4. UnitsMade[k] = Scale(trades[k].quantity, Grain)
    BY <2>1, UnitsMadeAre DEF InUnits, Grain
  <2> QED
    BY <1>1, <2>2, <2>3, <2>4, WholeScales
<1>4. Summands(UnitsMade, T)
  BY <1>2 DEF Summands
<1>5. SumFunctionOnSet(Quantities, T) = SumFunctionOnSet(UnitsMade, T) * Grain
  BY <1>1, <1>3, <1>4, SumTimes
<1>6. SumFunctionOnSet(UnitsMade, T) \in Nat
  BY <1>2, SumNat
<1>7. QuantityOf(T) = SumFunctionOnSet(Quantities, T)
  BY <1>1, QuantitiesAre
<1> QED
  BY <1>5, <1>6, <1>7

(* In whole units every order has enough for each of its trades.           *)
HasRoom(o) ==
  \A k \in LegsTo(WireTrades, o, Len(trades)) :
    SoldTo(Book, WireTrades, o, k - 1) + UnitsMade[k] <= Capacity(Book, o)

LEMMA RoomLeft ==
  ASSUME PlanInv, outcome # "open", WholeUnits, NEW o \in Orders, NEW T,
         LegsTo(WireTrades, o, Len(trades)) = T, NEW quantity \in Nat,
         Whole(quantity * Supply * Demand), QuantityOf(T) <= quantity * Supply * Demand,
         Capacity(Book, o) = InUnits(quantity * Supply * Demand)
  PROVE  HasRoom(o)
<1> DEFINE energy == quantity * Supply * Demand
<1>1. /\ IInv /\ at = "traded" /\ Grain \in Nat \ {0}
      /\ DOMAIN trades = 1 .. Len(trades) /\ Len(trades) \in Nat
  BY PlanReads, QuantitiesAre
<1>2. energy \in Nat /\ energy % Grain = 0
  <2>1. Supply \in Nat /\ Demand \in Nat
    BY <1>1, SomeEnergy DEF IInv
  <2> QED
    BY <2>1, \A a, b \in Nat : a * b \in Nat DEF Whole, Grain
<1>3. Capacity(Book, o) = Scale(energy, Grain)
  BY DEF InUnits, Grain
<1>4. T \in SUBSET DOMAIN trades
  BY <1>1 DEF LegsTo
<1> HIDE DEF energy
<1>5. Capacity(Book, o) \in Nat /\ energy = Capacity(Book, o) * Grain
  BY <1>1, <1>2, <1>3, WholeScales
<1>6. SumFunctionOnSet(UnitsMade, T) \in Nat /\ SumFunctionOnSet(UnitsMade, T) <= Capacity(Book, o)
  <2>1. SumFunctionOnSet(UnitsMade, T) \in Nat /\ QuantityOf(T) = SumFunctionOnSet(UnitsMade, T) * Grain
    BY <1>4, WholeTrades
  <2>2. SumFunctionOnSet(UnitsMade, T) * Grain <= Capacity(Book, o) * Grain
    BY <1>5, <2>1 DEF energy
  <2> QED
    BY <1>1, <1>5, <2>1, <2>2, Cancels
<1>7. ASSUME NEW k \in T
      PROVE  SoldTo(Book, WireTrades, o, k - 1) + UnitsMade[k] <= Capacity(Book, o)
  <2> DEFINE U == LegsTo(WireTrades, o, k - 1)
             V == LegsTo(WireTrades, o, k)
  <2>1. k \in 1 .. Len(trades) /\ o \in {WireTrades[k].bid, WireTrades[k].offer}
    BY DEF LegsTo
  <2>2. V = U \cup {k} /\ k \notin U /\ V \in SUBSET T /\ k \in V /\ V \ {k} = U
    BY <1>1, <2>1 DEF LegsTo
  <2>3. IsFiniteSet(T) /\ \A l \in T : UnitsMade[l] \in Nat
    BY <1>1, <1>4, QuantitiesAre, UnitsMadeAre, FS_Subset
  <2> HIDE DEF U, V
  <2>4. SumFunctionOnSet(UnitsMade, V) <= SumFunctionOnSet(UnitsMade, T)
    BY <2>2, <2>3, SumPart
  <2>5. Summands(UnitsMade, T)
    BY <2>3 DEF Summands
  <2>6. SumFunctionOnSet(UnitsMade, V) = UnitsMade[k] + SumFunctionOnSet(UnitsMade, U)
    BY <2>2, <2>5, SumRemove
  <2>7. U \in SUBSET T
    BY <2>2
  <2>8. SumFunctionOnSet(UnitsMade, U) \in Int
    BY <2>5, <2>7, SumInt
  <2>9. SoldTo(Book, WireTrades, o, k - 1) = SumFunctionOnSet(UnitsMade, U)
    BY DEF SoldTo, UnitsMade, U
  <2>10. UnitsMade[k] \in Nat
    BY <2>3
  <2> QED
    BY <1>5, <1>6, <2>4, <2>6, <2>8, <2>9, <2>10
<1> QED
  BY <1>7 DEF HasRoom

LEMMA WholeHasRoom ==
  ASSUME PlanInv, outcome # "open", WholeUnits
  PROVE  \A o \in Orders : HasRoom(o)
<1>1. /\ IInv /\ at = "traded" /\ DOMAIN trades = 1 .. Len(trades) /\ Len(trades) \in Nat
      /\ SharesTraded
  BY PlanReads, WireTradesAre, SharesFollow
<1>2. Len(trades) \in 0 .. Len(trades) /\ \A l \in 1 .. Len(trades) : l <= Len(trades)
  BY <1>1
<1>3. /\ \A i \in Bids : bids[i].quantity \in Nat
      /\ \A j \in Offers : offers[j].quantity \in Nat
  BY <1>1 DEF IInv, TypeOK, AnyBid, AnyOffer
<1>4. ASSUME NEW i \in Bids
      PROVE  HasRoom(<<"bid", i>>)
  <2> DEFINE T == BidTrades(i)
             o == <<"bid", i>>
  <2>1. T \in SUBSET (1 .. Len(trades))
    BY <1>1 DEF BidTrades
  <2>2. LegsTo(WireTrades, o, Len(trades)) = T
    <3>1. LegsTo(WireTrades, o, Len(trades)) = {l \in T : l <= Len(trades)}
      BY <1>1, <1>2, LegsAre
    <3> HIDE DEF T, o
    <3> QED
      BY <1>2, <2>1, <3>1
  <2>3. Capacity(Book, o) = InUnits(bids[i].quantity * Supply * Demand) /\ o \in Orders
    BY UnitsAre, OrdersOfBook
  <2>4. QuantityOf(T) <= bids[i].quantity * Supply * Demand
    BY <1>1 DEF SharesTraded, Done
  <2>5. Whole(bids[i].quantity * Supply * Demand)
    BY DEF WholeUnits
  <2> HIDE DEF T, o
  <2>6. HasRoom(o)
    BY <1>3, <2>2, <2>3, <2>4, <2>5, RoomLeft
  <2> QED
    BY <2>6 DEF o
<1>5. ASSUME NEW j \in Offers
      PROVE  HasRoom(<<"offer", j>>)
  <2> DEFINE T == OfferTrades(j)
             o == <<"offer", j>>
  <2>1. T \in SUBSET (1 .. Len(trades))
    BY <1>1 DEF OfferTrades
  <2>2. LegsTo(WireTrades, o, Len(trades)) = T
    <3>1. LegsTo(WireTrades, o, Len(trades)) = {l \in T : l <= Len(trades)}
      BY <1>1, <1>2, LegsAre
    <3> HIDE DEF T, o
    <3> QED
      BY <1>2, <2>1, <3>1
  <2>3. Capacity(Book, o) = InUnits(offers[j].quantity * Supply * Demand) /\ o \in Orders
    BY UnitsAre, OrdersOfBook
  <2>4. QuantityOf(T) <= offers[j].quantity * Supply * Demand
    BY <1>1 DEF SharesTraded, Done
  <2>5. Whole(offers[j].quantity * Supply * Demand)
    BY DEF WholeUnits
  <2> HIDE DEF T, o
  <2>6. HasRoom(o)
    BY <1>3, <2>2, <2>3, <2>4, <2>5, RoomLeft
  <2> QED
    BY <2>6 DEF o
<1> QED
  BY <1>4, <1>5, OrdersOfBook

(* Every trade is of at least one unit.                                    *)
LEMMA WholeIsSome ==
  ASSUME PlanInv, outcome # "open", WholeUnits, NEW k \in DOMAIN trades
  PROVE  UnitsMade[k] \in Nat \ {0}
<1>1. IInv /\ at = "traded" /\ Grain \in Nat \ {0}
  BY PlanReads
<1>2. trades[k].quantity \in Nat \ {0} /\ trades[k].quantity % Grain = 0
  BY <1>1, QuantitiesAre DEF WholeUnits, Whole, Grain
<1>3. UnitsMade[k] = Scale(trades[k].quantity, Grain)
  BY UnitsMadeAre DEF InUnits, Grain
<1>4. /\ UnitsMade[k] \in Nat
      /\ trades[k].quantity = UnitsMade[k] * Grain
  BY <1>1, <1>2, <1>3, WholeScales
<1> QED
  BY <1>1, <1>2, <1>4

LEMMA WholeNeverSoldOut ==
  ASSUME PlanInv, outcome # "open", WholeUnits
  PROVE  \A o \in Orders : NeverSoldOut(Book, WireTrades, o)
<1>1. /\ IInv /\ at = "traded" /\ IsBook(Book) /\ WireTrades \in Seq(Trades)
      /\ DOMAIN trades = 1 .. Len(trades) /\ Len(WireTrades) = Len(trades) /\ Len(trades) \in Nat
  BY PlanReads, WireTradesAre
<1> SUFFICES ASSUME NEW o \in Orders, NEW l \in LegsTo(WireTrades, o, Len(trades))
             PROVE  /\ WireTrades[l].bid # WireTrades[l].offer
                    /\ SoldTo(Book, WireTrades, o, l - 1) < Capacity(Book, o)
  BY <1>1 DEF NeverSoldOut
<1>2. l \in 1 .. Len(trades) /\ o \in {WireTrades[l].bid, WireTrades[l].offer}
  BY DEF LegsTo
<1>3. SoldTo(Book, WireTrades, o, l - 1) + UnitsMade[l] <= Capacity(Book, o)
  BY WholeHasRoom DEF HasRoom
<1>4. UnitsMade[l] \in Nat \ {0}
  BY <1>1, <1>2, WholeIsSome
<1>5. SoldTo(Book, WireTrades, o, l - 1) \in Nat
  <2>1. l - 1 \in 0 .. Len(WireTrades)
    BY <1>1, <1>2
  <2> QED
    BY <1>1, <2>1, SoldToNat
<1>6. Capacity(Book, o) \in Nat
  BY <1>1, ScaleNat DEF Capacity, IsBook
<1> QED
  BY <1>1, <1>2, <1>3, <1>4, <1>5, <1>6, WireSides, MatchBuilderAssumption

-----------------------------------------------------------------------------
(* What the dry run sees of a trade between partners.                      *)
IsPartners(k) ==
  /\ Direct(plan[k])
  /\ BidTerms(Book, plan[k]).by = bids[trades[k].bid].by
  /\ OfferTerms(Book, plan[k]).by = offers[trades[k].offer].by
  /\ BidTerms(Book, plan[k]).partner = bids[trades[k].bid].partner
  /\ OfferTerms(Book, plan[k]).partner = offers[trades[k].offer].partner
  /\ EffectiveRate(BidTerms(Book, plan[k])) = Asked(limits.bid)
  /\ EffectiveRate(OfferTerms(Book, plan[k])) = Asked(limits.offer)
  /\ plan[k].price = WireTrade(trades[k]).price

LEMMA MatchOfTrade ==
  ASSUME PlanInv, outcome # "open", NEW k \in DOMAIN trades
  PROVE  /\ TakesForms(Book, WireTrades, k, plan[k]) /\ k \in DOMAIN plan
         /\ plan[k].price = WireTrades[k].price
         /\ Scale(plan[k].quantity, Book.grain) = UnitsMade[k]
<1>1. /\ IInv /\ at = "traded" /\ IsBook(Book) /\ WireTrades \in Seq(Trades)
      /\ plan = AllMatches(Book, WireTrades) /\ Len(WireTrades) = Len(trades)
      /\ DOMAIN trades = 1 .. Len(trades)
  BY PlanReads, WireTradesAre
<1>2. k \in 1 .. Len(WireTrades)
  BY <1>1
<1>3. /\ AllMatches(Book, WireTrades) \in Seq(AnyMatch(Len(WireTrades)))
      /\ Len(AllMatches(Book, WireTrades)) = Len(WireTrades)
      /\ IsMatch(AllMatches(Book, WireTrades)[k], k, WireTrades)
  BY <1>1, <1>2, MatchPerTrade
<1>4. TakesForms(Book, WireTrades, k, AllMatches(Book, WireTrades)[k])
  BY <1>1, <1>2, MatchesChain
<1>5. plan[k].price = WireTrades[k].price /\ plan[k].quantity = WireTrades[k].quantity
  BY <1>1, <1>3, <1>4 DEF IsMatch, TakesForms
<1>6. k \in DOMAIN plan
  BY <1>1, <1>2, <1>3
<1>7. UnitsMade[k] = Scale(WireTrades[k].quantity, Book.grain)
  BY <1>2 DEF UnitsMade, UnitsOf
<1> QED
  BY <1>1, <1>4, <1>5, <1>6, <1>7

LEMMA MatchOfPartners ==
  ASSUME PlanInv, outcome # "open", NEW k \in DOMAIN trades,
         trades[k].bid # PoolOrder, trades[k].offer # PoolOrder
  PROVE  IsPartners(k)
<1> DEFINE i == trades[k].bid
           j == trades[k].offer
<1>1. IInv /\ at = "traded" /\ k \in 1 .. Len(trades)
  BY PlanReads, WireTradesAre
<1>2. i \in Bids /\ j \in Offers
  BY <1>1, WireSides
<1>3. /\ plan[k].bid.id.of = BidOrder(i) /\ plan[k].offer.id.of = OfferOrder(j)
      /\ plan[k].price = WireTrade(trades[k]).price
  <2>1. WireTrades[k].bid = BidOrder(i) /\ WireTrades[k].offer = OfferOrder(j)
    BY <1>1, WireSides
  <2>2. WireTrades[k] = WireTrade(trades[k])
    BY <1>1, WireTradesAre
  <2> QED
    BY <2>1, <2>2, MatchOfTrade DEF TakesForms, TakesSide
<1> HIDE DEF i, j
<1>4. /\ BidOrder(i) = <<"bid", i>> /\ <<"bid", i>> \in Orders /\ OrderOf(<<"bid", i>>) = bids[i]
      /\ OfferOrder(j) = <<"offer", j>> /\ <<"offer", j>> \in Orders
      /\ OrderOf(<<"offer", j>>) = offers[j]
  BY <1>2, OrdersOfBook
<1>5. Direct(plan[k])
  BY <1>3, <1>4, MatchBuilderAssumption DEF Direct
<1>6. /\ BidTerms(Book, plan[k]) = Book.terms[<<"bid", i>>]
      /\ OfferTerms(Book, plan[k]) = Book.terms[<<"offer", j>>]
  BY <1>3, <1>4, MatchBuilderAssumption DEF BidTerms, OfferTerms, TermsOf
<1>7. /\ Book.terms[<<"bid", i>>].by = bids[i].by
      /\ Book.terms[<<"bid", i>>].partner = bids[i].partner
      /\ Book.terms[<<"bid", i>>].rate = limits.bid
      /\ Book.terms[<<"bid", i>>].preferred = limits.preferred
  BY <1>4 DEF Book, BookFor
<1>8. /\ Book.terms[<<"offer", j>>].by = offers[j].by
      /\ Book.terms[<<"offer", j>>].partner = offers[j].partner
      /\ Book.terms[<<"offer", j>>].rate = limits.offer
      /\ Book.terms[<<"offer", j>>].preferred = limits.preferred
  <2>1. <<"offer", j>>[1] # "bid"
    OBVIOUS
  <2> QED
    BY <1>4, <2>1 DEF Book, BookFor
<1> QED
  BY <1>3, <1>5, <1>6, <1>7, <1>8 DEF IsPartners, EffectiveRate, Asked, i, j

(* In a market that is settleable every match of whole units is valid.     *)
LEMMA PartnersAreValid ==
  ASSUME PlanInv, outcome # "open", WholeUnits, Settleable, NEW k \in DOMAIN trades
  PROVE  MatchValid(Book, plan[k])
<1> DEFINE i == trades[k].bid
           j == trades[k].offer
<1>1. /\ IInv /\ at = "traded" /\ k \in 1 .. Len(trades) /\ Len(WireTrades) = Len(trades)
      /\ IsBook(Book) /\ WireTrades \in Seq(Trades) /\ Len(trades) \in Nat
  BY PlanReads, WireTradesAre
<1>2. /\ i # PoolOrder /\ j # PoolOrder /\ bids[i].by # offers[j].by
      /\ Asked(limits.offer) <= WireTrade(trades[k]).price
      /\ WireTrade(trades[k]).price <= Asked(limits.bid)
  BY DEF Settleable
<1>3. IsPartners(k)
  BY <1>2, MatchOfPartners
<1>4. bids[i].partner = offers[j].by /\ offers[j].partner = bids[i].by /\ i \in Bids /\ j \in Offers
  <2>1. DirectByConsent
    BY <1>1, ConsentFollows
  <2> QED
    BY <1>1, <1>2, <2>1, WireSides DEF DirectByConsent
<1>5. bids[i].partner # NoPartner
  <2>1. offers[j].by \in Sellers
    BY <1>1, <1>4 DEF IInv, TypeOK, AnyOffer
  <2> QED
    BY <1>4, <2>1, AllocationAssumption, PlanAssumption
<1>6. PriceAgrees(Book, plan[k])
  BY <1>2, <1>3, <1>4, <1>5 DEF PriceAgrees, PartnersAgree, IsPartners
<1>7. UnitsMade[k] \in Nat \ {0} /\ Scale(plan[k].quantity, Book.grain) = UnitsMade[k]
  BY WholeIsSome, MatchOfTrade
<1>8. ASSUME NEW o \in Orders, NEW form, o \in {WireTrades[k].bid, WireTrades[k].offer},
             TakesSide(Book, WireTrades, k, o, form)
      PROVE  UnitsMade[k] <= Scale(form.energy, Book.grain)
  <2>1. NeverSoldOut(Book, WireTrades, o) /\ HasRoom(o)
    BY WholeNeverSoldOut, WholeHasRoom
  <2>2. Scale(form.energy, Book.grain) = Capacity(Book, o) - SoldTo(Book, WireTrades, o, k - 1)
    BY <1>8, <2>1 DEF TakesSide, IsForm
  <2>3. k \in LegsTo(WireTrades, o, Len(trades))
    BY <1>1, <1>8 DEF LegsTo
  <2>4. SoldTo(Book, WireTrades, o, k - 1) + UnitsMade[k] <= Capacity(Book, o)
    BY <2>1, <2>3 DEF HasRoom
  <2>5. SoldTo(Book, WireTrades, o, k - 1) \in Nat
    <3>1. k - 1 \in 0 .. Len(WireTrades)
      BY <1>1
    <3> QED
      BY <1>1, <3>1, SoldToNat
  <2>6. Capacity(Book, o) \in Nat
    BY <1>1, ScaleNat DEF Capacity, IsBook
  <2> QED
    BY <1>7, <2>2, <2>4, <2>5, <2>6
<1>9. /\ WireTrades[k].bid \in Orders /\ WireTrades[k].offer \in Orders
      /\ TakesSide(Book, WireTrades, k, WireTrades[k].bid, plan[k].bid)
      /\ TakesSide(Book, WireTrades, k, WireTrades[k].offer, plan[k].offer)
  <2>1. WireTrades[k].bid = BidOrder(i) /\ WireTrades[k].offer = OfferOrder(j)
    BY <1>1, WireSides
  <2>2. BidOrder(i) \in Orders /\ OfferOrder(j) \in Orders
    BY <1>4, OrdersOfBook
  <2> QED
    BY <2>1, <2>2, MatchOfTrade DEF TakesForms
<1>10. /\ UnitsMade[k] <= Scale(plan[k].bid.energy, Book.grain)
       /\ UnitsMade[k] <= Scale(plan[k].offer.energy, Book.grain)
  BY <1>8, <1>9
<1>11. BidTerms(Book, plan[k]).by # OfferTerms(Book, plan[k]).by
  BY <1>2, <1>3 DEF IsPartners
<1> QED
  BY <1>6, <1>7, <1>10, <1>11 DEF MatchValid

(* When all trades are direct, they add up to what was traded.             *)
LEMMA AllDirectInAll ==
  ASSUME IInv, at = "traded", \A k \in DOMAIN trades : trades[k].bid # PoolOrder
  PROVE  QuantityOf(DOMAIN trades) = TradedEnergy
<1>1. {k \in DOMAIN trades : trades[k].bid # PoolOrder} = DOMAIN trades
  OBVIOUS
<1> QED
  BY <1>1, TradedInAll

LEMMA SettleableIsValid ==
  ASSUME PlanInv, outcome # "open", WholeUnits, Settleable
  PROVE  SettlementValid(Book, plan, TradedEnergy)
<1>1. /\ IInv /\ at = "traded" /\ Grain \in Nat \ {0} /\ Book.grain = Grain /\ IsBook(Book)
      /\ WireTrades \in Seq(Trades) /\ plan = AllMatches(Book, WireTrades)
      /\ Len(WireTrades) = Len(trades) /\ DOMAIN trades = 1 .. Len(trades)
  BY PlanReads, WireTradesAre
<1>2. DOMAIN plan = DOMAIN trades
  <2>1. /\ AllMatches(Book, WireTrades) \in Seq(AnyMatch(Len(WireTrades)))
        /\ Len(AllMatches(Book, WireTrades)) = Len(WireTrades)
    BY <1>1, MatchPerTrade
  <2> QED
    BY <1>1, <2>1
<1>3. \A k \in DOMAIN plan : MatchValid(Book, plan[k])
  BY <1>2, PartnersAreValid
<1>4. \A k \in DOMAIN trades : trades[k].bid # PoolOrder
  BY DEF Settleable
<1>5. TradedEnergy = QuantityOf(DOMAIN trades)
  BY <1>1, <1>4, AllDirectInAll
<1>6. /\ Selected(Book, plan) \in Nat
      /\ QuantityOf(DOMAIN trades) = Selected(Book, plan) * Grain
  <2> DEFINE T == DOMAIN trades
  <2>1. Selected(Book, plan) = SumFunctionOnSet(UnitsMade, T)
    BY UnitsMadeAre
  <2>2. /\ SumFunctionOnSet(UnitsMade, T) \in Nat
        /\ QuantityOf(T) = SumFunctionOnSet(UnitsMade, T) * Grain
    BY WholeTrades
  <2> QED
    BY <2>1, <2>2
<1>7. Selected(Book, plan) = Scale(TradedEnergy, Book.grain)
  <2>1. Scale(Selected(Book, plan) * Grain, Grain) = Selected(Book, plan)
    BY <1>1, <1>6, ScaleWhole
  <2> QED
    BY <1>1, <1>5, <1>6, <2>1
<1> QED
  BY <1>3, <1>7 DEF SettlementValid

(* A valid plan of whole units has no leg of the pool: the bids alone make *)
(* up the traded quantity.                                                 *)
LEMMA ValidHasNoPool ==
  ASSUME PlanInv, outcome # "open", WholeUnits, SettlementValid(Book, plan, TradedEnergy),
         NEW k \in DOMAIN trades
  PROVE  trades[k].bid # PoolOrder /\ trades[k].offer # PoolOrder
<1> DEFINE All == DOMAIN trades
           T == {l \in DOMAIN trades : trades[l].bid # PoolOrder}
           N == BidTrades(PoolOrder)
           M == OfferTrades(PoolOrder)
<1>1. /\ IInv /\ at = "traded" /\ Grain \in Nat \ {0} /\ Book.grain = Grain
  BY PlanReads
<1>2. /\ QuantityOf(T) = TradedEnergy
      /\ QuantityOf(All) = TradedEnergy + QuantityOf(N)
  BY <1>1, TradedInAll
<1>3. T \in SUBSET DOMAIN trades /\ N \in SUBSET DOMAIN trades /\ M \in SUBSET DOMAIN trades
      /\ All \in SUBSET DOMAIN trades
  BY DEF BidTrades, OfferTrades
<1>4. /\ IsFiniteSet(DOMAIN trades) /\ \A l \in DOMAIN trades : Quantities[l] \in Nat \ {0}
      /\ \A K : QuantityOf(K) = SumFunctionOnSet(Quantities, K)
  BY <1>1, QuantitiesAre
<1>5. k \in N => trades[k].bid = PoolOrder
  BY DEF BidTrades
<1>6. trades[k].bid = PoolOrder => k \in N
  BY DEF BidTrades
<1>7. trades[k].offer = PoolOrder => k \in M
  BY DEF OfferTrades
<1>8. QuantityOf(M) = QuantityOf(N)
  <2>1. PoolSettles
    BY <1>1, PoolFollows
  <2> QED
    BY <1>1, <2>1 DEF PoolSettles, Done
<1>9. Selected(Book, plan) = SumFunctionOnSet(UnitsMade, All)
  BY UnitsMadeAre
<1>10. Selected(Book, plan) = Scale(TradedEnergy, Grain)
  BY <1>1 DEF SettlementValid
<1> HIDE DEF All, T, N, M
<1>11. /\ SumFunctionOnSet(UnitsMade, All) \in Nat
       /\ QuantityOf(All) = SumFunctionOnSet(UnitsMade, All) * Grain
  BY <1>3, WholeTrades
<1>12. /\ SumFunctionOnSet(UnitsMade, T) \in Nat
       /\ QuantityOf(T) = SumFunctionOnSet(UnitsMade, T) * Grain
  BY <1>3, WholeTrades
<1>13. Scale(TradedEnergy, Grain) = SumFunctionOnSet(UnitsMade, T)
  <2>1. Scale(SumFunctionOnSet(UnitsMade, T) * Grain, Grain) = SumFunctionOnSet(UnitsMade, T)
    BY <1>1, <1>12, ScaleWhole
  <2> QED
    BY <1>2, <1>12, <2>1
<1>14. QuantityOf(All) = TradedEnergy
  BY <1>2, <1>9, <1>10, <1>11, <1>12, <1>13
<1>15. /\ \A K \in SUBSET DOMAIN trades : QuantityOf(K) \in Nat
       /\ \A K \in SUBSET DOMAIN trades : \A l \in K : Quantities[l] <= QuantityOf(K)
  <2> SUFFICES ASSUME NEW K \in SUBSET DOMAIN trades
               PROVE  QuantityOf(K) \in Nat /\ \A l \in K : Quantities[l] <= QuantityOf(K)
    OBVIOUS
  <2>1. IsFiniteSet(K) /\ \A l \in K : Quantities[l] \in Nat
    BY <1>4, FS_Subset
  <2>2. SumFunctionOnSet(Quantities, K) \in Nat /\ \A l \in K : Quantities[l] <= SumFunctionOnSet(Quantities, K)
    BY <2>1, SumNat
  <2> QED
    BY <1>4, <2>2
<1>16. QuantityOf(N) = 0
  <2>1. QuantityOf(N) \in Nat /\ TradedEnergy \in Nat
    BY <1>1, <1>3, <1>15, TradedInAll
  <2> QED
    BY <1>2, <1>14, <2>1
<1>17. Quantities[k] \in Nat \ {0}
  BY <1>4
<1>18. k \notin N
  <2>1. k \in N => Quantities[k] <= QuantityOf(N)
    BY <1>3, <1>15
  <2> QED
    BY <1>16, <1>17, <2>1
<1>19. k \notin M
  <2>1. k \in M => Quantities[k] <= QuantityOf(M)
    BY <1>3, <1>15
  <2> QED
    BY <1>8, <1>16, <1>17, <2>1
<1> QED
  BY <1>6, <1>7, <1>18, <1>19

LEMMA ValidIsSettleable ==
  ASSUME PlanInv, outcome # "open", WholeUnits, SettlementValid(Book, plan, TradedEnergy)
  PROVE  Settleable
<1> SUFFICES ASSUME NEW k \in DOMAIN trades
             PROVE  /\ trades[k].bid # PoolOrder /\ trades[k].offer # PoolOrder
                    /\ bids[trades[k].bid].by # offers[trades[k].offer].by
                    /\ Asked(limits.offer) <= WireTrade(trades[k]).price
                    /\ WireTrade(trades[k]).price <= Asked(limits.bid)
  BY DEF Settleable
<1>1. trades[k].bid # PoolOrder /\ trades[k].offer # PoolOrder
  BY ValidHasNoPool
<1>2. IsPartners(k)
  BY <1>1, MatchOfPartners
<1>3. MatchValid(Book, plan[k])
  <2>1. k \in DOMAIN plan
    BY MatchOfTrade
  <2> QED
    BY <2>1 DEF SettlementValid
<1> QED
  BY <1>1, <1>2, <1>3 DEF MatchValid, PriceAgrees, IsPartners

LEMMA SettleableIsSettled ==
  ASSUME PlanInv, outcome \in {"held back", "reverted"}, WholeUnits
  PROVE  ~ Settleable
<1> SUFFICES ASSUME Settleable
             PROVE  FALSE
  OBVIOUS
<1>1. outcome # "open" /\ SettlementValid(Book, plan, TradedEnergy)
  BY SettleableIsValid
<1>2. SettleAccepted(Registry, Tuples(Book, plan), TradedUnits)
  BY <1>1, WholeNeverSoldOut, PlanAccepted
<1> QED
  BY <1>1, <1>2 DEF PlanInv, Judged

(* In whole units a market is settled exactly when all of it is traded     *)
(* between different actors within the limits of both: a leg of the pool   *)
(* (validator.py counts its energy twice) or a trade of an actor with      *)
(* himself holds back the whole market.                                    *)
THEOREM PlanWholeMarketsSettle == PlanSpec => []WholeMarketsSettle
<1>1. PlanInv => WholeMarketsSettle
  <2> SUFFICES ASSUME PlanInv, outcome \in {"settled", "held back", "reverted"}, WholeUnits
               PROVE  outcome = "settled" <=> Settleable
    BY DEF WholeMarketsSettle
  <2>1. ASSUME outcome = "settled"
        PROVE  Settleable
    <3>1. SettlementValid(Book, plan, TradedEnergy)
      BY <2>1 DEF PlanInv, Judged
    <3> QED
      BY <2>1, <3>1, ValidIsSettleable
  <2> QED
    BY <2>1, SettleableIsSettled
<1> QED
  BY <1>1, PlanInvariant, PTL

-----------------------------------------------------------------------------
(* The errors of the legs, of which only the fractions have one, add up.   *)
LEMMA ErrorsAddUp ==
  ASSUME PlanInv, outcome # "open"
  PROVE  LET twice == 2 * (Selected(Book, plan) * Grain - QuantityOf(DOMAIN trades))
             bound == Cardinality(Fractions) * Grain
         IN - bound <= twice /\ twice <= bound
<1> DEFINE T == DOMAIN trades
           made == [k \in T |-> UnitsMade[k] * Grain]
           less == [k \in T |-> Quantities[k] * (- 1)]
           error == [k \in T |-> made[k] + less[k]]
           double == [k \in T |-> error[k] * 2]
           F == Fractions
<1>1. IInv /\ at = "traded" /\ Grain \in Nat \ {0}
  BY PlanReads
<1>2. IsFiniteSet(T) /\ Summands(UnitsMade, T) /\ Summands(Quantities, T)
  BY <1>1, QuantitiesAre, UnitsMadeAre
<1>3. /\ \A k \in T : /\ made[k] = UnitsMade[k] * Grain /\ less[k] = Quantities[k] * (- 1)
                      /\ error[k] = made[k] + less[k] /\ double[k] = error[k] * 2
                      /\ made[k] \in Int /\ less[k] \in Int /\ error[k] \in Int /\ double[k] \in Int
  <2>1. \A a, b \in Int : a * b \in Int /\ a + b \in Int
    OBVIOUS
  <2> QED
    BY <1>1, <1>2, <2>1 DEF Summands
<1>4. ASSUME NEW k \in T
      PROVE  /\ - Grain <= double[k] /\ double[k] <= Grain
             /\ k \notin F => double[k] = 0
  <2>1. Quantities[k] = trades[k].quantity /\ trades[k].quantity \in Nat
    BY <1>1, QuantitiesAre
  <2>2. UnitsMade[k] = Scale(trades[k].quantity, Grain)
    BY UnitsMadeAre DEF InUnits, Grain
  <2>3. k \notin F => trades[k].quantity % Grain = 0
    BY DEF Fractions, Whole, Grain
  <2> DEFINE q == trades[k].quantity
             u == UnitsMade[k] * Grain
  <2>4. /\ - Grain <= 2 * (u - q) /\ 2 * (u - q) <= Grain
        /\ k \notin F => u - q = 0
    BY <1>1, <2>1, <2>2, <2>3, ScaleError
  <2>5. u \in Int /\ q \in Int
    BY <1>3, <2>1
  <2>6. double[k] = (u + q * (- 1)) * 2
    BY <1>3, <2>1
  <2> HIDE DEF double, u, q, F
  <2>7. \A a, b \in Int : (a + b * (- 1)) * 2 = 2 * (a - b)
    OBVIOUS
  <2> QED
    BY <1>1, <2>4, <2>5, <2>6, <2>7
<1>5. F \in SUBSET T
  BY DEF Fractions
<1> HIDE DEF T, made, less, error, double, F
<1>6. Summands(made, T) /\ Summands(less, T) /\ Summands(error, T) /\ Summands(double, T)
  BY <1>2, <1>3 DEF Summands
<1>7. SumFunctionOnSet(made, T) = SumFunctionOnSet(UnitsMade, T) * Grain
  BY <1>1, <1>2, <1>3, SumTimes
<1>8. SumFunctionOnSet(less, T) = SumFunctionOnSet(Quantities, T) * (- 1)
  BY <1>2, <1>3, SumTimes
<1>9. SumFunctionOnSet(error, T) = SumFunctionOnSet(made, T) + SumFunctionOnSet(less, T)
  BY <1>3, <1>6, SumPlus
<1>10. SumFunctionOnSet(double, T) = SumFunctionOnSet(error, T) * 2
  BY <1>3, <1>6, SumTimes
<1>11. SumFunctionOnSet(double, T) = SumFunctionOnSet(double, F)
  <2>1. \A k \in T : double[k] = IF k \in F THEN double[k] ELSE 0
    BY <1>4
  <2> QED
    BY <1>5, <1>6, <2>1, SumWhere
<1>12. Summands(double, F)
  BY <1>2, <1>3, <1>5, FS_Subset DEF Summands
<1>13. /\ - (Cardinality(F) * Grain) <= SumFunctionOnSet(double, F)
       /\ SumFunctionOnSet(double, F) <= Cardinality(F) * Grain
  BY <1>1, <1>4, <1>5, <1>12, SumBounded
<1>14. /\ Selected(Book, plan) = SumFunctionOnSet(UnitsMade, T)
       /\ QuantityOf(T) = SumFunctionOnSet(Quantities, T)
  BY <1>1, QuantitiesAre, UnitsMadeAre DEF T
<1>15. SumFunctionOnSet(UnitsMade, T) \in Int /\ SumFunctionOnSet(Quantities, T) \in Int
  BY <1>2, SumInt
<1>16. SumFunctionOnSet(double, F) = 2 * (Selected(Book, plan) * Grain - QuantityOf(T))
  <2>1. \A a, b \in Int : (a * Grain + b * (- 1)) * 2 = 2 * (a * Grain - b)
    BY <1>1
  <2> QED
    BY <1>7, <1>8, <1>9, <1>10, <1>11, <1>14, <1>15, <2>1
<1> QED
  BY <1>13, <1>16 DEF T, F

(* What holds back a market of partners, or makes the contract revert it,  *)
(* is rounding, and its totals are off by at most half a unit for every    *)
(* trade that is not whole.                                                *)
THEOREM PlanRoundingIsBounded == PlanSpec => []RoundingIsBounded
<1>1. PlanInv => RoundingIsBounded
  <2> SUFFICES ASSUME PlanInv, outcome \in {"held back", "reverted"}, Settleable
               PROVE  LET grain == units * Supply * Demand
                          sum == SumFunction([k \in DOMAIN trades |-> InUnits(trades[k].quantity)])
                          error == sum * grain - TradedEnergy
                          bound == Cardinality(Fractions) * grain
                      IN ~ WholeUnits /\ - bound <= 2 * error /\ 2 * error <= bound
    BY DEF RoundingIsBounded
  <2>1. ~ WholeUnits
    BY SettleableIsSettled
  <2>2. IInv /\ at = "traded"
    BY PlanReads
  <2>3. TradedEnergy = QuantityOf(DOMAIN trades)
    BY <2>2, AllDirectInAll DEF Settleable
  <2>4. SumFunction([k \in DOMAIN trades |-> InUnits(trades[k].quantity)]) = Selected(Book, plan)
    <3> DEFINE f == [k \in DOMAIN trades |-> InUnits(trades[k].quantity)]
               T == DOMAIN trades
    <3>1. SumFunction(f) = SumFunctionOnSet(f, T)
      BY DEF SumFunction
    <3>2. \A k \in T : f[k] = UnitsMade[k]
      BY UnitsMadeAre
    <3>3. Summands(UnitsMade, T) /\ Selected(Book, plan) = SumFunctionOnSet(UnitsMade, T)
      BY UnitsMadeAre
    <3> HIDE DEF f, T
    <3>4. SumFunctionOnSet(f, T) = SumFunctionOnSet(UnitsMade, T)
      BY <3>2, <3>3, SumSame
    <3> QED
      BY <3>1, <3>3, <3>4 DEF f
  <2> QED
    BY <2>1, <2>3, <2>4, ErrorsAddUp DEF Grain
<1> QED
  BY <1>1, PlanInvariant, PTL

(* The execution node only reads the market: what holds of the clearing    *)
(* alone holds of it together with the settlement.                         *)
THEOREM PlanClears == PlanSpec => Spec
<1>1. PlanInit => Init
  BY DEF PlanInit
<1>2. [PlanNext]_allVars => [Next]_vars
  BY DEF PlanNext, Clear, PlanMarket, SubmitMarket, allVars
<1> QED
  BY <1>1, <1>2, PTL DEF PlanSpec, Spec
=============================================================================
