------------------------- MODULE MCSettlementEngine -------------------------
(***************************************************************************)
(* Batches of three markets, in half units of the chain.  The first has a  *)
(* bid that two partners and the pool fill, in whole or in half units; the *)
(* others have one leg with the pool each; markets with an offer above the *)
(* price, with both legs of a pool allocation (held back for their traded  *)
(* quantity), sold twice over, without a clearing result, in mixed order,  *)
(* and one whose bid is used up by rounding before its last match.         *)
(***************************************************************************)
EXTENDS SettlementEngine

CONSTANTS m1, m2, m3

MCMarkets == {m1, m2, m3}

Bids1 == {"bid1", "bid1x", "bid1y"}
Offers1 == {"offer1a", "offer1b", "offer1x", "offer1y"}
MCOrders == Bids1 \cup Offers1 \cup {"bid2", "offer2", "offer3", "offer3dear"}

MCBook ==
  [grain |-> 2, upper |-> 30, lower |-> 5,
   energy |-> [o \in MCOrders |-> CASE o = "bid1" -> 8 [] o \in {"offer1a", "offer1b"} -> 4
                                    [] o \in {"bid1x", "bid1y"} -> 5
                                    [] o = "offer1x" -> 3 [] o = "offer1y" -> 7
                                    [] OTHER -> 2],
   terms |-> [o \in MCOrders |->
     [by |-> CASE o \in Bids1 -> "buyer" [] o \in Offers1 -> "seller" [] OTHER -> o,
      partner |-> CASE o \in Bids1 -> "seller" [] o \in Offers1 -> "buyer" [] OTHER -> "nobody",
      rate |-> CASE o \in Bids1 \cup {"bid2"} -> 25 [] o = "offer3dear" -> 20
                 [] o = "offer1a" -> 20 [] OTHER -> 10,
      preferred |-> IF o = "offer1a" THEN 12 ELSE 0]]]

T(market, bid, offer, quantity) ==
  [market |-> market, bid |-> bid, offer |-> offer, quantity |-> quantity, price |-> 15]

Partners == <<T(m1, "bid1", "offer1a", 4), T(m1, "bid1", "offer1b", 2)>>
InHalves == <<T(m1, "bid1", "offer1a", 3), T(m1, "bid1", "offer1b", 3)>>
ThenPool == Partners \o <<T(m1, "bid1", Pool, 2)>>
UsedUp == <<T(m1, "bid1x", "offer1x", 3), T(m1, "bid1x", "offer1y", 2), T(m1, "bid1y", "offer1y", 5)>>
BuyerLeg == <<T(m2, "bid2", Pool, 2)>>
BothLegs == BuyerLeg \o <<T(m2, Pool, "offer2", 2)>>
SellerLeg == <<T(m3, Pool, "offer3", 2)>>
DearLeg == <<T(m3, Pool, "offer3dear", 2)>>
Oversold == <<T(m3, Pool, "offer3", 4)>>

Input(trades, traded1, traded3, results) ==
  [book |-> MCBook, trades |-> trades, results |-> results,
   traded |-> [m \in MCMarkets |-> CASE m = m1 -> traded1 [] m = m2 -> 2 [] m = m3 -> traded3]]

All(trades, traded1) == Input(trades, traded1, 2, MCMarkets)

TradedIn(first) ==
  CASE first = Partners -> 6 [] first = InHalves -> 8 [] first = ThenPool -> 8 [] OTHER -> 10

MCBatches ==
  {All(first \o second \o third, TradedIn(first)) :
     first \in {Partners, InHalves, ThenPool}, second \in {BuyerLeg, BothLegs},
     third \in {SellerLeg, DearLeg}}
  \cup {All(SellerLeg \o <<ThenPool[1]>> \o BuyerLeg \o Tail(ThenPool), 8),
        All(BuyerLeg \o UsedUp \o SellerLeg, 10),
        Input(ThenPool \o Oversold, 8, 4, MCMarkets),
        Input(ThenPool \o SellerLeg \o SellerLeg, 8, 2, MCMarkets),
        Input(Partners \o SellerLeg, 6, 2, {m1})}
=============================================================================
