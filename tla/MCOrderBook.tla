----------------------------- MODULE MCOrderBook -----------------------------
(* A bid, a matching offer, and an order of every other kind, on a market  *)
(* whose order window [0, 1), delivery slot [2, 4) and lookback of 5 fall  *)
(* within the bound of the clock; a second market is not the node's.       *)
EXTENDS OrderBook

CONSTANTS bid, offer, other, m1, m2

MCOrders == {bid, offer, other}
MCMarkets == {m1, m2}
MCAmmMarkets == {m1}
MCOpening == [m \in MCMarkets |-> 0]
MCClosing == [m \in MCMarkets |-> 1]
MCSlot == [m \in MCMarkets |-> 2]

Plain(side) == [market |-> m1, side |-> side, slot |-> 2, shape |-> "plain"]

Others ==
  {[Plain("Offer") EXCEPT !.shape = s] : s \in Shapes}
    \cup {[Plain("Offer") EXCEPT !.slot = 4], [Plain("Bid") EXCEPT !.slot = 3],
          [Plain("Bid") EXCEPT !.market = m2]}

MCSetups ==
  {[transport |-> t, strict |-> b,
    kind |-> [o \in MCOrders |-> CASE o = bid -> Plain("Bid")
                                   [] o = offer -> Plain("Offer")
                                   [] OTHER -> k]]
     : t \in Transports, b \in BOOLEAN, k \in Others}
=============================================================================
