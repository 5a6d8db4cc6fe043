-------------------------- MODULE MCSettlementPlan --------------------------
(***************************************************************************)
(* Two orders a side, of one or two prosumers, who may name each other or  *)
(* themselves: one or three units each, and amounts that halves of a unit  *)
(* make awkward.                                                           *)
(***************************************************************************)
EXTENDS SettlementPlan, TLC

CONSTANTS p1, p2

MCActors == {p1, p2}
MCSymmetry == Permutations(MCActors)

MCOrders == BidOrders \cup OfferOrders
MCMarkets == {Market}

OneOrThree == [1 .. 2 -> {1, 3}]
MCAmounts ==
  [bids : OneOrThree \ {<<1, 1>>}, offers : OneOrThree \ {<<3, 1>>}]
  \cup {[bids |-> <<5, 5>>, offers |-> <<3, 7>>], [bids |-> <<3, 7>>, offers |-> <<5, 5>>],
        [bids |-> <<7, 2>>, offers |-> <<5, 4>>]}

MCPrices == {10, 20}
MCLimits ==
  {[bid |-> 3000, offer |-> 0, preferred |-> 0], [bid |-> 1500, offer |-> 900, preferred |-> 2000]}
=============================================================================
