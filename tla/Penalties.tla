------------------------------ MODULE Penalties ------------------------------
(***************************************************************************)
(* amm-execution-node/src/penalties.py.  A rule is [upper, lower, theta,   *)
(* steepness]; gamma is 11/10 and eta zero, their defaults, and penalties  *)
(* count tenths of a unit of money.  Energy may be in any unit common to   *)
(* its arguments.                                                          *)
(***************************************************************************)
EXTENDS PriceCurve

AtLeastZero(x) == IF x > 0 THEN x ELSE 0

PriceOf(rule, supply, demand) ==
  SigmoidPrice(supply, demand, rule.upper, rule.lower, rule.theta, rule.steepness)

(* compute_seller_shortfall_penalty                                        *)
Shortfall(rule, traded, delivered) == 11 * rule.upper * AtLeastZero(traded - delivered)

(* compute_seller_externality_penalty: what buyers paid too much for the   *)
(* whole market because a seller withheld supply.                          *)
(* Mutant: they are paid back for the seller's own energy only.            *)
OwnEnergyOnly(rule, deliverable, traded, supply, demand, price, quantity) ==
  LET withheld == AtLeastZero(deliverable - traded) IN
  10 * AtLeastZero(price - PriceOf(rule, supply + withheld, demand)) * withheld

SellerExternality(rule, deliverable, traded, supply, demand, price, quantity) ==
  LET withheld == AtLeastZero(deliverable - traded) IN
  10 * AtLeastZero(price - PriceOf(rule, supply + withheld, demand)) * quantity

(* compute_buyer_externality_penalty: what sellers were paid too little.   *)
BuyerExternality(rule, actual, reported, supply, demand, price, quantity) ==
  LET withheld == AtLeastZero(actual - reported) IN
  10 * AtLeastZero(PriceOf(rule, supply, demand + withheld) - price) * quantity

-----------------------------------------------------------------------------
(* compute_penalties_for_trades, for one trade [bid, offer, energy] of a   *)
(* market [supply, demand, price]: the measurement of the trade's facility *)
(* is held against this trade alone.  A direct trade is charged nothing.   *)
(* Mutant: sellers answer for withheld supply in every round.              *)
EveryRound(market) == TRUE

SupplyLimited(market) == market.supply <= market.demand
DemandLimited(market) == market.demand <= market.supply

Penalty(rule, market, trade, pool, measured) ==
  LET quantity == IF SupplyLimited(market) THEN market.supply ELSE market.demand IN
  CASE trade.bid = pool ->
         Shortfall(rule, trade.energy, measured) +
           (IF SupplyLimited(market)
            THEN SellerExternality(rule, measured, trade.energy, market.supply, market.demand,
                                   market.price, quantity)
            ELSE 0)
    [] trade.offer = pool ->
         IF DemandLimited(market)
         THEN BuyerExternality(rule, measured, trade.energy, market.supply, market.demand,
                               market.price, quantity)
         ELSE 0
    [] OTHER -> 0
=============================================================================
