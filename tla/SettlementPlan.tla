--------------------------- MODULE SettlementPlan ---------------------------
(***************************************************************************)
(* From the orders of one market to its settlement on the chain: the       *)
(* trades of Allocation go through the dry run of the execution node       *)
(* (amm-execution-node/src/main.py over match_builder.py and validator.py) *)
(* and, when nothing is found wrong, to the contracts.  Every quantity and *)
(* price is rounded where the execution node rounds it.                    *)
(***************************************************************************)
EXTENDS Allocation, ExchangeContracts

CONSTANTS
  KUpper, KLower,  \* the band given to the execution node, ct per kWh
  Scales,          \* how many units of Amounts make one unit of the chain
  Limits           \* what the orders ask for, in units of the chain:
                   \* [bid, offer, preferred], the last for preferred partners

Market == "market"
BidOrder(i) == IF i = PoolOrder THEN Pool ELSE <<"bid", i>>
OfferOrder(j) == IF j = PoolOrder THEN Pool ELSE <<"offer", j>>
BidOrders == {<<"bid", i>> : i \in Bids}
OfferOrders == {<<"offer", j>> : j \in Offers}

(* The exchange knows the orders of this market.                           *)
ASSUME PlanAssumption ==
  /\ Orders = BidOrders \cup OfferOrders
  /\ Markets = {Market}
  /\ NoPartner = Nobody
  /\ KUpper \in Nat /\ KLower \in Nat
  /\ Scales \subseteq Nat \ {0}
  /\ Limits \subseteq [bid : Nat, offer : Nat, preferred : Nat]

VARIABLES
  limits,   \* those of this market, and
  units,    \* its scale: parts of the orders that the plan is the first to read
  plan,     \* the matches built
  outcome   \* "open", "planned", "held back", "settled" or "reverted"

planVars == <<limits, units, plan, outcome>>
allVars == <<vars, planVars>>

-----------------------------------------------------------------------------
(* The inputs of the dry run: the orders, the trades as posted and the     *)
(* traded quantity of the clearing result.  Exact prices are a multiple of *)
(* 1 / (100 * Volume) ct, and the chain counts in 1 / 100 ct.              *)
OrderOf(o) == IF o[1] = "bid" THEN bids[o[2]] ELSE offers[o[2]]

BookFor(scale, asked) ==
  [grain |-> scale * Supply * Demand,
   upper |-> 100 * KUpper,
   lower |-> 100 * KLower,
   energy |-> [o \in Orders |-> OrderOf(o).quantity * Supply * Demand],
   terms |-> [o \in Orders |->
                [by |-> OrderOf(o).by, partner |-> OrderOf(o).partner,
                 rate |-> IF o[1] = "bid" THEN asked.bid ELSE asked.offer,
                 preferred |-> asked.preferred]]]

WireTrade(trade) ==
  [market |-> Market, bid |-> BidOrder(trade.bid), offer |-> OfferOrder(trade.offer),
   quantity |-> trade.quantity, price |-> Scale(trade.price, Volume)]

WireTrades == [k \in DOMAIN trades |-> WireTrade(trades[k])]
TradedEnergy == Traded * Supply * Demand

PlanInit ==
  /\ Init
  /\ limits = [bid |-> 0, offer |-> 0, preferred |-> 0]
  /\ units = 1
  /\ plan = <<>>
  /\ outcome = "open"

Clear == Next /\ UNCHANGED planVars

(* main: build_settlements, validate_batch.                                *)
PlanMarket ==
  /\ at = "traded"
  /\ outcome = "open"
  /\ \E asked \in Limits, scale \in Scales :
     LET book == BookFor(scale, asked)
         built == AllMatches(book, WireTrades)
     IN /\ limits' = asked
        /\ units' = scale
        /\ plan' = built
        /\ outcome' = IF SettlementValid(book, built, TradedEnergy)
                      THEN "planned" ELSE "held back"
  /\ UNCHANGED vars

(* The pool's orders are placed and the market is settled, or the whole    *)
(* transaction reverts.                                                    *)
Submitted(book, order, poolRate) ==
  OnChain(book, order, TermsOf(book, order.id.of, poolRate))

Participants(book) ==
  {Submitted(book, [id |-> Original(o), energy |-> book.energy[o]], 0) :
     o \in Orders}

PoolSide(book) ==
  {Submitted(book, plan[k].bid, book.upper) : k \in {l \in DOMAIN plan : plan[l].bid.id.of = Pool}}
    \cup {Submitted(book, plan[k].offer, book.lower) :
            k \in {l \in DOMAIN plan : plan[l].offer.id.of = Pool}}

SubmitMarket ==
  LET book == BookFor(units, limits)
      registry == Registered(Participants(book) \cup PoolSide(book))
      traded == [m \in {Market} |-> Scale(TradedEnergy, book.grain)]
  IN
  /\ outcome = "planned"
  /\ outcome' = IF SettleAccepted(registry, Tuples(book, plan), traded)
                THEN "settled" ELSE "reverted"
  /\ UNCHANGED <<vars, limits, units, plan>>

PlanNext == Clear \/ PlanMarket \/ SubmitMarket

PlanSpec == PlanInit /\ [][PlanNext]_allVars

-----------------------------------------------------------------------------
(* Every trade is one between partners, not of an actor with himself, and  *)
(* at a price that the limits of both admit.                               *)
Asked(limit) == IF limits.preferred # 0 THEN limits.preferred ELSE limit

Settleable ==
  \A k \in DOMAIN trades :
    LET paid == WireTrade(trades[k]).price IN
    /\ trades[k].bid # PoolOrder /\ trades[k].offer # PoolOrder
    /\ bids[trades[k].bid].by # offers[trades[k].offer].by
    /\ Asked(limits.offer) <= paid /\ paid <= Asked(limits.bid)

Whole(energy) == energy % (units * Supply * Demand) = 0

WholeUnits ==
  /\ \A k \in DOMAIN trades : Whole(trades[k].quantity)
  /\ \A i \in Bids : Whole(bids[i].quantity * Supply * Demand)
  /\ \A j \in Offers : Whole(offers[j].quantity * Supply * Demand)

(* In whole units nothing but the mechanism decides: a market is settled   *)
(* exactly when all of it is traded between partners within their limits.  *)
(* One with a leg of the pool counts the energy of the pool twice (the     *)
(* open point of validator.py), and one in which an actor who named        *)
(* himself is matched with himself, as preferences.py:65 does, is held     *)
(* back with all its trades (validator.py:68).                             *)
WholeMarketsSettle ==
  outcome \in {"settled", "held back", "reverted"} /\ WholeUnits =>
    (outcome = "settled" <=> Settleable)

(* What the dry run lets pass the contract executes: the residuals are the *)
(* ones it makes, to the unit, and every check of it has been made.  Only  *)
(* an order that rounding has sold out before its last trade is missed     *)
(* (match_builder.py:137 leaves it to a validator that sees matches only). *)
InUnits(energy) == Scale(energy, units * Supply * Demand)

SoldOut(legs, quantity) ==
  \E k \in legs :
    SumFunctionOnSet([l \in legs |-> InUnits(trades[l].quantity)], {l \in legs : l < k})
      >= InUnits(quantity * Supply * Demand)

UsedUpOrder ==
  \/ \E i \in Bids : SoldOut({k \in DOMAIN trades : trades[k].bid = i}, bids[i].quantity)
  \/ \E j \in Offers : SoldOut({k \in DOMAIN trades : trades[k].offer = j}, offers[j].quantity)

PassedIsExecuted == outcome = "reverted" => UsedUpOrder

(* Rounding holds back a market of partners only when some quantity is not *)
(* whole, and then for a leg below half a unit, for a rest that rounding   *)
(* left too small, or for a total that is off by at most half a unit for   *)
(* every leg that is not whole.                                            *)
Fractions == {k \in DOMAIN trades : ~ Whole(trades[k].quantity)}

RoundingIsBounded ==
  outcome \in {"held back", "reverted"} /\ Settleable =>
    LET grain == units * Supply * Demand
        sum == SumFunction([k \in DOMAIN trades |-> InUnits(trades[k].quantity)])
        error == sum * grain - TradedEnergy
        bound == Cardinality(Fractions) * grain
    IN ~ WholeUnits /\ - bound <= 2 * error /\ 2 * error <= bound
=============================================================================
