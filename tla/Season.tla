------------------------------- MODULE Season -------------------------------
(***************************************************************************)
(* A season of a community: the parameters calibrated of its history price *)
(* a market, whose sellers and buyers report what they like, whose meters  *)
(* tell what they had and needed, and whose trades are charged for the     *)
(* difference.  The mechanism is that of Allocation, with at most one pair *)
(* of partners, and energy in the unit 1 / (supply * demand).              *)
(***************************************************************************)
EXTENDS Calibration, Penalties, Sequences, SequencesExt

CONSTANTS
  Bids, Offers,   \* the orders
  Facilities,     \* possible ownerships: [orders -> facility]
  Pool,
  Reports,        \* quantities an order may be for
  Truths          \* what a facility may have or need

ASSUME SeasonAssumption ==
  /\ IsFiniteSet(Bids) /\ IsFiniteSet(Offers)
  /\ Bids \cap Offers = {}
  /\ Pool \notin Bids \cup Offers
  /\ Reports \subseteq Nat \ {0}
  /\ Truths \subseteq Nat

Orders == Bids \cup Offers

VARIABLES
  facility,   \* who placed which order
  partners,   \* the pairs <<bid, offer>> that name each other
  reported,   \* the quantity of each order
  trades,     \* [bid, offer, energy]
  truth,      \* what one facility really had or needed,
  liar,       \* that facility; the others reported the truth
  penalties   \* of each trade

marketVars == <<facility, partners, reported, trades, truth, liar, penalties>>
vars == <<calibrationVars, marketVars>>

Nothing == <<>>

Init ==
  /\ CalibrationInit
  /\ facility = Nothing
  /\ partners = {}
  /\ reported = Nothing
  /\ trades = {}
  /\ truth = 0
  /\ liar = Pool
  /\ penalties = Nothing

Calibrate == CalibrationNext /\ UNCHANGED marketVars

-----------------------------------------------------------------------------
(* The calibrated parameters go into the configuration of the community;   *)
(* the history has served its purpose.                                     *)
OpenMarket ==
  /\ step = "calibrated"
  /\ step' = "open"
  /\ history' = {} /\ slots' = NoSlots /\ community' = Everyone
  /\ facility' \in Facilities
  /\ reported' \in [Orders -> Reports]
  /\ partners' \in {{}} \cup {{<<i, j>>} : i \in Bids, j \in Offers}
  /\ UNCHANGED <<params, trades, truth, liar, penalties>>

Total(orders) == SumFunctionOnSet(reported, orders)
Supply == Total(Offers)
Demand == Total(Bids)
Traded == Min({Supply, Demand})
Parts == Supply * Demand

Share(o) == reported[o] * Traded * (IF o \in Bids THEN Supply ELSE Demand)

DirectEnergy(i, j) == IF <<i, j>> \in partners THEN Min({Share(i), Share(j)}) ELSE 0
DirectOf(o) ==
  SumFunction([pair \in {p \in partners : o \in {p[1], p[2]}} |-> DirectEnergy(pair[1], pair[2])])

Trade(i, j, energy) == [bid |-> i, offer |-> j, energy |-> energy]

(* run_clearing, steps 5 to 7.                                             *)
ClearMarket ==
  /\ step = "open"
  /\ step' = "cleared"
  /\ trades' = {t \in {Trade(p[1], p[2], DirectEnergy(p[1], p[2])) : p \in partners}
                  \cup {Trade(i, Pool, Share(i) - DirectOf(i)) : i \in Bids}
                  \cup {Trade(Pool, j, Share(j) - DirectOf(j)) : j \in Offers} : t.energy > 0}
  /\ UNCHANGED <<history, community, slots, params, facility, partners, reported, truth, liar,
                 penalties>>

-----------------------------------------------------------------------------
Rule == [upper |-> KUpper, lower |-> KLower, theta |-> params[1], steepness |-> params[2]]
Price == PriceOf(Rule, Supply, Demand)
Market == [supply |-> Supply * Parts, demand |-> Demand * Parts, price |-> Price]

OrdersOf(f) == {o \in Orders : facility[o] = f}
OwnerOf(t) == facility[IF t.offer = Pool THEN t.bid ELSE t.offer]
TradesOf(f) == {t \in trades : \E o \in OrdersOf(f) : o \in {t.bid, t.offer}}

Measured(f) == (IF f = liar THEN truth ELSE Total(OrdersOf(f))) * Parts

(* The slot is over, and the meters are read.                              *)
ReadMeters ==
  /\ step = "cleared"
  /\ step' = "metered"
  /\ \E o \in Orders : liar' = facility[o]
  /\ truth' \in Truths
  /\ UNCHANGED <<history, community, slots, params, facility, partners, reported, trades, penalties>>

Charge ==
  /\ step = "metered"
  /\ step' = "charged"
  /\ penalties' = [t \in trades |-> Penalty(Rule, Market, t, Pool, Measured(OwnerOf(t)))]
  /\ UNCHANGED <<history, community, slots, params, facility, partners, reported, trades, truth, liar>>

Next == Calibrate \/ OpenMarket \/ ClearMarket \/ ReadMeters \/ Charge

Spec == Init /\ [][Next]_vars

-----------------------------------------------------------------------------
Truthful(f) == Measured(f) = Total(OrdersOf(f)) * Parts

(* Who reports what he has or needs is charged nothing, however short the  *)
(* market is on the other side: as long as all of it is one trade.  A      *)
(* second order of his, or a direct trade beside the one with the pool, is *)
(* held against the same measurement, and then he is charged for energy he *)
(* has sold (penalties.py:176).                                            *)
TruthfulPayNothing ==
  step = "charged" =>
    \A t \in trades : Truthful(OwnerOf(t)) /\ TradesOf(OwnerOf(t)) = {t} => penalties[t] = 0

(* Money is counted in tenths, for energy in parts.  What is not sold goes *)
(* to the grid at the floor, and what is not bought comes from it at the   *)
(* ceiling.                                                                *)
SellerGain(sold, has, price) == 10 * (price * sold + KLower * AtLeastZero(has - sold))
BuyerCost(bought, needs, price) ==
  10 * (price * bought + KUpper * AtLeastZero(needs - bought) - KLower * AtLeastZero(bought - needs))

LiarOnServedSide(side) ==
  /\ step = "charged"
  /\ OrdersOf(liar) \in {{o} : o \in side}
  /\ \E t \in trades : TradesOf(liar) = {t} /\ Pool \in {t.bid, t.offer}

SellerGainsNothing ==
  LiarOnServedSide(Offers) /\ Supply <= Demand =>
    LET t == CHOOSE x \in trades : TradesOf(liar) = {x}
        supply == Supply - reported[t.offer] + truth
        sold == Min({supply, Demand})
    IN (SellerGain(t.energy, truth * Parts, Price) - penalties[t]) * supply
         <= IF truth = 0 THEN 0
            ELSE SellerGain(truth * sold, truth * supply, PriceOf(Rule, supply, Demand)) * Parts

BuyerGainsNothing ==
  LiarOnServedSide(Bids) /\ Demand <= Supply =>
    LET t == CHOOSE x \in trades : TradesOf(liar) = {x}
        demand == Demand - reported[t.bid] + truth
        bought == Min({demand, Supply})
    IN (BuyerCost(t.energy, truth * Parts, Price) + penalties[t]) * demand
         >= IF truth = 0 THEN 0
            ELSE BuyerCost(truth * bought, truth * demand, PriceOf(Rule, Supply, demand)) * Parts

(* On the side that is served in full nobody with one order and no partner *)
(* does better by what he reported than the truth would have done for him: *)
(* selling less to raise the price, or buying less to lower it, costs what *)
(* the others lose by it, and promising too much costs the shortfall.  (On *)
(* the side that is rationed an exaggeration still takes a larger share.)  *)
LyingGainsNothing == SellerGainsNothing /\ BuyerGainsNothing
=============================================================================
