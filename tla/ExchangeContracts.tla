-------------------------- MODULE ExchangeContracts --------------------------
(***************************************************************************)
(* The GSY DEX contracts the settlement engine submits to, as engine.py,   *)
(* structs.py and validator.py describe and use them (external): the       *)
(* OrderRegistry keeps the orders, TradeSettlement executes the matches of *)
(* a transaction in order, all of them or none.                            *)
(***************************************************************************)
EXTENDS MatchBuilder

Registered(orders) == [known |-> {order.id : order \in orders}, open |-> orders]

(* placeOrder                                                              *)
PlaceAccepted(registry, order) == order.id \notin registry.known

Placed(registry, order) ==
  [known |-> registry.known \cup {order.id}, open |-> registry.open \cup {order}]

(* settleBatch: a match is checked on the numbers of its tuple.            *)
RateOf(order, isPreferred) ==
  IF isPreferred /\ order.preferred # 0 THEN order.preferred ELSE order.rate

NamesOther(order, other) == order.partner \in {NoPartner, other.by}

MatchAccepted(match) ==
  /\ match.bid.by # match.offer.by
  /\ match.isPreferred =>
       /\ {match.bid.partner, match.offer.partner} # {NoPartner}
       /\ NamesOther(match.bid, match.offer) /\ NamesOther(match.offer, match.bid)
  /\ RateOf(match.offer, match.isPreferred) <= match.price
  /\ match.price <= RateOf(match.bid, match.isPreferred)
  /\ match.selected > 0
  /\ match.selected <= match.bid.energy /\ match.selected <= match.offer.energy

(* It closes both orders and opens what is left of each, so that a later   *)
(* match finds the residuals of the earlier ones, and not their orders.    *)
LeftOver(order, match) ==
  IF order.energy > match.selected
  THEN {[order EXCEPT !.id = Residual(order.id.of, match.trade), !.energy = @ - match.selected]}
  ELSE {}

Closed(match) == {match.bid, match.offer}
Opened(match) == LeftOver(match.bid, match) \cup LeftOver(match.offer, match)

OpenAfter(registry, matches, n) ==
  (registry.open \cup UNION {Opened(matches[k]) : k \in 1 .. n})
    \ UNION {Closed(matches[k]) : k \in 1 .. n}

Executed(registry, matches) ==
  [known |-> registry.known
               \cup {order.id : order \in UNION {Opened(matches[k]) : k \in DOMAIN matches}},
   open |-> OpenAfter(registry, matches, Len(matches))]

TotalOf(matches, m) ==
  SumFunction([k \in DOMAIN matches |-> IF matches[k].market = m THEN matches[k].selected ELSE 0])

(* `traded` is the quantity of each market's clearing result, scaled.      *)
SettleAccepted(registry, matches, traded) ==
  /\ \A k \in DOMAIN matches :
       MatchAccepted(matches[k]) /\ Closed(matches[k]) \subseteq OpenAfter(registry, matches, k - 1)
  /\ \A k \in DOMAIN matches : TotalOf(matches, matches[k].market) = traded[matches[k].market]
=============================================================================
