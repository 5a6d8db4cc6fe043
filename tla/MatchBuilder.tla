---------------------------- MODULE MatchBuilder ----------------------------
(***************************************************************************)
(* build_settlements (amm-execution-node/src/match_builder.py), scale and  *)
(* to_tuple (src/structs.py) and validate_batch (src/validator.py): the    *)
(* matches of each market made from the trades of the clearing node, with  *)
(* the chain of residuals that an order leaves when several matches fill   *)
(* it, their form on the chain, and the markets held back.                 *)
(*                                                                         *)
(* A book says what the orders are like.  Energy off the chain is a whole  *)
(* number of 1 / book.grain of the unit of the chain (10^-4 kWh), and is   *)
(* rounded wherever the code rounds it; prices and rates are in the unit   *)
(* of the chain (10^-4 EUR per kWh).                                       *)
(***************************************************************************)
EXTENDS Subsequences, SequencesExt, Functions

CONSTANTS
  Orders,      \* the participants' orders
  Markets,
  Pool,        \* the pool's actor, and its side of a trade
  NoPartner

ASSUME MatchBuilderAssumption == Pool \notin Orders

(* scale: to the nearest unit, and half a unit to the even neighbour.      *)
(* Mutant: the fraction is cut off.                                        *)
Truncated(energy, grain) == energy \div grain

Scale(energy, grain) ==
  LET below == energy \div grain
      twice == 2 * (energy % grain)
  IN IF twice > grain \/ (twice = grain /\ below % 2 = 1) THEN below + 1 ELSE below

(* The int:Orders, in two functions, and the band of the community.        *)
IsBook(book) ==
  /\ book.grain \in Nat \ {0}
  /\ book.energy \in [Orders -> Nat \ {0}]
  /\ \A o \in Orders : {book.terms[o].rate, book.terms[o].preferred} \subseteq Nat
  /\ {book.lower, book.upper} \subseteq Nat

(* An int:Trade.  A batch is a sequence of them; a trade's id is its place.*)
Trades == [market : Markets, bid : Orders \cup {Pool}, offer : Orders \cup {Pool},
           quantity : Nat \ {0}, price : Int]

(* An order on the chain: one a participant placed, the residual left by   *)
(* the match of trade `after`, or the pool's order for that trade.         *)
Original(o) == [of |-> o, after |-> 0]
Residual(o, t) == [of |-> o, after |-> t]
PoolOrderId(t) == [of |-> Pool, after |-> t]

-----------------------------------------------------------------------------
(* take: a match consumes the order's current form, and leaves a residual  *)
(* of what is over in whole units.  A form that is used up stays current.  *)
(* Mutants: the form is not moved on; a used-up form leaves an empty one;  *)
(* the rest is not rounded.                                                *)
NeverMoved(book, live, o, quantity, t) == live

EmptyResidual(book, live, o, quantity, t) ==
  IF o # Pool /\ live[o].energy >= quantity
  THEN [live EXCEPT ![o] = [id |-> Residual(o, t), energy |-> @.energy - quantity]]
  ELSE live

ExactRest(book, live, o, quantity, t) ==
  IF o # Pool /\ live[o].energy > quantity
  THEN [live EXCEPT ![o] = [id |-> Residual(o, t), energy |-> @.energy - quantity]]
  ELSE live

Remaining(book, live, o, quantity) ==
  Scale(live[o].energy, book.grain) - Scale(quantity, book.grain)

Moved(book, live, o, quantity, t) ==
  IF o # Pool /\ Remaining(book, live, o, quantity) > 0
  THEN [live EXCEPT ![o] = [id |-> Residual(o, t),
                            energy |-> Remaining(book, live, o, quantity) * book.grain]]
  ELSE live

(* What a match consumes on one side: the live form of a participant's     *)
(* order, or an order of the pool made for this trade alone.               *)
Side(live, o, quantity, t) ==
  IF o = Pool THEN [id |-> PoolOrderId(t), energy |-> quantity] ELSE live[o]

(* The state of the loop over the trades.                                  *)
NothingBuilt(book) ==
  [live |-> [o \in Orders |-> [id |-> Original(o), energy |-> book.energy[o]]],
   matches |-> <<>>]

AddTrade(book, built, trade) ==
  LET t == Len(built.matches) + 1
      match == [trade |-> t, market |-> trade.market,
                bid |-> Side(built.live, trade.bid, trade.quantity, t),
                offer |-> Side(built.live, trade.offer, trade.quantity, t),
                quantity |-> trade.quantity, price |-> trade.price]
      afterBid == Moved(book, built.live, trade.bid, trade.quantity, t)
  IN [live |-> Moved(book, afterBid, trade.offer, trade.quantity, t),
      matches |-> Append(built.matches, match)]

AllMatches(book, trades) ==
  LET built[k \in 0 .. Len(trades)] ==
        IF k = 0 THEN NothingBuilt(book) ELSE AddTrade(book, built[k - 1], trades[k])
  IN built[Len(trades)].matches

(* One settlement per market, in the order in which they first appear.     *)
MarketsIn(matches) ==
  LET IsFirst(k) == \A l \in 1 .. k - 1 : matches[l].market # matches[k].market
  IN Subsequence([k \in DOMAIN matches |-> matches[k].market], {k \in DOMAIN matches : IsFirst(k)})

(* No settlement is built for any market when one trade has the pool on    *)
(* both sides or one market has no clearing result.                        *)
BuildRaises(trades, results) ==
  \E k \in DOMAIN trades :
    \/ trades[k].bid = Pool /\ trades[k].offer = Pool
    \/ trades[k].market \notin results

PoolOrders(matches) ==
  LET orders == FlattenSeq([k \in DOMAIN matches |-> <<matches[k].bid, matches[k].offer>>])
  IN Subsequence(orders, {k \in DOMAIN orders : orders[k].id.of = Pool})

MatchesOf(matches, m) == Subsequence(matches, {k \in DOMAIN matches : matches[k].market = m})

(* The BuildResult: the matches, in the order of their trades and by       *)
(* market, and the pool's orders.                                          *)
Build(book, trades) ==
  LET matches == AllMatches(book, trades)
  IN [matches |-> matches, markets |-> MarketsIn(matches),
      of |-> [m \in Markets |-> MatchesOf(matches, m)], poolOrders |-> PoolOrders(matches)]

Direct(match) == match.bid.id.of # Pool /\ match.offer.id.of # Pool

-----------------------------------------------------------------------------
(* validate_match.  The pool bids at the ceiling and offers at the floor.  *)
TermsOf(book, o, poolRate) ==
  IF o = Pool THEN [by |-> Pool, partner |-> NoPartner, rate |-> poolRate, preferred |-> 0]
  ELSE book.terms[o]

BidTerms(book, match) == TermsOf(book, match.bid.id.of, book.upper)
OfferTerms(book, match) == TermsOf(book, match.offer.id.of, book.lower)

EffectiveRate(terms) == IF terms.preferred # 0 THEN terms.preferred ELSE terms.rate

PartnersAgree(bid, offer) ==
  /\ bid.partner # NoPartner \/ offer.partner # NoPartner
  /\ bid.partner \in {NoPartner, offer.by}
  /\ offer.partner \in {NoPartner, bid.by}

PriceAgrees(book, match) ==
  LET bid == BidTerms(book, match)
      offer == OfferTerms(book, match)
  IN IF Direct(match)
     THEN /\ PartnersAgree(bid, offer)
          /\ EffectiveRate(offer) <= match.price /\ match.price <= EffectiveRate(bid)
     ELSE offer.rate <= match.price /\ match.price <= bid.rate

MatchValid(book, match) ==
  LET selected == Scale(match.quantity, book.grain) IN
  /\ BidTerms(book, match).by # OfferTerms(book, match).by
  /\ PriceAgrees(book, match)
  /\ selected > 0
  /\ selected <= Scale(match.bid.energy, book.grain)
  /\ selected <= Scale(match.offer.energy, book.grain)

(* validate_settlement.                                                    *)
Selected(book, matches) ==
  SumFunction([k \in DOMAIN matches |-> Scale(matches[k].quantity, book.grain)])

SettlementValid(book, matches, traded) ==
  /\ \A k \in DOMAIN matches : MatchValid(book, matches[k])
  /\ Selected(book, matches) = Scale(traded, book.grain)

-----------------------------------------------------------------------------
(* to_tuple: what of an order and of a match goes to the chain.            *)
OnChain(book, order, terms) ==
  [id |-> order.id, energy |-> Scale(order.energy, book.grain), by |-> terms.by,
   partner |-> terms.partner, rate |-> terms.rate, preferred |-> terms.preferred]

MatchTuple(book, match) ==
  [trade |-> match.trade, market |-> match.market, isPreferred |-> Direct(match),
   bid |-> OnChain(book, match.bid, BidTerms(book, match)),
   offer |-> OnChain(book, match.offer, OfferTerms(book, match)),
   selected |-> Scale(match.quantity, book.grain), price |-> match.price]

Tuples(book, matches) == [k \in DOMAIN matches |-> MatchTuple(book, matches[k])]
=============================================================================
