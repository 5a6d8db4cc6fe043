-------------------------- MODULE SettlementEngine --------------------------
(***************************************************************************)
(* SettlementEngine.settle (amm-execution-node/src/engine.py) over the     *)
(* contracts it submits to.  A run validates the batch, leaves out what    *)
(* its ledger knows, registers the actors, places the pool's orders and    *)
(* settles whole markets.  Any call may raise, which ends the run; the     *)
(* same batch is run again.  The ledger lives in memory.                   *)
(*                                                                         *)
(* The contracts are those of ExchangeContracts.                           *)
(***************************************************************************)
EXTENDS ExchangeContracts, FiniteSets

CONSTANTS
  Batches,    \* the inputs: [book, trades, results, traded]
  BatchSize,  \* batch_size, in matches
  MaxRuns,    \* bound on the runs
  MaxUpsets   \* bound on failures and crashes

(* An order names its market, which is cleared over its own orders.        *)
InOneMarket(trades) ==
  \A k, l \in DOMAIN trades : \A o \in Orders :
    o \in {trades[k].bid, trades[k].offer} \cap {trades[l].bid, trades[l].offer}
      => trades[k].market = trades[l].market

ASSUME SettlementAssumption ==
  /\ BatchSize \in Nat \ {0}
  /\ MaxRuns \in Nat
  /\ MaxUpsets \in Nat
  /\ \A batch \in Batches : /\ IsBook(batch.book)
                            /\ batch.trades \in Seq(Trades) /\ InOneMarket(batch.trades)
                            /\ batch.results \subseteq Markets
                            /\ batch.traded \in [Markets -> Nat]

VARIABLES
  batch,      \* the input
  build,      \* what build_settlements makes of it, for every run
  rejected,   \* the markets validate_batch finds a violation in
  at,         \* the phase of the run
  toPlace,    \* pool orders the run has yet to place
  chunks,     \* transactions the run has yet to send
  ledger,     \* SettlementLedger: [settled, placed]
  registry,   \* the chain: [known: order ids, open: order tuples]
  executed,   \* the chain: the trades of the executed matches, in order
  reverted,   \* history: a transaction of the engine has reverted
  forgotten,  \* history: the ledger has missed or lost what the chain holds
  runs, upsets

input == <<batch, build, rejected>>
vars == <<batch, build, rejected, at, toPlace, chunks, ledger, registry, executed, reverted, forgotten,
          runs, upsets>>

-----------------------------------------------------------------------------
Matches(m) == build.of[m]
Traded == {m \in Markets : \E k \in DOMAIN batch.trades : batch.trades[k].market = m}

Violated(m) == ~ SettlementValid(batch.book, Matches(m), batch.traded[m])

OrderIds == [of : Orders \cup {Pool}, after : 0 .. Len(batch.trades)]
Chunks == Seq(Seq(Markets))

TypeOK ==
  /\ batch \in Batches
  /\ \A k \in DOMAIN build.matches : \A order \in {build.matches[k].bid, build.matches[k].offer} :
       order.id \in OrderIds /\ order.energy \in Nat \ {0}
  /\ rejected \subseteq Traded
  /\ at \in {"idle", "register", "place", "settle"}
  /\ \A k \in DOMAIN toPlace : toPlace[k].id \in OrderIds
  /\ chunks \in Chunks
  /\ ledger.settled \subseteq Traded
  /\ ledger.placed \subseteq OrderIds
  /\ registry.known \subseteq OrderIds
  /\ \A order \in registry.open : order.id \in registry.known /\ order.energy \in Nat
  /\ executed \in Seq(DOMAIN batch.trades)
  /\ {reverted, forgotten} \subseteq BOOLEAN
  /\ runs \in 0 .. MaxRuns /\ upsets \in 0 .. MaxUpsets

NewLedger == [settled |-> {}, placed |-> {}]

(* The tuple of an order, and what the registry holds from the start: the  *)
(* orders the participants placed.                                         *)
OrderTuple(order, poolRate) ==
  OnChain(batch.book, order, TermsOf(batch.book, order.id.of, poolRate))

PlacedByParticipants ==
  {OrderTuple([id |-> Original(o), energy |-> batch.book.energy[o]], 0) : o \in Orders}

Init ==
  /\ batch \in Batches
  /\ build = Build(batch.book, batch.trades)
  /\ rejected = {m \in Traded : Violated(m)}
  /\ at = "idle"
  /\ toPlace = <<>>
  /\ chunks = <<>>
  /\ ledger = NewLedger
  /\ registry = Registered(PlacedByParticipants)
  /\ executed = <<>>
  /\ reverted = FALSE
  /\ forgotten = FALSE
  /\ runs = 0
  /\ upsets = 0

-----------------------------------------------------------------------------
(* _pack: whole markets, as long as their matches fit a transaction.       *)
AddMarket(packed, m) ==
  LET size == SumFunction([k \in DOMAIN Last(packed) |-> Len(Matches(Last(packed)[k]))]) IN
  IF Last(packed) # <<>> /\ size + Len(Matches(m)) > BatchSize
  THEN Append(packed, <<m>>)
  ELSE Append(Front(packed), Append(Last(packed), m))

Packed(markets) ==
  LET packed[k \in 0 .. Len(markets)] ==
        IF k = 0 THEN << <<>> >> ELSE AddMarket(packed[k - 1], markets[k])
  IN packed[Len(markets)]

(* Mutant of Pack: a market that does not fit a transaction is left out.   *)
LargeDropped(markets) ==
  Packed(Subsequence(markets, {k \in DOMAIN markets : Len(Matches(markets[k])) <= BatchSize}))

Pack(markets) == Packed(markets)

Upset == upsets < MaxUpsets /\ upsets' = upsets + 1

(* Phases 1 and 2 of a run, after build_settlements: with nothing fresh    *)
(* the run ends here.                                                      *)
IsFresh(m) == m \notin rejected \cup ledger.settled

Fresh ==
  Subsequence(build.markets, {k \in DOMAIN build.markets : IsFresh(build.markets[k])})

MatchesOfAll(markets) == FlattenSeq([k \in DOMAIN markets |-> Matches(markets[k])])

(* The pool orders behind fresh matches, in the order of the trades.       *)
(* Mutant: those of the markets held back are placed as well.              *)
AllUnplaced ==
  LET orders == build.poolOrders IN
  Subsequence(orders, {k \in DOMAIN orders : orders[k].id \notin ledger.placed})

UsedOrders ==
  UNION {{match.bid.id, match.offer.id} : match \in {x \in ToSet(build.matches) : IsFresh(x.market)}}

Unplaced ==
  LET orders == build.poolOrders IN
  Subsequence(orders, {k \in DOMAIN orders : orders[k].id \in UsedOrders \ ledger.placed})

Start ==
  /\ at = "idle"
  /\ runs < MaxRuns
  /\ runs' = runs + 1
  /\ IF BuildRaises(batch.trades, batch.results) \/ Fresh = <<>>
     THEN UNCHANGED <<at, toPlace, chunks>>
     ELSE /\ at' = "register"
          /\ toPlace' = Unplaced
          /\ chunks' = Pack(Fresh)
  /\ UNCHANGED <<input, ledger, registry, executed, reverted, forgotten, upsets>>

(* Phase 3: the storage learns the actors' ids, and may know them already. *)
Register ==
  /\ at = "register"
  /\ at' = "place"
  /\ UNCHANGED <<input, toPlace, chunks, ledger, registry, executed, reverted, forgotten,
                 runs, upsets>>

-----------------------------------------------------------------------------
(* The tuples sent for a pool order and for the markets of a transaction.  *)
PoolTuple(order) ==
  LET match == build.matches[order.id.after] IN
  IF match.bid = order THEN OrderTuple(order, batch.book.upper)
                       ELSE OrderTuple(order, batch.book.lower)

Sent(markets) == Tuples(batch.book, MatchesOfAll(markets))
TradedOnChain == [m \in Markets |-> Scale(batch.traded[m], batch.book.grain)]

Refused(markets) == ~ SettleAccepted(registry, Sent(markets), TradedOnChain)

(* A transaction has been mined.                                           *)
PlaceMined(order) ==
  registry' = IF PlaceAccepted(registry, order) THEN Placed(registry, PoolTuple(order))
              ELSE registry

SettleMined(markets) ==
  IF Refused(markets) THEN UNCHANGED <<registry, executed>>
  ELSE /\ registry' = Executed(registry, Sent(markets))
       /\ executed' = executed \o [k \in DOMAIN Sent(markets) |-> Sent(markets)[k].trade]

-----------------------------------------------------------------------------
(* The end of a run, by return or by an exception.                         *)
EndRun == at' = "idle" /\ toPlace' = <<>> /\ chunks' = <<>>

(* Phase 4: one pool order, awaited and marked.  A call raises when its    *)
(* transaction has reverted, which ends the run.                           *)
Place ==
  LET order == Head(toPlace) IN
  /\ at = "place"
  /\ toPlace # <<>>
  /\ PlaceMined(order)
  /\ reverted' = (reverted \/ ~ PlaceAccepted(registry, order))
  /\ IF PlaceAccepted(registry, order)
     THEN /\ ledger' = [ledger EXCEPT !.placed = @ \cup {order.id}]
          /\ toPlace' = Tail(toPlace)
          /\ UNCHANGED <<at, chunks>>
     ELSE EndRun /\ UNCHANGED ledger
  /\ UNCHANGED <<input, executed, forgotten, runs, upsets>>

AllPlaced ==
  /\ at = "place"
  /\ toPlace = <<>>
  /\ at' = "settle"
  /\ UNCHANGED <<input, toPlace, chunks, ledger, registry, executed, reverted, forgotten,
                 runs, upsets>>

(* Phase 5: one transaction, awaited and its markets marked.               *)
Settle ==
  LET markets == Head(chunks) IN
  /\ at = "settle"
  /\ chunks # <<>>
  /\ SettleMined(markets)
  /\ reverted' = (reverted \/ Refused(markets))
  /\ IF Refused(markets) THEN EndRun /\ UNCHANGED ledger
     ELSE /\ ledger' = [ledger EXCEPT !.settled = @ \cup ToSet(markets)]
          /\ chunks' = Tail(chunks)
          /\ UNCHANGED <<at, toPlace>>
  /\ UNCHANGED <<input, forgotten, runs, upsets>>

Return ==
  /\ at = "settle"
  /\ chunks = <<>>
  /\ EndRun
  /\ UNCHANGED <<input, ledger, registry, executed, reverted, forgotten, runs, upsets>>

-----------------------------------------------------------------------------
(* A call raises before its transaction is sent: the registrar or the RPC. *)
(* Mutant: the markets of a transaction are marked before it is sent.      *)
MarkedFirst ==
  /\ at = "settle" /\ chunks # <<>>
  /\ Upset
  /\ EndRun
  /\ ledger' = [ledger EXCEPT !.settled = @ \cup ToSet(Head(chunks))]
  /\ UNCHANGED <<input, registry, executed, reverted, forgotten, runs>>

CallFails ==
  /\ at # "idle"
  /\ Upset
  /\ EndRun
  /\ UNCHANGED <<input, ledger, registry, executed, reverted, forgotten, runs>>

(* The transaction is mined, but its receipt does not come in time.        *)
ReceiptMissed ==
  /\ \/ at = "place" /\ toPlace # <<>> /\ PlaceMined(Head(toPlace)) /\ UNCHANGED executed
     \/ at = "settle" /\ chunks # <<>> /\ SettleMined(Head(chunks))
  /\ Upset
  /\ EndRun
  /\ forgotten' = TRUE
  /\ UNCHANGED <<input, ledger, reverted, runs>>

(* The process ends between two calls, and its ledger with it.             *)
Crash ==
  /\ Upset
  /\ EndRun
  /\ ledger' = NewLedger
  /\ forgotten' = (forgotten \/ ledger # NewLedger)
  /\ UNCHANGED <<input, registry, executed, reverted, runs>>

Next ==
  \/ Start \/ Register \/ Place \/ AllPlaced \/ Settle \/ Return
  \/ CallFails \/ ReceiptMissed \/ Crash

Spec == Init /\ [][Next]_vars

(* The run is driven to its end, and the batch run again after it.         *)
FairSpec == Spec /\ WF_vars(Start \/ Register \/ Place \/ AllPlaced \/ Settle \/ Return)

-----------------------------------------------------------------------------
ExecutedOf(m) == {k \in DOMAIN executed : batch.trades[executed[k]].market = m}
PoolOrdersOf(m) == {order.id : order \in ToSet(PoolOrders(Matches(m)))}

(* A market with a violation is held back as a whole: no run, of however   *)
(* many that crashed, has placed an order for it or settled a match of it. *)
HeldBackUntouched ==
  \A m \in rejected : ExecutedOf(m) = {} /\ PoolOrdersOf(m) \cap registry.known = {}

(* The ledger believes only what the chain holds: a market it lists is     *)
(* settled whole, match by match and once, and its orders are placed.      *)
LedgerIsTrue ==
  /\ \A m \in ledger.settled : Cardinality(ExecutedOf(m)) = Len(Matches(m))
  /\ IsInjective(executed)
  /\ ledger.placed \subseteq registry.known

(* Rounding has sold an order out before the last of its trades, in a      *)
(* market without a violation.                                             *)
SoldOut(o) ==
  LET legs == {k \in DOMAIN batch.trades : o \in {batch.trades[k].bid, batch.trades[k].offer}}
      units == [k \in legs |-> Scale(batch.trades[k].quantity, batch.book.grain)]
  IN \E k \in legs :
       /\ batch.trades[k].market \notin rejected
       /\ SumFunctionOnSet(units, {l \in legs : l < k}) >= Scale(batch.book.energy[o], batch.book.grain)

UsedUpOrderPasses == \E o \in Orders : SoldOut(o)

(* The contract never refuses a transaction of an engine whose ledger is   *)
(* complete: the matches of the builder chain the residuals in the order   *)
(* in which the contract makes them, and the validator lets nothing pass   *)
(* that the contract checks, but for an order that is used up by rounding  *)
(* and sold again (match_builder.py:137 leaves it to the validator).       *)
NothingReverts == reverted /\ ~ forgotten => UsedUpOrderPasses

(* Every market without a violation is settled in the end, whatever the    *)
(* other markets of the batch are like, unless the ledger misses something *)
(* the chain holds, or a transaction carries a used-up order: from then on *)
(* a run may revert for ever, and what is behind it is never reached.      *)
ValidMarketsSettle ==
  (~ BuildRaises(batch.trades, batch.results) /\ ~ UsedUpOrderPasses)
    => <>(forgotten \/ Traded \ rejected \subseteq ledger.settled)
=============================================================================
