----------------------------- MODULE OrderBook -----------------------------
(***************************************************************************)
(* The orders of a market from their submission to their settlement, and   *)
(* the runs of run_clearing (src/clearing.py) that read them meanwhile,    *)
(* over either transport.                                                  *)
(*                                                                         *)
(* Over REST the trades of a run are posted to the storage.  Over the EWDS *)
(* gateway they are not (post_trades sends nothing): the storage learns    *)
(* them from the events of the settlement, and learns from other events,   *)
(* before or after, that the orders were executed.  Until then every       *)
(* restart of the node clears the market again.  What keeps that harmless  *)
(* is that each of these runs reads the same book.                         *)
(*                                                                         *)
(* Runs follow one another here, and start once the market has closed:     *)
(* ClearingNode has the concurrent ones and those on open markets.         *)
(***************************************************************************)
EXTENDS Integers, FiniteSets

CONSTANTS
  Orders,
  Markets,
  AmmMarkets,   \* those with the matching algorithm "amm", in a known community
  Setups,       \* the transports, validations and orders to look at, see SetupType
  Opening, Closing, Slot, \* [Markets -> 0 .. MaxNow]
  SlotSec,      \* time_slot_sec
  Lookback,     \* MARKET_LOOKBACK_SEC
  MaxNow,       \* bound on the clock
  MaxUpsets,    \* bound on restarts and failed reads
  NoMarket

Transports == {"rest", "ewds"}
Sides == {"Bid", "Offer"}

(* What a stored order looks like to the node: an int:Order; one in an     *)
(* older dialect; one with a value that the schema refuses; one without a  *)
(* quantity; one of which no order can be made.                            *)
Shapes == {"plain", "legacy", "off schema", "unsized", "unreadable"}

Kinds == [market : Markets, side : Sides, slot : 0 .. MaxNow, shape : Shapes]
SetupType == [transport : Transports, strict : BOOLEAN, kind : [Orders -> Kinds]]

ASSUME OrderBookAssumption ==
  /\ AmmMarkets \subseteq Markets
  /\ Setups \subseteq SetupType
  /\ {Opening, Closing, Slot} \subseteq [Markets -> 0 .. MaxNow]
  /\ \A m \in Markets : Opening[m] <= Closing[m] /\ Closing[m] <= Slot[m]
  /\ {SlotSec, Lookback, MaxNow, MaxUpsets} \subseteq Nat
  /\ NoMarket \notin Markets

VARIABLES
  now,
  setup,     \* how the node is configured and what the orders are
  status,    \* [Orders -> Statuses]: as the storage keeps it
  trades,    \* [Markets -> SUBSET IdForms]: the storage has trades under these ids
  onchain,   \* the orders that the settlement has executed
  processed, \* the scheduler's in-memory set
  run,       \* the run of run_clearing under way
  outputs,   \* history: [Markets -> SUBSET Outputs], what the runs have produced
  upsets

vars == <<now, setup, status, trades, onchain, processed, run, outputs, upsets>>
storage == <<status, trades>>
world == <<now, setup, storage, onchain>>

-----------------------------------------------------------------------------
(* The older dialects have statuses of their own.                          *)
Statuses == {"none", "submitted", "open", "cancelled", "deleted", "expired", "executed"}

(* A market id is a UUID, or the same bytes as 0x and hex digits.          *)
IdForms == {"uuid", "hex"}

(* `executed` are the orders that the storage said were executed when the  *)
(* book was read, `untraded` whether it had no trades of the market, under *)
(* whatever id, when it was asked.                                         *)
Outputs == [book : SUBSET Orders, executed : SUBSET Orders, untraded : BOOLEAN]
NoOutput == [book |-> {}, executed |-> {}, untraded |-> TRUE]

RunStates == [at : {"idle", "get_trades", "get_orders", "post"},
              market : Markets \cup {NoMarket}, id : IdForms, output : Outputs]
NoRun == [at |-> "idle", market |-> NoMarket, id |-> "uuid", output |-> NoOutput]

Kind(o) == setup.kind[o]
OrdersOf(m) == {o \in Orders : Kind(o).market = m}
OneSided(book) == \E side \in Sides : \A o \in book : Kind(o).side # side

AfterSlot(o) == Kind(o).slot >= Slot[Kind(o).market] + SlotSec
InSlot(o) == Kind(o).slot >= Slot[Kind(o).market] /\ ~ AfterSlot(o)

(* The type invariant; a run's book is made of the market's own orders for *)
(* its delivery slot, whatever else the storage keeps under the market.    *)
TypeOK ==
  /\ now \in 0 .. MaxNow
  /\ setup \in Setups
  /\ status \in [Orders -> Statuses]
  /\ trades \in [Markets -> SUBSET IdForms]
  /\ onchain \subseteq Orders
  /\ processed \subseteq Markets
  /\ run \in RunStates
  /\ upsets \in 0 .. MaxUpsets
  /\ outputs \in [Markets -> SUBSET Outputs]
  /\ \A m \in Markets : \A x \in outputs[m] :
       \A o \in x.book : Kind(o).market = m /\ InSlot(o)

Init ==
  /\ now = 0
  /\ setup \in Setups
  /\ status = [o \in Orders |-> "none"]
  /\ trades = [m \in Markets |-> {}]
  /\ onchain = {}
  /\ processed = {}
  /\ run = NoRun
  /\ outputs = [m \in Markets |-> {}]
  /\ upsets = 0

-----------------------------------------------------------------------------
(* The storage.  Orders are submitted and withdrawn while their market is  *)
(* open.                                                                   *)
Submit(o) ==
  /\ status[o] = "none"
  /\ now < Closing[Kind(o).market]
  /\ status' = [status EXCEPT ![o] = IF Kind(o).shape = "legacy" THEN "open" ELSE "submitted"]
  /\ UNCHANGED <<now, setup, trades, onchain, processed, run, outputs, upsets>>

Withdraw(o) ==
  /\ status[o] \in {"submitted", "open"}
  /\ now < Closing[Kind(o).market]
  /\ status' = [status EXCEPT ![o] = IF @ = "open" THEN "deleted" ELSE "cancelled"]
  /\ UNCHANGED <<now, setup, trades, onchain, processed, run, outputs, upsets>>

(* expire_orders, every now and then.                                      *)
Expired(o) == status[o] = "submitted" /\ Kind(o).slot < now

ExpireOrders ==
  /\ \E o \in Orders : Expired(o)
  /\ status' = [o \in Orders |-> IF Expired(o) THEN "expired" ELSE status[o]]
  /\ UNCHANGED <<now, setup, trades, onchain, processed, run, outputs, upsets>>

TimePasses ==
  /\ now < MaxNow
  /\ now' = now + 1
  /\ UNCHANGED <<setup, storage, onchain, processed, run, outputs, upsets>>

-----------------------------------------------------------------------------
(* What get_trades answers.  REST compares the market id literally; over   *)
(* the gateway the client asks for the hex form, and compares both forms.  *)
AskedLiterally(m, id) ==  \* mutant: over the gateway, too
  id \in trades[m]

TradesFound(m, id) ==
  IF setup.transport = "rest" THEN id \in trades[m] ELSE trades[m] # {}

(* What get_orders answers: the orders of the market in the right-open     *)
(* window of its slot.  Older dialects are normalized over the gateway.    *)
RightClosed(o) ==  \* mutant: an order of the next slot is read as well
  Kind(o).slot \in Slot[Kind(o).market] .. Slot[Kind(o).market] + SlotSec

InWindow(o) ==
  /\ Kind(o).slot >= Slot[Kind(o).market]
  /\ Kind(o).slot < Slot[Kind(o).market] + SlotSec

Answered(m) == {o \in OrdersOf(m) : status[o] # "none" /\ InWindow(o)}

Normalized(shape) ==
  IF setup.transport = "ewds" /\ shape = "legacy" THEN "plain" ELSE shape

OntologyStatus(s) ==
  CASE setup.transport = "ewds" /\ s = "open" -> "submitted"
    [] setup.transport = "ewds" /\ s = "deleted" -> "cancelled"
    [] OTHER -> s

(* Step 1 of run_clearing: orders that break the schema are dropped unless *)
(* the validation is lenient, and so are those that cannot be converted.   *)
LenientAlways(shape) ==  \* mutant: a schema error is only logged
  shape \notin {"legacy", "unreadable"}

Kept(shape) ==
  /\ shape \notin {"legacy", "unreadable"}
  /\ setup.strict => shape = "plain"

SubmittedOnly == {"submitted"}  \* mutant: an expired order is not matchable

Matchable == {"submitted", "expired"}

Book(m) ==
  {o \in Answered(m) : Kept(Normalized(Kind(o).shape)) /\ OntologyStatus(status[o]) \in Matchable}

(* Adding up the quantities of the open orders raises at one without any.  *)
AggregateRaises(book) == \E o \in book : Kind(o).shape = "unsized"

-----------------------------------------------------------------------------
(* The scheduler's tick, or a trigger of the orchestrator after the close, *)
(* which may name the market in either form over the gateway.              *)
OpenAreDue(m) ==  \* mutant: the closing time is not looked at
  Opening[m] \in now - Lookback .. now

Due(m) ==
  /\ m \in AmmMarkets
  /\ Opening[m] \in now - Lookback .. now
  /\ Closing[m] <= now

Begin(m, id) ==
  /\ run = NoRun
  /\ Due(m)
  /\ m \notin processed
  /\ run' = [at |-> "get_trades", market |-> m, id |-> id, output |-> NoOutput]
  /\ UNCHANGED <<world, processed, outputs, upsets>>

(* The run returns, and its market is processed unless it raised.          *)
Return ==
  /\ run' = NoRun
  /\ processed' = processed \cup {run.market}

Raise ==
  /\ run' = NoRun
  /\ UNCHANGED processed

(* Step 0.                                                                 *)
GetTrades ==
  /\ run.at = "get_trades"
  /\ IF TradesFound(run.market, run.id)
     THEN Return
     ELSE /\ run' = [run EXCEPT !.at = "get_orders",
                                !.output = [@ EXCEPT !.untraded = (trades[run.market] = {})]]
          /\ UNCHANGED processed
  /\ UNCHANGED <<world, outputs, upsets>>

(* Steps 1 and 2.                                                          *)
Reading(m, untraded) ==
  [book |-> Book(m), executed |-> {o \in Answered(m) : status[o] = "executed"},
   untraded |-> untraded]

GetOrders ==
  LET m == run.market IN
  /\ run.at = "get_orders"
  /\ IF AggregateRaises(Book(m))
     THEN Raise
     ELSE /\ run' = [run EXCEPT !.at = "post", !.output = Reading(m, @.untraded)]
          /\ UNCHANGED processed
  /\ UNCHANGED <<world, outputs, upsets>>

(* Step 8: the trades of a two-sided book reach the storage over REST      *)
(* only; the summary of the run tells them in any case.                    *)
Post ==
  LET m == run.market
      x == run.output
  IN
  /\ run.at = "post"
  /\ outputs' = [outputs EXCEPT ![m] = @ \cup {x}]
  /\ trades' = IF setup.transport = "ewds" \/ OneSided(x.book)
               THEN trades
               ELSE [trades EXCEPT ![m] = @ \cup {run.id}]
  /\ Return
  /\ UNCHANGED <<now, setup, status, onchain, upsets>>

(* A read fails, or the answer does not come in time.                      *)
ReadFails ==
  /\ run.at \in {"get_trades", "get_orders"}
  /\ upsets < MaxUpsets
  /\ upsets' = upsets + 1
  /\ Raise
  /\ UNCHANGED <<world, outputs>>

(* The node stops, at whatever await, and starts again.                    *)
Restart ==
  /\ run # NoRun \/ processed # {}
  /\ upsets < MaxUpsets
  /\ upsets' = upsets + 1
  /\ run' = NoRun
  /\ processed' = {}
  /\ UNCHANGED <<world, outputs>>

-----------------------------------------------------------------------------
(* The settlement executes the book of a run, of whose orders none was     *)
(* executed before (ExchangeContracts), and its events reach the storage   *)
(* one by one, in any order.                                               *)
Settle(m, x) ==
  /\ ~ OneSided(x.book)
  /\ x.book \cap onchain = {}
  /\ onchain' = onchain \cup x.book
  /\ UNCHANGED <<now, setup, storage, processed, run, outputs, upsets>>

OrderExecuted(o) ==
  /\ o \in onchain
  /\ status[o] # "executed"
  /\ status' = [status EXCEPT ![o] = "executed"]
  /\ UNCHANGED <<now, setup, trades, onchain, processed, run, outputs, upsets>>

TradesSettled(m) ==
  /\ OrdersOf(m) \cap onchain # {}
  /\ "hex" \notin trades[m]
  /\ trades' = [trades EXCEPT ![m] = @ \cup {"hex"}]
  /\ UNCHANGED <<now, setup, status, onchain, processed, run, outputs, upsets>>

-----------------------------------------------------------------------------
Runs ==
  \/ \E m \in Markets :
       \/ Begin(m, "uuid")
       \/ setup.transport = "ewds" /\ Begin(m, "hex")
  \/ GetTrades \/ GetOrders \/ Post

Settlement ==
  \/ \E m \in Markets : TradesSettled(m) \/ \E x \in outputs[m] : Settle(m, x)
  \/ \E o \in Orders : OrderExecuted(o)

Next ==
  \/ \E o \in Orders : Submit(o) \/ Withdraw(o)
  \/ ExpireOrders \/ TimePasses
  \/ Runs \/ ReadFails \/ Restart
  \/ Settlement

Spec == Init /\ [][Next]_vars

(* The scheduler ticks again and the event loop resumes the run; nothing   *)
(* is promised of the storage, the settlement or the clock.                *)
FairSpec == Spec /\ WF_vars(Runs)

-----------------------------------------------------------------------------
(* An order that stands: submitted and not withdrawn.                      *)
Standing(m) ==
  {o \in OrdersOf(m) : InSlot(o) /\ status[o] \notin {"none", "cancelled", "deleted"}}

(* The orders whose submitters may rely on being cleared.                  *)
Sound(o) ==
  \/ Kind(o).shape = "plain"
  \/ Kind(o).shape = "legacy" /\ setup.transport = "ewds"

Counts(m, x) ==
  LET counted == x.book \cup x.executed IN
  /\ {o \in Standing(m) : Sound(o)} \subseteq counted
  /\ counted \subseteq Standing(m)
  /\ setup.strict => \A o \in counted : Sound(o)

(* Every run accounts for the same orders, however late it reads them and  *)
(* however much of the settlement the storage has heard of by then: each   *)
(* standing order is in the book or already executed, and no order is that *)
(* was withdrawn or, under strict validation, breaks the schema ("Re-running*)
(* the clearing of a slot yields identical results", architecture.md:30).  *)
EveryOrderCounted ==
  \A m \in Markets : \A x \in outputs[m] : Counts(m, x)

(* Whichever of its runs is settled, and although the storage may forget   *)
(* none and the node all of them, a market is executed as one book: with   *)
(* one of its orders every standing one is executed.                       *)
SettledAsOneBook ==
  \A m \in Markets :
    OrdersOf(m) \cap onchain # {} => {o \in Standing(m) : Sound(o)} \subseteq onchain

(* The idempotency check can be relied on: nothing is produced by a run    *)
(* that asked for the trades when the storage had any, whether a run had   *)
(* posted them or the settlement had sent them, under the id in the form   *)
(* that the one or the other uses, and whichever form the run was given.   *)
TradedMeansSkipped ==
  \A m \in Markets : \A x \in outputs[m] : x.untraded

(* Every market that closes is cleared, unless it leaves the window the    *)
(* scheduler asks for, or a lenient validation lets in an order without a  *)
(* quantity, at which every run raises.                                    *)
Hopeless(m) ==
  \/ Opening[m] < now - Lookback
  \/ ~ setup.strict /\ \E o \in Standing(m) : Kind(o).shape = "unsized"

ClosedMarketsCleared ==
  \A m \in AmmMarkets :
    now >= Closing[m] ~> outputs[m] # {} \/ trades[m] # {} \/ Hopeless(m)
=============================================================================
