-------------------------- MODULE OrderBook_proofs --------------------------
(***************************************************************************)
(* Proofs about the order book, for any orders, markets, configurations,   *)
(* times and bounds.  All rest on one fact: from the close of a market on, *)
(* the set of its standing orders does not change (StandingSteady).        *)
(***************************************************************************)
EXTENDS OrderBook, TLAPS

Closed(m) == Closing[m] <= now

(* The statuses of the older dialects are those of its orders.             *)
LegacyOpen == \A o \in Orders : status[o] = "open" => Kind(o).shape = "legacy"

(* What a run relies on while it is under way.                             *)
RunReady ==
  run.at # "idle" =>
    /\ run.market \in Markets
    /\ Closed(run.market)
    /\ setup.transport = "rest" => run.id = "uuid"

RunUntraded == run.at \in {"get_orders", "post"} => run.output.untraded

RunCounts ==
  \A m \in Markets : \A x \in Outputs :
    run.at = "post" /\ run.market = m /\ run.output = x =>
      Counts(m, x) /\ x.executed \subseteq onchain

(* What the runs have produced stays true of the storage.                  *)
OutputsCount ==
  \A m \in Markets : \A x \in outputs[m] :
    Closed(m) /\ Counts(m, x) /\ x.executed \subseteq onchain

(* Whatever is executed belongs to a closed market with a two-sided book,  *)
(* and the storage believes no other order executed.                       *)
OnchainStands ==
  \A o \in onchain :
    LET m == Kind(o).market IN
    /\ Closed(m)
    /\ o \in Standing(m)
    /\ setup.strict => Sound(o)
    /\ \E x \in outputs[m] : ~ OneSided(x.book)

ExecutedOnchain == \A o \in Orders : status[o] = "executed" => o \in onchain

(* Over REST a market with trades has them under the id of its orders.     *)
PostedUnderUuid ==
  setup.transport = "rest" =>
    \A m \in Markets :
      trades[m] # {} \/ (\E x \in outputs[m] : ~ OneSided(x.book)) => "uuid" \in trades[m]

BookInv ==
  /\ TypeOK /\ LegacyOpen
  /\ RunReady /\ RunUntraded /\ RunCounts
  /\ OutputsCount /\ OnchainStands /\ ExecutedOnchain /\ PostedUnderUuid
  /\ TradedMeansSkipped /\ SettledAsOneBook

-----------------------------------------------------------------------------
LEMMA KindType ==
  ASSUME setup \in Setups, NEW o \in Orders
  PROVE  Kind(o) \in Kinds /\ Kind(o).market \in Markets /\ Kind(o).slot \in 0 .. MaxNow
BY OrderBookAssumption DEF Kind, SetupType, Kinds

(* What a run reads is the market's standing orders, as far as they are    *)
(* not executed and pass the validation.                                   *)
LEMMA BookStands ==
  ASSUME TypeOK, LegacyOpen, NEW m \in Markets
  PROVE  /\ Book(m) \subseteq Standing(m)
         /\ \A o \in Standing(m) : Sound(o) => o \in Book(m) \/ status[o] = "executed"
         /\ setup.strict => \A o \in Book(m) : Sound(o)
<1>1. SlotSec \in Nat /\ Slot[m] \in Nat
  BY OrderBookAssumption
<1>2. ASSUME NEW o \in OrdersOf(m)
      PROVE  o \in Orders /\ Kind(o).market = m /\ (InWindow(o) <=> InSlot(o))
             /\ Kind(o).shape \in Shapes /\ status[o] \in Statuses
  <2>1. o \in Orders /\ Kind(o).market = m /\ Kind(o) \in Kinds /\ Kind(o).slot \in Nat
    BY <1>2, KindType DEF OrdersOf, TypeOK
  <2> QED
    BY <1>1, <2>1 DEF InWindow, InSlot, AfterSlot, Kinds, TypeOK
<1>3. setup.transport \in Transports /\ setup.strict \in BOOLEAN
  BY OrderBookAssumption DEF TypeOK, SetupType
<1>4. ASSUME NEW o \in Book(m)
      PROVE  o \in Standing(m) /\ (setup.strict => Sound(o))
  <2>1. o \in OrdersOf(m) /\ status[o] # "none" /\ InWindow(o)
        /\ Kept(Normalized(Kind(o).shape)) /\ OntologyStatus(status[o]) \in Matchable
    BY <1>4 DEF Book, Answered
  <2>2. status[o] \notin {"none", "cancelled", "deleted"}
    BY <1>3, <2>1 DEF OntologyStatus, Matchable, Transports
  <2>3. setup.strict => Sound(o)
    BY <2>1 DEF Kept, Normalized, Sound
  <2> QED
    BY <1>2, <2>1, <2>2, <2>3 DEF Standing
<1>5. ASSUME NEW o \in Standing(m), Sound(o), status[o] # "executed"
      PROVE  o \in Book(m)
  <2>1. o \in OrdersOf(m) /\ InWindow(o) /\ status[o] \in {"submitted", "open", "expired"}
    BY <1>2, <1>5 DEF Standing, Statuses
  <2>2. Normalized(Kind(o).shape) = "plain"
    BY <1>5 DEF Sound, Normalized
  <2>3. OntologyStatus(status[o]) \in Matchable
    <3>1. o \in Orders
      BY <2>1 DEF OrdersOf
    <3>2. status[o] = "open" => setup.transport = "ewds"
      BY <1>5, <3>1 DEF LegacyOpen, Sound
    <3> QED
      BY <2>1, <3>2 DEF OntologyStatus, Matchable
  <2> QED
    BY <2>1, <2>2, <2>3 DEF Book, Answered, Kept
<1> QED
  BY <1>4, <1>5

(* The orders that stand for a closed market stand for good.               *)
SteadyFor(m) == Standing(m)' = Standing(m)

LEMMA StandingSteady ==
  ASSUME TypeOK, OnchainStands, [Next]_vars, NEW m \in Markets, Closed(m)
  PROVE  SteadyFor(m)
<1> USE DEF SteadyFor
<1>1. setup' = setup
  BY DEF Next, vars, Submit, Withdraw, ExpireOrders, TimePasses, Runs, Begin, GetTrades,
         GetOrders, Post, ReadFails, Restart, Settlement, Settle, OrderExecuted,
         TradesSettled, world
<1>2. ASSUME NEW o \in OrdersOf(m)
      PROVE  /\ o \in Orders /\ Kind(o)' = Kind(o) /\ Kind(o).market = m
             /\ InSlot(o)' = InSlot(o)
  BY <1>1 DEF OrdersOf, Kind, InSlot, AfterSlot
<1>3. OrdersOf(m)' = OrdersOf(m)
  BY <1>1 DEF OrdersOf, Kind
<1>4. SUFFICES \A o \in OrdersOf(m) :
                 status'[o] \in {"none", "cancelled", "deleted"}
                   <=> status[o] \in {"none", "cancelled", "deleted"}
  BY <1>2, <1>3 DEF Standing
<1>5. CASE UNCHANGED status
  BY <1>5
<1>6. ASSUME NEW p \in Orders, Submit(p) \/ Withdraw(p)
      PROVE  \A o \in OrdersOf(m) : status'[o] = status[o]
  <2>1. now < Closing[Kind(p).market] /\ Kind(p).market \in Markets
    BY <1>6, KindType DEF Submit, Withdraw, TypeOK
  <2>2. Closing[m] \in Nat /\ now \in Nat
    BY OrderBookAssumption DEF TypeOK
  <2>3. p \notin OrdersOf(m)
    BY <1>2, <2>1, <2>2, OrderBookAssumption DEF Closed
  <2> QED
    BY <1>2, <1>6, <2>3 DEF Submit, Withdraw, TypeOK
<1>7. CASE ExpireOrders
  BY <1>2, <1>7 DEF ExpireOrders, Expired, TypeOK
<1>8. ASSUME NEW p \in Orders, OrderExecuted(p)
      PROVE  \A o \in OrdersOf(m) :
               status'[o] \in {"none", "cancelled", "deleted"}
                 <=> status[o] \in {"none", "cancelled", "deleted"}
  <2>1. status[p] \notin {"none", "cancelled", "deleted"}
    BY <1>8 DEF OrderExecuted, OnchainStands, Standing
  <2> QED
    BY <1>2, <1>8, <2>1 DEF OrderExecuted, TypeOK
<1> QED
  BY <1>5, <1>6, <1>7, <1>8
  DEF Next, vars, TimePasses, Runs, Begin, GetTrades, GetOrders, Post, ReadFails,
      Restart, Settlement, Settle, TradesSettled, world, storage

-----------------------------------------------------------------------------
(* Nothing that the invariant looks at is ever taken back.                 *)
LEMMA Growth ==
  ASSUME TypeOK, [Next]_vars
  PROVE  /\ setup' = setup
         /\ now' \in Nat /\ now <= now'
         /\ onchain \subseteq onchain'
         /\ \A m \in Markets : outputs[m] \subseteq outputs'[m] /\ trades[m] \subseteq trades'[m]
<1> USE DEF TypeOK
<1>0. now \in Nat /\ MaxNow \in Nat
  BY OrderBookAssumption
<1>1. CASE TimePasses
  BY <1>0, <1>1 DEF TimePasses, storage
<1>2. CASE Post
  BY <1>0, <1>2 DEF Post, Return
<1>3. CASE Settlement
  BY <1>0, <1>3 DEF Settlement, TradesSettled, Settle, OrderExecuted, storage
<1>4. CASE UNCHANGED <<now, setup, trades, onchain, outputs>>
  BY <1>0, <1>4
<1> QED
  BY <1>1, <1>2, <1>3, <1>4
  DEF Next, vars, Submit, Withdraw, ExpireOrders, Runs, Begin, GetTrades, GetOrders,
      ReadFails, Restart, world, storage

LEMMA ClosedSteady ==
  ASSUME TypeOK, [Next]_vars, NEW m \in Markets, Closed(m)
  PROVE  Closed(m)'
<1>1. Closing[m] \in Nat /\ now \in Nat
  BY OrderBookAssumption DEF TypeOK
<1> QED
  BY <1>1, Growth DEF Closed

LEMMA CountsSteady ==
  ASSUME TypeOK, OnchainStands, [Next]_vars, NEW m \in Markets, Closed(m),
         NEW x \in Outputs, Counts(m, x)
  PROVE  Counts(m, x)'
<1>1. setup' = setup /\ Standing(m)' = Standing(m)
  BY Growth, StandingSteady DEF SteadyFor
<1>2. \A o : Sound(o)' = Sound(o)
  BY <1>1 DEF Sound, Kind
<1> QED
  BY <1>1, <1>2 DEF Counts

(* The book that GetOrders reads counts, with the orders it finds executed.*)
LEMMA ReadCounts ==
  ASSUME BookInv, NEW m \in Markets, NEW x,
         x.book = Book(m), x.executed = {o \in Answered(m) : status[o] = "executed"}
  PROVE  Counts(m, x) /\ x.executed \subseteq onchain
<1> USE DEF BookInv
<1>1. SlotSec \in Nat /\ Slot[m] \in Nat
  BY OrderBookAssumption
<1>2. \A o \in OrdersOf(m) : o \in Orders /\ Kind(o).market = m /\ (InWindow(o) <=> InSlot(o))
  <2> SUFFICES ASSUME NEW o \in OrdersOf(m)
               PROVE  o \in Orders /\ Kind(o).market = m /\ (InWindow(o) <=> InSlot(o))
    OBVIOUS
  <2>1. o \in Orders /\ Kind(o).market = m /\ Kind(o).slot \in Nat
    BY KindType DEF OrdersOf, TypeOK
  <2> QED
    BY <1>1, <2>1 DEF InWindow, InSlot, AfterSlot
<1>3. \A o \in Answered(m) :
        status[o] = "executed" =>
          o \in onchain /\ o \in Standing(m) /\ (setup.strict => Sound(o))
  <2> SUFFICES ASSUME NEW o \in Answered(m), status[o] = "executed"
               PROVE  o \in onchain /\ o \in Standing(m) /\ (setup.strict => Sound(o))
    OBVIOUS
  <2>1. o \in Orders /\ Kind(o).market = m
    BY <1>2 DEF Answered
  <2>2. o \in onchain
    BY <2>1 DEF ExecutedOnchain
  <2> QED
    BY <2>1, <2>2 DEF OnchainStands
<1>4. \A o \in Standing(m) : status[o] = "executed" => o \in x.executed
  BY <1>2 DEF Standing, Answered
<1> QED
  BY <1>3, <1>4, BookStands DEF Counts

-----------------------------------------------------------------------------
LEMMA InitInv == Init => BookInv
<1> SUFFICES ASSUME Init PROVE BookInv
  OBVIOUS
<1> USE DEF Init
<1>1. TypeOK
  BY OrderBookAssumption
  DEF TypeOK, Statuses, RunStates, NoRun, IdForms, Outputs, NoOutput
<1>2. LegacyOpen /\ ExecutedOnchain /\ OnchainStands /\ PostedUnderUuid
  BY DEF LegacyOpen, ExecutedOnchain, OnchainStands, PostedUnderUuid
<1>3. RunReady /\ RunUntraded /\ RunCounts
  BY DEF RunReady, RunUntraded, RunCounts, NoRun
<1>4. OutputsCount /\ TradedMeansSkipped /\ SettledAsOneBook
  BY DEF OutputsCount, TradedMeansSkipped, SettledAsOneBook
<1> QED
  BY <1>1, <1>2, <1>3, <1>4 DEF BookInv

(* The types.                                                              *)
LEMMA ReadType ==
  ASSUME TypeOK, NEW m \in Markets
  PROVE  Book(m) \subseteq Orders /\ Answered(m) \subseteq Orders
BY DEF Book, Answered, OrdersOf

LEMMA TypeStep ==
  ASSUME BookInv, [Next]_vars
  PROVE  TypeOK'
<1> USE DEF BookInv, TypeOK
<1>0. /\ \A m \in Markets : \A x \in outputs[m] : \A o \in x.book :
           (Kind(o).market = m /\ InSlot(o))
      /\ NoRun \in RunStates /\ MaxNow \in Nat /\ MaxUpsets \in Nat
  BY OrderBookAssumption DEF NoRun, NoOutput, RunStates, Outputs, IdForms
<1>1. \A o : Kind(o)' = Kind(o) /\ (InSlot(o)' <=> InSlot(o))
  BY Growth DEF Kind, InSlot, AfterSlot
<1>2. CASE UNCHANGED vars
  BY <1>0, <1>1, <1>2 DEF vars
<1>3. ASSUME NEW o \in Orders, Submit(o) \/ Withdraw(o) \/ OrderExecuted(o)
      PROVE  TypeOK'
  BY <1>0, <1>1, <1>3 DEF Submit, Withdraw, OrderExecuted, Statuses
<1>4. CASE ExpireOrders
  BY <1>0, <1>1, <1>4 DEF ExpireOrders, Statuses
<1>5. CASE TimePasses
  BY <1>0, <1>1, <1>5 DEF TimePasses, storage
<1>6. ASSUME NEW m \in Markets, NEW id \in IdForms, Begin(m, id)
      PROVE  TypeOK'
  <2>1. run' \in RunStates
    BY <1>6 DEF Begin, RunStates, NoOutput, Outputs
  <2> QED
    BY <1>0, <1>1, <1>6, <2>1 DEF Begin, world, storage
<1>7. CASE GetTrades
  <2>1. run.market \in Markets /\ run.output \in Outputs /\ run.id \in IdForms
    BY <1>7 DEF GetTrades, RunReady, RunStates
  <2>2. run' \in RunStates
    <3>1. [run.output EXCEPT !.untraded = (trades[run.market] = {})] \in Outputs
      BY <2>1 DEF Outputs
    <3> QED
      BY <1>0, <1>7, <2>1, <3>1 DEF GetTrades, Return, RunStates
  <2>3. processed' \subseteq Markets
    BY <1>7, <2>1 DEF GetTrades, Return
  <2> QED
    BY <1>0, <1>1, <1>7, <2>2, <2>3 DEF GetTrades, world, storage
<1>8. CASE GetOrders
  <2>1. run.market \in Markets /\ run.output \in Outputs /\ run.id \in IdForms
    BY <1>8 DEF GetOrders, RunReady, RunStates
  <2>2. /\ Book(run.market) \subseteq Orders
        /\ {o \in Answered(run.market) : status[o] = "executed"} \subseteq Orders
    BY <2>1, ReadType
  <2>3. run' \in RunStates
    <3>1. Reading(run.market, run.output.untraded) \in Outputs
      BY <2>1, <2>2 DEF Reading, Outputs
    <3> QED
      BY <1>0, <1>8, <2>1, <3>1 DEF GetOrders, Raise, RunStates
  <2> QED
    BY <1>0, <1>1, <1>8, <2>3 DEF GetOrders, Raise, world, storage
<1>9. CASE Post
  <2>1. run.market \in Markets /\ run.output \in Outputs /\ run.id \in IdForms
    BY <1>9 DEF Post, RunReady, RunStates
  <2>2. \A o \in run.output.book : Kind(o).market = run.market /\ InSlot(o)
    BY <1>9, <2>1 DEF Post, RunCounts, Counts, Standing, OrdersOf
  <2>3. outputs' \in [Markets -> SUBSET Outputs] /\ trades' \in [Markets -> SUBSET IdForms]
    BY <1>9, <2>1 DEF Post
  <2>4. run' \in RunStates /\ processed' \subseteq Markets
    BY <1>0, <1>9, <2>1 DEF Post, Return
  <2>5. \A m \in Markets : \A x \in outputs'[m] : \A o \in x.book :
          (Kind(o).market = m /\ InSlot(o))
    BY <1>0, <1>9, <2>1, <2>2 DEF Post
  <2>6. \A m \in Markets : \A x \in outputs'[m] : \A o \in x.book :
          (Kind(o).market = m /\ InSlot(o))'
    BY <1>1, <2>5
  <2> QED
    BY <1>9, <2>3, <2>4, <2>6 DEF Post
<1>10. CASE ReadFails \/ Restart
  BY <1>0, <1>1, <1>10 DEF ReadFails, Restart, Raise, world, storage
<1>11. ASSUME NEW m \in Markets, TradesSettled(m) \/ \E x \in outputs[m] : Settle(m, x)
       PROVE  TypeOK'
  <2>1. CASE TradesSettled(m)
    BY <1>0, <1>1, <2>1 DEF TradesSettled, IdForms
  <2>2. ASSUME NEW x \in outputs[m], Settle(m, x)
        PROVE  TypeOK'
    <3>1. x \in Outputs
      OBVIOUS
    <3> QED
      BY <1>0, <1>1, <2>2, <3>1 DEF Settle, Outputs, storage
  <2> QED
    BY <1>11, <2>1, <2>2
<1> QED
  BY <1>2, <1>3, <1>4, <1>5, <1>6, <1>7, <1>8, <1>9, <1>10, <1>11
  DEF Next, Runs, Settlement, IdForms

(* The run: it keeps to a closed market and the id form of its transport,  *)
(* goes on only where the storage has no trades, and reads a book that     *)
(* counts every order.                                                     *)
LEMMA RunStep ==
  ASSUME BookInv, [Next]_vars
  PROVE  RunReady' /\ RunUntraded' /\ RunCounts'
<1> USE DEF BookInv
<1>0. TypeOK /\ run \in RunStates /\ setup.transport \in Transports
  BY OrderBookAssumption DEF TypeOK, SetupType
<1>1. CASE run' = run
  <2>1. RunReady'
    BY <1>0, <1>1, Growth, ClosedSteady DEF RunReady, Closed
  <2>2. ASSUME NEW m \in Markets, NEW x \in Outputs,
               run'.at = "post", run'.market = m, run'.output = x
        PROVE  Counts(m, x)' /\ x.executed \subseteq onchain'
    <3>1. Closed(m) /\ Counts(m, x) /\ x.executed \subseteq onchain
      BY <1>1, <2>2 DEF RunReady, RunCounts
    <3> QED
      BY <3>1, CountsSteady, Growth
  <2> QED
    BY <1>1, <2>1, <2>2 DEF RunUntraded, RunCounts
<1>2. CASE run' = NoRun
  BY <1>2 DEF RunReady, RunUntraded, RunCounts, NoRun
<1>3. ASSUME NEW m \in Markets, NEW id \in IdForms, Begin(m, id),
             setup.transport = "ewds" \/ id = "uuid"
      PROVE  RunReady' /\ RunUntraded' /\ RunCounts'
  <2>1. run' = [at |-> "get_trades", market |-> m, id |-> id, output |-> NoOutput]
        /\ Closed(m) /\ now' = now /\ setup' = setup
    BY <1>3 DEF Begin, Due, Closed, world
  <2> QED
    BY <1>3, <2>1 DEF RunReady, RunUntraded, RunCounts, Closed
<1>4. CASE GetTrades /\ ~ TradesFound(run.market, run.id)
  <2>1. run.market \in Markets /\ Closed(run.market)
        /\ (setup.transport = "rest" => run.id = "uuid")
    BY <1>4 DEF GetTrades, RunReady
  <2>2. trades[run.market] = {}
    BY <1>0, <1>4, <2>1 DEF TradesFound, PostedUnderUuid, Transports
  <2>3. run' = [run EXCEPT !.at = "get_orders",
                           !.output = [@ EXCEPT !.untraded = (trades[run.market] = {})]]
        /\ now' = now /\ setup' = setup
    BY <1>4 DEF GetTrades, world
  <2>4. run'.at = "get_orders" /\ run'.market = run.market /\ run'.id = run.id
        /\ run'.output.untraded = (trades[run.market] = {})
    BY <1>0, <2>3 DEF RunStates, Outputs
  <2> QED
    BY <2>1, <2>2, <2>3, <2>4 DEF RunReady, RunUntraded, RunCounts, Closed
<1>5. CASE GetOrders /\ run' # NoRun
  <2> DEFINE x == Reading(run.market, run.output.untraded)
  <2>1. run.market \in Markets /\ Closed(run.market) /\ run.output.untraded
        /\ (setup.transport = "rest" => run.id = "uuid")
    BY <1>5 DEF GetOrders, RunReady, RunUntraded
  <2>2. run' = [run EXCEPT !.at = "post", !.output = x]
        /\ UNCHANGED <<now, setup, status, onchain>>
    BY <1>5 DEF GetOrders, Raise, world, storage
  <2>3. run'.at = "post" /\ run'.market = run.market /\ run'.id = run.id /\ run'.output = x
    BY <1>0, <2>2 DEF RunStates
  <2>4. x.book = Book(run.market) /\ x.untraded = run.output.untraded
        /\ x.executed = {o \in Answered(run.market) : status[o] = "executed"}
    BY DEF Reading
  <2>5. ASSUME NEW m \in Markets, NEW y \in Outputs, m = run.market, y = x
        PROVE  Counts(m, y)' /\ y.executed \subseteq onchain'
    <3>1. Counts(m, y) /\ y.executed \subseteq onchain
      BY <2>4, <2>5, ReadCounts
    <3> QED
      BY <2>1, <2>5, <3>1, CountsSteady, Growth
  <2> QED
    BY <2>1, <2>2, <2>3, <2>4, <2>5 DEF RunReady, RunUntraded, RunCounts, Closed
<1> QED
  <2>1. CASE GetTrades
    BY <1>2, <1>4, <2>1 DEF GetTrades, Return
  <2>2. CASE GetOrders
    BY <1>2, <1>5, <2>2
  <2>3. CASE Post \/ ReadFails \/ Restart
    BY <1>2, <2>3 DEF Post, ReadFails, Restart, Return, Raise
  <2>4. CASE \E m \in Markets : Begin(m, "uuid") \/ (setup.transport = "ewds" /\ Begin(m, "hex"))
    BY <1>3, <2>4 DEF IdForms
  <2> QED
    BY <1>1, <2>1, <2>2, <2>3, <2>4
    DEF Next, vars, Submit, Withdraw, ExpireOrders, TimePasses, Runs, Settlement, Settle,
        OrderExecuted, TradesSettled

(* The outputs: Post adds that of the run, which counts every order; those *)
(* that were there still do.                                               *)
LEMMA OutputStep ==
  ASSUME BookInv, [Next]_vars
  PROVE  OutputsCount' /\ TradedMeansSkipped'
<1> USE DEF BookInv
<1>1. ASSUME NEW m \in Markets, NEW x \in outputs'[m]
      PROVE  /\ Closed(m)' /\ Counts(m, x)' /\ x.executed \subseteq onchain'
             /\ x.untraded
  <2>1. CASE x \in outputs[m]
    <3>1. x \in Outputs
      BY <2>1 DEF TypeOK
    <3>2. Closed(m) /\ Counts(m, x) /\ x.executed \subseteq onchain /\ x.untraded
      BY <2>1 DEF OutputsCount, TradedMeansSkipped
    <3> QED
      BY <3>1, <3>2, ClosedSteady, CountsSteady, Growth
  <2>2. CASE x \notin outputs[m]
    <3>1. Post
      BY <2>2
      DEF Next, vars, Submit, Withdraw, ExpireOrders, TimePasses, Runs, Begin, GetTrades,
          GetOrders, ReadFails, Restart, Settlement, Settle, OrderExecuted, TradesSettled
    <3>2. m = run.market /\ x = run.output /\ x \in Outputs /\ run.at = "post"
      BY <2>2, <3>1 DEF Post, TypeOK, RunStates
    <3>3. Closed(m) /\ Counts(m, x) /\ x.executed \subseteq onchain /\ x.untraded
      BY <3>2 DEF RunReady, RunCounts, RunUntraded
    <3> QED
      BY <3>2, <3>3, ClosedSteady, CountsSteady, Growth
  <2> QED
    BY <2>1, <2>2
<1> QED
  BY <1>1 DEF OutputsCount, TradedMeansSkipped

(* The settlement: it executes whole books of closed markets.              *)
LEMMA SettleStep ==
  ASSUME BookInv, [Next]_vars
  PROVE  OnchainStands' /\ SettledAsOneBook'
<1> USE DEF BookInv
<1>0. setup' = setup /\ onchain \subseteq onchain'
      /\ \A m \in Markets : outputs[m] \subseteq outputs'[m]
  BY Growth
<1>1. \A o : Kind(o)' = Kind(o) /\ (Sound(o)' <=> Sound(o))
  BY <1>0 DEF Kind, Sound
<1>2. \A book : OneSided(book)' <=> OneSided(book)
  BY <1>1 DEF OneSided
<1>3. \A o \in onchain : o \in Orders /\ Kind(o).market \in Markets
  BY KindType DEF TypeOK
(* An order newly executed is one of a two-sided book that counts.         *)
<1>4. ASSUME NEW o \in onchain', o \notin onchain
      PROVE  \E m \in Markets : \E x \in outputs[m] :
               /\ o \in x.book /\ ~ OneSided(x.book) /\ onchain' = onchain \cup x.book
               /\ Kind(o).market = m
  <2>0. PICK m \in Markets : \E x \in outputs[m] : Settle(m, x)
    BY <1>4
    DEF Next, vars, Submit, Withdraw, ExpireOrders, TimePasses, Runs, Begin, GetTrades,
        GetOrders, Post, ReadFails, Restart, Settlement, OrderExecuted, TradesSettled, world
  <2>1. PICK x \in outputs[m] : Settle(m, x)
    BY <2>0
  <2>2. o \in x.book /\ ~ OneSided(x.book) /\ onchain' = onchain \cup x.book
    BY <1>4, <2>1 DEF Settle
  <2>3. Kind(o).market = m
    BY <2>2 DEF TypeOK
  <2> QED
    BY <2>1, <2>2, <2>3
<1>5. OnchainStands'
  <2> SUFFICES ASSUME NEW o \in onchain', NEW m, m = Kind(o).market
               PROVE  /\ m \in Markets /\ Closed(m)' /\ o \in Standing(m)'
                      /\ setup.strict => Sound(o)
                      /\ \E x \in outputs'[m] : ~ OneSided(x.book)
    BY <1>0, <1>1, <1>2 DEF OnchainStands
  <2>1. /\ m \in Markets /\ Closed(m) /\ o \in Standing(m)
        /\ setup.strict => Sound(o)
        /\ \E x \in outputs[m] : ~ OneSided(x.book)
    <3>1. CASE o \in onchain
      BY <1>3, <3>1 DEF OnchainStands
    <3>2. CASE o \notin onchain
      BY <1>4, <3>2 DEF OutputsCount, Counts
    <3> QED
      BY <3>1, <3>2
  <2> QED
    BY <1>0, <2>1, ClosedSteady, StandingSteady DEF SteadyFor
<1>6. SettledAsOneBook'
  <2> SUFFICES ASSUME NEW m \in Markets, NEW o \in onchain', Kind(o).market = m
               PROVE  \A p \in Standing(m)' : Sound(p) => p \in onchain'
    BY <1>1 DEF SettledAsOneBook, OrdersOf
  <2>1. Closed(m) /\ \A p \in Standing(m) : Sound(p) => p \in onchain'
    <3>1. CASE o \in onchain
      <4>1. OrdersOf(m) \cap onchain # {}
        BY <1>3, <3>1 DEF OrdersOf
      <4> QED
        BY <1>0, <3>1, <4>1 DEF SettledAsOneBook, OnchainStands
    <3>2. CASE o \notin onchain
      BY <1>4, <3>2 DEF OutputsCount, Counts
    <3> QED
      BY <3>1, <3>2
  <2> QED
    BY <2>1, StandingSteady DEF SteadyFor
<1> QED
  BY <1>5, <1>6

(* The storage: what it knows of the settlement and of the posted trades.  *)
LEMMA StorageStep ==
  ASSUME BookInv, [Next]_vars
  PROVE  LegacyOpen' /\ ExecutedOnchain' /\ PostedUnderUuid'
<1> USE DEF BookInv
<1>0. setup' = setup /\ onchain \subseteq onchain' /\ \A o : Kind(o)' = Kind(o)
      /\ \A m \in Markets : trades[m] \subseteq trades'[m]
  BY Growth DEF Kind
<1>1. LegacyOpen' /\ ExecutedOnchain'
  <2>1. CASE UNCHANGED status
    BY <1>0, <2>1 DEF LegacyOpen, ExecutedOnchain
  <2>2. ASSUME NEW p \in Orders, Submit(p) \/ Withdraw(p) \/ OrderExecuted(p)
        PROVE  LegacyOpen' /\ ExecutedOnchain'
    BY <1>0, <2>2 DEF LegacyOpen, ExecutedOnchain, Submit, Withdraw, OrderExecuted, TypeOK
  <2>3. CASE ExpireOrders
    BY <1>0, <2>3 DEF LegacyOpen, ExecutedOnchain, ExpireOrders
  <2> QED
    BY <2>1, <2>2, <2>3
    DEF Next, vars, TimePasses, Runs, Begin, GetTrades, GetOrders, Post, ReadFails,
        Restart, Settlement, Settle, TradesSettled, world, storage
<1>2. PostedUnderUuid'
  <2>0. \A book : OneSided(book)' <=> OneSided(book)
    BY <1>0 DEF OneSided
  <2>1. CASE UNCHANGED <<trades, outputs>>
    BY <1>0, <2>0, <2>1 DEF PostedUnderUuid
  <2>2. CASE Post
    <3>1. run.market \in Markets /\ (setup.transport = "rest" => run.id = "uuid")
      BY <2>2 DEF Post, RunReady
    <3>2. setup.transport = "rest" /\ ~ OneSided(run.output.book) =>
            "uuid" \in trades'[run.market]
      BY <2>2, <3>1 DEF Post, TypeOK
    <3>3. \A m \in Markets : \A x \in outputs'[m] :
            x \in outputs[m] \/ (m = run.market /\ x = run.output)
      BY <2>2, <3>1 DEF Post, TypeOK
    <3>4. \A m \in Markets : trades'[m] = trades[m] \/ (m = run.market /\ run.id \in trades'[m])
      BY <2>2, <3>1 DEF Post, TypeOK
    <3> QED
      BY <1>0, <2>0, <3>1, <3>2, <3>3, <3>4 DEF PostedUnderUuid
  <2>3. ASSUME NEW m \in Markets, TradesSettled(m)
        PROVE  PostedUnderUuid'
    <3>1. \E x \in outputs[m] : ~ OneSided(x.book)
      BY <2>3 DEF TradesSettled, OnchainStands, OrdersOf
    <3>2. outputs' = outputs /\ \A n \in Markets \ {m} : trades'[n] = trades[n]
      BY <2>3 DEF TradesSettled, TypeOK
    <3> QED
      BY <1>0, <2>0, <3>1, <3>2 DEF PostedUnderUuid
  <2> QED
    BY <2>1, <2>2, <2>3
    DEF Next, vars, Submit, Withdraw, ExpireOrders, TimePasses, Runs, Begin, GetTrades,
        GetOrders, ReadFails, Restart, Settlement, Settle, OrderExecuted, world, storage
<1> QED
  BY <1>1, <1>2

-----------------------------------------------------------------------------
(* What the runs, their outputs, the chain and the storage hold of a market*)
(* fits together in every reachable state (clearing.py:75,                 *)
(* offchain_sim.py:67).                                                    *)
THEOREM BookInvariant == Spec => []BookInv
<1>1. BookInv /\ [Next]_vars => BookInv'
  BY TypeStep, RunStep, OutputStep, SettleStep, StorageStep DEF BookInv
<1> QED
  BY InitInv, <1>1, PTL DEF Spec

(* Every reachable state of the order book has the types of TypeOK, and    *)
(* the books that run_clearing cleared are of their own market and slot.   *)
THEOREM BookType == Spec => []TypeOK
<1>1. BookInv => TypeOK
  BY DEF BookInv
<1> QED
  BY BookInvariant, <1>1, PTL

(* However often run_clearing is repeated, each run has cleared or found   *)
(* executed the same standing orders.                                      *)
THEOREM BookEveryOrderCounted == Spec => []EveryOrderCounted
<1>1. BookInv => EveryOrderCounted
  BY DEF BookInv, OutputsCount, EveryOrderCounted
<1> QED
  BY BookInvariant, <1>1, PTL

(* Whichever run of a market is settled, the market is executed as a whole.*)
THEOREM BookSettledAsOne == Spec => []SettledAsOneBook
<1>1. BookInv => SettledAsOneBook
  BY DEF BookInv
<1> QED
  BY BookInvariant, <1>1, PTL

(* No run of run_clearing produces anything for a market of which the      *)
(* storage had trades when step 0 asked for them.                          *)
THEOREM BookTradedMeansSkipped == Spec => []TradedMeansSkipped
<1>1. BookInv => TradedMeansSkipped
  BY DEF BookInv
<1> QED
  BY BookInvariant, <1>1, PTL
=============================================================================
