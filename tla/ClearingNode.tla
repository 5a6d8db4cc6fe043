---------------------------- MODULE ClearingNode ----------------------------
(***************************************************************************)
(* The clearing node on the REST transport: run_clearing (src/clearing.py) *)
(* as the scheduler (src/scheduler.py) and the HTTP triggers (src/main.py) *)
(* execute it, against the off-chain store and the optional audit anchor.  *)
(*                                                                         *)
(* The node is one asyncio process.  A handler runs without interruption   *)
(* between two awaits, so each call it awaits is one step here, and steps  *)
(* of different handlers interleave.  `pc` names the await a handler has   *)
(* reached; `call` holds what run_clearing has read so far.                *)
(*                                                                         *)
(* What can go wrong from outside is counted in `upsets` and limited by    *)
(* MaxUpsets; UpsetKinds selects the kinds a model allows.                 *)
(***************************************************************************)
EXTENDS OffchainStore, FiniteSets

CONSTANTS
  Scheduler,    \* the scheduler task
  Triggers,     \* POST /trigger-clearing requests, each served once
  HasAnchor,    \* TRUE iff a contract client is configured
  MaxProcessed, \* MAX_PROCESSED
  Attempts,     \* DEFAULT_ATTEMPTS of the retry helper
  UpsetKinds,   \* the kinds of upset that may happen
  MaxUpsets,    \* bound on the number of upsets
  None,         \* "no market", "no book", "no key"
  \* the audit anchor:
  Keys,         \* the bytes32 market ids
  KeyOf,        \* the key clear_market derives from a market id, None if it raises
  Communities,
  CommunityOf,  \* the community of a market
  Price,        \* the sigmoid price of a two-sided book, scaled
  Accounts,
  Admin,        \* deployer and owner of the contract
  NodeAccount,  \* the account of the clearing node
  MaxPrice

Procs == Triggers \cup {Scheduler}
AllUpsets == {"read", "tick", "post", "refuse", "rpc", "restart", "admin"}

ASSUME NodeAssumption ==
  /\ Scheduler \notin Triggers
  /\ HasAnchor \in BOOLEAN
  /\ MaxProcessed \in Nat
  /\ Attempts \in Nat \ {0}
  /\ UpsetKinds \subseteq AllUpsets
  /\ MaxUpsets \in Nat
  /\ None \notin Markets \cup Books \cup Keys

ASSUME AnchorAssumption ==
  /\ KeyOf \in [Markets -> Keys \cup {None}]
  /\ CommunityOf \in [Markets -> Communities]
  /\ MaxPrice \in Nat
  /\ Price \in [Books -> 0 .. MaxPrice]
  /\ {Admin, NodeAccount} \subseteq Accounts

VARIABLES
  phase,     \* [Markets -> {"open", "closed", "aged"}]
  orders,    \* [Markets -> Books]: what the store answers to get_orders
  pc,        \* where each handler is
  call,      \* what each handler's run_clearing holds
  due,       \* the due markets the scheduler's tick has yet to clear
  processed, \* the scheduler's in-memory set
  upsets,    \* how many upsets have happened
  receipts,  \* the mined transactions of NodeAccount, in nonce order
  pending,   \* its transaction in the mempool, if any
  owner, clearingNode, communityParams, clearingResults, appointed

Anchor == INSTANCE AMMContract WITH Deployer <- Admin, DeployedNode <- NodeAccount

marketVars == <<phase, orders>>
schedulerVars == <<due, processed>>
contractVars == <<owner, clearingNode, communityParams, clearingResults, appointed>>
chainVars == <<receipts, pending, contractVars>>
vars == <<marketVars, pc, call, schedulerVars, upsets, storeVars, chainVars>>

-----------------------------------------------------------------------------
Answers == {"none", "skipped", "no_trade", "error", "cleared", "failed"}
InRun == {"get_trades", "get_orders", "get_nonce", "send_tx", "wait_receipt",
          "post_trades", "post_result"}

(* `tx` is the nonce read for clearMarket and then the hash it returned.   *)
Calls == [market : Markets \cup {None}, book : Books \cup {None}, tx : TxHashes,
          tries : 0 .. Attempts - 1, answer : Answers]
NoCall == [market |-> None, book |-> None, tx |-> 0, tries |-> 0, answer |-> "none"]

Txs == [nonce : Nat \ {0}, market : Markets, book : Books]
NoTx == [nonce |-> 0]

TypeOK ==
  /\ StoreTypeOK
  /\ phase \in [Markets -> {"open", "closed", "aged"}]
  /\ orders \in [Markets -> Books]
  /\ pc \in [Procs -> InRun \cup {"idle", "next", "done"}]
  /\ call \in [Procs -> Calls]
  /\ due \in SUBSET Markets
  /\ processed \in SUBSET Markets
  /\ upsets \in 0 .. MaxUpsets
  /\ receipts \in Seq(BOOLEAN)
  /\ pending \in Txs \cup {NoTx}
  /\ Anchor!TypeOK

Init ==
  /\ StoreInit
  /\ phase = [m \in Markets |-> "open"]
  /\ orders \in [Markets -> Books]
  /\ pc = [p \in Procs |-> "idle"]
  /\ call = [p \in Procs |-> NoCall]
  /\ due = {}
  /\ processed = {}
  /\ upsets = 0
  /\ receipts = <<>>
  /\ pending = NoTx
  /\ Anchor!Init

Upset(kind) ==
  /\ kind \in UpsetKinds
  /\ upsets < MaxUpsets
  /\ upsets' = upsets + 1

-----------------------------------------------------------------------------
(* The market: orders come and go while it is open; it closes; a day after *)
(* its opening it leaves the window the scheduler asks for                 *)
(* (MARKET_LOOKBACK_SEC), which may happen before it closes.               *)
OrdersChange(m) ==
  /\ phase[m] = "open"
  /\ \E b \in Books \ {orders[m]} : orders' = [orders EXCEPT ![m] = b]
  /\ UNCHANGED <<phase, pc, call, schedulerVars, upsets, storeVars, chainVars>>

Close(m) ==
  /\ phase[m] = "open"
  /\ phase' = [phase EXCEPT ![m] = "closed"]
  /\ UNCHANGED <<orders, pc, call, schedulerVars, upsets, storeVars, chainVars>>

Age(m) ==
  /\ phase[m] # "aged"
  /\ phase' = [phase EXCEPT ![m] = "aged"]
  /\ UNCHANGED <<orders, pc, call, schedulerVars, upsets, storeVars, chainVars>>

-----------------------------------------------------------------------------
(* Entry and exit of run_clearing.                                         *)
Enter(p, m) ==
  /\ pc' = [pc EXCEPT ![p] = "get_trades"]
  /\ call' = [call EXCEPT ![p] = [NoCall EXCEPT !.market = m]]

Goto(p, label) ==
  /\ pc' = [pc EXCEPT ![p] = label]
  /\ UNCHANGED <<call, processed>>

(* The caller of run_clearing: the trigger sends its response; the tick    *)
(* marks the market processed unless run_clearing raised ("failed") or the *)
(* set is full, and goes on with the next due market.                      *)
FailedMarkedProcessed(m, answer) ==  \* mutant: a market that raised is not retried
  processed' = IF Cardinality(processed) < MaxProcessed THEN processed \cup {m} ELSE processed

SetOneTooSmall(m, answer) ==  \* mutant: the bound is off by one
  processed' = IF answer # "failed" /\ Cardinality(processed) + 1 < MaxProcessed
               THEN processed \cup {m}
               ELSE processed

MarkProcessed(m, answer) ==
  processed' = IF answer # "failed" /\ Cardinality(processed) < MaxProcessed
               THEN processed \cup {m}
               ELSE processed

Return(p, answer) ==
  /\ call' = [call EXCEPT ![p].answer = answer]
  /\ IF p = Scheduler
     THEN /\ pc' = [pc EXCEPT ![p] = "next"]
          /\ MarkProcessed(call[p].market, answer)
     ELSE /\ pc' = [pc EXCEPT ![p] = "done"]
          /\ UNCHANGED processed

(* POST /trigger-clearing does not look at the market's closing time.      *)
Trigger(t, m) ==
  /\ pc[t] = "idle"
  /\ Enter(t, m)
  /\ UNCHANGED <<marketVars, schedulerVars, upsets, storeVars, chainVars>>

-----------------------------------------------------------------------------
(* The scheduler.  A tick reads the markets of every community, keeps the  *)
(* due ones, and clears them one after the other.                          *)
OpenAreDue ==  \* mutant: the closing time is not looked at
  {m \in Markets : phase[m] # "aged" /\ m \notin processed}

DueMarkets == {m \in Markets : phase[m] = "closed" /\ m \notin processed}

Tick ==
  /\ pc[Scheduler] = "idle"
  /\ DueMarkets # {}
  /\ due' = DueMarkets
  /\ pc' = [pc EXCEPT ![Scheduler] = "next"]
  /\ UNCHANGED <<marketVars, call, processed, upsets, storeVars, chainVars>>

(* One failed or malformed answer to get_markets fails the whole tick.     *)
TickFails ==
  /\ pc[Scheduler] = "idle"
  /\ Upset("tick")
  /\ UNCHANGED <<marketVars, pc, call, schedulerVars, storeVars, chainVars>>

ClearNext ==
  /\ pc[Scheduler] = "next"
  /\ \E m \in due :
       /\ Enter(Scheduler, m)
       /\ due' = due \ {m}
  /\ UNCHANGED <<marketVars, processed, upsets, storeVars, chainVars>>

TickEnds ==
  /\ pc[Scheduler] = "next"
  /\ due = {}
  /\ pc' = [pc EXCEPT ![Scheduler] = "idle"]
  /\ call' = [call EXCEPT ![Scheduler] = NoCall]
  /\ UNCHANGED <<marketVars, schedulerVars, upsets, storeVars, chainVars>>

-----------------------------------------------------------------------------
(* run_clearing, step 0: the idempotency check.                            *)
ResultsConsulted(m) == results[m] # <<>>  \* mutant: looks for a clearing result

Unchecked(m) == FALSE  \* mutant: no idempotency check

AlreadyTraded(m) == trades[m] # <<>>

GetTrades(p) ==
  /\ pc[p] = "get_trades"
  /\ IF AlreadyTraded(call[p].market)
     THEN Return(p, "skipped")
     ELSE Goto(p, "get_orders")
  /\ UNCHANGED <<marketVars, due, upsets, storeVars, chainVars>>

(* Steps 1 to 3: a book without one of its sides is a no-trade.            *)
GetOrders(p) ==
  LET b == orders[call[p].market] IN
  /\ pc[p] = "get_orders"
  /\ call' = [call EXCEPT ![p].book = b]
  /\ pc' = [pc EXCEPT ![p] = CASE b \in OneSided -> "post_result"
                               [] b \notin OneSided /\ HasAnchor -> "get_nonce"
                               [] OTHER -> "post_trades"]
  /\ UNCHANGED <<marketVars, schedulerVars, upsets, storeVars, chainVars>>

(* A read whose attempts are used up, or refused, raises.                  *)
ReadFails(p) ==
  /\ pc[p] \in {"get_trades", "get_orders"}
  /\ Upset("read")
  /\ Return(p, "failed")
  /\ UNCHANGED <<marketVars, due, storeVars, chainVars>>

-----------------------------------------------------------------------------
(* Step 4: clear_market.  An exception of any of its calls is caught, and  *)
(* run_clearing returns "error".                                           *)
AnchorErrorIgnored(p) ==  \* mutant: logs the exception and clears without an anchor
  Goto(p, "post_trades")

AnchorFails(p) == Return(p, "error")

GetNonce(p) ==
  /\ pc[p] = "get_nonce"
  /\ IF KeyOf[call[p].market] = None
     THEN AnchorFails(p)
     ELSE /\ call' = [call EXCEPT ![p].tx = Len(receipts) + 1]
          /\ pc' = [pc EXCEPT ![p] = "send_tx"]
          /\ UNCHANGED processed
  /\ UNCHANGED <<marketVars, due, upsets, storeVars, chainVars>>

(* The Ethereum node refuses a nonce already mined or already pending.     *)
Sendable(p) == call[p].tx = Len(receipts) + 1 /\ pending = NoTx

Submit(p) ==
  pending' = [nonce |-> call[p].tx, market |-> call[p].market, book |-> call[p].book]

SendTx(p) ==
  /\ pc[p] = "send_tx"
  /\ IF Sendable(p)
     THEN Submit(p) /\ Goto(p, "wait_receipt")
     ELSE AnchorFails(p) /\ UNCHANGED pending
  /\ UNCHANGED <<marketVars, due, upsets, storeVars, receipts, contractVars>>

(* The transaction is mined; a failed require reverts it.  The receipt     *)
(* says which.                                                             *)
Mine ==
  LET k == KeyOf[pending.market]
      c == CommunityOf[pending.market]
      price == Price[pending.book]
      accepted == Anchor!ClearMarketAccepted(NodeAccount, k, c, price)
  IN
  /\ pending # NoTx
  /\ pending' = NoTx
  /\ receipts' = Append(receipts, accepted)
  /\ \/ Anchor!ClearMarket(NodeAccount, k, c, price)
     \/ ~ accepted /\ UNCHANGED contractVars
  /\ UNCHANGED <<marketVars, pc, call, schedulerVars, upsets, storeVars>>

(* clear_market returns the hash whatever the receipt's status says.       *)
OnlySuccessAwaited(p) ==  \* mutant: waits for a receipt with status 1
  /\ pc[p] = "wait_receipt"
  /\ call[p].tx <= Len(receipts) /\ receipts[call[p].tx]
  /\ Goto(p, "post_trades")
  /\ UNCHANGED <<marketVars, due, upsets, storeVars, chainVars>>

GetReceipt(p) ==
  /\ pc[p] = "wait_receipt"
  /\ call[p].tx <= Len(receipts)
  /\ Goto(p, "post_trades")
  /\ UNCHANGED <<marketVars, due, upsets, storeVars, chainVars>>

(* An RPC call fails or the receipt does not come in time.  A send that    *)
(* fails may have reached the mempool all the same.                        *)
RpcFails(p) ==
  /\ pc[p] \in {"get_nonce", "send_tx", "wait_receipt"}
  /\ Upset("rpc")
  /\ AnchorFails(p)
  /\ \/ UNCHANGED pending
     \/ pc[p] = "send_tx" /\ Sendable(p) /\ Submit(p)
  /\ UNCHANGED <<marketVars, due, storeVars, receipts, contractVars>>

-----------------------------------------------------------------------------
(* Steps 5 to 8: the trades, then the clearing result.                     *)
Status(p) == IF call[p].book \in OneSided THEN "no_bid" ELSE "final"

Request(p) ==
  IF pc[p] = "post_trades"
  THEN TradesRequest(call[p].market, call[p].book)
  ELSE ResultRequest(call[p].market,
         [status |-> Status(p), book |-> call[p].book, tx |-> call[p].tx])

PostTrades(p) ==
  /\ pc[p] = "post_trades"
  /\ Accept(Request(p))
  /\ pc' = [pc EXCEPT ![p] = "post_result"]
  /\ call' = [call EXCEPT ![p].tries = 0]
  /\ UNCHANGED <<marketVars, schedulerVars, upsets, chainVars>>

PostResult(p) ==
  /\ pc[p] = "post_result"
  /\ Accept(Request(p))
  /\ Return(p, IF Status(p) = "final" THEN "cleared" ELSE "no_trade")
  /\ UNCHANGED <<marketVars, due, upsets, chainVars>>

(* request_with_retries: a transport error or a 5xx is tried again, and    *)
(* the last one raises.                                                    *)
OneAttemptTooMany(p) == call[p].tries = Attempts  \* mutant: off by one

LastAttempt(p) == call[p].tries = Attempts - 1

TradesErrorIgnored(p) ==  \* mutant: posts the result although the trades failed
  IF pc[p] = "post_trades" THEN Goto(p, "post_result") ELSE Return(p, "failed")

FailureAnsweredCleared(p) ==  \* mutant: the answer does not wait for the posts
  Return(p, "cleared")

PostFails(p) == Return(p, "failed")

PostTimesOut(p) ==
  /\ pc[p] \in {"post_trades", "post_result"}
  /\ Upset("post")
  /\ Delay(Request(p))
  /\ IF LastAttempt(p)
     THEN PostFails(p)
     ELSE call' = [call EXCEPT ![p].tries = @ + 1] /\ UNCHANGED <<pc, processed>>
  /\ UNCHANGED <<marketVars, due, chainVars>>

(* A 4xx is returned at once and raise_for_status raises.                  *)
PostRefused(p) ==
  /\ pc[p] \in {"post_trades", "post_result"}
  /\ Upset("refuse")
  /\ PostFails(p)
  /\ UNCHANGED <<marketVars, due, storeVars, chainVars>>

StoreLate ==
  /\ \E r \in DOMAIN late : LateArrival(r)
  /\ UNCHANGED <<marketVars, pc, call, schedulerVars, upsets, chainVars>>

-----------------------------------------------------------------------------
(* The node stops, by a crash or by a shutdown that cancels the scheduler  *)
(* task, and starts again: every handler is abandoned at its await and the *)
(* processed set is lost.  A request it had sent is covered by             *)
(* PostTimesOut before the stop, a transaction by RpcFails.                *)
Restart ==
  /\ Upset("restart")
  /\ pc' = [p \in Procs |-> IF p # Scheduler /\ pc[p] # "idle" THEN "done" ELSE "idle"]
  /\ call' = [p \in Procs |-> IF pc[p] \in InRun THEN [NoCall EXCEPT !.answer = "failed"]
                              ELSE IF p = Scheduler THEN NoCall ELSE call[p]]
  /\ due' = {}
  /\ processed' = {}
  /\ UNCHANGED <<marketVars, storeVars, chainVars>>

(* The owner of the contract, from its own tools: registers the band of a  *)
(* community or appoints another clearing node.                            *)
OwnerActs ==
  /\ Upset("admin")
  /\ \/ \E c \in Communities, u, l \in Anchor!Prices : Anchor!SetCommunityParams(Admin, c, u, l)
     \/ \E a \in Accounts : Anchor!SetClearingNode(Admin, a)
  /\ UNCHANGED <<marketVars, pc, call, schedulerVars, storeVars, receipts, pending>>

-----------------------------------------------------------------------------
Proceed(p) ==
  \/ GetTrades(p) \/ GetOrders(p)
  \/ GetNonce(p) \/ SendTx(p) \/ GetReceipt(p)
  \/ PostTrades(p) \/ PostResult(p)

Fail(p) == ReadFails(p) \/ RpcFails(p) \/ PostTimesOut(p) \/ PostRefused(p)

SchedulerStep == Tick \/ ClearNext \/ TickEnds

Next ==
  \/ \E p \in Procs : Proceed(p) \/ Fail(p)
  \/ \E t \in Triggers, m \in Markets : Trigger(t, m)
  \/ SchedulerStep \/ TickFails
  \/ \E m \in Markets : OrdersChange(m) \/ Close(m) \/ Age(m)
  \/ Mine \/ StoreLate \/ Restart \/ OwnerActs

Spec == Init /\ [][Next]_vars

(* The event loop runs every ready handler, the scheduler's sleep ends,    *)
(* and the chain mines what is pending.  Nothing else is promised: no      *)
(* trigger need come and no market need close.                             *)
Fairness ==
  /\ \A p \in Procs : WF_vars(Proceed(p))
  /\ WF_vars(SchedulerStep)
  /\ WF_vars(Mine)

FairSpec == Spec /\ Fairness

-----------------------------------------------------------------------------
Stored(m, b) == \E i \in DOMAIN trades[m] : trades[m][i] = b
Reported(m, status, b) ==
  \E i \in DOMAIN results[m] : results[m][i].status = status /\ results[m][i].book = b
Handled(m) == trades[m] # <<>> \/ results[m] # <<>>

(* The scheduler forgets no market: one that it will not look at again has *)
(* been cleared or reported as a no-trade (scheduler.py, the processed     *)
(* set).  False when a contract client is configured: see the runs.        *)
ProcessedMeansHandled == \A m \in processed : Handled(m)

(* Readers of the store never see a final clearing result whose trades are *)
(* missing: run_clearing posts the trades first and goes on only when the  *)
(* store has confirmed them, and this survives retries, late requests,     *)
(* restarts and concurrent runs.  A book of dust has no trades.            *)
ResultAfterTrades ==
  \A m \in Markets : \A b \in Books \ Dust :
    Reported(m, "final", b) => Stored(m, b)

(* What POST /trigger-clearing answers is true of the store, whatever the  *)
(* other handlers and the scheduler have done meanwhile.                   *)
AnswersAreTrue ==
  \A t \in Triggers :
    LET m == call[t].market  b == call[t].book IN
    CASE call[t].answer = "cleared"  -> Reported(m, "final", b) /\ (b \in Dust \/ Stored(m, b))
      [] call[t].answer = "no_trade" -> Reported(m, "no_bid", b)
      [] call[t].answer = "skipped"  -> trades[m] # <<>>
      [] OTHER -> TRUE

(* The audit trail is complete: with a contract client configured, trades  *)
(* are stored only for markets whose result the contract has recorded, as  *)
(* long as its owner has set no band and appointed no other node.          *)
OwnerIdle == appointed = {NodeAccount} /\ \A c \in Communities : ~ communityParams[c].exists

AnchoredBeforeTraded ==
  OwnerIdle =>
    \A m \in Markets :
      trades[m] # <<>> => KeyOf[m] # None /\ clearingResults[KeyOf[m]].exists

(* The audit trail is immutable (docs/implementation/smart-contract.md:    *)
(* "stores the result immutably"): no step of the node, of a concurrent    *)
(* run or of the owner changes a recorded result.                          *)
AuditTrailImmutable ==
  [][\A k \in Keys : clearingResults[k].exists => clearingResults'[k] = clearingResults[k]]_vars

(* The audit trail is accurate: the recorded price is the price of every   *)
(* batch of trades stored for the market.                                  *)
AnchorAgreesWithTrades ==
  \A m \in Markets : \A b \in Books :
    Stored(m, b) => clearingResults[KeyOf[m]].clearingPrice = Price[b]

(* The hash in a final clearing result is that of a transaction that was   *)
(* accepted (docs/implementation/clearing-engine.md: "Transaction of the   *)
(* audit anchor").                                                         *)
TxHashRecorded ==
  \A m \in Markets : \A i \in DOMAIN results[m] :
    LET tx == results[m][i].tx IN tx # 0 => tx \in DOMAIN receipts /\ receipts[tx]

(* The idempotency check of step 0: a market's trades are stored once      *)
(* (docs/implementation/architecture.md: "an idempotency check prevents a  *)
(* slot from being cleared twice").                                        *)
TradedOnce == \A m \in Markets : Len(trades[m]) <= 1

(* A market is reported once, as a no-trade or as cleared: without a       *)
(* restart or a lost answer the processed set keeps the scheduler from     *)
(* posting a second clearing result, even for the no-trade markets that    *)
(* step 0 does not recognise.                                              *)
ReportedOnce == \A m \in Markets : Len(results[m]) <= 1

(* The account's history and the contract agree: each accepted transaction *)
(* recorded a market of its own, whatever the owner did in between.        *)
SuccessesRecorded ==
  Cardinality({i \in DOMAIN receipts : receipts[i]})
    = Cardinality({k \in Keys : clearingResults[k].exists})

(* The scheduler reaches every market that closes within its window.       *)
ClosedMarketsHandled ==
  \A m \in Markets : phase[m] = "closed" ~> (Handled(m) \/ phase[m] = "aged")

(* A trigger request is always answered.                                   *)
TriggersAnswered ==
  \A t \in Triggers : pc[t] \in InRun ~> pc[t] = "done"

(* The store of a node with one handler at a time, whose write requests    *)
(* are not answered late, implements SlotLedger through every refusal and  *)
(* restart.                                                                *)
FinalEntries(m) ==
  {[at |-> i, book |-> results[m][i].book] :
     i \in {j \in DOMAIN results[m] : results[m][j].status = "final"}}

Ledger == INSTANCE SlotLedger WITH
  cleared <- trades,
  reports <- [m \in Markets |-> FinalEntries(m)]

ImplementsLedger == Ledger!Spec
=============================================================================
