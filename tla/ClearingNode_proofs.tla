------------------------- MODULE ClearingNode_proofs -------------------------
(***************************************************************************)
(* Proofs about the clearing node, for any markets, books, triggers, kinds *)
(* of upset and bounds.  The type invariant is inductive together with     *)
(* CallsReady; the safety invariants are built on the two.                 *)
(***************************************************************************)
EXTENDS ClearingNode, FiniteSetTheorems, TLAPS
LOCAL INSTANCE BagsExt

(* A handler inside run_clearing has a market, and has read the market's   *)
(* book by the time it prices or posts it; it has not answered yet.        *)
CallsReady ==
  \A p \in Procs :
    /\ pc[p] \in InRun => call[p].market \in Markets /\ call[p].answer = "none"
    /\ pc[p] \in InRun \ {"get_trades", "get_orders"} => call[p].book \in Books

TypeInv == TypeOK /\ CallsReady

-----------------------------------------------------------------------------
LEMMA BagAddType ==
  ASSUME NEW B, NEW x, IsABag(B)
  PROVE  IsABag(BagAdd(B, x)) /\ DOMAIN BagAdd(B, x) = DOMAIN B \cup {x}
BY DEF IsABag, BagAdd

LEMMA BagRemoveType ==
  ASSUME NEW B, NEW x, IsABag(B)
  PROVE  IsABag(BagRemove(B, x)) /\ DOMAIN BagRemove(B, x) \subseteq DOMAIN B
BY DEF IsABag, BagRemove

(* The store's operations keep its types.                                  *)
LEMMA ApplyType ==
  ASSUME StoreTypeOK, NEW r \in Requests, Apply(r)
  PROVE  /\ trades' \in [Markets -> Seq(Books)]
         /\ results' \in [Markets -> Seq(ClearingResults)]
<1> USE DEF StoreTypeOK, Apply
<1>1. CASE r.kind = "trades"
  <2>1. r.market \in Markets /\ r.book \in Books
    BY <1>1 DEF Requests
  <2>2. Append(trades[r.market], r.book) \in Seq(Books)
    BY <2>1
  <2> QED
    BY <1>1, <2>1, <2>2
<1>2. CASE r.kind = "result"
  <2>1. r.market \in Markets /\ r.result \in ClearingResults
    BY <1>2 DEF Requests
  <2>2. Append(results[r.market], r.result) \in Seq(ClearingResults)
    BY <2>1
  <2> QED
    BY <1>2, <2>1, <2>2
<1> QED
  BY <1>1, <1>2 DEF Requests

LEMMA AcceptType ==
  ASSUME StoreTypeOK, NEW r \in Requests, Accept(r)
  PROVE  StoreTypeOK'
BY ApplyType DEF Accept, StoreTypeOK

LEMMA DelayType ==
  ASSUME StoreTypeOK, NEW r \in Requests, Delay(r)
  PROVE  StoreTypeOK'
<1>1. late' = BagAdd(late, r) /\ UNCHANGED <<trades, results>> /\ IsABag(late)
  BY DEF Delay, StoreTypeOK
<1>2. IsABag(late') /\ DOMAIN late' = DOMAIN late \cup {r}
  BY <1>1, BagAddType
<1> QED
  BY <1>1, <1>2 DEF StoreTypeOK

LEMMA LateArrivalType ==
  ASSUME StoreTypeOK, NEW r \in DOMAIN late, LateArrival(r)
  PROVE  StoreTypeOK'
<1>1. r \in Requests
  BY DEF StoreTypeOK
<1> QED
  BY <1>1, ApplyType, BagRemoveType DEF LateArrival, StoreTypeOK

-----------------------------------------------------------------------------
(* The end of run_clearing, whoever called it.                             *)
LEMMA ReturnType ==
  ASSUME TypeInv, NEW p \in Procs, pc[p] \in InRun, NEW answer \in Answers, Return(p, answer)
  PROVE  /\ pc' \in [Procs -> InRun \cup {"idle", "next", "done"}]
         /\ call' \in [Procs -> Calls]
         /\ processed' \in SUBSET Markets
         /\ CallsReady'
<1> USE DEF TypeInv, TypeOK
<1>1. call[p] \in Calls /\ call[p].market \in Markets
  BY DEF CallsReady
<1>2. [call[p] EXCEPT !.answer = answer] \in Calls
  BY <1>1 DEF Calls
<1>3. call' \in [Procs -> Calls]
  BY <1>2 DEF Return
<1>4. pc' \in [Procs -> InRun \cup {"idle", "next", "done"}] /\ pc'[p] \notin InRun
  BY DEF Return, InRun
<1>5. processed' \in SUBSET Markets
  BY <1>1 DEF Return, MarkProcessed
<1>6. CallsReady'
  BY <1>4 DEF CallsReady, Return
<1> QED
  BY <1>3, <1>4, <1>5, <1>6

LEMMA RequestType ==
  ASSUME TypeInv, NEW p \in Procs, pc[p] \in {"post_trades", "post_result"}
  PROVE  Request(p) \in Requests
<1>1. call[p].market \in Markets /\ call[p].book \in Books /\ call[p] \in Calls
  BY DEF TypeInv, TypeOK, CallsReady, InRun
<1> QED
  BY <1>1 DEF Request, TradesRequest, ResultRequest, Requests, ClearingResults, Status, Calls

-----------------------------------------------------------------------------
(* What a step that leaves a component alone keeps of its types.           *)
LEMMA UnchangedType ==
  /\ StoreTypeOK /\ UNCHANGED storeVars => StoreTypeOK'
  /\ Anchor!TypeOK /\ UNCHANGED contractVars => Anchor!TypeOK'
BY DEF storeVars, StoreTypeOK, contractVars, Anchor!TypeOK

LEMMA TypeInit == Init => TypeInv
<1> SUFFICES ASSUME Init PROVE TypeInv
  OBVIOUS
<1> USE DEF Init
<1>1. StoreTypeOK
  BY DEF StoreInit, StoreTypeOK, EmptyBag, SetToBag, IsABag
<1>2. Anchor!TypeOK
  BY AnchorAssumption DEF Anchor!Init, Anchor!TypeOK, Anchor!NoParams, Anchor!NoResult
<1>3. NoCall \in Calls
  BY NodeAssumption DEF NoCall, Calls, TxHashes, Answers
<1>4. CallsReady
  BY DEF CallsReady, InRun
<1> QED
  BY <1>1, <1>2, <1>3, <1>4, NodeAssumption DEF TypeInv, TypeOK

(* The steps of the markets, of the scheduler and of the outside world.    *)
LEMMA TypeSurroundings ==
  ASSUME TypeInv,
         \/ \E m \in Markets : OrdersChange(m) \/ Close(m) \/ Age(m)
         \/ \E t \in Triggers, m \in Markets : Trigger(t, m)
         \/ SchedulerStep \/ TickFails
         \/ StoreLate \/ Restart
  PROVE  TypeInv'
<1> USE DEF TypeInv, TypeOK, chainVars, marketVars, schedulerVars
<1>0. NoCall \in Calls
  BY NodeAssumption DEF NoCall, Calls, TxHashes, Answers
<1>1. ASSUME NEW m \in Markets, OrdersChange(m) \/ Close(m) \/ Age(m) PROVE TypeInv'
  BY <1>1, UnchangedType DEF OrdersChange, Close, Age, CallsReady
<1>2. ASSUME NEW p \in Procs, NEW m \in Markets, Enter(p, m)
      PROVE  /\ pc' \in [Procs -> InRun \cup {"idle", "next", "done"}]
             /\ call' \in [Procs -> Calls]
             /\ CallsReady'
  <2>1. [NoCall EXCEPT !.market = m] \in Calls
    BY <1>0 DEF Calls
  <2>2. call' \in [Procs -> Calls]
    BY <1>2, <2>1 DEF Enter
  <2>3. [NoCall EXCEPT !.market = m].market = m /\ [NoCall EXCEPT !.market = m].answer = "none"
    BY DEF NoCall
  <2>4. pc' \in [Procs -> InRun \cup {"idle", "next", "done"}]
    BY <1>2 DEF Enter, InRun
  <2>5. CallsReady'
    BY <1>2, <2>3 DEF Enter, CallsReady, InRun
  <2> QED
    BY <2>2, <2>4, <2>5
<1>3. ASSUME NEW t \in Triggers, NEW m \in Markets, Trigger(t, m) PROVE TypeInv'
  <2>1. t \in Procs /\ Enter(t, m)
    BY <1>3 DEF Procs, Trigger
  <2> QED
    BY <1>2, <1>3, <2>1, UnchangedType DEF Trigger
<1>4. CASE Tick
  BY <1>4, UnchangedType DEF Tick, DueMarkets, CallsReady, InRun
<1>5. CASE ClearNext
  <2>1. PICK m \in due : Enter(Scheduler, m) /\ due' = due \ {m}
    BY <1>5 DEF ClearNext
  <2>2. Scheduler \in Procs /\ m \in Markets
    BY DEF Procs
  <2> QED
    BY <1>2, <1>5, <2>1, <2>2, UnchangedType DEF ClearNext
<1>6. CASE TickEnds
  BY <1>0, <1>6, UnchangedType DEF TickEnds, CallsReady, InRun
<1>7. CASE TickFails
  BY <1>7, UnchangedType, NodeAssumption DEF TickFails, Upset, CallsReady
<1>8. CASE StoreLate
  <2>1. StoreTypeOK'
    BY <1>8, LateArrivalType DEF StoreLate
  <2> QED
    BY <1>8, <2>1, UnchangedType DEF StoreLate, CallsReady
<1>9. CASE Restart
  <2>1. [NoCall EXCEPT !.answer = "failed"] \in Calls
    BY <1>0 DEF Calls, Answers
  <2>2. call' \in [Procs -> Calls]
    BY <1>0, <1>9, <2>1 DEF Restart
  <2>3. pc' \in [Procs -> {"idle", "done"}]
    BY <1>9 DEF Restart
  <2>4. CallsReady'
    BY <2>3 DEF CallsReady, InRun
  <2>5. upsets' \in 0 .. MaxUpsets
    BY <1>9, NodeAssumption DEF Restart, Upset
  <2> QED
    BY <1>9, <2>2, <2>3, <2>4, <2>5, UnchangedType DEF Restart
<1> QED
  BY <1>1, <1>3, <1>4, <1>5, <1>6, <1>7, <1>8, <1>9 DEF SchedulerStep

-----------------------------------------------------------------------------
(* The steps of run_clearing.                                              *)
LEMMA TypeReads ==
  ASSUME TypeInv, NEW p \in Procs, GetTrades(p) \/ GetOrders(p) \/ ReadFails(p)
  PROVE  TypeInv'
<1> USE DEF TypeInv, TypeOK, chainVars, marketVars, schedulerVars
<1>1. CASE GetTrades(p)
  <2>0. pc[p] \in InRun
    BY <1>1 DEF GetTrades, InRun
  <2>1. CASE AlreadyTraded(call[p].market)
    <3>1. Return(p, "skipped")
      BY <1>1, <2>1 DEF GetTrades
    <3> QED
      BY <1>1, <2>0, <3>1, ReturnType, UnchangedType DEF GetTrades, Answers
  <2>2. CASE ~ AlreadyTraded(call[p].market)
    <3>1. Goto(p, "get_orders")
      BY <1>1, <2>2 DEF GetTrades
    <3>2. CallsReady'
      BY <2>0, <3>1 DEF Goto, CallsReady, InRun
    <3> QED
      BY <1>1, <3>1, <3>2, UnchangedType DEF GetTrades, Goto, InRun
  <2> QED
    BY <2>1, <2>2
<1>2. CASE GetOrders(p)
  <2> DEFINE b == orders[call[p].market]
  <2>1. pc[p] = "get_orders" /\ call[p].market \in Markets /\ call[p] \in Calls
    BY <1>2 DEF GetOrders, CallsReady, InRun
  <2>2. b \in Books /\ call' = [call EXCEPT ![p].book = b]
    BY <1>2, <2>1 DEF GetOrders
  <2>3. [call[p] EXCEPT !.book = b] \in Calls
    BY <2>1, <2>2 DEF Calls
  <2>4. call' \in [Procs -> Calls]
    BY <2>2, <2>3
  <2>5. PICK label \in {"post_result", "get_nonce", "post_trades"} : pc' = [pc EXCEPT ![p] = label]
    BY <1>2 DEF GetOrders
  <2>6. pc' \in [Procs -> InRun \cup {"idle", "next", "done"}]
    BY <2>5 DEF InRun
  <2>7. call'[p].book = b /\ call'[p].market = call[p].market /\ call'[p].answer = call[p].answer
    BY <2>1, <2>2 DEF Calls
  <2>8. CallsReady'
    BY <2>1, <2>2, <2>5, <2>7 DEF CallsReady, InRun
  <2> QED
    BY <1>2, <2>4, <2>6, <2>8, UnchangedType DEF GetOrders
<1>3. CASE ReadFails(p)
  <2>1. pc[p] \in InRun /\ Return(p, "failed")
    BY <1>3 DEF ReadFails, InRun
  <2> QED
    BY <1>3, <2>1, ReturnType, UnchangedType, NodeAssumption DEF ReadFails, Upset, Answers
<1> QED
  BY <1>1, <1>2, <1>3

LEMMA TypeAnchor ==
  ASSUME TypeInv, NEW p \in Procs,
         GetNonce(p) \/ SendTx(p) \/ GetReceipt(p) \/ RpcFails(p)
  PROVE  TypeInv'
<1> USE DEF TypeInv, TypeOK, chainVars, marketVars, schedulerVars
<1>0. /\ pc[p] \in InRun /\ call[p].market \in Markets /\ call[p].book \in Books
      /\ call[p] \in Calls /\ Len(receipts) \in Nat
  BY DEF GetNonce, SendTx, GetReceipt, RpcFails, CallsReady, InRun
<1>1. ASSUME AnchorFails(p)
      PROVE  /\ pc' \in [Procs -> InRun \cup {"idle", "next", "done"}]
             /\ call' \in [Procs -> Calls]
             /\ processed' \in SUBSET Markets
             /\ CallsReady'
  BY <1>0, <1>1, ReturnType DEF AnchorFails, Answers
<1>2. ASSUME NEW label \in InRun, Goto(p, label),
             label \in {"get_trades", "get_orders"} \/ pc[p] \in InRun \ {"get_trades", "get_orders"}
      PROVE  /\ pc' \in [Procs -> InRun \cup {"idle", "next", "done"}]
             /\ CallsReady'
  BY <1>0, <1>2 DEF Goto, CallsReady
<1>3. ASSUME Submit(p), Sendable(p) PROVE pending' \in Txs \cup {NoTx}
  <2>1. call[p].tx \in Nat \ {0}
    BY <1>0, <1>3 DEF Sendable
  <2> QED
    BY <1>0, <1>3, <2>1 DEF Submit, Txs
<1>4. CASE GetNonce(p)
  <2>1. CASE KeyOf[call[p].market] = None
    BY <1>1, <1>4, <2>1, UnchangedType DEF GetNonce
  <2>2. CASE KeyOf[call[p].market] # None
    <3>1. call' = [call EXCEPT ![p].tx = Len(receipts) + 1] /\ pc' = [pc EXCEPT ![p] = "send_tx"]
      BY <1>4, <2>2 DEF GetNonce
    <3>2. \A n \in Nat : [call[p] EXCEPT !.tx = n] \in Calls
      BY <1>0 DEF Calls, TxHashes
    <3>3. call' \in [Procs -> Calls]
      <4> HIDE DEF TypeInv, TypeOK
      <4>0. Len(receipts) + 1 \in Nat
        BY <1>0
      <4>1. [call[p] EXCEPT !.tx = Len(receipts) + 1] \in Calls
        BY <3>2, <4>0
      <4>2. call \in [Procs -> Calls]
        BY DEF TypeInv, TypeOK
      <4> QED
        BY <3>1, <4>1, <4>2
    <3>4. CallsReady'
      BY <1>0, <3>1 DEF CallsReady, InRun, Calls
    <3> QED
      BY <1>4, <2>2, <3>1, <3>3, <3>4, UnchangedType DEF GetNonce, InRun
  <2> QED
    BY <2>1, <2>2
<1>5. CASE SendTx(p)
  <2>1. CASE Sendable(p)
    <3>1. pc[p] = "send_tx" /\ Goto(p, "wait_receipt") /\ Submit(p)
      BY <1>5, <2>1 DEF SendTx
    <3> QED
      BY <1>2, <1>3, <1>5, <2>1, <3>1, UnchangedType DEF SendTx, InRun, Goto
  <2>2. CASE ~ Sendable(p)
    BY <1>1, <1>5, <2>2, UnchangedType DEF SendTx
  <2> QED
    BY <2>1, <2>2
<1>6. CASE GetReceipt(p)
  BY <1>2, <1>6, UnchangedType DEF GetReceipt, InRun, Goto
<1>7. CASE RpcFails(p)
  <2>1. pending' \in Txs \cup {NoTx}
    BY <1>3, <1>7 DEF RpcFails
  <2>2. upsets' \in 0 .. MaxUpsets
    BY <1>7, NodeAssumption DEF RpcFails, Upset
  <2> QED
    BY <1>1, <1>7, <2>1, <2>2, UnchangedType DEF RpcFails
<1> QED
  BY <1>4, <1>5, <1>6, <1>7

LEMMA TypePosts ==
  ASSUME TypeInv, NEW p \in Procs,
         PostTrades(p) \/ PostResult(p) \/ PostTimesOut(p) \/ PostRefused(p)
  PROVE  TypeInv'
<1> USE DEF TypeInv, TypeOK, chainVars, marketVars, schedulerVars
<1>0. /\ pc[p] \in {"post_trades", "post_result"} /\ pc[p] \in InRun
      /\ call[p].market \in Markets /\ call[p].book \in Books /\ call[p] \in Calls
  BY DEF PostTrades, PostResult, PostTimesOut, PostRefused, CallsReady, InRun
<1>1. Request(p) \in Requests
  BY <1>0, RequestType
<1>2. ASSUME NEW answer \in Answers, Return(p, answer)
      PROVE  /\ pc' \in [Procs -> InRun \cup {"idle", "next", "done"}]
             /\ call' \in [Procs -> Calls]
             /\ processed' \in SUBSET Markets
             /\ CallsReady'
  BY <1>0, <1>2, ReturnType
<1>3. CASE PostTrades(p)
  <2>1. call' = [call EXCEPT ![p].tries = 0] /\ pc' = [pc EXCEPT ![p] = "post_result"]
    BY <1>3 DEF PostTrades
  <2>2. [call[p] EXCEPT !.tries = 0] \in Calls
    <3>0. 0 \in 0 .. Attempts - 1
      BY NodeAssumption
    <3> QED
      BY <1>0, <3>0 DEF Calls
  <2>3. call' \in [Procs -> Calls] /\ CallsReady'
    <3>0. call \in [Procs -> Calls]
      BY DEF TypeInv, TypeOK
    <3>1. call' \in [Procs -> Calls]
      <4> HIDE DEF TypeInv, TypeOK
      <4> QED
        BY <2>1, <2>2, <3>0
    <3>2. /\ call'[p].market = call[p].market /\ call'[p].book = call[p].book
          /\ call'[p].answer = call[p].answer
      BY <1>0, <2>1 DEF Calls
    <3>3. \A q \in Procs \ {p} : call'[q] = call[q] /\ pc'[q] = pc[q]
      BY <2>1
    <3>4. pc'[p] = "post_result"
      BY <2>1
    <3>5. CallsReady'
      BY <1>0, <3>2, <3>3, <3>4 DEF CallsReady, InRun
    <3> QED
      BY <3>1, <3>5
  <2> QED
    BY <1>1, <1>3, <2>1, <2>3, AcceptType, UnchangedType DEF PostTrades, InRun
<1>4. CASE PostResult(p)
  <2>1. PICK answer \in Answers : Return(p, answer)
    BY <1>4 DEF PostResult, Answers
  <2> QED
    BY <1>1, <1>2, <1>4, <2>1, AcceptType, UnchangedType DEF PostResult
<1>5. CASE PostTimesOut(p)
  <2>1. StoreTypeOK' /\ upsets' \in 0 .. MaxUpsets
    BY <1>1, <1>5, DelayType, NodeAssumption DEF PostTimesOut, Upset
  <2>2. CASE LastAttempt(p)
    <3>1. Return(p, "failed")
      BY <1>5, <2>2 DEF PostTimesOut, PostFails
    <3> QED
      BY <1>2, <1>5, <2>1, <3>1, UnchangedType DEF PostTimesOut, Answers
  <2>3. CASE ~ LastAttempt(p)
    <3>1. call' = [call EXCEPT ![p].tries = @ + 1] /\ UNCHANGED <<pc, processed>>
      BY <1>5, <2>3 DEF PostTimesOut
    <3>2. call[p].tries + 1 \in 0 .. Attempts - 1
      BY <1>0, <2>3, NodeAssumption DEF LastAttempt, Calls
    <3>3. [call[p] EXCEPT !.tries = @ + 1] \in Calls
      BY <1>0, <3>2 DEF Calls
    <3>4. call' \in [Procs -> Calls] /\ CallsReady'
      BY <1>0, <3>1, <3>3 DEF CallsReady, Calls
    <3> QED
      BY <1>5, <2>1, <3>1, <3>4, UnchangedType DEF PostTimesOut
  <2> QED
    BY <2>2, <2>3
<1>6. CASE PostRefused(p)
  <2>1. Return(p, "failed")
    BY <1>6 DEF PostRefused, PostFails
  <2> QED
    BY <1>2, <1>6, <2>1, UnchangedType, NodeAssumption DEF PostRefused, Upset, Answers
<1> QED
  BY <1>3, <1>4, <1>5, <1>6

-----------------------------------------------------------------------------
(* The chain: a mined transaction, and the owner of the contract.          *)
LEMMA TypeChain ==
  ASSUME TypeInv, Mine \/ OwnerActs
  PROVE  TypeInv'
<1> USE DEF TypeInv, TypeOK, marketVars, schedulerVars
<1>1. CASE Mine
  <2>1. PICK k \in Keys \cup {None}, c \in Communities, price \in 0 .. MaxPrice, ok \in BOOLEAN :
          /\ receipts' = Append(receipts, ok)
          /\ \/ Anchor!ClearMarket(NodeAccount, k, c, price)
             \/ UNCHANGED contractVars
    <3>1. pending.market \in Markets /\ pending.book \in Books
      BY <1>1 DEF Mine, Txs
    <3>2. Anchor!ClearMarketAccepted(NodeAccount, KeyOf[pending.market],
            CommunityOf[pending.market], Price[pending.book]) \in BOOLEAN
      BY DEF Anchor!ClearMarketAccepted
    <3> QED
      BY <1>1, <3>1, <3>2, AnchorAssumption DEF Mine
  <2>2. receipts' \in Seq(BOOLEAN)
    BY <2>1
  <2>3. Anchor!TypeOK'
    <3>1. CASE Anchor!ClearMarket(NodeAccount, k, c, price)
      BY <2>1, <3>1, AnchorAssumption
      DEF Anchor!ClearMarket, Anchor!ClearMarketAccepted, Anchor!TypeOK, Anchor!Results, Anchor!Prices
    <3> QED
      BY <2>1, <3>1, UnchangedType
  <2> QED
    BY <1>1, <2>2, <2>3, UnchangedType DEF Mine, CallsReady
<1>2. CASE OwnerActs
  <2>1. Anchor!TypeOK'
    <3>1. CASE \E c \in Communities, u, l \in Anchor!Prices : Anchor!SetCommunityParams(Admin, c, u, l)
      <4>1. PICK c \in Communities, u, l \in Anchor!Prices : Anchor!SetCommunityParams(Admin, c, u, l)
        BY <3>1
      <4>2. [exists |-> TRUE, kUpper |-> u, kLower |-> l] \in Anchor!Params
        BY DEF Anchor!Params
      <4> QED
        BY <4>1, <4>2 DEF Anchor!SetCommunityParams, Anchor!TypeOK
    <3>2. CASE \E a \in Accounts : Anchor!SetClearingNode(Admin, a)
      BY <3>2 DEF Anchor!SetClearingNode, Anchor!TypeOK
    <3> QED
      BY <1>2, <3>1, <3>2 DEF OwnerActs
  <2> QED
    BY <1>2, <2>1, UnchangedType, NodeAssumption DEF OwnerActs, Upset, CallsReady
<1> QED
  BY <1>1, <1>2

LEMMA TypeStep == TypeInv /\ [Next]_vars => TypeInv'
<1> SUFFICES ASSUME TypeInv, [Next]_vars PROVE TypeInv'
  OBVIOUS
<1>1. CASE Next
  <2>1. ASSUME NEW p \in Procs, Proceed(p) \/ Fail(p) PROVE TypeInv'
    BY <2>1, TypeReads, TypeAnchor, TypePosts DEF Proceed, Fail
  <2> QED
    BY <1>1, <2>1, TypeSurroundings, TypeChain DEF Next
<1>2. CASE UNCHANGED vars
  BY <1>2, UnchangedType
  DEF vars, marketVars, schedulerVars, chainVars, TypeInv, TypeOK, CallsReady
<1> QED
  BY <1>1, <1>2

(* Type correctness: every state of every run of the node, whatever fails  *)
(* and however its handlers interleave, has the types of TypeOK.           *)
THEOREM NodeType == Spec => []TypeOK
<1>1. Spec => []TypeInv
  BY TypeInit, TypeStep, PTL DEF Spec
<1>2. TypeInv => TypeOK
  BY DEF TypeInv
<1> QED
  BY <1>1, <1>2, PTL

-----------------------------------------------------------------------------
(* The store, whoever writes to it.  A market's book is backed when its    *)
(* trades are stored, or when it has none.  Every handler about to post a  *)
(* final result, and every final result still on its way, is backed.       *)
Backed(m, b) == b \in Dust \/ Stored(m, b)

BackedRequest(r) ==
  r.kind = "result" /\ r.result.status = "final" => Backed(r.market, r.result.book)

BackedCall(p) ==
  pc[p] = "post_result" /\ call[p].book \notin OneSided => Backed(call[p].market, call[p].book)

PostsInOrder ==
  /\ \A p \in Procs : BackedCall(p)
  /\ \A r \in DOMAIN late : BackedRequest(r)

StoreStep(r) ==
  /\ BackedRequest(r)
  /\ Accept(r) \/ Delay(r) \/ LateArrival(r)

StoreGrows ==
  \A m \in Markets :
    /\ trades[m] # <<>> => trades'[m] # <<>>
    /\ results[m] # <<>> => results'[m] # <<>>
    /\ \A b : Stored(m, b) => Stored(m, b)'
    /\ \A s, b : Reported(m, s, b) => Reported(m, s, b)'

(* What the store has, it keeps; and an applied request is in it.          *)
LEMMA ApplyGrows ==
  ASSUME StoreTypeOK, NEW r \in Requests, Apply(r)
  PROVE  /\ StoreGrows
         /\ r.kind = "trades" => Backed(r.market, r.book)'
         /\ r.kind = "result" => Reported(r.market, r.result.status, r.result.book)'
         /\ \A m \in Markets : \A s, b :
              Reported(m, s, b)' =>
                \/ Reported(m, s, b)
                \/ r.kind = "result" /\ r.market = m /\ r.result.status = s /\ r.result.book = b
<1> USE DEF StoreTypeOK, StoreGrows
<1>1. ASSUME NEW S, NEW q \in Seq(S), NEW e \in S
      PROVE  /\ Append(q, e) # <<>>
             /\ DOMAIN Append(q, e) = DOMAIN q \cup {Len(q) + 1}
             /\ Append(q, e)[Len(q) + 1] = e
             /\ \A i \in DOMAIN q : Append(q, e)[i] = q[i]
  <2>1. Len(q) \in Nat /\ DOMAIN q = 1 .. Len(q)
    OBVIOUS
  <2>2. DOMAIN Append(q, e) = 1 .. Len(q) + 1
    OBVIOUS
  <2>3. Append(q, e)[Len(q) + 1] = e /\ \A i \in DOMAIN q : Append(q, e)[i] = q[i]
    OBVIOUS
  <2>4. Len(q) + 1 \in DOMAIN Append(q, e)
    <3>1. \A n \in Nat : n + 1 \in 1 .. n + 1
      OBVIOUS
    <3> QED
      BY <2>1, <2>2, <3>1
  <2>5. DOMAIN <<>> = {}
    OBVIOUS
  <2> QED
    BY <2>1, <2>2, <2>3, <2>4, <2>5
<1>2. CASE r.kind = "trades"
  <2>1. r.market \in Markets /\ r.book \in Books /\ results' = results
    BY <1>2 DEF Requests, Apply
  <2>2. trades' = IF r.book \in Dust THEN trades
                  ELSE [trades EXCEPT ![r.market] = Append(trades[r.market], r.book)]
    BY <1>2 DEF Apply
  <2>3. CASE r.book \in Dust
    BY <1>2, <2>1, <2>2, <2>3 DEF Stored, Reported, Backed
  <2>4. CASE r.book \notin Dust
    <3> DEFINE q == trades[r.market]
    <3>1. /\ Append(q, r.book) # <<>>
          /\ DOMAIN Append(q, r.book) = DOMAIN q \cup {Len(q) + 1}
          /\ Append(q, r.book)[Len(q) + 1] = r.book
          /\ \A i \in DOMAIN q : Append(q, r.book)[i] = q[i]
      BY <1>1, <2>1
    <3>2. trades'[r.market] = Append(q, r.book)
      BY <2>1, <2>2, <2>4
    <3>3. \A m \in Markets \ {r.market} : trades'[m] = trades[m]
      BY <2>1, <2>2, <2>4
    <3> HIDE DEF q
    <3>4. \A b : Stored(r.market, b) => Stored(r.market, b)'
      BY <3>1, <3>2 DEF Stored, q
    <3>5. Stored(r.market, r.book)'
      BY <3>1, <3>2 DEF Stored
    <3>6. \A m \in Markets \ {r.market} : \A b : Stored(m, b) => Stored(m, b)'
      BY <3>3 DEF Stored
    <3>7. \A m \in Markets : \A s, b : Reported(m, s, b)' <=> Reported(m, s, b)
      BY <2>1 DEF Reported
    <3> QED
      BY <1>2, <2>1, <3>1, <3>2, <3>3, <3>4, <3>5, <3>6, <3>7 DEF Backed
  <2> QED
    BY <2>3, <2>4
<1>3. CASE r.kind = "result"
  <2>1. r.market \in Markets /\ r.result \in ClearingResults /\ trades' = trades
    BY <1>3 DEF Requests, Apply
  <2> DEFINE q == results[r.market]
  <2>2. results' = [results EXCEPT ![r.market] = Append(q, r.result)]
    BY <1>3 DEF Apply
  <2>3. /\ Append(q, r.result) # <<>>
        /\ DOMAIN Append(q, r.result) = DOMAIN q \cup {Len(q) + 1}
        /\ Append(q, r.result)[Len(q) + 1] = r.result
        /\ \A i \in DOMAIN q : Append(q, r.result)[i] = q[i]
    BY <1>1, <2>1
  <2>4. results'[r.market] = Append(q, r.result)
    BY <2>1, <2>2
  <2>5. \A m \in Markets \ {r.market} : results'[m] = results[m]
    BY <2>1, <2>2
  <2> HIDE DEF q
  <2>6. \A s, b : Reported(r.market, s, b) => Reported(r.market, s, b)'
    BY <2>3, <2>4 DEF Reported, q
  <2>7. Reported(r.market, r.result.status, r.result.book)'
    BY <2>3, <2>4 DEF Reported
  <2>8. \A s, b : Reported(r.market, s, b)' =>
                    Reported(r.market, s, b) \/ (r.result.status = s /\ r.result.book = b)
    BY <2>3, <2>4 DEF Reported, q
  <2>9. \A m \in Markets \ {r.market} : \A s, b : Reported(m, s, b)' <=> Reported(m, s, b)
    BY <2>5 DEF Reported
  <2>10. \A m \in Markets : \A b : Stored(m, b) => Stored(m, b)'
    BY <2>1 DEF Stored
  <2>11. /\ \A m \in Markets : \A s, b : Reported(m, s, b) => Reported(m, s, b)'
         /\ \A m \in Markets : \A s, b :
              Reported(m, s, b)' =>
                \/ Reported(m, s, b)
                \/ r.market = m /\ r.result.status = s /\ r.result.book = b
    BY <2>6, <2>8, <2>9
  <2>12. \A m \in Markets : results[m] # <<>> => results'[m] # <<>>
    BY <2>3, <2>4, <2>5
  <2>13. StoreGrows
    BY <2>1, <2>10, <2>11, <2>12
  <2> HIDE DEF StoreGrows
  <2> QED
    BY <1>3, <2>7, <2>11, <2>13
<1> QED
  BY <1>2, <1>3 DEF Requests

LEMMA StoreKept == UNCHANGED storeVars => StoreGrows /\ \A m \in Markets : \A s, b :
                     (Reported(m, s, b)' <=> Reported(m, s, b)) /\ (Stored(m, b)' <=> Stored(m, b))
BY DEF StoreGrows, storeVars, Stored, Reported

(* The only steps that touch the store are those of the client's requests. *)
LEMMA StoreChanges ==
  ASSUME TypeInv, PostsInOrder, [Next]_vars
  PROVE  UNCHANGED storeVars \/ \E r \in Requests : StoreStep(r)
<1>1. ASSUME NEW p \in Procs, PostTrades(p) \/ PostResult(p) \/ PostTimesOut(p)
      PROVE  \E r \in Requests : StoreStep(r)
  <2>1. pc[p] \in {"post_trades", "post_result"} /\ BackedCall(p)
    BY <1>1 DEF PostTrades, PostResult, PostTimesOut, PostsInOrder
  <2>2. Request(p) \in Requests
    BY <2>1, RequestType
  <2>3. BackedRequest(Request(p))
    BY <2>1 DEF BackedRequest, BackedCall, Request, TradesRequest, ResultRequest, Status
  <2> QED
    BY <1>1, <2>2, <2>3 DEF PostTrades, PostResult, PostTimesOut, StoreStep
<1>2. ASSUME StoreLate PROVE \E r \in Requests : StoreStep(r)
  BY <1>2 DEF StoreLate, StoreStep, PostsInOrder, TypeInv, TypeOK, StoreTypeOK
<1>3. ASSUME NEW p \in Procs,
             \/ GetTrades(p) \/ GetOrders(p) \/ ReadFails(p)
             \/ GetNonce(p) \/ SendTx(p) \/ GetReceipt(p) \/ RpcFails(p)
             \/ PostRefused(p)
      PROVE  UNCHANGED storeVars
  BY <1>3 DEF GetTrades, GetOrders, ReadFails, GetNonce, SendTx, GetReceipt, RpcFails, PostRefused
<1>4. ASSUME \/ \E t \in Triggers, m \in Markets : Trigger(t, m)
             \/ SchedulerStep \/ TickFails
             \/ \E m \in Markets : OrdersChange(m) \/ Close(m) \/ Age(m)
             \/ Mine \/ Restart \/ OwnerActs
             \/ UNCHANGED vars
      PROVE  UNCHANGED storeVars
  BY <1>4 DEF Trigger, SchedulerStep, Tick, ClearNext, TickEnds, TickFails, OrdersChange, Close,
              Age, Mine, Restart, OwnerActs, vars
<1>5. ASSUME NEW p \in Procs, Proceed(p) \/ Fail(p)
      PROVE  UNCHANGED storeVars \/ \E r \in Requests : StoreStep(r)
  BY <1>1, <1>3, <1>5 DEF Proceed, Fail
<1> QED
  BY <1>2, <1>4, <1>5 DEF Next

(* However the requests are accepted, delayed, lost or applied late, the   *)
(* store grows, its final results follow their trades, and so do those on  *)
(* their way.                                                              *)
LEMMA StoreStepKeeps ==
  ASSUME TypeInv, PostsInOrder, ResultAfterTrades, NEW r \in Requests, StoreStep(r)
  PROVE  /\ StoreGrows
         /\ ResultAfterTrades'
         /\ \A q \in DOMAIN late' : BackedRequest(q)'
<1>0. StoreTypeOK /\ DOMAIN late \subseteq Requests
  BY DEF TypeInv, TypeOK, StoreTypeOK
<1>1. \A q \in Requests : q.kind = "result" => q.market \in Markets
  BY DEF Requests
<1>2. ASSUME StoreGrows, NEW q \in Requests, BackedRequest(q) PROVE BackedRequest(q)'
  BY <1>1, <1>2 DEF StoreGrows, BackedRequest, Backed
<1>3. \A q \in DOMAIN late' : q \in DOMAIN late \/ q = r
  <2>1. CASE Delay(r)
    <3>1. late' = BagAdd(late, r) /\ IsABag(late)
      BY <1>0, <2>1 DEF Delay, StoreTypeOK
    <3>2. DOMAIN late' = DOMAIN late \cup {r}
      BY <3>1, BagAddType
    <3> QED
      BY <3>2
  <2>2. CASE Accept(r)
    BY <2>2 DEF Accept
  <2>3. CASE LateArrival(r)
    BY <2>3, BagRemoveType, <1>0 DEF LateArrival, StoreTypeOK
  <2> QED
    BY <2>1, <2>2, <2>3 DEF StoreStep
<1>4. ASSUME StoreGrows PROVE \A q \in DOMAIN late' : BackedRequest(q)'
  BY <1>0, <1>2, <1>3, <1>4 DEF PostsInOrder, StoreStep
<1>5. CASE Delay(r)
  <2>1. StoreGrows
    BY <1>5 DEF Delay, StoreGrows, Stored, Reported
  <2> QED
    BY <1>4, <1>5, <2>1 DEF Delay, ResultAfterTrades, Stored, Reported
<1>6. CASE Apply(r)
  <2>1. StoreGrows
    BY <1>0, <1>6, ApplyGrows
  <2>2. ASSUME NEW m \in Markets, NEW b \in Books \ Dust, Reported(m, "final", b)'
        PROVE  Stored(m, b)'
    <3>1. CASE Reported(m, "final", b)
      BY <2>1, <3>1 DEF StoreGrows, ResultAfterTrades
    <3>2. CASE r.kind = "result" /\ r.market = m /\ r.result.status = "final" /\ r.result.book = b
      BY <2>1, <3>2 DEF StoreStep, BackedRequest, Backed, StoreGrows
    <3> QED
      BY <1>0, <1>6, <2>2, <3>1, <3>2, ApplyGrows
  <2> QED
    BY <1>4, <2>1, <2>2 DEF ResultAfterTrades
<1> QED
  BY <1>5, <1>6 DEF StoreStep, Accept, LateArrival

LEMMA StoreSafe ==
  ASSUME TypeInv, PostsInOrder, ResultAfterTrades, [Next]_vars
  PROVE  /\ StoreGrows
         /\ ResultAfterTrades'
         /\ \A q \in DOMAIN late' : BackedRequest(q)'
<1>1. CASE UNCHANGED storeVars
  <2>1. StoreGrows
    BY <1>1, StoreKept
  <2>2. ResultAfterTrades'
    BY <1>1, StoreKept DEF ResultAfterTrades
  <2>3. \A q \in DOMAIN late : q.kind = "result" => q.market \in Markets
    BY DEF TypeInv, TypeOK, StoreTypeOK, Requests
  <2>4. late' = late
    BY <1>1 DEF storeVars
  <2> QED
    BY <2>1, <2>2, <2>3, <2>4 DEF PostsInOrder, StoreGrows, BackedRequest, Backed
<1>2. CASE \E r \in Requests : StoreStep(r)
  BY <1>2, StoreStepKeeps
<1> QED
  BY <1>1, <1>2, StoreChanges

-----------------------------------------------------------------------------
(* The handlers.  Whoever else moves, a handler that stands still stays    *)
(* backed and its answer stays true, because the store only grows.         *)
TrueAnswer(t) ==
  LET m == call[t].market  b == call[t].book IN
  CASE call[t].answer = "cleared"  -> Reported(m, "final", b) /\ Backed(m, b)
    [] call[t].answer = "no_trade" -> Reported(m, "no_bid", b)
    [] call[t].answer = "skipped"  -> trades[m] # <<>>
    [] OTHER -> TRUE

AnswerHolds(p) ==
  call[p].answer \in {"cleared", "no_trade", "skipped"} =>
    call[p].market \in Markets /\ TrueAnswer(p)

Steady(p) == BackedCall(p) /\ AnswerHolds(p)

LEMMA StandingStill ==
  ASSUME TypeInv, StoreGrows, NEW p \in Procs, Steady(p), call'[p] = call[p],
         pc'[p] = pc[p] \/ pc'[p] # "post_result"
  PROVE  Steady(p)'
<1>1. CASE pc[p] = "post_result" /\ pc'[p] = pc[p]
  <2>1. call[p].market \in Markets
    BY <1>1 DEF TypeInv, CallsReady, InRun
  <2> QED
    BY <2>1 DEF StoreGrows, Steady, BackedCall, Backed, AnswerHolds, TrueAnswer
<1>2. CASE pc'[p] # "post_result"
  BY <1>2 DEF StoreGrows, Steady, BackedCall, Backed, AnswerHolds, TrueAnswer
<1> QED
  BY <1>1, <1>2

(* A handler that moves on in run_clearing, with no answer yet.            *)
LEMMA Unanswered ==
  ASSUME NEW p \in Procs, call'[p].answer \in {"none", "error", "failed"},
         pc'[p] = "post_result" => call'[p].book \in OneSided
  PROVE  Steady(p)'
BY DEF Steady, BackedCall, AnswerHolds

LEMMA HandlerSteady ==
  ASSUME TypeInv, StoreGrows, NEW p \in Procs, \A q \in Procs : Steady(q), Proceed(p) \/ Fail(p)
  PROVE  \A q \in Procs : Steady(q)'
<1>1. DOMAIN call = Procs /\ DOMAIN pc = Procs /\ call[p] \in Calls /\ StoreTypeOK
  BY DEF TypeInv, TypeOK
<1>2. ASSUME NEW q \in Procs, q # p PROVE Steady(q)'
  <2>1. call'[q] = call[q] /\ pc'[q] = pc[q]
    BY <1>1, <1>2 DEF Proceed, Fail, GetTrades, GetOrders, GetNonce, SendTx, GetReceipt, PostTrades,
                PostResult, ReadFails, RpcFails, PostTimesOut, PostRefused, Return, Goto,
                AnchorFails, PostFails
  <2> QED
    BY <2>1, StandingStill
<1> SUFFICES Steady(p)'
  BY <1>2
<1>3. pc[p] \in InRun
  BY DEF Proceed, Fail, GetTrades, GetOrders, GetNonce, SendTx, GetReceipt, PostTrades,
         PostResult, ReadFails, RpcFails, PostTimesOut, PostRefused, InRun
<1>4. call[p].market \in Markets /\ call[p].answer = "none"
  BY <1>3 DEF TypeInv, CallsReady
<1>5. ASSUME NEW answer, Return(p, answer)
      PROVE  /\ pc'[p] \in {"next", "done"} /\ call'[p].answer = answer
             /\ call'[p].market = call[p].market /\ call'[p].book = call[p].book
  BY <1>1, <1>5 DEF Return, Calls
<1>6. ASSUME NEW label, Goto(p, label) PROVE pc'[p] = label /\ call' = call
  BY <1>1, <1>6 DEF Goto
<1>7. CASE GetTrades(p)
  <2>1. CASE AlreadyTraded(call[p].market)
    <3>1. Return(p, "skipped") /\ trades' = trades /\ trades[call[p].market] # <<>>
      BY <1>7, <2>1 DEF GetTrades, AlreadyTraded, storeVars
    <3>2. BackedCall(p)'
      BY <1>5, <3>1 DEF BackedCall
    <3> QED
      BY <1>4, <1>5, <3>1, <3>2 DEF Steady, AnswerHolds, TrueAnswer
  <2>2. CASE ~ AlreadyTraded(call[p].market)
    <3>1. Goto(p, "get_orders")
      BY <1>7, <2>2 DEF GetTrades
    <3> QED
      BY <1>4, <1>6, <3>1, Unanswered
  <2> QED
    BY <2>1, <2>2
<1>8. CASE GetOrders(p)
  <2>1. /\ call'[p].book = orders[call[p].market] /\ call'[p].answer = "none"
        /\ pc'[p] = "post_result" => orders[call[p].market] \in OneSided
    BY <1>1, <1>4, <1>8 DEF GetOrders, Calls
  <2> QED
    BY <2>1, Unanswered
<1>9. CASE GetNonce(p) \/ SendTx(p) \/ GetReceipt(p)
  <2>1. pc'[p] # "post_result" /\ call'[p].answer \in {"none", "error"}
    BY <1>1, <1>4, <1>5, <1>6, <1>9 DEF GetNonce, SendTx, GetReceipt, AnchorFails, Calls
  <2> QED
    BY <2>1, Unanswered
<1>10. CASE ReadFails(p) \/ RpcFails(p) \/ PostRefused(p)
  <2>1. pc'[p] # "post_result" /\ call'[p].answer \in {"failed", "error"}
    BY <1>5, <1>10 DEF ReadFails, RpcFails, PostRefused, PostFails, AnchorFails
  <2> QED
    BY <2>1, Unanswered
<1>11. CASE PostTrades(p)
  <2>1. pc[p] = "post_trades" /\ Apply(Request(p)) /\ Request(p) \in Requests
    BY <1>11, RequestType DEF PostTrades, Accept
  <2>2. call[p].book \in Dust \/ \E i \in DOMAIN trades'[call[p].market] :
                                    trades'[call[p].market][i] = call[p].book
    <3> DEFINE r == Request(p)
    <3>1. r.kind = "trades" /\ r.market = call[p].market /\ r.book = call[p].book
      BY <2>1 DEF Request, TradesRequest
    <3>2. r \in Requests /\ Apply(r)
      BY <2>1
    <3> HIDE DEF r
    <3>3. r.book \in Dust \/ \E i \in DOMAIN trades'[r.market] : trades'[r.market][i] = r.book
      BY <1>1, <3>1, <3>2, ApplyGrows DEF Backed, Stored
    <3> QED
      BY <3>1, <3>3
  <2>3. /\ call'[p].market = call[p].market /\ call'[p].book = call[p].book
        /\ call'[p].answer = "none"
    BY <1>1, <1>4, <1>11 DEF PostTrades, Calls
  <2> QED
    BY <2>2, <2>3 DEF Steady, BackedCall, AnswerHolds, Backed, Stored
<1>12. CASE PostResult(p)
  <2>1. pc[p] = "post_result" /\ Apply(Request(p)) /\ Request(p) \in Requests
    BY <1>12, RequestType DEF PostResult, Accept
  <2>2. Return(p, IF Status(p) = "final" THEN "cleared" ELSE "no_trade")
    BY <1>12 DEF PostResult
  <2>3. PICK m \in Markets, b \in {call[p].book}, s \in {Status(p)} :
          m = call[p].market /\ b = call[p].book /\ s = Status(p)
    BY <1>4
  <2>4. Reported(m, s, b)'
    <3> DEFINE r == Request(p)
    <3>1. r.kind = "result" /\ r.market = m /\ r.result.status = s /\ r.result.book = b
      BY <2>1, <2>3 DEF Request, ResultRequest
    <3>2. r \in Requests /\ Apply(r)
      BY <2>1
    <3> HIDE DEF r
    <3>3. \E i \in DOMAIN results'[r.market] :
             results'[r.market][i].status = r.result.status /\ results'[r.market][i].book = r.result.book
      BY <1>1, <3>1, <3>2, ApplyGrows DEF Reported
    <3> QED
      BY <3>1, <3>3 DEF Reported
  <2>5. s = "final" => Backed(m, b)'
    <3>1. s = "final" => Backed(m, b)
      BY <2>1, <2>3 DEF Status, Steady, BackedCall
    <3> QED
      BY <3>1 DEF StoreGrows, Backed
  <2>6. call'[p].market = m /\ call'[p].book = b /\ pc'[p] # "post_result"
    BY <1>5, <2>2, <2>3
  <2>7. \/ s = "final" /\ call'[p].answer = "cleared"
        \/ s = "no_bid" /\ call'[p].answer = "no_trade"
    BY <1>5, <2>2, <2>3 DEF Status
  <2>8. BackedCall(p)'
    BY <2>6 DEF BackedCall
  <2>9. TrueAnswer(p)'
    BY <2>4, <2>5, <2>6, <2>7 DEF TrueAnswer, Reported, Backed, Stored
  <2> QED
    BY <2>6, <2>8, <2>9 DEF Steady, AnswerHolds
<1>13. CASE PostTimesOut(p)
  <2>1. CASE LastAttempt(p)
    <3>1. Return(p, "failed")
      BY <1>13, <2>1 DEF PostTimesOut, PostFails
    <3> QED
      BY <1>5, <3>1, Unanswered
  <2>2. CASE ~ LastAttempt(p)
    <3>1. /\ pc' = pc /\ call'[p].market = call[p].market /\ call'[p].book = call[p].book
          /\ call'[p].answer = "none"
      BY <1>1, <1>4, <1>13, <2>2 DEF PostTimesOut, Calls
    <3>2. PICK m \in Markets, b \in {call[p].book} : m = call[p].market /\ b = call[p].book
      BY <1>4
    <3>3. Backed(m, b) => Backed(m, b)'
      BY DEF StoreGrows, Backed
    <3>4. pc[p] = "post_result" /\ b \notin OneSided => Backed(m, b)
      BY <3>2 DEF Steady, BackedCall
    <3>5. BackedCall(p)'
      BY <3>1, <3>2, <3>3, <3>4 DEF BackedCall, Backed, Stored
    <3> QED
      BY <3>1, <3>5 DEF Steady, AnswerHolds
  <2> QED
    BY <2>1, <2>2
<1> QED
  BY <1>7, <1>8, <1>9, <1>10, <1>11, <1>12, <1>13 DEF Proceed, Fail

LEMMA OthersSteady ==
  ASSUME TypeInv, StoreGrows, \A q \in Procs : Steady(q),
         \/ \E t \in Triggers, m \in Markets : Trigger(t, m)
         \/ SchedulerStep \/ TickFails
         \/ \E m \in Markets : OrdersChange(m) \/ Close(m) \/ Age(m)
         \/ Mine \/ StoreLate \/ Restart \/ OwnerActs
         \/ UNCHANGED vars
  PROVE  \A q \in Procs : Steady(q)'
<1> SUFFICES ASSUME NEW q \in Procs PROVE Steady(q)'
  OBVIOUS
<1>1. DOMAIN call = Procs /\ DOMAIN pc = Procs
  BY DEF TypeInv, TypeOK
<1>2. ASSUME NEW p \in Procs, NEW m \in Markets, Enter(p, m) PROVE Steady(q)'
  <2>1. CASE p = q
    <3>1. pc'[q] = "get_trades" /\ call'[q].answer = "none"
      BY <1>1, <1>2, <2>1 DEF Enter, NoCall
    <3> QED
      BY <3>1, Unanswered
  <2>2. CASE p # q
    <3>1. pc'[q] = pc[q] /\ call'[q] = call[q]
      BY <1>1, <1>2, <2>2 DEF Enter
    <3> QED
      BY <3>1, StandingStill
  <2> QED
    BY <2>1, <2>2
<1>3. CASE \E t \in Triggers, m \in Markets : Trigger(t, m)
  BY <1>2, <1>3 DEF Trigger, Procs
<1>4. CASE ClearNext
  BY <1>2, <1>4 DEF ClearNext, Procs, TypeInv, TypeOK
<1>5. CASE Tick
  <2>1. call' = call /\ (pc'[q] = pc[q] \/ pc'[q] # "post_result")
    BY <1>1, <1>5 DEF Tick
  <2> QED
    BY <2>1, StandingStill
<1>6. CASE TickEnds
  <2>1. CASE q = Scheduler
    <3>1. pc'[q] # "post_result" /\ call'[q].answer = "none"
      BY <1>1, <1>6, <2>1 DEF TickEnds, NoCall
    <3> QED
      BY <3>1, Unanswered
  <2>2. CASE q # Scheduler
    <3>1. pc'[q] = pc[q] /\ call'[q] = call[q]
      BY <1>1, <1>6, <2>2 DEF TickEnds
    <3> QED
      BY <3>1, StandingStill
  <2> QED
    BY <2>1, <2>2
<1>7. CASE Restart
  <2>1. pc'[q] # "post_result"
    BY <1>7 DEF Restart
  <2>2. call'[q] = call[q] \/ call'[q].answer \in {"none", "failed"}
    BY <1>7 DEF Restart, NoCall
  <2> QED
    BY <2>1, <2>2, StandingStill, Unanswered
<1>8. CASE \/ TickFails \/ Mine \/ StoreLate \/ OwnerActs \/ UNCHANGED vars
           \/ \E m \in Markets : OrdersChange(m) \/ Close(m) \/ Age(m)
  <2>1. pc' = pc /\ call' = call
    BY <1>8 DEF TickFails, Mine, StoreLate, OwnerActs, vars, OrdersChange, Close, Age
  <2> QED
    BY <2>1, StandingStill
<1> QED
  BY <1>3, <1>4, <1>5, <1>6, <1>7, <1>8 DEF SchedulerStep

-----------------------------------------------------------------------------
SafeInv ==
  /\ TypeInv
  /\ ResultAfterTrades
  /\ \A r \in DOMAIN late : BackedRequest(r)
  /\ \A p \in Procs : Steady(p)

LEMMA SafeInit == Init => SafeInv
<1> SUFFICES ASSUME Init PROVE SafeInv
  OBVIOUS
<1>1. TypeInv
  BY TypeInit
<1>2. ResultAfterTrades
  BY DEF Init, StoreInit, ResultAfterTrades, Reported
<1>3. \A r \in DOMAIN late : BackedRequest(r)
  BY DEF Init, StoreInit, EmptyBag, SetToBag
<1>4. \A p \in Procs : Steady(p)
  BY DEF Init, Steady, BackedCall, AnswerHolds, NoCall
<1> QED
  BY <1>1, <1>2, <1>3, <1>4 DEF SafeInv

LEMMA SafeStep == SafeInv /\ [Next]_vars => SafeInv'
<1> SUFFICES ASSUME SafeInv, [Next]_vars PROVE SafeInv'
  OBVIOUS
<1>1. TypeInv /\ PostsInOrder /\ ResultAfterTrades /\ \A p \in Procs : Steady(p)
  BY DEF SafeInv, PostsInOrder, Steady
<1>2. TypeInv'
  BY <1>1, TypeStep
<1>3. StoreGrows /\ ResultAfterTrades' /\ \A r \in DOMAIN late' : BackedRequest(r)'
  BY <1>1, StoreSafe
<1>4. \A q \in Procs : Steady(q)'
  <2>1. ASSUME NEW p \in Procs, Proceed(p) \/ Fail(p) PROVE \A q \in Procs : Steady(q)'
    BY <1>1, <1>3, <2>1, HandlerSteady
  <2> QED
    BY <1>1, <1>3, <2>1, OthersSteady DEF Next
<1> QED
  BY <1>2, <1>3, <1>4 DEF SafeInv

LEMMA NodeSafe == Spec => []SafeInv
BY SafeInit, SafeStep, PTL DEF Spec

(* A reader of the store never finds a final clearing result without its   *)
(* trades: for any handlers and markets, whatever posts time out, are      *)
(* retried, refused or applied late, and wherever the node restarts.       *)
THEOREM NodeResultAfterTrades == Spec => []ResultAfterTrades
<1>1. SafeInv => ResultAfterTrades
  BY DEF SafeInv
<1> QED
  BY <1>1, NodeSafe, PTL

(* What a trigger request has been answered stays true of the store.       *)
THEOREM NodeAnswersAreTrue == Spec => []AnswersAreTrue
<1>1. SafeInv => AnswersAreTrue
  BY DEF SafeInv, Steady, AnswerHolds, TrueAnswer, AnswersAreTrue, Backed, Procs
<1> QED
  BY <1>1, NodeSafe, PTL

-----------------------------------------------------------------------------
(* The audit anchor as the node uses it.  Only a mined transaction of the  *)
(* node's account or the owner changes the contract.                       *)
LEMMA AnchorSteps ==
  ASSUME [Next]_vars
  PROVE  \/ \E k, c, price : Anchor!ClearMarket(NodeAccount, k, c, price)
         \/ UNCHANGED clearingResults
<1>1. ASSUME NEW p \in Procs, Proceed(p) \/ Fail(p) PROVE UNCHANGED clearingResults
  BY <1>1 DEF Proceed, Fail, GetTrades, GetOrders, GetNonce, SendTx, GetReceipt, PostTrades,
              PostResult, ReadFails, RpcFails, PostTimesOut, PostRefused, chainVars, contractVars
<1>2. CASE Mine
  BY <1>2 DEF Mine, contractVars
<1>3. CASE OwnerActs
  BY <1>3 DEF OwnerActs, Anchor!SetCommunityParams, Anchor!SetClearingNode
<1>4. CASE \/ \E t \in Triggers, m \in Markets : Trigger(t, m)
           \/ SchedulerStep \/ TickFails
           \/ \E m \in Markets : OrdersChange(m) \/ Close(m) \/ Age(m)
           \/ StoreLate \/ Restart \/ UNCHANGED vars
  BY <1>4 DEF Trigger, SchedulerStep, Tick, ClearNext, TickEnds, TickFails, OrdersChange, Close,
              Age, StoreLate, Restart, vars, chainVars, contractVars
<1> QED
  BY <1>1, <1>2, <1>3, <1>4 DEF Next

(* The audit trail is immutable under the node that writes it: concurrent  *)
(* and retried runs, nonce races, restarts and the owner never change a    *)
(* recorded result.                                                        *)
THEOREM NodeAuditTrail == Spec => AuditTrailImmutable
<1>1. ASSUME TypeInv, [Next]_vars, NEW k \in Keys, clearingResults[k].exists
      PROVE  clearingResults'[k] = clearingResults[k]
  <2>1. CASE \E j, c, price : Anchor!ClearMarket(NodeAccount, j, c, price)
    <3>1. PICK j, c, price : Anchor!ClearMarket(NodeAccount, j, c, price)
      BY <2>1
    <3>2. j # k
      BY <1>1, <3>1 DEF Anchor!ClearMarket, Anchor!ClearMarketAccepted
    <3>3. clearingResults \in [Keys -> Anchor!Results \cup {Anchor!NoResult}]
      BY <1>1 DEF TypeInv, TypeOK, Anchor!TypeOK
    <3> QED
      BY <3>1, <3>2, <3>3 DEF Anchor!ClearMarket
  <2>2. CASE UNCHANGED clearingResults
    BY <2>2
  <2> QED
    BY <1>1, <2>1, <2>2, AnchorSteps
<1>2. TypeInv /\ [Next]_vars =>
        [\A k \in Keys : clearingResults[k].exists => clearingResults'[k] = clearingResults[k]]_vars
  BY <1>1
<1>3. Spec => []TypeInv
  BY TypeInit, TypeStep, PTL DEF Spec
<1> QED
  BY <1>2, <1>3, PTL DEF Spec, AuditTrailImmutable

-----------------------------------------------------------------------------
(* Without a contract client no handler is in the anchor's calls, so       *)
(* run_clearing returns to the scheduler only from step 0 with the trades  *)
(* stored, or with a result posted; otherwise it raises.                   *)
InAnchor == {"get_nonce", "send_tx", "wait_receipt"}

NoAnchorInv ==
  /\ SafeInv
  /\ ProcessedMeansHandled
  /\ \A p \in Procs : pc[p] \notin InAnchor

LEMMA HandledGrows ==
  ASSUME StoreGrows, NEW m \in Markets, Handled(m)
  PROVE  Handled(m)'
BY DEF StoreGrows, Handled

(* A handler's step marks at most one market, and that one is handled.     *)
LEMMA HandlerProcessed ==
  ASSUME NoAnchorInv, HasAnchor = FALSE, StoreGrows, NEW p \in Procs, Proceed(p) \/ Fail(p)
  PROVE  /\ \A q \in Procs : pc'[q] \notin InAnchor
         /\ \/ processed' = processed
            \/ \E m \in Markets : processed' = processed \cup {m} /\ Handled(m)'
<1>1. DOMAIN pc = Procs /\ pc[p] \notin InAnchor /\ TypeInv /\ StoreTypeOK
  BY DEF NoAnchorInv, SafeInv, TypeInv, TypeOK
<1>2. pc[p] \in InRun
  BY DEF Proceed, Fail, GetTrades, GetOrders, GetNonce, SendTx, GetReceipt, PostTrades,
         PostResult, ReadFails, RpcFails, PostTimesOut, PostRefused, InRun
<1>3. call[p].market \in Markets
  BY <1>1, <1>2 DEF TypeInv, CallsReady
<1>4. ASSUME NEW answer, Return(p, answer)
      PROVE  /\ \A q \in Procs : pc'[q] \notin InAnchor
             /\ \/ processed' = processed
                \/ answer # "failed" /\ processed' = processed \cup {call[p].market}
  BY <1>1, <1>4 DEF Return, MarkProcessed, NoAnchorInv, InAnchor
<1>5. CASE GetTrades(p)
  <2>1. CASE AlreadyTraded(call[p].market)
    <3>1. Return(p, "skipped") /\ Handled(call[p].market)
      BY <1>5, <2>1 DEF GetTrades, AlreadyTraded, Handled
    <3>2. PICK m \in Markets : m = call[p].market
      BY <1>3
    <3>3. Handled(m)'
      BY <3>1, <3>2, HandledGrows
    <3> QED
      BY <1>4, <3>1, <3>2, <3>3
  <2>2. CASE ~ AlreadyTraded(call[p].market)
    BY <1>1, <1>5, <2>2 DEF GetTrades, Goto, NoAnchorInv, InAnchor
  <2> QED
    BY <2>1, <2>2
<1>6. CASE GetOrders(p)
  BY <1>1, <1>6 DEF GetOrders, NoAnchorInv, InAnchor, schedulerVars
<1>7. CASE PostTrades(p)
  BY <1>1, <1>7 DEF PostTrades, NoAnchorInv, InAnchor, schedulerVars
<1>8. CASE PostResult(p)
  <2>1. pc[p] = "post_result" /\ Apply(Request(p)) /\ Request(p) \in Requests
    BY <1>1, <1>8, RequestType DEF PostResult, Accept
  <2>2. PICK m \in Markets, r \in Requests : m = call[p].market /\ r = Request(p)
    BY <1>3, <2>1
  <2>3. r.kind = "result" /\ r.market = m
    BY <2>1, <2>2 DEF Request, ResultRequest
  <2>4. \E i \in DOMAIN results'[m] : results'[m][i].book = r.result.book
    BY <1>1, <2>1, <2>2, <2>3, ApplyGrows DEF Reported
  <2>5. Handled(m)'
    BY <2>4 DEF Handled
  <2>6. \E answer : Return(p, answer)
    BY <1>8 DEF PostResult
  <2> QED
    BY <1>4, <2>2, <2>5, <2>6
<1>9. CASE PostTimesOut(p) /\ ~ LastAttempt(p)
  BY <1>1, <1>9 DEF PostTimesOut, NoAnchorInv
<1>10. CASE ReadFails(p) \/ PostRefused(p) \/ (PostTimesOut(p) /\ LastAttempt(p))
  BY <1>4, <1>10 DEF ReadFails, PostRefused, PostTimesOut, PostFails
<1>11. ~ (GetNonce(p) \/ SendTx(p) \/ GetReceipt(p) \/ RpcFails(p))
  BY <1>1 DEF GetNonce, SendTx, GetReceipt, RpcFails, InAnchor
<1> QED
  BY <1>5, <1>6, <1>7, <1>8, <1>9, <1>10, <1>11 DEF Proceed, Fail

LEMMA NoAnchorStep ==
  ASSUME NoAnchorInv, HasAnchor = FALSE, [Next]_vars
  PROVE  NoAnchorInv'
<1>1. SafeInv /\ TypeInv /\ PostsInOrder /\ ResultAfterTrades
  BY DEF NoAnchorInv, SafeInv, PostsInOrder, Steady
<1>2. SafeInv'
  BY <1>1, SafeStep
<1>3. StoreGrows
  BY <1>1, StoreSafe
<1>4. DOMAIN pc = Procs /\ processed \subseteq Markets
  BY <1>1 DEF TypeInv, TypeOK
<1>5. \A m \in processed : Handled(m)'
  BY <1>3, <1>4, HandledGrows DEF NoAnchorInv, ProcessedMeansHandled
<1>6. ASSUME NEW p \in Procs, Proceed(p) \/ Fail(p)
      PROVE  ProcessedMeansHandled' /\ \A q \in Procs : pc'[q] \notin InAnchor
  BY <1>3, <1>5, <1>6, HandlerProcessed DEF ProcessedMeansHandled
<1>7. ASSUME \/ \E t \in Triggers, m \in Markets : Trigger(t, m)
             \/ SchedulerStep \/ TickFails
             \/ \E m \in Markets : OrdersChange(m) \/ Close(m) \/ Age(m)
             \/ Mine \/ StoreLate \/ Restart \/ OwnerActs
             \/ UNCHANGED vars
      PROVE  processed' \subseteq processed /\ \A q \in Procs : pc'[q] \notin InAnchor
  BY <1>4, <1>7
  DEF Trigger, SchedulerStep, Tick, ClearNext, TickEnds, TickFails, OrdersChange, Close, Age,
      Mine, StoreLate, Restart, OwnerActs, vars, Enter, schedulerVars, NoAnchorInv, InAnchor
<1>8. ProcessedMeansHandled' /\ \A q \in Procs : pc'[q] \notin InAnchor
  <2>1. (processed' \subseteq processed) => ProcessedMeansHandled'
    BY <1>5 DEF ProcessedMeansHandled
  <2> QED
    BY <1>6, <1>7, <2>1 DEF Next
<1> QED
  BY <1>2, <1>8 DEF NoAnchorInv

(* The scheduler forgets no market: without a contract client, everything  *)
(* in the processed set has trades or a clearing result in the store.      *)
THEOREM NodeForgetsNothing == HasAnchor = FALSE /\ Spec => []ProcessedMeansHandled
<1> SUFFICES ASSUME HasAnchor = FALSE PROVE Spec => []ProcessedMeansHandled
  OBVIOUS
<1>1. Init => NoAnchorInv
  BY SafeInit DEF Init, NoAnchorInv, ProcessedMeansHandled, InAnchor
<1>2. NoAnchorInv /\ [Next]_vars => NoAnchorInv'
  BY NoAnchorStep
<1>3. NoAnchorInv => ProcessedMeansHandled
  BY DEF NoAnchorInv
<1> QED
  BY <1>1, <1>2, <1>3, PTL DEF Spec

-----------------------------------------------------------------------------
(***************************************************************************)
(* What the records of a node are worth to a reader.  First, the audit     *)
(* anchor of any node: three lemmas say how a step can move a handler, the *)
(* store and the chain, and the proofs combine them.  Then, a node whose   *)
(* only handler is the scheduler, when no post loses its answer: each      *)
(* market is traded once, at the price the contract recorded, and the      *)
(* store implements SlotLedger; without a restart it also reports each     *)
(* market once.                                                            *)
(***************************************************************************)

(* Of run_clearing's locals, those that outlive a retry.                   *)
SameCall(p) ==
  /\ call'[p].market = call[p].market
  /\ call'[p].book = call[p].book
  /\ call'[p].tx = call[p].tx

(* What a handler can do in one step of the system, read from where it     *)
(* is and where it goes.                                                   *)
MovesOn(p) ==
  \/ pc'[p] = "get_trades" /\ pc[p] \notin InRun
  \/ pc[p] = "get_trades" /\ pc'[p] = "get_orders" /\ SameCall(p) /\ trades[call[p].market] = <<>>
  \/ /\ pc[p] = "get_orders"
     /\ call'[p].market = call[p].market
     /\ call'[p].book = orders[call[p].market]
     /\ \/ pc'[p] = "get_nonce"
        \/ pc'[p] = "post_trades" /\ HasAnchor = FALSE
        \/ pc'[p] = "post_result" /\ call'[p].book \in OneSided
  \/ /\ pc[p] = "get_nonce" /\ pc'[p] = "send_tx"
     /\ call'[p].market = call[p].market /\ call'[p].book = call[p].book
     /\ KeyOf[call[p].market] # None
  \/ /\ pc[p] = "send_tx" /\ pc'[p] = "wait_receipt" /\ SameCall(p)
     /\ Sendable(p) /\ Submit(p) /\ UNCHANGED receipts
  \/ /\ pc[p] = "wait_receipt" /\ pc'[p] = "post_trades" /\ SameCall(p)
     /\ call[p].tx <= Len(receipts)
  \/ /\ pc[p] = "post_trades" /\ pc'[p] = "post_result" /\ SameCall(p)
     /\ Accept(Request(p))

Stays(p) == pc'[p] = pc[p] /\ SameCall(p)

LEMMA HandlerMoves ==
  ASSUME TypeInv, [Next]_vars, NEW p \in Procs
  PROVE  Stays(p) \/ pc'[p] \notin InRun \/ MovesOn(p)
<1>0. DOMAIN pc = Procs /\ DOMAIN call = Procs /\ call[p] \in Calls
  BY DEF TypeInv, TypeOK
<1>1. ASSUME UNCHANGED <<pc, call>> PROVE Stays(p)
  BY <1>1 DEF Stays, SameCall
<1>2. ASSUME NEW q \in Procs, Proceed(q) \/ Fail(q), q # p PROVE Stays(p)
  <2>1. pc'[p] = pc[p] /\ call'[p] = call[p]
    BY <1>0, <1>2 DEF Proceed, Fail, GetTrades, GetOrders, GetNonce, SendTx, GetReceipt,
         PostTrades, PostResult, ReadFails, RpcFails, PostTimesOut, PostRefused, PostFails,
         AnchorFails, Return, Goto
  <2> QED
    BY <2>1 DEF Stays, SameCall
<1>3. ASSUME NEW answer, Return(p, answer) PROVE pc'[p] \notin InRun
  BY <1>0, <1>3 DEF Return, InRun
<1>4. ASSUME NEW label, Goto(p, label) PROVE pc'[p] = label /\ SameCall(p)
  BY <1>0, <1>4 DEF Goto, SameCall
<1>5. CASE GetTrades(p)
  BY <1>3, <1>4, <1>5 DEF GetTrades, AlreadyTraded, MovesOn
<1>6. CASE GetOrders(p)
  <2>1. /\ pc[p] = "get_orders"
        /\ call' = [call EXCEPT ![p].book = orders[call[p].market]]
        /\ pc' = [pc EXCEPT ![p] = CASE orders[call[p].market] \in OneSided -> "post_result"
                               [] orders[call[p].market] \notin OneSided /\ HasAnchor -> "get_nonce"
                               [] OTHER -> "post_trades"]
    BY <1>6 DEF GetOrders
  <2>2. /\ call'[p].book = orders[call[p].market] /\ call'[p].market = call[p].market
    BY <1>0, <2>1 DEF Calls
  <2>3. CASE orders[call[p].market] \in OneSided
    BY <1>0, <2>1, <2>2, <2>3 DEF MovesOn
  <2>4. CASE orders[call[p].market] \notin OneSided
    BY <1>0, <2>1, <2>2, <2>4, NodeAssumption DEF MovesOn
  <2> QED
    BY <2>3, <2>4
<1>7. CASE GetNonce(p)
  <2>1. CASE KeyOf[call[p].market] = None
    BY <1>3, <1>7, <2>1 DEF GetNonce, AnchorFails
  <2>2. CASE KeyOf[call[p].market] # None
    BY <1>0, <1>7, <2>2 DEF GetNonce, MovesOn, Calls
  <2> QED
    BY <2>1, <2>2
<1>8. CASE SendTx(p)
  BY <1>3, <1>4, <1>8 DEF SendTx, AnchorFails, MovesOn
<1>9. CASE GetReceipt(p)
  BY <1>4, <1>9 DEF GetReceipt, MovesOn
<1>10. CASE PostTrades(p)
  BY <1>0, <1>10 DEF PostTrades, MovesOn, SameCall, Calls
<1>11. CASE PostResult(p)
  BY <1>3, <1>11 DEF PostResult
<1>12. CASE Fail(p)
  <2>1. CASE PostTimesOut(p) /\ ~ LastAttempt(p)
    BY <1>0, <2>1 DEF PostTimesOut, Stays, SameCall, Calls
  <2> QED
    BY <1>3, <1>12, <2>1 DEF Fail, ReadFails, RpcFails, PostTimesOut, PostRefused, PostFails, AnchorFails
<1>13. ASSUME NEW q \in Procs, NEW m \in Markets, Enter(q, m), pc[q] \notin InRun
       PROVE  Stays(p) \/ MovesOn(p)
  BY <1>0, <1>13 DEF Enter, Stays, SameCall, MovesOn
<1>14. CASE \E t \in Triggers, m \in Markets : Trigger(t, m)
  BY <1>13, <1>14 DEF Trigger, Procs, InRun
<1>15. CASE SchedulerStep
  <2>1. CASE ClearNext
    BY <1>13, <2>1 DEF ClearNext, Procs, InRun, TypeInv, TypeOK
  <2>2. CASE Tick \/ TickEnds
    <3>1. CASE p = Scheduler
      BY <1>0, <2>2, <3>1 DEF Tick, TickEnds, InRun
    <3>2. CASE p # Scheduler
      BY <1>0, <2>2, <3>2 DEF Tick, TickEnds, Stays, SameCall
    <3> QED
      BY <3>1, <3>2
  <2> QED
    BY <1>15, <2>1, <2>2 DEF SchedulerStep
<1>16. CASE Restart
  BY <1>0, <1>16 DEF Restart, InRun
<1>17. CASE \/ \E m \in Markets : OrdersChange(m) \/ Close(m) \/ Age(m)
            \/ TickFails \/ Mine \/ StoreLate \/ OwnerActs \/ UNCHANGED vars
  <2>1. UNCHANGED <<pc, call>>
    BY <1>17 DEF OrdersChange, Close, Age, TickFails, Mine, StoreLate, OwnerActs, vars
  <2> QED
    BY <1>1, <2>1
<1>18. CASE Proceed(p)
  BY <1>5, <1>6, <1>7, <1>8, <1>9, <1>10, <1>11, <1>18 DEF Proceed
<1> QED
  BY <1>2, <1>12, <1>14, <1>15, <1>16, <1>17, <1>18 DEF Next

(* What a step can do to the store,                                        *)
StoreMoves ==
  \/ UNCHANGED storeVars
  \/ \E r \in DOMAIN late : LateArrival(r)
  \/ \E p \in Procs :
       \/ PostTrades(p) \/ PostResult(p)
       \/ /\ pc[p] \in {"post_trades", "post_result"}
          /\ Delay(Request(p)) /\ "post" \in UpsetKinds

LEMMA StoreMoved == TypeInv /\ [Next]_vars => StoreMoves
<1> SUFFICES ASSUME TypeInv, [Next]_vars PROVE StoreMoves
  OBVIOUS
<1>1. ASSUME NEW p \in Procs, Proceed(p) PROVE StoreMoves
  <2>1. CASE PostTrades(p) \/ PostResult(p)
    BY <2>1 DEF StoreMoves
  <2>2. CASE GetTrades(p) \/ GetOrders(p) \/ GetNonce(p) \/ SendTx(p) \/ GetReceipt(p)
    BY <2>2 DEF GetTrades, GetOrders, GetNonce, SendTx, GetReceipt, StoreMoves
  <2> QED
    BY <1>1, <2>1, <2>2 DEF Proceed
<1>2. ASSUME NEW p \in Procs, Fail(p) PROVE StoreMoves
  <2>1. CASE PostTimesOut(p)
    BY <2>1 DEF PostTimesOut, Upset, StoreMoves
  <2>2. CASE ReadFails(p) \/ RpcFails(p) \/ PostRefused(p)
    BY <2>2 DEF ReadFails, RpcFails, PostRefused, StoreMoves
  <2> QED
    BY <1>2, <2>1, <2>2 DEF Fail
<1>3. CASE StoreLate
  BY <1>3 DEF StoreLate, StoreMoves
<1>4. CASE \/ \E t \in Triggers, m \in Markets : Trigger(t, m)
           \/ SchedulerStep \/ TickFails
           \/ \E m \in Markets : OrdersChange(m) \/ Close(m) \/ Age(m)
           \/ Mine \/ Restart \/ OwnerActs
           \/ UNCHANGED vars
  BY <1>4 DEF Trigger, SchedulerStep, Tick, ClearNext, TickEnds, TickFails, OrdersChange, Close,
              Age, Mine, Restart, OwnerActs, vars, StoreMoves
<1> QED
  BY <1>1, <1>2, <1>3, <1>4 DEF Next

(* and to the account and the contract.                                    *)
ChainMoves ==
  \/ UNCHANGED chainVars
  \/ Mine
  \/ OwnerActs
  \/ \E p \in Procs :
       /\ pc[p] = "send_tx" /\ Sendable(p) /\ Submit(p)
       /\ UNCHANGED <<receipts, contractVars>>

LEMMA ChainMoved == TypeInv /\ [Next]_vars => ChainMoves
<1> SUFFICES ASSUME TypeInv, [Next]_vars PROVE ChainMoves
  OBVIOUS
<1>1. ASSUME NEW p \in Procs, Proceed(p) PROVE ChainMoves
  <2>1. CASE SendTx(p)
    BY <2>1 DEF SendTx, ChainMoves, chainVars
  <2>2. CASE \/ GetTrades(p) \/ GetOrders(p) \/ GetNonce(p) \/ GetReceipt(p)
             \/ PostTrades(p) \/ PostResult(p)
    BY <2>2 DEF GetTrades, GetOrders, GetNonce, GetReceipt, PostTrades, PostResult, ChainMoves
  <2> QED
    BY <1>1, <2>1, <2>2 DEF Proceed
<1>2. ASSUME NEW p \in Procs, Fail(p) PROVE ChainMoves
  <2>1. CASE RpcFails(p)
    BY <2>1 DEF RpcFails, ChainMoves, chainVars
  <2>2. CASE ReadFails(p) \/ PostTimesOut(p) \/ PostRefused(p)
    BY <2>2 DEF ReadFails, PostTimesOut, PostRefused, ChainMoves
  <2> QED
    BY <1>2, <2>1, <2>2 DEF Fail
<1>3. CASE Mine \/ OwnerActs
  BY <1>3 DEF ChainMoves
<1>4. CASE \/ \E t \in Triggers, m \in Markets : Trigger(t, m)
           \/ SchedulerStep \/ TickFails
           \/ \E m \in Markets : OrdersChange(m) \/ Close(m) \/ Age(m)
           \/ StoreLate \/ Restart
           \/ UNCHANGED vars
  BY <1>4 DEF Trigger, SchedulerStep, Tick, ClearNext, TickEnds, TickFails, OrdersChange, Close,
              Age, StoreLate, Restart, vars, ChainMoves
<1> QED
  BY <1>1, <1>2, <1>3, <1>4 DEF Next

-----------------------------------------------------------------------------
(* A transaction is only ever prepared, sent and mined for a market that   *)
(* has a key.                                                              *)
KeysKnown ==
  /\ \A p \in Procs : pc[p] \in {"send_tx", "wait_receipt"} => KeyOf[call[p].market] # None
  /\ pending # NoTx => KeyOf[pending.market] # None

LEMMA KeysKnownStep ==
  ASSUME TypeInv, KeysKnown, [Next]_vars
  PROVE  KeysKnown'
<1>1. ASSUME NEW p \in Procs, pc'[p] \in {"send_tx", "wait_receipt"}
      PROVE  KeyOf[call'[p].market] # None
  <2>1. Stays(p) \/ MovesOn(p)
    BY <1>1, HandlerMoves DEF InRun
  <2> QED
    BY <1>1, <2>1 DEF Stays, MovesOn, SameCall, KeysKnown
<1>2. pending' # NoTx => KeyOf[pending'.market] # None
  <2>1. CASE \E p \in Procs : pc[p] = "send_tx" /\ Submit(p)
    BY <2>1 DEF Submit, KeysKnown
  <2>2. CASE UNCHANGED pending
    BY <2>2 DEF KeysKnown
  <2>3. CASE pending' = NoTx
    BY <2>3
  <2> QED
    BY <2>1, <2>2, <2>3, ChainMoved DEF ChainMoves, chainVars, Mine, OwnerActs
<1> QED
  BY <1>1, <1>2 DEF KeysKnown

(* What mining makes of the results.                                       *)
LEMMA MineRecords ==
  ASSUME TypeInv, KeysKnown, Mine
  PROVE  \E ok \in BOOLEAN, k \in Keys :
           /\ k = KeyOf[pending.market]
           /\ receipts' = Append(receipts, ok)
           /\ ok <=> Anchor!ClearMarketAccepted(NodeAccount, k, CommunityOf[pending.market], Price[pending.book])
           /\ ok => /\ ~ clearingResults[k].exists
                    /\ clearingResults'[k].exists
                    /\ clearingResults'[k].clearingPrice = Price[pending.book]
                    /\ \A j \in Keys \ {k} : clearingResults'[j] = clearingResults[j]
           /\ ~ ok => clearingResults' = clearingResults
<1> DEFINE k == KeyOf[pending.market]
           c == CommunityOf[pending.market]
           price == Price[pending.book]
           ok == Anchor!ClearMarketAccepted(NodeAccount, k, c, price)
<1>1. pending \in Txs
  BY DEF Mine, TypeInv, TypeOK
<1>2. k \in Keys
  BY <1>1, AnchorAssumption DEF Mine, KeysKnown, Txs
<1>3. ok \in BOOLEAN
  BY DEF Anchor!ClearMarketAccepted
<1>4. /\ receipts' = Append(receipts, ok)
      /\ Anchor!ClearMarket(NodeAccount, k, c, price) \/ (~ ok /\ UNCHANGED contractVars)
  BY DEF Mine
<1>5. clearingResults \in [Keys -> Anchor!Results \cup {Anchor!NoResult}]
  BY DEF TypeInv, TypeOK, Anchor!TypeOK
<1>6. CASE Anchor!ClearMarket(NodeAccount, k, c, price)
  <2>1. ok /\ ~ clearingResults[k].exists
    BY <1>6 DEF Anchor!ClearMarket, Anchor!ClearMarketAccepted
  <2>2. clearingResults' = [clearingResults EXCEPT ![k] =
        [exists |-> TRUE, communityUuid |-> c, clearingPrice |-> price, caller |-> NodeAccount]]
    BY <1>6 DEF Anchor!ClearMarket
  <2> HIDE DEF k, c, price, ok
  <2>3. /\ clearingResults'[k].exists /\ clearingResults'[k].clearingPrice = price
        /\ \A j \in Keys \ {k} : clearingResults'[j] = clearingResults[j]
    BY <1>2, <1>5, <2>2
  <2> QED
    BY <1>2, <1>3, <1>4, <2>1, <2>3 DEF k, ok, c, price
<1>7. CASE ~ ok /\ UNCHANGED contractVars
  <2>1. UNCHANGED clearingResults
    BY <1>7 DEF contractVars
  <2> HIDE DEF k, c, price, ok
  <2>2. ~ ok
    BY <1>7
  <2> QED
    BY <1>2, <1>3, <1>4, <2>1, <2>2 DEF k, ok, c, price
<1> QED
  BY <1>4, <1>6, <1>7

-----------------------------------------------------------------------------
(* The account and the contract.                                           *)
AcceptedTxs == {i \in DOMAIN receipts : receipts[i]}
RecordedKeys == {k \in Keys : clearingResults[k].exists}

CountInv ==
  /\ TypeInv
  /\ KeysKnown
  /\ IsFiniteSet(AcceptedTxs)
  /\ IsFiniteSet(RecordedKeys)
  /\ SuccessesRecorded

LEMMA CountInit == Init => CountInv
<1> SUFFICES ASSUME Init PROVE CountInv
  OBVIOUS
<1>1. AcceptedTxs = {} /\ RecordedKeys = {}
  BY DEF Init, Anchor!Init, Anchor!NoResult, AcceptedTxs, RecordedKeys
<1>2. KeysKnown
  BY DEF Init, KeysKnown
<1>3. SuccessesRecorded
  BY <1>1 DEF SuccessesRecorded, AcceptedTxs, RecordedKeys
<1> QED
  BY <1>1, <1>2, <1>3, TypeInit, FS_EmptySet, Zenon DEF CountInv

LEMMA CountStep == CountInv /\ [Next]_vars => CountInv'
<1> SUFFICES ASSUME CountInv, [Next]_vars PROVE CountInv'
  OBVIOUS
<1>1. TypeInv' /\ KeysKnown'
  BY TypeStep, KeysKnownStep DEF CountInv
<1>2. CASE UNCHANGED <<receipts, clearingResults>>
  <2>1. AcceptedTxs' = AcceptedTxs /\ RecordedKeys' = RecordedKeys
    BY <1>2 DEF AcceptedTxs, RecordedKeys
  <2>2. SuccessesRecorded <=> Cardinality(AcceptedTxs) = Cardinality(RecordedKeys)
    BY DEF SuccessesRecorded, AcceptedTxs, RecordedKeys
  <2>3. SuccessesRecorded' <=> Cardinality(AcceptedTxs') = Cardinality(RecordedKeys')
    BY DEF SuccessesRecorded, AcceptedTxs, RecordedKeys
  <2> QED
    BY <1>1, <2>1, <2>2, <2>3 DEF CountInv
<1>3. CASE Mine
  <2>1. PICK ok \in BOOLEAN, k \in Keys :
          /\ receipts' = Append(receipts, ok)
          /\ ok => /\ ~ clearingResults[k].exists
                   /\ clearingResults'[k].exists
                   /\ \A j \in Keys \ {k} : clearingResults'[j] = clearingResults[j]
          /\ ~ ok => clearingResults' = clearingResults
    BY <1>3, MineRecords DEF CountInv
  <2>2. receipts \in Seq(BOOLEAN) /\ Len(receipts) \in Nat
    BY DEF CountInv, TypeInv, TypeOK
  <2>3. /\ DOMAIN receipts' = DOMAIN receipts \cup {Len(receipts) + 1}
        /\ Len(receipts) + 1 \notin DOMAIN receipts
        /\ receipts'[Len(receipts) + 1] = ok
        /\ \A i \in DOMAIN receipts : receipts'[i] = receipts[i]
    BY <2>1, <2>2
  <2>4. AcceptedTxs' = IF ok THEN AcceptedTxs \cup {Len(receipts) + 1} ELSE AcceptedTxs
    BY <2>3 DEF AcceptedTxs
  <2>5. Len(receipts) + 1 \notin AcceptedTxs
    BY <2>3 DEF AcceptedTxs
  <2>6. RecordedKeys' = IF ok THEN RecordedKeys \cup {k} ELSE RecordedKeys
    BY <2>1 DEF RecordedKeys
  <2>7. ok => k \notin RecordedKeys
    BY <2>1 DEF RecordedKeys
  <2>8. /\ IsFiniteSet(AcceptedTxs) /\ IsFiniteSet(RecordedKeys)
        /\ Cardinality(AcceptedTxs) = Cardinality(RecordedKeys)
    BY DEF CountInv, SuccessesRecorded, AcceptedTxs, RecordedKeys
  <2>9. /\ IsFiniteSet(AcceptedTxs') /\ IsFiniteSet(RecordedKeys')
        /\ Cardinality(AcceptedTxs') = Cardinality(RecordedKeys')
    <3>1. CASE ok
      <4>1. AcceptedTxs' = AcceptedTxs \cup {Len(receipts) + 1} /\ RecordedKeys' = RecordedKeys \cup {k}
        BY <2>4, <2>6, <3>1
      <4>2. /\ IsFiniteSet(AcceptedTxs')
            /\ Cardinality(AcceptedTxs') = Cardinality(AcceptedTxs) + 1
        BY <2>5, <2>8, <4>1, FS_AddElement, Zenon
      <4>3. /\ IsFiniteSet(RecordedKeys')
            /\ Cardinality(RecordedKeys') = Cardinality(RecordedKeys) + 1
        BY <2>7, <2>8, <3>1, <4>1, FS_AddElement, Zenon
      <4> QED
        BY <2>8, <4>2, <4>3
    <3>2. CASE ~ ok
      BY <2>4, <2>6, <2>8, <3>2
    <3> QED
      BY <3>1, <3>2
  <2>10. SuccessesRecorded'
    BY <2>9 DEF SuccessesRecorded, AcceptedTxs, RecordedKeys
  <2> QED
    BY <1>1, <2>9, <2>10 DEF CountInv
<1>4. CASE OwnerActs
  BY <1>2, <1>4 DEF OwnerActs, Anchor!SetCommunityParams, Anchor!SetClearingNode
<1> QED
  BY <1>2, <1>3, <1>4, ChainMoved DEF ChainMoves, chainVars, contractVars, CountInv

(* The account's history and the contract agree: however the handlers race *)
(* for the nonce, fail or are restarted, and whatever the owner does, each *)
(* accepted transaction of the node recorded a market of its own.          *)
THEOREM NodeSuccessesRecorded == Spec => []SuccessesRecorded
<1>1. Spec => []CountInv
  BY CountInit, CountStep, PTL DEF Spec
<1>2. CountInv => SuccessesRecorded
  BY DEF CountInv
<1> QED
  BY <1>1, <1>2, PTL

-----------------------------------------------------------------------------
(* A market is recorded when the contract has a result under its key.      *)
Recorded(m) == KeyOf[m] # None /\ clearingResults[KeyOf[m]].exists

(* A handler that waits for a receipt waits for a transaction of its own   *)
(* market, or that transaction has been mined.                             *)
OwnTxAwaited ==
  \A p \in Procs : pc[p] = "wait_receipt" =>
    \/ call[p].tx <= Len(receipts)
    \/ /\ call[p].tx = Len(receipts) + 1
       /\ pending # NoTx
       /\ pending.market = call[p].market

TradesRecorded ==
  /\ \A m \in Markets : trades[m] # <<>> => Recorded(m)
  /\ \A r \in DOMAIN late : r.kind = "trades" => Recorded(r.market)
  /\ \A p \in Procs :
       \/ pc[p] = "post_trades"
       \/ pc[p] = "wait_receipt" /\ call[p].tx <= Len(receipts)
       => Recorded(call[p].market)

AuditInv ==
  /\ TypeInv
  /\ KeysKnown
  /\ clearingNode \in appointed
  /\ OwnTxAwaited
  /\ OwnerIdle => TradesRecorded

LEMMA AuditInit == Init => AuditInv
<1> SUFFICES ASSUME Init PROVE AuditInv
  OBVIOUS
<1> USE DEF Init
<1>1. KeysKnown /\ OwnTxAwaited
  BY DEF KeysKnown, OwnTxAwaited
<1>2. clearingNode \in appointed
  BY DEF Anchor!Init
<1>3. TradesRecorded
  BY DEF TradesRecorded, StoreInit, EmptyBag, SetToBag
<1> QED
  BY <1>1, <1>2, <1>3, TypeInit DEF AuditInv

LEMMA OwnTxAwaitedStep ==
  ASSUME AuditInv, [Next]_vars
  PROVE  OwnTxAwaited'
<1> SUFFICES ASSUME NEW p \in Procs, pc'[p] = "wait_receipt"
             PROVE  \/ call'[p].tx <= Len(receipts')
                    \/ /\ call'[p].tx = Len(receipts') + 1
                       /\ pending' # NoTx
                       /\ pending'.market = call'[p].market
  BY DEF OwnTxAwaited
<1>0. receipts \in Seq(BOOLEAN) /\ Len(receipts) \in Nat /\ call[p].tx \in Nat
  BY DEF AuditInv, TypeInv, TypeOK, Calls, TxHashes
<1>1. CASE pc[p] = "send_tx" /\ SameCall(p) /\ Sendable(p) /\ Submit(p) /\ UNCHANGED receipts
  BY <1>0, <1>1 DEF Sendable, Submit, SameCall, NoTx
<1>2. CASE Stays(p)
  <2>1. /\ call'[p].tx = call[p].tx /\ call'[p].market = call[p].market
        /\ \/ call[p].tx <= Len(receipts)
           \/ /\ call[p].tx = Len(receipts) + 1
              /\ pending # NoTx
              /\ pending.market = call[p].market
    BY <1>2 DEF AuditInv, OwnTxAwaited, Stays, SameCall
  <2>2. CASE UNCHANGED <<receipts, pending>>
    BY <2>1, <2>2
  <2>3. CASE Mine
    <3>1. Len(receipts') = Len(receipts) + 1
      BY <1>0, <2>3 DEF Mine
    <3> QED
      BY <1>0, <2>1, <3>1
  <2>4. CASE \E q \in Procs : Sendable(q) /\ UNCHANGED receipts
    BY <2>1, <2>4 DEF Sendable
  <2> QED
    BY <2>2, <2>3, <2>4, ChainMoved DEF ChainMoves, chainVars, OwnerActs, AuditInv
<1> QED
  BY <1>1, <1>2, HandlerMoves DEF MovesOn, InRun, AuditInv

LEMMA RecordedGrows ==
  ASSUME TypeInv, KeysKnown, [Next]_vars, NEW m \in Markets, Recorded(m)
  PROVE  Recorded(m)'
<1>1. KeyOf[m] \in Keys
  BY AnchorAssumption DEF Recorded
<1>2. CASE Mine
  BY <1>1, <1>2, MineRecords DEF Recorded
<1>3. CASE UNCHANGED clearingResults
  BY <1>3 DEF Recorded
<1> QED
  BY <1>2, <1>3, ChainMoved
  DEF ChainMoves, chainVars, contractVars, OwnerActs, Anchor!SetCommunityParams, Anchor!SetClearingNode

(* The owner cannot take back what it has done.                            *)
LEMMA OwnerIdleBefore ==
  ASSUME TypeInv, clearingNode \in appointed, [Next]_vars
  PROVE  /\ clearingNode' \in appointed'
         /\ OwnerIdle' => OwnerIdle
<1>1. communityParams \in [Communities -> Anchor!Params \cup {Anchor!NoParams}]
  BY DEF TypeInv, TypeOK, Anchor!TypeOK
<1>2. CASE OwnerActs
  <2>1. CASE \E c \in Communities, u, l \in Anchor!Prices : Anchor!SetCommunityParams(Admin, c, u, l)
    BY <1>1, <2>1 DEF Anchor!SetCommunityParams, OwnerIdle
  <2>2. CASE \E a \in Accounts : Anchor!SetClearingNode(Admin, a)
    BY <2>2 DEF Anchor!SetClearingNode, OwnerIdle
  <2> QED
    BY <1>2, <2>1, <2>2 DEF OwnerActs
<1>3. CASE UNCHANGED <<clearingNode, appointed, communityParams>>
  BY <1>3 DEF OwnerIdle
<1>4. CASE Mine
  BY <1>3, <1>4 DEF Mine, Anchor!ClearMarket, contractVars
<1> QED
  BY <1>2, <1>3, <1>4, ChainMoved DEF ChainMoves, chainVars, contractVars

(* While the owner is idle a mined transaction finds its market recorded   *)
(* or records it.                                                          *)
LEMMA MinedRecorded ==
  ASSUME TypeInv, KeysKnown, clearingNode \in appointed, OwnerIdle, Mine,
         NEW m \in Markets, m = pending.market
  PROVE  Recorded(m)'
<1>1. clearingNode = NodeAccount /\ CommunityOf[pending.market] \in Communities
  BY AnchorAssumption DEF OwnerIdle, Mine, TypeInv, TypeOK, Txs
<1>2. ~ communityParams[CommunityOf[pending.market]].exists
  BY <1>1 DEF OwnerIdle
<1>3. PICK ok \in BOOLEAN, k \in Keys :
        /\ k = KeyOf[pending.market]
        /\ ok <=> Anchor!ClearMarketAccepted(NodeAccount, k, CommunityOf[pending.market], Price[pending.book])
        /\ ok => clearingResults'[k].exists
        /\ ~ ok => clearingResults' = clearingResults
  BY MineRecords
<1>4. clearingResults'[k].exists
  BY <1>1, <1>2, <1>3 DEF Anchor!ClearMarketAccepted
<1> QED
  BY <1>3, <1>4, NodeAssumption DEF Recorded

LEMMA TradesRecordedStep ==
  ASSUME HasAnchor = TRUE, AuditInv, [Next]_vars, OwnerIdle'
  PROVE  TradesRecorded'
<1>1. OwnerIdle /\ TradesRecorded /\ TypeInv /\ KeysKnown /\ StoreTypeOK
  BY OwnerIdleBefore DEF AuditInv, TypeInv, TypeOK
<1>2. \A m \in Markets : Recorded(m) => Recorded(m)'
  BY <1>1, RecordedGrows
<1>3. ASSUME NEW p \in Procs,
             \/ pc'[p] = "post_trades"
             \/ pc'[p] = "wait_receipt" /\ call'[p].tx <= Len(receipts')
      PROVE  Recorded(call[p].market)'
  <2>1. call'[p].market \in Markets
    BY <1>1, <1>3, TypeStep DEF TypeInv, CallsReady, InRun
  <2>2. /\ receipts \in Seq(BOOLEAN) /\ Len(receipts) \in Nat /\ call[p].tx \in Nat
    BY <1>1 DEF TypeInv, TypeOK, Calls, TxHashes
  <2>3. ASSUME NEW m \in Markets, call[p].market = m, call'[p].market = m, Recorded(m)
        PROVE  Recorded(call[p].market)'
    BY <1>2, <2>3 DEF Recorded
  <2>4. CASE pc[p] = "wait_receipt" /\ pc'[p] = "post_trades" /\ SameCall(p) /\ call[p].tx <= Len(receipts)
    BY <1>1, <2>1, <2>3, <2>4 DEF TradesRecorded, SameCall
  <2>5. CASE Stays(p)
    <3>1. CASE pc[p] = "post_trades" \/ call[p].tx <= Len(receipts)
      BY <1>1, <1>3, <2>1, <2>3, <2>5, <3>1 DEF TradesRecorded, Stays, SameCall
    <3>2. CASE pc[p] = "wait_receipt" /\ ~ (call[p].tx <= Len(receipts))
      <4>1. Len(receipts') # Len(receipts)
        BY <1>3, <2>5, <3>2 DEF Stays, SameCall
      <4>2. Mine
        BY <1>1, <4>1, ChainMoved DEF ChainMoves, chainVars, OwnerActs
      <4>3. pending.market = call[p].market
        BY <3>2 DEF AuditInv, OwnTxAwaited
      <4>4. call'[p].market = call[p].market
        BY <2>5 DEF Stays, SameCall
      <4>5. \A m \in Markets : m = pending.market => Recorded(m)'
        BY <1>1, <4>2, MinedRecorded DEF AuditInv
      <4> QED
        BY <2>1, <4>3, <4>4, <4>5 DEF Recorded
    <3> QED
      BY <1>3, <2>5, <3>1, <3>2 DEF Stays, SameCall
  <2>6. CASE pc[p] = "send_tx" /\ SameCall(p) /\ Sendable(p) /\ UNCHANGED receipts /\ pc'[p] = "wait_receipt"
    BY <1>3, <2>2, <2>6 DEF Sendable, SameCall
  <2> QED
    BY <1>1, <1>3, <2>4, <2>5, <2>6, HandlerMoves DEF MovesOn, InRun
<1>4. ASSUME NEW r \in Requests, r.kind = "trades" => Recorded(r.market), Apply(r),
             NEW m \in Markets, trades'[m] # <<>>
      PROVE  Recorded(m)'
  <2>1. CASE trades'[m] = trades[m]
    BY <1>1, <1>2, <1>4, <2>1 DEF TradesRecorded
  <2>2. CASE r.kind = "trades" /\ r.market = m
    BY <1>2, <1>4, <2>2
  <2> QED
    BY <1>1, <1>4, <2>1, <2>2 DEF Apply, StoreTypeOK, Requests
<1>5. \A r \in Requests : r.market \in Markets
  BY DEF Requests
<1>6. DOMAIN late \subseteq Requests /\ IsABag(late)
  BY <1>1 DEF StoreTypeOK
<1>7. ASSUME NEW p \in Procs, pc[p] \in {"post_trades", "post_result"}
      PROVE  /\ Request(p) \in Requests
             /\ Request(p).kind = "trades" => Recorded(Request(p).market)
  BY <1>1, <1>7, RequestType DEF Request, TradesRequest, ResultRequest, TradesRecorded
<1>8. /\ \A m \in Markets : trades'[m] # <<>> => Recorded(m)'
      /\ \A r \in DOMAIN late' : r.kind = "trades" => Recorded(r.market)'
  <2>1. CASE UNCHANGED storeVars
    BY <1>1, <1>2, <1>5, <1>6, <2>1 DEF storeVars, TradesRecorded
  <2>2. ASSUME NEW r \in DOMAIN late, LateArrival(r) PROVE <1>8
    <3>1. r \in Requests /\ Apply(r) /\ DOMAIN late' \subseteq DOMAIN late
      BY <1>6, <2>2, BagRemoveType DEF LateArrival
    <3> QED
      BY <1>1, <1>2, <1>4, <1>5, <1>6, <3>1 DEF TradesRecorded
  <2>3. ASSUME NEW p \in Procs, pc[p] \in {"post_trades", "post_result"}, Accept(Request(p))
        PROVE  <1>8
    BY <1>1, <1>2, <1>4, <1>5, <1>6, <1>7, <2>3 DEF TradesRecorded, Accept
  <2>4. ASSUME NEW p \in Procs, pc[p] \in {"post_trades", "post_result"}, Delay(Request(p))
        PROVE  <1>8
    <3>1. trades' = trades /\ DOMAIN late' = DOMAIN late \cup {Request(p)}
      BY <1>6, <2>4, BagAddType DEF Delay
    <3> QED
      BY <1>1, <1>2, <1>5, <1>6, <1>7, <2>4, <3>1 DEF TradesRecorded
  <2> QED
    BY <1>1, <2>1, <2>2, <2>3, <2>4, StoreMoved DEF StoreMoves, PostTrades, PostResult
<1> QED
  BY <1>3, <1>8 DEF TradesRecorded

(* The audit trail is complete: a node with a contract client stores       *)
(* trades only for markets that the contract has recorded, however its     *)
(* handlers race, fail and restart, while the contract's owner is idle.    *)
THEOREM NodeAnchoredBeforeTraded == HasAnchor = TRUE /\ Spec => []AnchoredBeforeTraded
<1> SUFFICES ASSUME HasAnchor = TRUE PROVE Spec => []AnchoredBeforeTraded
  OBVIOUS
<1>1. AuditInv /\ [Next]_vars => AuditInv'
  <2> SUFFICES ASSUME AuditInv, [Next]_vars PROVE AuditInv'
    OBVIOUS
  <2>1. TypeInv /\ KeysKnown /\ clearingNode \in appointed
    BY DEF AuditInv
  <2> QED
    BY <2>1, TypeStep, KeysKnownStep, OwnerIdleBefore, OwnTxAwaitedStep, TradesRecordedStep DEF AuditInv
<1>2. AuditInv => AnchoredBeforeTraded
  BY DEF AuditInv, TradesRecorded, Recorded, AnchoredBeforeTraded
<1> QED
  BY <1>1, <1>2, AuditInit, PTL DEF Spec

-----------------------------------------------------------------------------

OneHandler == Triggers = {} /\ "post" \notin UpsetKinds

SlotOf == call[Scheduler].market

(* The handler has checked for trades and has not posted its own yet.      *)
BeforePost == {"get_orders", "get_nonce", "send_tx", "wait_receipt", "post_trades"}

OnceInv ==
  /\ TypeInv
  /\ DOMAIN late = {}
  /\ pc[Scheduler] \in BeforePost => trades[SlotOf] = <<>>
  /\ TradedOnce

(* The store of such a node changes by its two posts only.                 *)
LEMMA OneHandlerStore ==
  ASSUME OneHandler, TypeInv, DOMAIN late = {}, [Next]_vars
  PROVE  /\ late' = late
         /\ \/ UNCHANGED <<trades, results>>
            \/ /\ PostTrades(Scheduler)
               /\ pc'[Scheduler] = "post_result" /\ SameCall(Scheduler)
               /\ UNCHANGED results
               /\ trades' = IF call[Scheduler].book \in Dust THEN trades
                            ELSE [trades EXCEPT ![SlotOf] = Append(@, call[Scheduler].book)]
            \/ /\ PostResult(Scheduler)
               /\ pc'[Scheduler] = "next"
               /\ UNCHANGED trades
               /\ results' = [results EXCEPT ![SlotOf] = Append(@,
                    [status |-> Status(Scheduler), book |-> call[Scheduler].book,
                     tx |-> call[Scheduler].tx])]
<1>0. Procs = {Scheduler} /\ DOMAIN pc = Procs /\ DOMAIN call = Procs /\ call[Scheduler] \in Calls
  BY DEF OneHandler, Procs, TypeInv, TypeOK
<1>1. CASE UNCHANGED storeVars
  BY <1>1 DEF storeVars
<1>2. CASE PostTrades(Scheduler)
  <2>1. pc'[Scheduler] = "post_result" /\ SameCall(Scheduler)
    BY <1>0, <1>2 DEF PostTrades, SameCall, Calls
  <2>2. Request(Scheduler) = TradesRequest(SlotOf, call[Scheduler].book)
    BY <1>2 DEF PostTrades, Request, SlotOf
  <2> QED
    BY <1>2, <2>1, <2>2 DEF PostTrades, Accept, Apply, TradesRequest
<1>3. CASE PostResult(Scheduler)
  <2>1. pc'[Scheduler] = "next"
    BY <1>0, <1>3 DEF PostResult, Return
  <2>2. Request(Scheduler) = ResultRequest(SlotOf,
          [status |-> Status(Scheduler), book |-> call[Scheduler].book, tx |-> call[Scheduler].tx])
    BY <1>3 DEF PostResult, Request, SlotOf
  <2> QED
    BY <1>3, <2>1, <2>2 DEF PostResult, Accept, Apply, ResultRequest
<1> QED
  BY <1>0, <1>1, <1>2, <1>3, StoreMoved DEF StoreMoves, OneHandler

LEMMA OnceInit == Init => OnceInv
<1> SUFFICES ASSUME Init PROVE OnceInv
  OBVIOUS
<1>1. pc[Scheduler] = "idle"
  BY DEF Init, Procs
<1>2. TradedOnce
  BY DEF Init, StoreInit, TradedOnce
<1>3. DOMAIN late = {}
  BY DEF Init, StoreInit, EmptyBag, SetToBag
<1> QED
  BY <1>1, <1>2, <1>3, TypeInit DEF OnceInv, BeforePost

LEMMA OnceStep == OneHandler /\ OnceInv /\ [Next]_vars => OnceInv'
<1> SUFFICES ASSUME OneHandler, OnceInv, [Next]_vars PROVE OnceInv'
  OBVIOUS
<1>0. /\ TypeInv /\ Scheduler \in Procs /\ StoreTypeOK
      /\ pc[Scheduler] \in InRun => SlotOf \in Markets
      /\ pc[Scheduler] \in InRun \ {"get_trades", "get_orders"} => call[Scheduler].book \in Books
  BY DEF OnceInv, TypeInv, TypeOK, CallsReady, Procs, SlotOf
<1>1. TypeInv' /\ DOMAIN late' = {}
  BY TypeStep, OneHandlerStore DEF OnceInv
<1>2. ASSUME pc'[Scheduler] \in BeforePost PROVE trades'[call'[Scheduler].market] = <<>>
  <2>1. Stays(Scheduler) \/ MovesOn(Scheduler)
    BY <1>0, <1>2, HandlerMoves DEF BeforePost, InRun
  <2>2. pc[Scheduler] \in BeforePost \cup {"get_trades"} /\ call'[Scheduler].market = SlotOf
    BY <1>2, <2>1 DEF Stays, MovesOn, SameCall, BeforePost, SlotOf
  <2>3. trades[SlotOf] = <<>>
    BY <1>2, <2>1, <2>2 DEF Stays, MovesOn, BeforePost, SlotOf, OnceInv
  <2>4. trades' = trades
    BY <1>0, <1>2, <2>2, OneHandlerStore DEF OnceInv, BeforePost, PostResult
  <2> QED
    BY <2>2, <2>3, <2>4
<1>3. TradedOnce'
  <2>1. CASE PostTrades(Scheduler)
    <3>1. pc[Scheduler] = "post_trades" /\ pc[Scheduler] \in InRun
      BY <2>1 DEF PostTrades, InRun
    <3>2. /\ trades[SlotOf] = <<>> /\ SlotOf \in Markets /\ call[Scheduler].book \in Books
      BY <1>0, <3>1 DEF OnceInv, BeforePost
    <3>3. trades' = trades \/ trades' = [trades EXCEPT ![SlotOf] = Append(<<>>, call[Scheduler].book)]
      BY <1>0, <2>1, <3>2, OneHandlerStore DEF OnceInv, PostTrades, PostResult
    <3>4. Len(Append(<<>>, call[Scheduler].book)) = 1
      OBVIOUS
    <3>5. ASSUME NEW m \in Markets PROVE Len(trades'[m]) <= 1
      <4>1. trades'[m] = trades[m] \/ trades'[m] = Append(<<>>, call[Scheduler].book)
        BY <1>0, <3>3 DEF StoreTypeOK
      <4>2. Len(trades[m]) <= 1 /\ 1 <= 1
        BY DEF OnceInv, TradedOnce
      <4>3. CASE trades'[m] = trades[m]
        BY <4>2, <4>3
      <4>4. CASE trades'[m] = Append(<<>>, call[Scheduler].book)
        BY <3>4, <4>2, <4>4
      <4> QED
        BY <4>1, <4>3, <4>4
    <3> QED
      BY <3>5 DEF TradedOnce
  <2>2. CASE ~ PostTrades(Scheduler)
    <3>1. trades' = trades
      BY <1>0, <2>2, OneHandlerStore DEF OnceInv
    <3> QED
      BY <3>1 DEF OnceInv, TradedOnce
  <2> QED
    BY <2>1, <2>2
<1> QED
  BY <1>1, <1>2, <1>3 DEF OnceInv, SlotOf

(* The idempotency check: a node with one handler whose posts are answered *)
(* stores the trades of a market once, through every failure of a read, a  *)
(* refused post, a lost transaction and restart.                           *)
THEOREM NodeTradedOnce == OneHandler /\ Spec => []TradedOnce
<1> SUFFICES ASSUME OneHandler PROVE Spec => []TradedOnce
  OBVIOUS
<1>1. OnceInv /\ [Next]_vars => OnceInv'
  BY OnceStep
<1>2. OnceInv => TradedOnce
  BY DEF OnceInv
<1> QED
  BY <1>1, <1>2, OnceInit, PTL DEF Spec

-----------------------------------------------------------------------------
(* The refinement.  A batch of dust leaves no trades, so that its final    *)
(* result has nothing to follow: there the mapping needs Dust = {}.        *)
LedgerInv ==
  /\ OnceInv
  /\ \A m \in Markets : FinalEntries(m) # {} => trades[m] # <<>>
  /\ pc[Scheduler] = "post_result" /\ call[Scheduler].book \notin OneSided =>
       trades[SlotOf] = <<call[Scheduler].book>> /\ FinalEntries(SlotOf) = {}

(* What one more result makes of the final ones.                           *)
LEMMA FinalAfterResult ==
  ASSUME StoreTypeOK, NEW m \in Markets, NEW r \in ClearingResults,
         results' = [results EXCEPT ![m] = Append(@, r)]
  PROVE  \A n \in Markets : FinalEntries(n)' =
           IF n = m /\ r.status = "final"
           THEN FinalEntries(n) \cup {[at |-> Len(results[m]) + 1, book |-> r.book]}
           ELSE FinalEntries(n)
<1> DEFINE q == results[m]
           e == [at |-> Len(q) + 1, book |-> r.book]
<1>1. q \in Seq(ClearingResults) /\ Len(q) \in Nat
  BY DEF StoreTypeOK
<1>2. results'[m] = Append(q, r) /\ \A n \in Markets \ {m} : results'[n] = results[n]
  BY DEF StoreTypeOK
<1>3. /\ DOMAIN Append(q, r) = DOMAIN q \cup {Len(q) + 1}
      /\ Append(q, r)[Len(q) + 1] = r
      /\ \A i \in DOMAIN q : Append(q, r)[i] = q[i]
  BY <1>1
<1>4. \A n \in Markets \ {m} : FinalEntries(n)' = FinalEntries(n)
  BY <1>2 DEF FinalEntries
<1>5. FinalEntries(m)' =
        {[at |-> i, book |-> Append(q, r)[i].book] :
           i \in {j \in DOMAIN q \cup {Len(q) + 1} : Append(q, r)[j].status = "final"}}
  BY <1>2, <1>3 DEF FinalEntries
<1>6. FinalEntries(m) = {[at |-> i, book |-> q[i].book] : i \in {j \in DOMAIN q : q[j].status = "final"}}
  BY DEF FinalEntries
<1> HIDE DEF q
<1>7. CASE r.status = "final"
  <2>1. {j \in DOMAIN q \cup {Len(q) + 1} : Append(q, r)[j].status = "final"}
          = {j \in DOMAIN q : q[j].status = "final"} \cup {Len(q) + 1}
    BY <1>3, <1>7
  <2>2. FinalEntries(m)' = FinalEntries(m) \cup {e}
    BY <1>3, <1>5, <1>6, <2>1
  <2> QED
    BY <1>4, <1>7, <2>2 DEF q
<1>8. CASE r.status # "final"
  <2>1. {j \in DOMAIN q \cup {Len(q) + 1} : Append(q, r)[j].status = "final"}
          = {j \in DOMAIN q : q[j].status = "final"}
    BY <1>3, <1>8
  <2>2. FinalEntries(m)' = FinalEntries(m)
    BY <1>3, <1>5, <1>6, <2>1
  <2> QED
    BY <1>4, <1>8, <2>2
<1> QED
  BY <1>7, <1>8

(* The handler at its second post, read from the state before the step.    *)
LEMMA ResultReady ==
  ASSUME LedgerInv, PostResult(Scheduler)
  PROVE  /\ SlotOf \in Markets /\ call[Scheduler].book \in Books
         /\ [status |-> Status(Scheduler), book |-> call[Scheduler].book,
             tx |-> call[Scheduler].tx] \in ClearingResults
         /\ Status(Scheduler) = "final" =>
              trades[SlotOf] = <<call[Scheduler].book>> /\ FinalEntries(SlotOf) = {}
<1>1. pc[Scheduler] = "post_result" /\ Scheduler \in Procs
  BY DEF PostResult, Procs
<1>2. SlotOf \in Markets /\ call[Scheduler].book \in Books /\ call[Scheduler].tx \in TxHashes
  BY <1>1 DEF LedgerInv, OnceInv, TypeInv, TypeOK, CallsReady, InRun, SlotOf, Calls
<1>3. Status(Scheduler) = "final" => call[Scheduler].book \notin OneSided
  BY DEF Status
<1> QED
  BY <1>1, <1>2, <1>3 DEF LedgerInv, ClearingResults, Status

LEMMA TradesReady ==
  ASSUME LedgerInv, PostTrades(Scheduler)
  PROVE  /\ SlotOf \in Markets /\ call[Scheduler].book \in Books
         /\ trades[SlotOf] = <<>> /\ FinalEntries(SlotOf) = {}
<1>1. pc[Scheduler] = "post_trades" /\ Scheduler \in Procs
  BY DEF PostTrades, Procs
<1>2. SlotOf \in Markets /\ call[Scheduler].book \in Books
  BY <1>1 DEF LedgerInv, OnceInv, TypeInv, TypeOK, CallsReady, InRun, SlotOf
<1> QED
  BY <1>1, <1>2 DEF LedgerInv, OnceInv, BeforePost

LEMMA FinalKept == UNCHANGED results => \A m \in Markets : FinalEntries(m)' = FinalEntries(m)
BY DEF FinalEntries

LEMMA LedgerStep ==
  ASSUME OneHandler, Dust = {}, LedgerInv, [Next]_vars
  PROVE  LedgerInv' /\ [Ledger!Next]_Ledger!slotVars
<1> DEFINE b == call[Scheduler].book
           finals == [m \in Markets |-> FinalEntries(m)]
<1>0. TypeInv /\ StoreTypeOK /\ DOMAIN late = {} /\ Scheduler \in Procs
  BY DEF LedgerInv, OnceInv, TypeInv, TypeOK, Procs
<1>1. OnceInv'
  BY OnceStep DEF LedgerInv
<1>2. CASE UNCHANGED <<trades, results>>
  <2>1. \A m \in Markets : FinalEntries(m)' = FinalEntries(m)
    BY <1>2, FinalKept
  <2>2. ASSUME pc'[Scheduler] = "post_result", call'[Scheduler].book \notin OneSided
        PROVE  /\ trades'[call'[Scheduler].market] = <<call'[Scheduler].book>>
               /\ FinalEntries(call[Scheduler].market)' = {}
    <3>1. Stays(Scheduler) \/ MovesOn(Scheduler)
      BY <1>0, <2>2, HandlerMoves DEF InRun
    <3>2. CASE Stays(Scheduler)
      <4>1. /\ pc[Scheduler] = "post_result" /\ call[Scheduler].book \notin OneSided
            /\ call'[Scheduler].market = SlotOf /\ call'[Scheduler].book = b
        BY <2>2, <3>2 DEF Stays, SameCall, SlotOf
      <4>2. trades[SlotOf] = <<b>> /\ FinalEntries(SlotOf) = {}
        BY <4>1 DEF LedgerInv
      <4>3. FinalEntries(call[Scheduler].market)' = FinalEntries(SlotOf)
        BY <1>2, <4>1 DEF FinalEntries
      <4> QED
        BY <1>2, <4>1, <4>2, <4>3
    <3>3. CASE pc[Scheduler] = "post_trades" /\ Accept(Request(Scheduler)) /\ SameCall(Scheduler)
      <4>1. /\ SlotOf \in Markets /\ b \in Books /\ trades[SlotOf] = <<>>
        BY <1>0, <3>3 DEF LedgerInv, OnceInv, BeforePost, TypeInv, CallsReady, InRun, SlotOf
      <4>2. trades' = [trades EXCEPT ![SlotOf] = Append(<<>>, b)]
        BY <3>3, <4>1 DEF Accept, Apply, Request, TradesRequest, SlotOf
      <4>3. Append(<<>>, b) # <<>>
        OBVIOUS
      <4> QED
        BY <1>0, <1>2, <4>1, <4>2, <4>3 DEF StoreTypeOK
    <3> QED
      BY <2>2, <3>1, <3>2, <3>3 DEF MovesOn
  <2>3. LedgerInv'
    BY <1>1, <1>2, <2>1, <2>2 DEF LedgerInv, SlotOf
  <2>4. UNCHANGED Ledger!slotVars
    BY <1>2, <2>1 DEF Ledger!slotVars
  <2> QED
    BY <2>3, <2>4
<1>3. CASE PostTrades(Scheduler)
  <2>1. SlotOf \in Markets /\ b \in Books /\ trades[SlotOf] = <<>> /\ FinalEntries(SlotOf) = {}
    BY <1>3, TradesReady DEF LedgerInv
  <2>2. /\ pc'[Scheduler] = "post_result" /\ SameCall(Scheduler) /\ UNCHANGED results
        /\ trades' = [trades EXCEPT ![SlotOf] = Append(<<>>, b)]
    <3>1. trades' = [trades EXCEPT ![SlotOf] = Append(trades[SlotOf], b)] /\ UNCHANGED results
      BY <1>3 DEF PostTrades, Accept, Apply, Request, TradesRequest, SlotOf
    <3> QED
      BY <1>0, <1>3, <2>1, <3>1 DEF PostTrades, SameCall, TypeInv, TypeOK, Calls
  <2>3. Append(<<>>, b) = <<b>> /\ <<b>> # <<>>
    OBVIOUS
  <2>4. \A m \in Markets : FinalEntries(m)' = FinalEntries(m)
    BY <2>2, FinalKept
  <2>5. trades'[SlotOf] = <<b>> /\ \A m \in Markets \ {SlotOf} : trades'[m] = trades[m]
    BY <1>0, <2>1, <2>2, <2>3 DEF StoreTypeOK
  <2>6. call'[Scheduler].market = SlotOf /\ call'[Scheduler].book = b
    BY <2>2 DEF SameCall, SlotOf
  <2>7. FinalEntries(call[Scheduler].market)' = {}
    BY <2>1, <2>2, <2>6 DEF FinalEntries, SlotOf
  <2>8. LedgerInv'
    BY <1>1, <2>3, <2>4, <2>5, <2>6, <2>7 DEF LedgerInv, SlotOf
  <2>9. Ledger!Clear(SlotOf, b)
    BY <2>1, <2>2, <2>3, <2>4 DEF Ledger!Clear
  <2> QED
    BY <2>1, <2>8, <2>9 DEF Ledger!Next
<1>4. CASE PostResult(Scheduler)
  <2> DEFINE r == [status |-> Status(Scheduler), book |-> b, tx |-> call[Scheduler].tx]
             e == [at |-> Len(results[SlotOf]) + 1, book |-> b]
  <2>1. /\ SlotOf \in Markets /\ b \in Books /\ r \in ClearingResults
        /\ Status(Scheduler) = "final" => trades[SlotOf] = <<b>> /\ FinalEntries(SlotOf) = {}
    BY <1>4, ResultReady
  <2>2. results' = [results EXCEPT ![SlotOf] = Append(@, r)] /\ UNCHANGED trades
    BY <1>4 DEF PostResult, Accept, Apply, Request, ResultRequest, SlotOf
  <2>3. pc'[Scheduler] = "next"
    BY <1>0, <1>4 DEF PostResult, Return, TypeInv, TypeOK
  <2>4. \A n \in Markets : FinalEntries(n)' =
          IF n = SlotOf /\ Status(Scheduler) = "final" THEN FinalEntries(n) \cup {e} ELSE FinalEntries(n)
    <3>1. r.status = Status(Scheduler) /\ r.book = b
      OBVIOUS
    <3> HIDE DEF r
    <3> QED
      BY <1>0, <2>1, <2>2, <3>1, FinalAfterResult
  <2>5. <<b>> # <<>>
    OBVIOUS
  <2>6. LedgerInv'
    BY <1>1, <2>1, <2>2, <2>3, <2>4, <2>5 DEF LedgerInv
  <2>7. CASE Status(Scheduler) = "final"
    <3>1. FinalEntries(SlotOf) = {} /\ trades[SlotOf] = <<b>>
      BY <2>1, <2>7
    <3>2. e \in finals'[SlotOf] /\ e.book = b
      BY <2>1, <2>4, <2>7
    <3>3. \A n \in Markets : FinalEntries(n)' = IF n = SlotOf THEN {e} ELSE FinalEntries(n)
      BY <2>4, <2>7, <3>1
    <3> HIDE DEF e
    <3>4. finals' = [finals EXCEPT ![SlotOf] = {e}]
      BY <3>3
    <3>5. Ledger!Report(SlotOf, b)
      BY <2>1, <2>2, <3>1, <3>2, <3>4 DEF Ledger!Report
    <3> QED
      BY <2>1, <2>6, <3>5 DEF Ledger!Next
  <2>8. CASE Status(Scheduler) # "final"
    BY <2>2, <2>4, <2>6, <2>8 DEF Ledger!slotVars
  <2> QED
    BY <2>7, <2>8
<1> QED
  BY <1>0, <1>2, <1>3, <1>4, OneHandlerStore

(* The store of a node with one handler whose posts are answered, and      *)
(* whose books are worth trading, implements SlotLedger: a slot is cleared *)
(* at most once, and reported at most once, afterwards and from the same   *)
(* book, through every refusal, lost transaction and restart.              *)
THEOREM NodeImplementsLedger == OneHandler /\ Dust = {} /\ Spec => ImplementsLedger
<1> SUFFICES ASSUME OneHandler, Dust = {} PROVE Spec => ImplementsLedger
  OBVIOUS
<1>1. Init => LedgerInv /\ Ledger!Init
  <2> SUFFICES ASSUME Init PROVE LedgerInv /\ Ledger!Init
    OBVIOUS
  <2>1. \A m \in Markets : FinalEntries(m) = {}
    BY DEF Init, StoreInit, FinalEntries
  <2>2. pc[Scheduler] = "idle"
    BY DEF Init, Procs
  <2>3. Ledger!Init
    BY <2>1 DEF Init, StoreInit, Ledger!Init
  <2> QED
    BY <2>1, <2>2, <2>3, OnceInit DEF LedgerInv
<1>2. LedgerInv /\ [Next]_vars => LedgerInv' /\ [Ledger!Next]_Ledger!slotVars
  BY LedgerStep
<1> QED
  BY <1>1, <1>2, PTL DEF Spec, ImplementsLedger, Ledger!Spec

-----------------------------------------------------------------------------
(* The price.  A market's book is final once it is no longer open, and the *)
(* scheduler takes up such markets only; so everything that a run, a late  *)
(* post or a transaction holds comes from the same book.                   *)
DistinctKeys == \A m, n \in Markets : KeyOf[m] = KeyOf[n] /\ KeyOf[m] # None => m = n

Final(m, b) == phase[m] # "open" /\ b = orders[m]

RunFinal ==
  /\ \A m \in due : phase[m] # "open"
  /\ pc[Scheduler] \in InRun => phase[SlotOf] # "open"
  /\ pc[Scheduler] \in InRun \ {"get_trades", "get_orders"} => Final(SlotOf, call[Scheduler].book)

StoreFinal ==
  /\ \A r \in DOMAIN late : r.kind = "trades" => Final(r.market, r.book)
  /\ \A m \in Markets : \A b \in Books : Stored(m, b) => Final(m, b)

ChainFinal ==
  /\ pending # NoTx => Final(pending.market, pending.book)
  /\ \A m \in Markets : Recorded(m) =>
       phase[m] # "open" /\ clearingResults[KeyOf[m]].clearingPrice = Price[orders[m]]

PriceInv == AuditInv /\ OwnerIdle /\ RunFinal /\ StoreFinal /\ ChainFinal

LEMMA FinalStays ==
  ASSUME TypeInv, [Next]_vars, NEW m \in Markets, phase[m] # "open"
  PROVE  phase'[m] # "open" /\ orders'[m] = orders[m]
<1>0. phase \in [Markets -> {"open", "closed", "aged"}] /\ orders \in [Markets -> Books]
  BY DEF TypeInv, TypeOK
<1>1. ASSUME NEW p \in Procs, Proceed(p) \/ Fail(p) PROVE UNCHANGED marketVars
  BY <1>1 DEF Proceed, Fail, GetTrades, GetOrders, GetNonce, SendTx, GetReceipt, PostTrades,
              PostResult, ReadFails, RpcFails, PostTimesOut, PostRefused
<1>2. CASE \E n \in Markets : OrdersChange(n) \/ Close(n) \/ Age(n)
  BY <1>0, <1>2 DEF OrdersChange, Close, Age
<1>3. CASE \/ \E t \in Triggers, n \in Markets : Trigger(t, n)
           \/ SchedulerStep \/ TickFails \/ Mine \/ StoreLate \/ Restart \/ OwnerActs
           \/ UNCHANGED vars
  BY <1>3 DEF Trigger, SchedulerStep, Tick, ClearNext, TickEnds, TickFails, Mine, StoreLate,
              Restart, OwnerActs, vars, marketVars
<1> QED
  BY <1>1, <1>2, <1>3 DEF Next, marketVars

(* Only a tick puts markets on the scheduler's list, and it takes them up  *)
(* from there.                                                             *)
LEMMA DueMoved ==
  ASSUME Triggers = {}, TypeInv, [Next]_vars
  PROVE  /\ due' \subseteq due \/ due' = DueMarkets
         /\ pc[Scheduler] \notin InRun /\ pc'[Scheduler] \in InRun => call'[Scheduler].market \in due
<1>0. Procs = {Scheduler} /\ DOMAIN pc = Procs /\ DOMAIN call = Procs
  BY DEF Procs, TypeInv, TypeOK
<1>1. CASE Proceed(Scheduler) \/ Fail(Scheduler)
  BY <1>1 DEF Proceed, Fail, GetTrades, GetOrders, GetNonce, SendTx, GetReceipt, PostTrades,
              PostResult, ReadFails, RpcFails, PostTimesOut, PostRefused, InRun, schedulerVars
<1>2. CASE ClearNext
  BY <1>0, <1>2 DEF ClearNext, Enter, NoCall
<1>3. CASE Tick \/ TickEnds \/ Restart
  BY <1>0, <1>3 DEF Tick, TickEnds, Restart, InRun, schedulerVars
<1>4. CASE \/ TickFails \/ Mine \/ StoreLate \/ OwnerActs \/ UNCHANGED vars
           \/ \E n \in Markets : OrdersChange(n) \/ Close(n) \/ Age(n)
  BY <1>4 DEF TickFails, Mine, StoreLate, OwnerActs, OrdersChange, Close, Age, vars, schedulerVars
<1> QED
  BY <1>0, <1>1, <1>2, <1>3, <1>4 DEF Next, SchedulerStep

LEMMA RunFinalStep ==
  ASSUME Triggers = {}, TypeInv, RunFinal, [Next]_vars
  PROVE  RunFinal'
<1>0. /\ due \subseteq Markets /\ Scheduler \in Procs
      /\ pc[Scheduler] \in InRun => SlotOf \in Markets
  BY DEF TypeInv, TypeOK, CallsReady, Procs, SlotOf
<1>1. \A m \in Markets : phase[m] # "open" => phase'[m] # "open" /\ orders'[m] = orders[m]
  BY FinalStays
<1>2. \A m \in due' : phase'[m] # "open"
  BY <1>0, <1>1, DueMoved DEF RunFinal, DueMarkets
<1>3. ASSUME pc'[Scheduler] \in InRun PROVE phase'[call'[Scheduler].market] # "open"
  <2>1. CASE pc[Scheduler] \notin InRun
    BY <1>0, <1>1, <1>3, <2>1, DueMoved DEF RunFinal
  <2>2. CASE pc[Scheduler] \in InRun
    <3>1. call'[Scheduler].market = SlotOf
      BY <1>0, <1>3, <2>2, HandlerMoves DEF Stays, MovesOn, SameCall, SlotOf
    <3> QED
      BY <1>0, <1>1, <2>2, <3>1 DEF RunFinal
  <2> QED
    BY <2>1, <2>2
<1>4. ASSUME pc'[Scheduler] \in InRun \ {"get_trades", "get_orders"}
      PROVE  call'[Scheduler].book = orders'[call'[Scheduler].market]
  <2>1. pc[Scheduler] \in InRun /\ call'[Scheduler].market = SlotOf
    BY <1>0, <1>4, HandlerMoves DEF Stays, MovesOn, SameCall, SlotOf, InRun
  <2>2. orders'[SlotOf] = orders[SlotOf]
    BY <1>0, <1>1, <2>1 DEF RunFinal
  <2>3. \/ pc[Scheduler] \in InRun \ {"get_trades", "get_orders"} /\ call'[Scheduler].book = call[Scheduler].book
        \/ call'[Scheduler].book = orders[SlotOf]
    BY <1>0, <1>4, HandlerMoves DEF Stays, MovesOn, SameCall, SlotOf, InRun
  <2> QED
    BY <2>1, <2>2, <2>3 DEF RunFinal, Final
<1> QED
  BY <1>2, <1>3, <1>4 DEF RunFinal, Final, SlotOf

LEMMA StoreFinalStep ==
  ASSUME Triggers = {}, TypeInv, RunFinal, StoreFinal, [Next]_vars
  PROVE  StoreFinal'
<1>0. StoreTypeOK /\ IsABag(late) /\ DOMAIN late \subseteq Requests /\ Procs = {Scheduler}
  BY DEF TypeInv, TypeOK, StoreTypeOK, Procs
<1>1. \A m \in Markets : \A b : Final(m, b) => Final(m, b)'
  BY FinalStays DEF Final
<1>2. \A r \in Requests : r.market \in Markets /\ (r.kind = "trades" => r.book \in Books)
  BY DEF Requests
<1>3. ASSUME UNCHANGED trades PROVE \A m \in Markets : \A b \in Books : Stored(m, b)' => Final(m, b)'
  BY <1>1, <1>3 DEF StoreFinal, Stored
<1>4. ASSUME NEW r \in Requests, Apply(r), r.kind = "trades" => Final(r.market, r.book)
      PROVE  \A m \in Markets : \A b \in Books : Stored(m, b)' => Final(m, b)'
  <2>1. CASE UNCHANGED trades
    BY <1>3, <2>1
  <2>2. CASE r.kind = "trades" /\ trades' = [trades EXCEPT ![r.market] = Append(@, r.book)]
    <3> SUFFICES ASSUME NEW m \in Markets, NEW b \in Books, Stored(m, b)'
                 PROVE  Final(m, b)
      BY <1>1
    <3>1. CASE m # r.market
      BY <1>0, <2>2, <3>1 DEF Stored, StoreFinal, StoreTypeOK
    <3>2. CASE m = r.market
      <4> DEFINE q == trades[m]
      <4>1. q \in Seq(Books) /\ trades'[m] = Append(q, r.book) /\ r.book \in Books
        BY <1>0, <1>2, <2>2, <3>2 DEF StoreTypeOK
      <4>2. /\ DOMAIN Append(q, r.book) = DOMAIN q \cup {Len(q) + 1}
            /\ Append(q, r.book)[Len(q) + 1] = r.book
            /\ \A i \in DOMAIN q : Append(q, r.book)[i] = q[i]
        BY <4>1
      <4> HIDE DEF q
      <4>3. (\E i \in DOMAIN q : q[i] = b) \/ b = r.book
        BY <4>1, <4>2 DEF Stored
      <4> QED
        BY <1>4, <2>2, <3>2, <4>3 DEF q, Stored, StoreFinal
    <3> QED
      BY <3>1, <3>2
  <2> QED
    BY <1>4, <2>1, <2>2 DEF Apply
<1>5. ASSUME pc[Scheduler] \in {"post_trades", "post_result"}
      PROVE  /\ Request(Scheduler) \in Requests
             /\ Request(Scheduler).kind = "trades" =>
                  Final(Request(Scheduler).market, Request(Scheduler).book)
  BY <1>0, <1>5, RequestType DEF Request, TradesRequest, ResultRequest, RunFinal, InRun, SlotOf
<1>6. ASSUME late' = late \/ \E r \in Requests : DOMAIN late' \subseteq DOMAIN late \cup {r}
               /\ (r.kind = "trades" => Final(r.market, r.book))
      PROVE  \A r \in DOMAIN late' : r.kind = "trades" => Final(r.market, r.book)'
  BY <1>0, <1>1, <1>2, <1>6 DEF StoreFinal
<1>7. CASE UNCHANGED storeVars
  BY <1>3, <1>6, <1>7 DEF storeVars, StoreFinal
<1>8. ASSUME NEW r \in DOMAIN late, LateArrival(r) PROVE StoreFinal'
  <2>1. r \in Requests /\ Apply(r) /\ DOMAIN late' \subseteq DOMAIN late
    BY <1>0, <1>8, BagRemoveType DEF LateArrival
  <2> QED
    BY <1>4, <1>6, <2>1 DEF StoreFinal
<1>9. CASE PostTrades(Scheduler) \/ PostResult(Scheduler)
  BY <1>4, <1>5, <1>6, <1>9 DEF PostTrades, PostResult, Accept, StoreFinal
<1>10. CASE pc[Scheduler] \in {"post_trades", "post_result"} /\ Delay(Request(Scheduler))
  <2>1. UNCHANGED trades /\ DOMAIN late' = DOMAIN late \cup {Request(Scheduler)}
    BY <1>0, <1>10, BagAddType DEF Delay
  <2> QED
    BY <1>3, <1>5, <1>6, <1>10, <2>1 DEF StoreFinal
<1> QED
  BY <1>0, <1>7, <1>8, <1>9, <1>10, StoreMoved DEF StoreMoves

LEMMA ChainFinalStep ==
  ASSUME Triggers = {}, DistinctKeys, TypeInv, KeysKnown, RunFinal, ChainFinal, [Next]_vars
  PROVE  ChainFinal'
<1>0. Procs = {Scheduler} /\ pending \in Txs \cup {NoTx}
  BY DEF TypeInv, TypeOK, Procs
<1>1. \A m \in Markets : phase[m] # "open" => phase'[m] # "open" /\ orders'[m] = orders[m]
  BY FinalStays
<1>2. ASSUME UNCHANGED clearingResults
      PROVE  \A m \in Markets : Recorded(m)' =>
               phase'[m] # "open" /\ clearingResults'[KeyOf[m]].clearingPrice = Price[orders'[m]]
  BY <1>1, <1>2 DEF ChainFinal, Recorded
<1>3. CASE UNCHANGED chainVars
  <2>1. pending # NoTx => pending.market \in Markets
    BY <1>0 DEF Txs
  <2> QED
    BY <1>1, <1>2, <1>3, <2>1 DEF chainVars, contractVars, ChainFinal, Final
<1>4. CASE OwnerActs
  <2>1. pending # NoTx => pending.market \in Markets
    BY <1>0 DEF Txs
  <2>2. UNCHANGED <<pending, clearingResults>>
    BY <1>4 DEF OwnerActs, Anchor!SetCommunityParams, Anchor!SetClearingNode
  <2> QED
    BY <1>1, <1>2, <2>1, <2>2 DEF ChainFinal, Final
<1>5. CASE pc[Scheduler] = "send_tx" /\ Submit(Scheduler) /\ UNCHANGED contractVars
  <2>1. Final(SlotOf, call[Scheduler].book) /\ SlotOf \in Markets
    BY <1>0, <1>5 DEF RunFinal, InRun, TypeInv, CallsReady, SlotOf
  <2>2. pending'.market = SlotOf /\ pending'.book = call[Scheduler].book
    BY <1>5 DEF Submit, SlotOf
  <2> QED
    BY <1>1, <1>2, <1>5, <2>1, <2>2 DEF ChainFinal, Final, contractVars
<1>6. CASE Mine
  <2>1. pending' = NoTx /\ pending # NoTx /\ pending.market \in Markets
    BY <1>0, <1>6 DEF Mine, Txs
  <2>2. PICK ok \in BOOLEAN, k \in Keys :
          /\ k = KeyOf[pending.market]
          /\ ok => /\ clearingResults'[k].clearingPrice = Price[pending.book]
                   /\ \A j \in Keys \ {k} : clearingResults'[j] = clearingResults[j]
          /\ ~ ok => clearingResults' = clearingResults
    BY <1>6, MineRecords
  <2>3. ASSUME NEW m \in Markets, Recorded(m)'
        PROVE  phase'[m] # "open" /\ clearingResults'[KeyOf[m]].clearingPrice = Price[orders'[m]]
    <3>1. KeyOf[m] \in Keys
      BY <2>3, AnchorAssumption DEF Recorded
    <3>2. CASE ~ ok \/ KeyOf[m] # k
      <4>1. clearingResults'[KeyOf[m]] = clearingResults[KeyOf[m]]
        BY <2>2, <3>1, <3>2
      <4> QED
        BY <1>1, <2>3, <4>1 DEF ChainFinal, Recorded
    <3>3. CASE ok /\ KeyOf[m] = k
      <4>1. m = pending.market
        BY <2>1, <2>2, <3>1, <3>3, NodeAssumption DEF DistinctKeys
      <4> QED
        BY <1>1, <2>1, <2>2, <3>3, <4>1 DEF ChainFinal, Final
    <3> QED
      BY <3>2, <3>3
  <2> QED
    BY <2>1, <2>3 DEF ChainFinal
<1> QED
  BY <1>0, <1>3, <1>4, <1>5, <1>6, ChainMoved DEF ChainMoves

LEMMA PriceStep ==
  ASSUME Triggers = {}, HasAnchor = TRUE, DistinctKeys, "admin" \notin UpsetKinds,
         PriceInv, [Next]_vars
  PROVE  PriceInv'
<1>1. TypeInv /\ KeysKnown /\ clearingNode \in appointed /\ RunFinal /\ StoreFinal /\ ChainFinal
  BY DEF PriceInv, AuditInv
<1>2. ~ OwnerActs
  BY DEF OwnerActs, Upset
<1>3. OwnerIdle'
  <2>1. UNCHANGED <<appointed, communityParams>>
    BY <1>1, <1>2, ChainMoved DEF ChainMoves, chainVars, contractVars, Mine, Anchor!ClearMarket
  <2> QED
    BY <2>1 DEF PriceInv, OwnerIdle
<1>4. AuditInv'
  BY <1>1, TypeStep, KeysKnownStep, OwnerIdleBefore, OwnTxAwaitedStep, TradesRecordedStep
  DEF PriceInv, AuditInv
<1> QED
  BY <1>1, <1>3, <1>4, RunFinalStep, StoreFinalStep, ChainFinalStep DEF PriceInv

(* The audit trail is accurate: a node whose only handler is the scheduler *)
(* records for each market the price of the trades it stores, even where   *)
(* posts are late or applied twice, while the contract's owner is idle and *)
(* no two markets share a key.                                             *)
THEOREM NodeAnchorAgreesWithTrades ==
  /\ Triggers = {} /\ HasAnchor = TRUE
  /\ DistinctKeys /\ "admin" \notin UpsetKinds
  /\ Spec
  => []AnchorAgreesWithTrades
<1> SUFFICES ASSUME Triggers = {}, HasAnchor = TRUE, DistinctKeys, "admin" \notin UpsetKinds
             PROVE  Spec => []AnchorAgreesWithTrades
  OBVIOUS
<1>1. Init => PriceInv
  <2> SUFFICES ASSUME Init PROVE PriceInv
    OBVIOUS
  <2>1. OwnerIdle
    BY DEF Init, Anchor!Init, Anchor!NoParams, OwnerIdle
  <2>2. RunFinal
    BY DEF Init, RunFinal, InRun, Procs
  <2>3. StoreFinal
    BY DEF Init, StoreInit, EmptyBag, SetToBag, StoreFinal, Stored
  <2>4. ChainFinal
    BY AnchorAssumption DEF Init, Anchor!Init, Anchor!NoResult, ChainFinal, Recorded
  <2> QED
    BY <2>1, <2>2, <2>3, <2>4, AuditInit DEF PriceInv
<1>2. PriceInv /\ [Next]_vars => PriceInv'
  BY PriceStep
<1>3. PriceInv => AnchorAgreesWithTrades
  <2> SUFFICES ASSUME PriceInv, NEW m \in Markets, NEW b \in Books, Stored(m, b)
               PROVE  clearingResults[KeyOf[m]].clearingPrice = Price[b]
    BY DEF AnchorAgreesWithTrades
  <2>1. trades[m] # <<>>
    BY DEF Stored
  <2>2. Recorded(m)
    BY <2>1 DEF PriceInv, AuditInv, TradesRecorded
  <2>3. b = orders[m]
    BY DEF PriceInv, StoreFinal, Final
  <2> QED
    BY <2>2, <2>3 DEF PriceInv, ChainFinal
<1> QED
  BY <1>1, <1>2, <1>3, PTL DEF Spec

-----------------------------------------------------------------------------
(* The processed set.  A market with a result is in it, so that neither    *)
(* the list of due markets nor the run under way has it again.  It has     *)
(* room for every market.                                                  *)
RoomForAll == IsFiniteSet(Markets) /\ Cardinality(Markets) <= MaxProcessed

ReportInv ==
  /\ TypeInv
  /\ DOMAIN late = {}
  /\ ReportedOnce
  /\ \A m \in Markets : results[m] # <<>> => m \in processed
  /\ \A m \in due : m \notin processed
  /\ pc[Scheduler] \in InRun => SlotOf \notin processed \cup due

(* A run puts its own market into the processed set, and nothing else      *)
(* changes it without a restart.                                           *)
LEMMA ProcessedMoved ==
  ASSUME Triggers = {}, "restart" \notin UpsetKinds, TypeInv, [Next]_vars
  PROVE  /\ \/ UNCHANGED processed
            \/ /\ pc[Scheduler] \in InRun /\ pc'[Scheduler] \notin InRun
               /\ due' = due /\ processed' = processed \cup {SlotOf}
         /\ pc[Scheduler] \notin InRun /\ pc'[Scheduler] \in InRun =>
              /\ call'[Scheduler].market \in due
              /\ due' = due \ {call'[Scheduler].market}
              /\ UNCHANGED processed
         /\ \/ due' = due
            \/ due' \subseteq due
            \/ due' = DueMarkets /\ pc'[Scheduler] = "next" /\ UNCHANGED processed
         /\ pc[Scheduler] \in InRun => due' = due
<1>0. /\ Procs = {Scheduler} /\ DOMAIN pc = Procs /\ DOMAIN call = Procs
      /\ pc[Scheduler] \in InRun => SlotOf \in Markets
  BY DEF Procs, TypeInv, TypeOK, CallsReady, SlotOf
<1>1. CASE Proceed(Scheduler) \/ Fail(Scheduler)
  <2>1. pc[Scheduler] \in InRun /\ due' = due
    BY <1>1 DEF Proceed, Fail, GetTrades, GetOrders, GetNonce, SendTx, GetReceipt, PostTrades,
              PostResult, ReadFails, RpcFails, PostTimesOut, PostRefused, InRun, schedulerVars
  <2>2. UNCHANGED processed \/ \E answer : Return(Scheduler, answer)
    BY <1>1 DEF Proceed, Fail, GetTrades, GetOrders, GetNonce, SendTx, GetReceipt, PostTrades,
              PostResult, ReadFails, RpcFails, PostTimesOut, PostRefused, PostFails, AnchorFails,
              Goto, schedulerVars
  <2>3. ASSUME NEW answer, Return(Scheduler, answer)
        PROVE  pc'[Scheduler] \notin InRun /\ (UNCHANGED processed \/ processed' = processed \cup {SlotOf})
    BY <1>0, <2>3 DEF Return, MarkProcessed, InRun, SlotOf
  <2> QED
    BY <2>1, <2>2, <2>3
<1>2. CASE ClearNext
  <2>1. PICK m \in due : Enter(Scheduler, m) /\ due' = due \ {m}
    BY <1>2 DEF ClearNext
  <2>2. call'[Scheduler].market = m /\ pc[Scheduler] \notin InRun
    BY <1>0, <1>2, <2>1 DEF ClearNext, Enter, NoCall, InRun
  <2> QED
    BY <1>2, <2>1, <2>2 DEF ClearNext
<1>3. CASE Tick \/ TickEnds
  BY <1>0, <1>3 DEF Tick, TickEnds, InRun, schedulerVars
<1>4. CASE \/ TickFails \/ Mine \/ StoreLate \/ OwnerActs \/ UNCHANGED vars
           \/ \E n \in Markets : OrdersChange(n) \/ Close(n) \/ Age(n)
  BY <1>4 DEF TickFails, Mine, StoreLate, OwnerActs, OrdersChange, Close, Age, vars, schedulerVars
<1>5. ~ Restart
  BY DEF Restart, Upset
<1> QED
  BY <1>0, <1>1, <1>2, <1>3, <1>4, <1>5 DEF Next, SchedulerStep

LEMMA ReportStep ==
  ASSUME OneHandler, "restart" \notin UpsetKinds, RoomForAll, ReportInv, [Next]_vars
  PROVE  ReportInv'
<1>0. /\ TypeInv /\ Triggers = {} /\ Scheduler \in Procs /\ StoreTypeOK
      /\ due \subseteq Markets /\ processed \subseteq Markets
      /\ pc[Scheduler] \in InRun => SlotOf \in Markets
  BY DEF ReportInv, TypeInv, TypeOK, CallsReady, SlotOf, Procs, OneHandler
<1>1. TypeInv' /\ DOMAIN late' = {}
  BY TypeStep, OneHandlerStore DEF ReportInv
<1>2. \A m \in due' : m \notin processed'
  BY <1>0, ProcessedMoved DEF ReportInv, DueMarkets
<1>3. ASSUME pc'[Scheduler] \in InRun PROVE call'[Scheduler].market \notin processed' \cup due'
  <2>1. CASE pc[Scheduler] \notin InRun
    BY <1>0, <1>3, <2>1, ProcessedMoved DEF ReportInv
  <2>2. CASE pc[Scheduler] \in InRun
    <3>1. call'[Scheduler].market = SlotOf
      BY <1>0, <1>3, <2>2, HandlerMoves DEF Stays, MovesOn, SameCall, SlotOf
    <3> QED
      BY <1>0, <1>3, <2>2, <3>1, ProcessedMoved DEF ReportInv
  <2> QED
    BY <2>1, <2>2
<1>4. processed \subseteq processed'
  BY <1>0, ProcessedMoved
<1>5. CASE UNCHANGED results
  BY <1>1, <1>2, <1>3, <1>4, <1>5 DEF ReportInv, ReportedOnce, SlotOf
<1>6. CASE PostResult(Scheduler)
  <2>1. pc[Scheduler] \in InRun /\ SlotOf \in Markets /\ SlotOf \notin processed
    BY <1>0, <1>6 DEF PostResult, InRun, ReportInv
  <2>2. Cardinality(processed) < MaxProcessed
    <3>1. processed \subseteq Markets /\ processed # Markets /\ IsFiniteSet(Markets)
      BY <1>0, <2>1 DEF RoomForAll
    <3>2. processed \in SUBSET Markets
      BY <3>1
    <3>3. /\ IsFiniteSet(processed)
          /\ Cardinality(processed) <= Cardinality(Markets)
          /\ Cardinality(Markets) # Cardinality(processed)
      BY <3>1, <3>2, FS_Subset, Zenon
    <3>4. Cardinality(processed) \in Nat /\ Cardinality(Markets) \in Nat
      BY <3>1, <3>3, FS_CardinalityType
    <3> QED
      BY <3>3, <3>4, NodeAssumption DEF RoomForAll
  <2>3. PICK answer \in {"cleared", "no_trade"} : Return(Scheduler, answer)
    BY <1>6 DEF PostResult
  <2>4. processed' = processed \cup {SlotOf}
    BY <2>2, <2>3 DEF Return, MarkProcessed, SlotOf
  <2>5. results[SlotOf] = <<>>
    BY <2>1 DEF ReportInv
  <2>6. PICK r \in ClearingResults : results' = [results EXCEPT ![SlotOf] = Append(<<>>, r)]
    <3>1. Request(Scheduler) \in Requests /\ pc[Scheduler] = "post_result"
      BY <1>0, <1>6, RequestType DEF PostResult
    <3>2. /\ Request(Scheduler).kind = "result" /\ Request(Scheduler).market = SlotOf
          /\ Apply(Request(Scheduler))
      BY <1>6, <3>1 DEF PostResult, Accept, Request, ResultRequest, SlotOf
    <3>3. results' = [results EXCEPT ![SlotOf] = Append(results[SlotOf], Request(Scheduler).result)]
      BY <3>2 DEF Apply
    <3>4. Request(Scheduler).result \in ClearingResults
      BY <3>1, <3>2 DEF Requests
    <3> QED
      BY <2>5, <3>3, <3>4
  <2>7. Len(Append(<<>>, r)) = 1 /\ 1 <= 1
    OBVIOUS
  <2>8. results'[SlotOf] = Append(<<>>, r) /\ \A m \in Markets \ {SlotOf} : results'[m] = results[m]
    BY <1>0, <2>1, <2>6 DEF StoreTypeOK
  <2>9. ReportedOnce'
    <3>1. \A m \in Markets : Len(results[m]) <= 1
      BY DEF ReportInv, ReportedOnce
    <3>2. Len(results'[SlotOf]) <= 1
      BY <2>7, <2>8
    <3>3. \A m \in Markets \ {SlotOf} : Len(results'[m]) <= 1
      BY <2>8, <3>1
    <3> QED
      BY <3>2, <3>3 DEF ReportedOnce
  <2> QED
    BY <1>1, <1>2, <1>3, <1>4, <2>4, <2>8, <2>9 DEF ReportInv, SlotOf
<1> QED
  BY <1>0, <1>5, <1>6, OneHandlerStore DEF ReportInv

(* A market is reported once, as cleared or as a no-trade: a node with one *)
(* handler, no restart and no lost answer, whose processed set has room    *)
(* for every market, never posts a second clearing result for one.         *)
THEOREM NodeReportedOnce ==
  /\ OneHandler /\ "restart" \notin UpsetKinds /\ RoomForAll
  /\ Spec
  => []ReportedOnce
<1> SUFFICES ASSUME OneHandler, "restart" \notin UpsetKinds, RoomForAll
             PROVE  Spec => []ReportedOnce
  OBVIOUS
<1>1. Init => ReportInv
  <2> SUFFICES ASSUME Init PROVE ReportInv
    OBVIOUS
  <2>1. ReportedOnce /\ \A m \in Markets : results[m] = <<>>
    BY DEF Init, StoreInit, ReportedOnce
  <2>2. pc[Scheduler] = "idle" /\ due = {} /\ DOMAIN late = {}
    BY DEF Init, StoreInit, EmptyBag, SetToBag, Procs
  <2> QED
    BY <2>1, <2>2, TypeInit DEF ReportInv, InRun
<1>2. ReportInv /\ [Next]_vars => ReportInv'
  BY ReportStep
<1>3. ReportInv => ReportedOnce
  BY DEF ReportInv
<1> QED
  BY <1>1, <1>2, <1>3, PTL DEF Spec

-----------------------------------------------------------------------------
(* The audit anchor alone, for any accounts, communities and keys, whoever *)
(* calls it.                                                               *)

(* Every value the contract stores has its type.                           *)
THEOREM ContractType == Anchor!ContractAssumption /\ Anchor!Spec => []Anchor!TypeOK
<1>1. Anchor!ContractAssumption /\ Anchor!Init => Anchor!TypeOK
  BY DEF Anchor!ContractAssumption, Anchor!Init, Anchor!TypeOK, Anchor!NoParams, Anchor!NoResult
<1>2. Anchor!TypeOK /\ [Anchor!Next]_(Anchor!contractVars) => (Anchor!TypeOK)'
  <2> SUFFICES ASSUME Anchor!TypeOK, [Anchor!Next]_(Anchor!contractVars) PROVE (Anchor!TypeOK)'
    OBVIOUS
  <2> USE DEF Anchor!TypeOK
  <2>1. ASSUME NEW sender \in Accounts, NEW k \in Keys, NEW c \in Communities,
               NEW price \in Anchor!Prices, Anchor!ClearMarket(sender, k, c, price)
        PROVE  (Anchor!TypeOK)'
    BY <2>1 DEF Anchor!ClearMarket, Anchor!ClearMarketAccepted, Anchor!Results
  <2>2. ASSUME NEW sender \in Accounts, NEW c \in Communities, NEW u \in Anchor!Prices, NEW l \in Anchor!Prices,
               Anchor!SetCommunityParams(sender, c, u, l)
        PROVE  (Anchor!TypeOK)'
    BY <2>2 DEF Anchor!SetCommunityParams, Anchor!Params
  <2>3. ASSUME NEW sender \in Accounts, NEW node \in Accounts, Anchor!SetClearingNode(sender, node)
        PROVE  (Anchor!TypeOK)'
    BY <2>3 DEF Anchor!SetClearingNode
  <2>4. CASE UNCHANGED Anchor!contractVars
    BY <2>4 DEF Anchor!contractVars
  <2> QED
    BY <2>1, <2>2, <2>3, <2>4 DEF Anchor!Next
<1> QED
  BY <1>1, <1>2, PTL DEF Anchor!Spec

(* No transaction changes a recorded result: the guard of clearMarket, and *)
(* that nothing else writes clearingResults.                               *)
THEOREM ContractImmutable == Anchor!ContractAssumption /\ Anchor!Spec => Anchor!ResultsImmutable
<1>1. Anchor!TypeOK /\ [Anchor!Next]_(Anchor!contractVars)
        => [\A k \in Keys : clearingResults[k].exists
                              => clearingResults'[k] = clearingResults[k]]_(Anchor!contractVars)
  <2> SUFFICES ASSUME Anchor!TypeOK, Anchor!Next, NEW k \in Keys, clearingResults[k].exists
               PROVE  clearingResults'[k] = clearingResults[k]
    OBVIOUS
  <2>1. ASSUME NEW sender \in Accounts, NEW m \in Keys, NEW c \in Communities,
               NEW price \in Anchor!Prices, Anchor!ClearMarket(sender, m, c, price)
        PROVE  clearingResults'[k] = clearingResults[k]
    <3>1. m # k
      BY <2>1 DEF Anchor!ClearMarket, Anchor!ClearMarketAccepted
    <3> QED
      BY <2>1, <3>1 DEF Anchor!ClearMarket, Anchor!TypeOK
  <2> QED
    BY <2>1 DEF Anchor!Next, Anchor!SetCommunityParams, Anchor!SetClearingNode
<1> QED
  BY <1>1, ContractType, PTL DEF Anchor!Spec, Anchor!ResultsImmutable

(* The caller in a recorded result had been made the clearing node by the  *)
(* deployment or the owner.  Inductive with: the current node has been.    *)
THEOREM ContractCallers == Anchor!ContractAssumption /\ Anchor!Spec => []Anchor!CallersAppointed
<1> DEFINE Inv == Anchor!TypeOK /\ clearingNode \in appointed /\ Anchor!CallersAppointed
<1>1. Anchor!ContractAssumption /\ Anchor!Init => Inv
  BY DEF Anchor!ContractAssumption, Anchor!Init, Anchor!TypeOK, Anchor!CallersAppointed,
         Anchor!NoParams, Anchor!NoResult
<1>2. Inv /\ (Anchor!TypeOK)' /\ [Anchor!Next]_(Anchor!contractVars) => Inv'
  <2> SUFFICES ASSUME Inv, (Anchor!TypeOK)', [Anchor!Next]_(Anchor!contractVars) PROVE Inv'
    OBVIOUS
  <2> USE DEF Anchor!CallersAppointed
  <2>1. ASSUME NEW sender \in Accounts, NEW m \in Keys, NEW c \in Communities,
               NEW price \in Anchor!Prices, Anchor!ClearMarket(sender, m, c, price)
        PROVE  Inv'
    BY <2>1 DEF Anchor!ClearMarket, Anchor!ClearMarketAccepted, Anchor!TypeOK
  <2>2. ASSUME NEW sender \in Accounts, NEW c \in Communities, NEW u \in Anchor!Prices, NEW l \in Anchor!Prices,
               Anchor!SetCommunityParams(sender, c, u, l)
        PROVE  Inv'
    BY <2>2 DEF Anchor!SetCommunityParams
  <2>3. ASSUME NEW sender \in Accounts, NEW node \in Accounts, Anchor!SetClearingNode(sender, node)
        PROVE  Inv'
    BY <2>3 DEF Anchor!SetClearingNode
  <2>4. CASE UNCHANGED Anchor!contractVars
    BY <2>4 DEF Anchor!contractVars
  <2> QED
    BY <2>1, <2>2, <2>3, <2>4 DEF Anchor!Next
<1> QED
  BY <1>1, <1>2, ContractType, PTL DEF Anchor!Spec

(* Every band that is set has its ends in order.                           *)
BandsInOrder ==
  \A c \in Communities :
    communityParams[c].exists => communityParams[c].kLower <= communityParams[c].kUpper

(* Whatever bands the owner set (setCommunityParams), some price of an     *)
(* unrecorded market is accepted by clearMarket: the floor of its band.    *)
THEOREM ContractBands == Anchor!ContractAssumption /\ Anchor!Spec => []Anchor!SomePriceClears
<1> SUFFICES ASSUME Anchor!ContractAssumption PROVE Anchor!Spec => []Anchor!SomePriceClears
  OBVIOUS
<1>1. Anchor!Init => BandsInOrder
  BY DEF Anchor!Init, BandsInOrder, Anchor!NoParams
<1>2. Anchor!TypeOK /\ BandsInOrder /\ [Anchor!Next]_(Anchor!contractVars) => BandsInOrder'
  <2> SUFFICES ASSUME Anchor!TypeOK, BandsInOrder, [Anchor!Next]_(Anchor!contractVars) PROVE BandsInOrder'
    OBVIOUS
  <2> USE DEF BandsInOrder
  <2>1. ASSUME NEW sender \in Accounts, NEW c \in Communities, NEW u \in Anchor!Prices, NEW l \in Anchor!Prices,
               Anchor!SetCommunityParams(sender, c, u, l)
        PROVE  BandsInOrder'
    BY <2>1 DEF Anchor!SetCommunityParams, Anchor!TypeOK, Anchor!Prices
  <2>2. CASE UNCHANGED communityParams
    BY <2>2
  <2> QED
    BY <2>1, <2>2 DEF Anchor!Next, Anchor!ClearMarket, Anchor!SetClearingNode,Anchor!contractVars
<1>3. Anchor!TypeOK /\ BandsInOrder => Anchor!SomePriceClears
  <2> SUFFICES ASSUME Anchor!TypeOK, BandsInOrder, NEW k \in Keys, NEW c \in Communities,
                      ~ clearingResults[k].exists
               PROVE  \E price \in Anchor!Prices : Anchor!ClearMarketAccepted(clearingNode, k, c, price)
    BY DEF Anchor!SomePriceClears
  <2>1. CASE communityParams[c].exists
    <3>1. communityParams[c] \in Anchor!Params
      BY <2>1 DEF Anchor!TypeOK, Anchor!NoParams
    <3>2. communityParams[c].kLower \in Anchor!Prices
      BY <3>1 DEF Anchor!Params
    <3>3. Anchor!ClearMarketAccepted(clearingNode, k, c, communityParams[c].kLower)
      BY <2>1, <3>1, <3>2 DEF Anchor!ClearMarketAccepted, BandsInOrder, Anchor!Params, Anchor!Prices
    <3> QED
      BY <3>2, <3>3
  <2>2. CASE ~ communityParams[c].exists
    <3>1. 0 \in Anchor!Prices
      BY DEF Anchor!Prices, Anchor!ContractAssumption
    <3> QED
      BY <2>2, <3>1 DEF Anchor!ClearMarketAccepted
  <2> QED
    BY <2>1, <2>2
<1> QED
  BY <1>1, <1>2, <1>3, ContractType, PTL DEF Anchor!Spec
=============================================================================
