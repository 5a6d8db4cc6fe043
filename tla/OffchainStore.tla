---------------------------- MODULE OffchainStore ----------------------------
(***************************************************************************)
(* The off-chain store as the REST transport sees it: the two write        *)
(* endpoints of sim/offchain_sim.py, and the write requests that are still *)
(* on their way when the client has stopped waiting for them.              *)
(*                                                                         *)
(* A POST of trades carries the whole batch of one market.  Trades have    *)
(* deterministic identifiers, so a batch is determined by the market and   *)
(* by the order book it was computed from; that book stands for the batch. *)
(***************************************************************************)
EXTENDS Naturals, Sequences, Bags
LOCAL INSTANCE BagsExt

CONSTANTS
  Markets,  \* market slots
  Books,    \* order books a clearing run can read
  OneSided, \* the books without supply or without demand
  Dust      \* the books whose every allocation is at most 1e-9 kWh

ASSUME StoreAssumption ==
  /\ OneSided \subseteq Books
  /\ Dust \subseteq Books
  /\ OneSided \cap Dust = {}

VARIABLES
  trades,  \* [Markets -> Seq(Books)]: the batches stored for each market
  results, \* [Markets -> Seq(ClearingResults)]: the clearing results stored
  late     \* bag of requests sent, not answered in time and not yet applied

storeVars == <<trades, results, late>>

(* A transaction hash is the position of the transaction in the account's  *)
(* history; 0 stands for the "0x0" of a result without an audit anchor.    *)
TxHashes == Nat

ClearingResults == [status : {"final", "no_bid"}, book : Books, tx : TxHashes]

Requests ==
  [kind : {"trades"}, market : Markets, book : Books]
    \cup [kind : {"result"}, market : Markets, result : ClearingResults]

TradesRequest(m, b) == [kind |-> "trades", market |-> m, book |-> b]
ResultRequest(m, r) == [kind |-> "result", market |-> m, result |-> r]

StoreTypeOK ==
  /\ trades \in [Markets -> Seq(Books)]
  /\ results \in [Markets -> Seq(ClearingResults)]
  /\ IsABag(late)
  /\ DOMAIN late \subseteq Requests

StoreInit ==
  /\ trades = [m \in Markets |-> <<>>]
  /\ results = [m \in Markets |-> <<>>]
  /\ late = EmptyBag

-----------------------------------------------------------------------------
(* The handlers append what they are sent; neither looks for a request or  *)
(* a record it has seen before.  A batch of dust has no trade in it.       *)
Apply(r) ==
  \/ /\ r.kind = "trades"
     /\ trades' = IF r.book \in Dust
                  THEN trades
                  ELSE [trades EXCEPT ![r.market] = Append(@, r.book)]
     /\ UNCHANGED results
  \/ /\ r.kind = "result"
     /\ results' = [results EXCEPT ![r.market] = Append(@, r.result)]
     /\ UNCHANGED trades

(* A request is applied and its answer reaches the client.                 *)
Accept(r) ==
  /\ Apply(r)
  /\ UNCHANGED late

(* The client sees a transport error or a 5xx: the request may be lost     *)
(* (it stays in `late` for ever), may have been applied with its answer    *)
(* lost (it leaves `late` next), or may be applied at any later time.      *)
Delay(r) ==
  /\ late' = BagAdd(late, r)
  /\ UNCHANGED <<trades, results>>

LateArrival(r) ==
  /\ r \in DOMAIN late
  /\ Apply(r)
  /\ late' = BagRemove(late, r)

=============================================================================
