----------------------------- MODULE EwdsClient -----------------------------
(***************************************************************************)
(* src/ewds_client.py: queries over the EWDS gateway.  A query publishes a *)
(* request, the storage's handler answers it on the response topic of the  *)
(* operation, and the query polls that topic until it finds an answer with *)
(* its request id.  The gateway keeps one cursor per topic and client id;  *)
(* the client has one client id per topic, shared by all its queries.      *)
(*                                                                         *)
(* Modelled are orders.query, whose answer run_clearing takes as it is,    *)
(* and trades.query, whose answer get_trades filters by market again; the  *)
(* other operations differ only in their payload.  The queries of one node *)
(* are concurrent when a trigger and the scheduler clear at the same time. *)
(***************************************************************************)
EXTENDS Naturals, Sequences, FiniteSets

CONSTANTS
  Queries,    \* calls of get_orders and get_trades, each made once
  Markets,
  Settling,   \* the markets whose trades may reach the storage meanwhile
  Amount,     \* messages per poll ("amount": 100)
  MaxPolls,   \* polls of a query before poll_delays_ms is exhausted
  MaxNow,     \* bound on the clock, in milliseconds
  MaxUpsets   \* bound on the gateway's and the handler's failures

Ops == {"orders.query", "trades.query"}

ASSUME EwdsAssumption ==
  /\ "lost" \notin Queries
  /\ Settling \subseteq Markets
  /\ Amount \in Nat \ {0}
  /\ MaxPolls \in Nat \ {0}
  /\ MaxNow \in Nat
  /\ MaxUpsets \in Nat

VARIABLES
  now,      \* the wall clock at the last query, in milliseconds
  traded,   \* the markets with trades in the storage
  requests, \* the requests the handler has yet to answer
  log,      \* [Ops -> Seq(Messages)]: the response topics
  cursor,   \* [Ops -> Nat]: the client's cursor in each
  query,    \* [Queries -> QueryStates]
  upsets,
  reader    \* history: [Ops -> Seq(Queries \cup {"lost"})], who read each message

vars == <<now, traded, requests, log, cursor, query, upsets, reader>>

-----------------------------------------------------------------------------
(* The request id is made of the operation, the millisecond and the        *)
(* process id.  The process id is that of the node, the same for all.      *)
RequestIds == [op : Ops, ms : 0 .. MaxNow]

(* A request published twice by a retry is two requests with one id; `copy`*)
(* tells them apart in the topic.                                          *)
Requests == [id : RequestIds, market : Markets, copy : Queries \X (0 .. MaxUpsets)]

(* An answer: the market it is about and whether it lists any trade.       *)
Answers == [market : Markets, empty : BOOLEAN]
Messages == [id : RequestIds, success : BOOLEAN, data : Answers]

NoId == [op |-> "none", ms |-> 0]
NoAnswer == [market |-> "none", empty |-> TRUE]
Labels == {"idle", "publish", "poll", "returned", "error", "timeout"}

NewQuery == [at |-> "idle", id |-> NoId, market |-> "none", polls |-> 0,
             tries |-> 0, answer |-> NoAnswer, before |-> FALSE]

QueryStates ==
  [at : Labels, id : RequestIds \cup {NoId}, market : Markets \cup {"none"}, polls : 0 .. MaxPolls,
   tries : 0 .. MaxUpsets, answer : Answers \cup {NoAnswer}, before : BOOLEAN]

TypeOK ==
  /\ now \in 0 .. MaxNow
  /\ traded \subseteq Markets
  /\ requests \subseteq Requests
  /\ log \in [Ops -> Seq(Messages)]
  /\ cursor \in [Ops -> Nat]
  /\ reader \in [Ops -> Seq(Queries \cup {"lost"})]
  /\ \A op \in Ops : cursor[op] <= Len(log[op]) /\ Len(reader[op]) = cursor[op]
  /\ query \in [Queries -> QueryStates]
  /\ \A q \in Queries :
       query[q].at # "idle" => query[q].id \in RequestIds /\ query[q].market \in Markets
  /\ upsets \in 0 .. MaxUpsets

Init ==
  /\ now = 0
  /\ traded = {}
  /\ requests = {}
  /\ log = [op \in Ops |-> <<>>]
  /\ cursor = [op \in Ops |-> 0]
  /\ query = [q \in Queries |-> NewQuery]
  /\ upsets = 0
  /\ reader = [op \in Ops |-> <<>>]

Upset == upsets < MaxUpsets /\ upsets' = upsets + 1

-----------------------------------------------------------------------------
(* A settlement event brings a market's trades into the storage.           *)
TradesSettle(m) ==
  /\ m \in Settling \ traded
  /\ traded' = traded \cup {m}
  /\ UNCHANGED <<now, requests, log, cursor, query, upsets, reader>>

(* The handler takes the requests in any order and answers each with what  *)
(* the storage holds at that moment, or with an error.                     *)
Handle(r) ==
  LET empty == r.id.op = "trades.query" /\ r.market \notin traded
      Message(success) ==
        [id |-> r.id, success |-> success, data |-> [market |-> r.market, empty |-> empty]]
  IN
  /\ requests' = requests \ {r}
  /\ \/ /\ log' = [log EXCEPT ![r.id.op] = Append(@, Message(TRUE))]
        /\ UNCHANGED upsets
     \/ /\ Upset
        /\ log' = [log EXCEPT ![r.id.op] = Append(@, Message(FALSE))]
  /\ UNCHANGED <<now, traded, cursor, query, reader>>

(* The answer, or the request, is lost in the broker.                      *)
HandlerDrops(r) ==
  /\ Upset
  /\ requests' = requests \ {r}
  /\ UNCHANGED <<now, traded, log, cursor, query, reader>>

-----------------------------------------------------------------------------
(* _query: the request id is fixed, at a time no earlier than the last     *)
(* query's, then the request published.                                    *)
Ask(q, op, m) ==
  /\ query[q].at = "idle"
  /\ now' \in now .. MaxNow
  /\ query' = [query EXCEPT ![q] =
       [NewQuery EXCEPT !.at = "publish", !.id = [op |-> op, ms |-> now'], !.market = m,
                        !.before = m \in traded]]
  /\ UNCHANGED <<traded, requests, log, cursor, upsets, reader>>

Enqueue(q) ==
  requests' = requests \cup
    {[id |-> query[q].id, market |-> query[q].market, copy |-> <<q, query[q].tries>>]}

Publish(q) ==
  /\ query[q].at = "publish"
  /\ Enqueue(q)
  /\ query' = [query EXCEPT ![q].at = "poll"]
  /\ UNCHANGED <<now, traded, log, cursor, upsets, reader>>

(* The gateway accepted the request but its answer is lost: the POST is    *)
(* retried, or given up.                                                   *)
PublishUnanswered(q) ==
  /\ query[q].at = "publish"
  /\ Upset
  /\ Enqueue(q)
  /\ \/ query' = [query EXCEPT ![q].tries = @ + 1]
     \/ query' = [query EXCEPT ![q].at = "error"]
  /\ UNCHANGED <<now, traded, log, cursor, reader>>

(* One GET of the loop of _poll.  The gateway hands out the next messages  *)
(* and moves the cursor; the query scans them for its id and returns at    *)
(* the first match, whatever else the batch held.                          *)
BatchEnd(op) == IF cursor[op] + Amount < Len(log[op]) THEN cursor[op] + Amount ELSE Len(log[op])

Batch(op) == SubSeq(log[op], cursor[op] + 1, BatchEnd(op))

Consume(op, who) ==
  /\ cursor' = [cursor EXCEPT ![op] = BatchEnd(op)]
  /\ reader' = [reader EXCEPT ![op] = @ \o [i \in 1 .. (BatchEnd(op) - cursor[op]) |-> who]]

(* Mutants of the scan: the request id is not compared; only the oldest    *)
(* message of a batch is looked at.                                        *)
AnyMessage(q, batch) == DOMAIN batch
OldestOnly(q, batch) == {i \in {1} \cap DOMAIN batch : batch[i].id = query[q].id}

Matching(q, batch) == {i \in DOMAIN batch : batch[i].id = query[q].id}

FirstMatch(q, batch) ==
  CHOOSE i \in Matching(q, batch) : \A j \in Matching(q, batch) : i <= j

Found(q, message) ==
  IF message.success
  THEN [query[q] EXCEPT !.at = "returned", !.answer = message.data]
  ELSE [query[q] EXCEPT !.at = "error"]

(* Mutants of the loop: it ends one poll late; it never ends.              *)
OnePollTooMany(q) == query[q].polls = MaxPolls

LastPoll(q) == query[q].polls + 1 = MaxPolls

DelaysNeverEnd(q, batch) ==
  IF Matching(q, batch) # {} THEN Found(q, batch[FirstMatch(q, batch)]) ELSE query[q]

Resume(q, batch) ==
  IF Matching(q, batch) # {}
  THEN Found(q, batch[FirstMatch(q, batch)])
  ELSE [query[q] EXCEPT !.polls = @ + 1, !.at = IF LastPoll(q) THEN "timeout" ELSE @]

Poll(q) ==
  LET op == query[q].id.op IN
  /\ query[q].at = "poll"
  /\ Consume(op, q)
  /\ query' = [query EXCEPT ![q] = Resume(q, Batch(op))]
  /\ UNCHANGED <<now, traded, requests, log, upsets>>

(* The GET's answer is lost after the gateway has moved the cursor; the    *)
(* GET is retried, or given up.                                            *)
PollUnanswered(q) ==
  /\ query[q].at = "poll"
  /\ Upset
  /\ Consume(query[q].id.op, "lost")
  /\ \/ UNCHANGED query
     \/ query' = [query EXCEPT ![q].at = "error"]
  /\ UNCHANGED <<now, traded, requests, log>>

(* The deadline passes while a GET or a sleep takes longer than planned.   *)
DeadlinePasses(q) ==
  /\ query[q].at = "poll"
  /\ query[q].polls > 0
  /\ Upset
  /\ query' = [query EXCEPT ![q].at = "timeout"]
  /\ UNCHANGED <<now, traded, requests, log, cursor, reader>>

-----------------------------------------------------------------------------
Next ==
  \/ \E m \in Markets : TradesSettle(m)
  \/ \E r \in requests : Handle(r) \/ HandlerDrops(r)
  \/ \E q \in Queries :
       \/ \E op \in Ops, m \in Markets : Ask(q, op, m)
       \/ Publish(q) \/ PublishUnanswered(q)
       \/ Poll(q) \/ PollUnanswered(q) \/ DeadlinePasses(q)

Spec == Init /\ [][Next]_vars

(* The event loop resumes every query; the handler promises nothing.       *)
FairSpec == Spec /\ \A q \in Queries : WF_vars(Publish(q) \/ Poll(q))

-----------------------------------------------------------------------------
(* What get_trades returns: the trades of the market asked for.            *)
TradesReturned(q) == ~ query[q].answer.empty /\ query[q].answer.market = query[q].market

Returned(q, op) == query[q].at = "returned" /\ query[q].id.op = op
SameId(q) == \E p \in Queries \ {q} : query[p].id = query[q].id

(* run_clearing clears a market on its own orders: get_orders returns the  *)
(* answer to its own request, whatever was late, repeated or consumed by   *)
(* others -- unless two queries were made in one millisecond.              *)
OwnOrders ==
  \A q \in Queries :
    Returned(q, "orders.query") => query[q].answer.market = query[q].market \/ SameId(q)

(* The idempotency check of run_clearing can be believed on this           *)
(* transport: an empty answer of get_trades means that the market had no   *)
(* trades when it was asked -- with the same exception.                    *)
EmptyMeansUntraded ==
  \A q \in Queries :
    Returned(q, "trades.query") /\ ~ TradesReturned(q) => ~ query[q].before \/ SameId(q)

(* A query that gives up has not overlooked its answer: every answer with  *)
(* its id that the gateway handed out was handed to another query's poll   *)
(* or in a reply that was lost.                                            *)
NotOverlooked ==
  \A q \in Queries :
    query[q].at = "timeout" =>
      \A i \in 1 .. cursor[query[q].id.op] :
        log[query[q].id.op][i].id = query[q].id => reader[query[q].id.op][i] # q

(* Every query ends: it returns, raises or times out, even if the handler  *)
(* never answers and the topic never runs dry.                             *)
QueriesEnd ==
  \A q \in Queries :
    query[q].at = "publish" ~> query[q].at \in {"returned", "error", "timeout"}
=============================================================================
