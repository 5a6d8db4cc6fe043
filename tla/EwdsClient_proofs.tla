------------------------- MODULE EwdsClient_proofs -------------------------
(***************************************************************************)
(* Proofs about the queries over the gateway, for any number of queries,   *)
(* markets, polls, messages per poll and upsets.                           *)
(***************************************************************************)
EXTENDS EwdsClient, SequenceTheorems, WellFoundedInduction, TLAPS

(* Query q has made the request that `answer` answers.  An answer without  *)
(* trades was given before the storage had any, so that a query which was  *)
(* asked when it had some is not its author.                               *)
Asked(q, id, answer) ==
  /\ query[q].at # "idle"
  /\ query[q].id = id
  /\ query[q].market = answer.market
  /\ id.op = "trades.query" /\ answer.empty => ~ query[q].before

BeforeTraded ==
  \A q \in Queries : query[q].at # "idle" /\ query[q].before => query[q].market \in traded

TriesAreUpsets == \A q \in Queries : query[q].tries <= upsets

PollsLeft == \A q \in Queries : query[q].at \in {"publish", "poll"} => query[q].polls < MaxPolls

RequestsAsked ==
  \A r \in requests : \E q \in Queries :
    query[q].at # "idle" /\ query[q].id = r.id /\ query[q].market = r.market

LogAsked ==
  \A op \in Ops : \A i \in 1 .. Len(log[op]) :
    \E q \in Queries : Asked(q, log[op][i].id, log[op][i].data)

AnswersAsked ==
  \A q \in Queries :
    query[q].at = "returned" => \E p \in Queries : Asked(p, query[q].id, query[q].answer)

(* A query that has not asked yet has read nothing, and one that is        *)
(* still looking, or has given up, has not read its answer.                *)
Unread ==
  \A q \in Queries :
    /\ query[q].at \in {"idle", "publish"} =>
         \A op \in Ops : \A i \in 1 .. cursor[op] : reader[op][i] # q
    /\ query[q].at \in {"poll", "timeout"} =>
         \A i \in 1 .. cursor[query[q].id.op] :
           log[query[q].id.op][i].id = query[q].id => reader[query[q].id.op][i] # q

EwdsInv ==
  /\ TypeOK
  /\ BeforeTraded /\ TriesAreUpsets /\ PollsLeft
  /\ RequestsAsked /\ LogAsked /\ AnswersAsked /\ Unread

-----------------------------------------------------------------------------
(* Every nonempty set of positions has a least one.                        *)
Less == {ss \in Nat \X Nat : ss[1] < ss[2]}

LEMMA LessWF == IsWellFoundedOn(Less, Nat)
BY NatLessThanWellFounded DEF OpToRel, Less

LEMMA Least ==
  ASSUME NEW S \in SUBSET Nat, S # {}
  PROVE  \E i \in S : \A j \in S : i <= j
<1>1. PICK x \in S : \A y \in S : ~ (<<y, x>> \in Less)
  BY LessWF, WFMin
<1>2. ASSUME NEW y \in S
      PROVE  x <= y
  <2>1. x \in Nat /\ y \in Nat /\ <<y, x>> \notin Less
    BY <1>1
  <2> QED
    BY <2>1 DEF Less
<1> QED
  BY <1>2

(* A poll reads the messages behind the cursor, in their order.            *)
LEMMA BatchProperties ==
  ASSUME TypeOK, NEW op \in Ops
  PROVE  /\ BatchEnd(op) \in Nat /\ cursor[op] \in Nat
         /\ cursor[op] <= BatchEnd(op) /\ BatchEnd(op) <= Len(log[op])
         /\ Batch(op) \in Seq(Messages)
         /\ DOMAIN Batch(op) = 1 .. (BatchEnd(op) - cursor[op])
         /\ \A i \in DOMAIN Batch(op) : Batch(op)[i] = log[op][cursor[op] + i]
<1>1. /\ cursor[op] \in Nat /\ Amount \in Nat /\ log[op] \in Seq(Messages)
      /\ Len(log[op]) \in Nat /\ cursor[op] <= Len(log[op])
  BY EwdsAssumption DEF TypeOK
<1>2. /\ BatchEnd(op) \in Nat
      /\ cursor[op] <= BatchEnd(op) /\ BatchEnd(op) <= Len(log[op])
  BY <1>1 DEF BatchEnd
<1>3. \A i \in (cursor[op] + 1) .. BatchEnd(op) : log[op][i] \in Messages
  BY <1>1, <1>2
<1>4. /\ Batch(op) \in Seq(Messages)
      /\ Len(Batch(op)) = BatchEnd(op) - cursor[op]
      /\ \A i \in 1 .. (BatchEnd(op) - cursor[op]) : Batch(op)[i] = log[op][cursor[op] + i]
  <2> DEFINE m == cursor[op] + 1
             n == BatchEnd(op)
  <2>1. m \in Int /\ n \in Int /\ \A i \in m .. n : log[op][i] \in Messages
    BY <1>1, <1>2, <1>3
  <2>2. /\ SubSeq(log[op], m, n) \in Seq(Messages)
        /\ Len(SubSeq(log[op], m, n)) = IF m <= n THEN n - m + 1 ELSE 0
        /\ \A i \in 1 .. n - m + 1 : SubSeq(log[op], m, n)[i] = log[op][m + i - 1]
    <3> HIDE DEF m, n
    <3> QED
      BY <2>1, SubSeqProperties
  <2>3. Batch(op) = SubSeq(log[op], m, n)
    BY DEF Batch
  <2>4. /\ n - m + 1 = n - cursor[op]
        /\ (IF m <= n THEN n - m + 1 ELSE 0) = n - cursor[op]
    BY <1>1, <1>2
  <2>5. \A i \in 1 .. n - cursor[op] : m + i - 1 = cursor[op] + i
    BY <1>1, <1>2
  <2> HIDE DEF m, n
  <2>6. /\ Batch(op) \in Seq(Messages)
        /\ Len(Batch(op)) = n - cursor[op]
    BY <2>2, <2>3, <2>4
  <2>7. \A i \in 1 .. n - cursor[op] : Batch(op)[i] = log[op][cursor[op] + i]
    BY <2>2, <2>3, <2>4, <2>5
  <2> QED
    BY <2>6, <2>7 DEF n
<1>5. DOMAIN Batch(op) = 1 .. Len(Batch(op))
  BY <1>4
<1> QED
  BY <1>1, <1>2, <1>4, <1>5

(* The message at which a query's scan stops is one with its id.           *)
LEMMA FirstMatchMatches ==
  ASSUME NEW q \in Queries, NEW batch \in Seq(Messages), Matching(q, batch) # {}
  PROVE  FirstMatch(q, batch) \in Matching(q, batch)
<1>1. Matching(q, batch) \in SUBSET Nat
  BY DEF Matching
<1>2. \E i \in Matching(q, batch) : \A j \in Matching(q, batch) : i <= j
  BY <1>1, Least
<1> QED
  BY <1>2 DEF FirstMatch

(* What a poll leaves behind: the messages it was handed are its reader's. *)
LEMMA ConsumeProperties ==
  ASSUME TypeOK, NEW op \in Ops, NEW who \in Queries \cup {"lost"}, Consume(op, who)
  PROVE  /\ cursor' \in [Ops -> Nat]
         /\ reader' \in [Ops -> Seq(Queries \cup {"lost"})]
         /\ \A o \in Ops : cursor'[o] <= Len(log[o]) /\ Len(reader'[o]) = cursor'[o]
         /\ cursor'[op] = BatchEnd(op)
         /\ \A o \in Ops : cursor[o] <= cursor'[o] /\ (o # op => cursor'[o] = cursor[o])
         /\ \A o \in Ops : \A i \in 1 .. cursor[o] : reader'[o][i] = reader[o][i]
         /\ \A i \in (cursor[op] + 1) .. cursor'[op] : reader'[op][i] = who
<1> DEFINE n == BatchEnd(op) - cursor[op]
           more == [i \in 1 .. n |-> who]
           S == Queries \cup {"lost"}
<1>1. /\ BatchEnd(op) \in Nat /\ cursor[op] \in Nat /\ n \in Nat
      /\ cursor[op] <= BatchEnd(op) /\ BatchEnd(op) <= Len(log[op])
  BY BatchProperties
<1>2. more \in Seq(S) /\ Len(more) = n
  <2>1. more \in [1 .. n -> S]
    OBVIOUS
  <2> HIDE DEF more, S, n
  <2> QED
    BY <1>1, <2>1, IsASeq, LenProperties
<1>3. reader[op] \in Seq(S) /\ Len(reader[op]) = cursor[op]
  BY DEF TypeOK
<1>4. /\ reader[op] \o more \in Seq(S)
      /\ Len(reader[op] \o more) = cursor[op] + n
      /\ \A i \in 1 .. cursor[op] + n :
           (reader[op] \o more)[i] = IF i <= cursor[op] THEN reader[op][i] ELSE more[i - cursor[op]]
  <2>1. Len(reader[op]) + Len(more) = cursor[op] + n
    BY <1>2, <1>3
  <2>2. /\ reader[op] \o more \in Seq(S)
        /\ Len(reader[op] \o more) = Len(reader[op]) + Len(more)
        /\ \A i \in 1 .. Len(reader[op]) + Len(more) :
             (reader[op] \o more)[i] =
               IF i <= Len(reader[op]) THEN reader[op][i] ELSE more[i - Len(reader[op])]
    <3> HIDE DEF more, S, n
    <3> QED
      BY <1>2, <1>3, ConcatProperties
  <2> HIDE DEF more, S, n
  <2> QED
    BY <1>3, <2>1, <2>2
<1>5. cursor[op] + n = BatchEnd(op)
  BY <1>1
<1>6. cursor' = [cursor EXCEPT ![op] = BatchEnd(op)] /\ reader' = [reader EXCEPT ![op] = @ \o more]
  BY DEF Consume
<1>7. /\ \A i \in 1 .. cursor[op] : (reader[op] \o more)[i] = reader[op][i]
      /\ \A i \in (cursor[op] + 1) .. BatchEnd(op) : (reader[op] \o more)[i] = who
  <2>1. ASSUME NEW i \in (cursor[op] + 1) .. BatchEnd(op)
        PROVE  (reader[op] \o more)[i] = more[i - cursor[op]] /\ i - cursor[op] \in 1 .. n
    <3>1. i \in 1 .. cursor[op] + n /\ ~ (i <= cursor[op])
      BY <1>1
    <3>2. (reader[op] \o more)[i] = more[i - cursor[op]]
      <4> HIDE DEF more, n
      <4> QED
        BY <1>4, <3>1
    <3>3. i - cursor[op] \in 1 .. n
      BY <1>1
    <3> QED
      BY <3>2, <3>3
  <2>2. \A i \in 1 .. cursor[op] : i \in 1 .. cursor[op] + n /\ i <= cursor[op]
    BY <1>1
  <2> QED
    BY <1>4, <2>1, <2>2
<1>8. /\ cursor \in [Ops -> Nat] /\ reader \in [Ops -> Seq(S)]
      /\ \A o \in Ops : cursor[o] <= Len(log[o]) /\ Len(reader[o]) = cursor[o]
  BY DEF TypeOK
<1> DEFINE all == reader[op] \o more
<1>9. /\ all \in Seq(S) /\ Len(all) = BatchEnd(op)
      /\ \A i \in 1 .. cursor[op] : all[i] = reader[op][i]
      /\ \A i \in (cursor[op] + 1) .. BatchEnd(op) : all[i] = who
  BY <1>4, <1>5, <1>7
<1>10. reader' = [reader EXCEPT ![op] = all]
  BY <1>6
<1> HIDE DEF all, more, n, S
<1>11. /\ cursor'[op] = BatchEnd(op) /\ reader'[op] = all
       /\ \A o \in Ops \ {op} : cursor'[o] = cursor[o] /\ reader'[o] = reader[o]
       /\ cursor' \in [Ops -> Nat] /\ reader' \in [Ops -> Seq(S)]
  BY <1>1, <1>6, <1>8, <1>9, <1>10
<1>12. \A o \in Ops : cursor'[o] <= Len(log[o]) /\ Len(reader'[o]) = cursor'[o]
  BY <1>1, <1>8, <1>9, <1>11
<1>13. \A o \in Ops : cursor[o] <= cursor'[o] /\ (o # op => cursor'[o] = cursor[o])
  BY <1>1, <1>8, <1>11
<1>14. \A o \in Ops : \A i \in 1 .. cursor[o] : reader'[o][i] = reader[o][i]
  BY <1>9, <1>11
<1>15. \A i \in (cursor[op] + 1) .. cursor'[op] : reader'[op][i] = who
  BY <1>9, <1>11
<1> QED
  BY <1>11, <1>12, <1>13, <1>14, <1>15 DEF S

(* An answer comes behind all that are in its topic.                       *)
LEMMA AnswerProperties ==
  ASSUME TypeOK, NEW op \in Ops, NEW message \in Messages,
         log' = [log EXCEPT ![op] = Append(@, message)]
  PROVE  /\ log' \in [Ops -> Seq(Messages)]
         /\ \A o \in Ops : Len(log[o]) <= Len(log'[o])
         /\ \A o \in Ops : \A i \in 1 .. Len(log[o]) : log'[o][i] = log[o][i]
         /\ \A o \in Ops : \A i \in 1 .. Len(log'[o]) :
              i \in 1 .. Len(log[o]) \/ log'[o][i] = message
<1>1. log[op] \in Seq(Messages) /\ Len(log[op]) \in Nat
  BY DEF TypeOK
<1>2. /\ Append(log[op], message) \in Seq(Messages)
      /\ Len(Append(log[op], message)) = Len(log[op]) + 1
      /\ \A i \in 1 .. Len(log[op]) : Append(log[op], message)[i] = log[op][i]
      /\ Append(log[op], message)[Len(log[op]) + 1] = message
  BY <1>1, AppendProperties
<1>3. \A i \in 1 .. Len(log[op]) + 1 : i \in 1 .. Len(log[op]) \/ i = Len(log[op]) + 1
  BY <1>1
<1>4. \A o \in Ops : Len(log[o]) \in Nat
  BY DEF TypeOK
<1> QED
  BY <1>1, <1>2, <1>3, <1>4 DEF TypeOK

-----------------------------------------------------------------------------
(* A scan finds an answer or an error under the query's id, or has looked  *)
(* at all of the batch in vain.                                            *)
LEMMA ResumeCases ==
  ASSUME TypeOK, PollsLeft, NEW q \in Queries, query[q].at = "poll",
         NEW batch \in Seq(Messages), NEW r, r = Resume(q, batch)
  PROVE  /\ r \in QueryStates
         /\ r.id = query[q].id /\ r.market = query[q].market /\ r.before = query[q].before
         /\ r.tries = query[q].tries
         /\ \/ /\ r.at = "returned"
               /\ \E i \in DOMAIN batch : batch[i].id = query[q].id /\ r.answer = batch[i].data
            \/ r.at = "error"
            \/ /\ r.at \in {"poll", "timeout"}
               /\ \A i \in DOMAIN batch : batch[i].id # query[q].id
               /\ r.at = "poll" => r.polls < MaxPolls
<1>1. /\ query[q] \in QueryStates /\ query[q].polls < MaxPolls
      /\ MaxPolls \in Nat /\ query[q].polls \in Nat
  BY EwdsAssumption DEF TypeOK, PollsLeft, QueryStates
<1>2. CASE Matching(q, batch) # {}
  <2> DEFINE message == batch[FirstMatch(q, batch)]
  <2>1. FirstMatch(q, batch) \in DOMAIN batch /\ message.id = query[q].id
    BY <1>2, FirstMatchMatches DEF Matching
  <2>2. message \in Messages
    BY <2>1, ElementOfSeq, LenProperties
  <2>3. r = Found(q, message)
    BY <1>2 DEF Resume
  <2> HIDE DEF message
  <2>4. CASE message.success
    <3> DEFINE answer == message.data
    <3>1. answer \in Answers
      BY <2>2 DEF Messages
    <3>2. r = [query[q] EXCEPT !.at = "returned", !.answer = answer]
      BY <2>3, <2>4 DEF Found
    <3> HIDE DEF answer
    <3>3. /\ r \in QueryStates /\ r.at = "returned" /\ r.answer = answer
          /\ r.id = query[q].id /\ r.market = query[q].market /\ r.before = query[q].before
          /\ r.tries = query[q].tries
      BY <1>1, <3>1, <3>2 DEF QueryStates, Labels
    <3> QED
      BY <2>1, <3>3 DEF message, answer
  <2>5. CASE ~ message.success
    BY <1>1, <2>3, <2>5 DEF Found, QueryStates, Labels
  <2> QED
    BY <2>4, <2>5
<1>3. CASE Matching(q, batch) = {}
  <2>1. \A i \in DOMAIN batch : batch[i].id # query[q].id
    BY <1>3 DEF Matching
  <2>2. r = [query[q] EXCEPT !.polls = @ + 1, !.at = IF LastPoll(q) THEN "timeout" ELSE @]
    BY <1>3 DEF Resume
  <2>3. query[q].polls + 1 \in 0 .. MaxPolls
        /\ (~ LastPoll(q) => query[q].polls + 1 < MaxPolls)
    BY <1>1 DEF LastPoll
  <2>4. /\ r \in QueryStates /\ r.at \in {"poll", "timeout"}
        /\ r.at = "poll" => r.polls < MaxPolls
        /\ r.id = query[q].id /\ r.market = query[q].market /\ r.before = query[q].before
        /\ r.tries = query[q].tries
    BY <1>1, <2>2, <2>3 DEF QueryStates, Labels
  <2> QED
    BY <2>1, <2>4
<1> QED
  BY <1>2, <1>3

(* What a query asked, and what was true when it did, never changes.       *)
LEMMA AskedStays ==
  ASSUME TypeOK, PollsLeft, [Next]_vars, NEW q \in Queries, query[q].at # "idle"
  PROVE  /\ query'[q].at # "idle"
         /\ query'[q].id = query[q].id
         /\ query'[q].market = query[q].market
         /\ query'[q].before = query[q].before
<1>1. CASE UNCHANGED query
  BY <1>1
<1>2. ASSUME NEW p \in Queries,
             \/ \E op \in Ops, m \in Markets : Ask(p, op, m)
             \/ Publish(p) \/ PublishUnanswered(p) \/ Poll(p) \/ PollUnanswered(p)
             \/ DeadlinePasses(p)
      PROVE  /\ query'[q].at # "idle"
             /\ query'[q].id = query[q].id
             /\ query'[q].market = query[q].market
             /\ query'[q].before = query[q].before
  <2>1. CASE \E op \in Ops, m \in Markets : Ask(p, op, m)
    <3>1. p # q
      BY <2>1 DEF Ask
    <3> QED
      BY <2>1, <3>1 DEF Ask, TypeOK
  <2>2. CASE Publish(p) \/ PublishUnanswered(p) \/ PollUnanswered(p) \/ DeadlinePasses(p)
    <3>1. query \in [Queries -> QueryStates] /\ query[p] \in QueryStates
      BY DEF TypeOK
    <3>2. \/ UNCHANGED query
          \/ query' = [query EXCEPT ![p] = [@ EXCEPT !.at = "poll"]]
          \/ query' = [query EXCEPT ![p] = [@ EXCEPT !.at = "error"]]
          \/ query' = [query EXCEPT ![p] = [@ EXCEPT !.at = "timeout"]]
          \/ query' = [query EXCEPT ![p] = [@ EXCEPT !.tries = query[p].tries + 1]]
      BY <2>2 DEF Publish, PublishUnanswered, PollUnanswered, DeadlinePasses
    <3> QED
      BY <3>1, <3>2 DEF QueryStates
  <2>3. CASE Poll(p)
    <3>1. query' = [query EXCEPT ![p] = Resume(p, Batch(query[p].id.op))]
      BY <2>3 DEF Poll
    <3>2. CASE p # q
      BY <3>1, <3>2 DEF TypeOK
    <3>3. CASE p = q
      <4>1. query'[q] = Resume(q, Batch(query[q].id.op)) /\ query[q].at = "poll"
        BY <2>3, <3>1, <3>3 DEF Poll, TypeOK
      <4>2. Batch(query[q].id.op) \in Seq(Messages)
        BY <4>1, BatchProperties DEF RequestIds, TypeOK
      <4> QED
        BY <4>1, <4>2, ResumeCases
    <3> QED
      BY <3>2, <3>3
  <2> QED
    BY <1>2, <2>1, <2>2, <2>3
<1> QED
  BY <1>1, <1>2 DEF Next, vars, TradesSettle, Handle, HandlerDrops

-----------------------------------------------------------------------------
LEMMA NewQueryType ==
  /\ NewQuery \in QueryStates
  /\ NewQuery.at = "idle" /\ NewQuery.tries = 0 /\ NewQuery.polls = 0 /\ ~ NewQuery.before
BY EwdsAssumption DEF NewQuery, QueryStates, Labels, NoId, NoAnswer

LEMMA InitInv == Init => EwdsInv
<1> SUFFICES ASSUME Init PROVE EwdsInv
  OBVIOUS
<1> USE DEF Init
<1>1. MaxNow \in Nat /\ MaxPolls \in Nat /\ 0 < MaxPolls /\ MaxUpsets \in Nat
  BY EwdsAssumption
<1>2. <<>> \in Seq(Messages) /\ <<>> \in Seq(Queries \cup {"lost"}) /\ Len(<<>>) = 0
  OBVIOUS
<1>3. TypeOK
  BY <1>1, <1>2, NewQueryType DEF TypeOK
<1>4. \A q \in Queries : query[q] = NewQuery
  OBVIOUS
<1>5. BeforeTraded /\ TriesAreUpsets /\ PollsLeft /\ AnswersAsked
  BY <1>4, NewQueryType DEF BeforeTraded, TriesAreUpsets, PollsLeft, AnswersAsked
<1>6. RequestsAsked
  BY DEF RequestsAsked
<1>7. \A op \in Ops : log[op] = <<>> /\ cursor[op] = 0
  OBVIOUS
<1>8. LogAsked
  BY <1>2, <1>7 DEF LogAsked
<1>9. Unread
  BY <1>4, <1>7, NewQueryType DEF Unread
<1> QED
  BY <1>3, <1>5, <1>6, <1>8, <1>9 DEF EwdsInv

-----------------------------------------------------------------------------
(* A query takes a state r.                                                *)
LEMMA QueryTakes ==
  ASSUME TypeOK, TriesAreUpsets, PollsLeft, NEW q \in Queries, NEW r \in QueryStates,
         query' = [query EXCEPT ![q] = r],
         r.at # "idle" => r.id \in RequestIds /\ r.market \in Markets,
         upsets' \in Nat, upsets <= upsets', r.tries <= upsets',
         r.at \in {"publish", "poll"} => r.polls < MaxPolls
  PROVE  /\ query' \in [Queries -> QueryStates]
         /\ \A p \in Queries :
              query'[p].at # "idle" => query'[p].id \in RequestIds /\ query'[p].market \in Markets
         /\ TriesAreUpsets'
         /\ PollsLeft'
<1>1. query \in [Queries -> QueryStates] /\ upsets \in Nat
  BY EwdsAssumption DEF TypeOK
<1>2. \A p \in Queries : query'[p] = IF p = q THEN r ELSE query[p]
  BY <1>1
<1>3. \A p \in Queries : query[p].tries \in Nat /\ query[p].tries <= upsets
  BY <1>1, EwdsAssumption DEF TriesAreUpsets, QueryStates
<1>4. r.tries \in Nat
  BY EwdsAssumption DEF QueryStates
<1>5. TriesAreUpsets'
  <2>1. ASSUME NEW p \in Queries PROVE query'[p].tries <= upsets'
    BY <1>1, <1>2, <1>3, <1>4
  <2> QED
    BY <2>1 DEF TriesAreUpsets
<1>6. PollsLeft'
  BY <1>2 DEF PollsLeft
<1>7. query' \in [Queries -> QueryStates]
  BY <1>1
<1> QED
  BY <1>2, <1>5, <1>6, <1>7 DEF TypeOK

LEMMA UpsetCounts ==
  ASSUME TypeOK, Upset
  PROVE  upsets' \in 0 .. MaxUpsets /\ upsets' \in Nat /\ upsets' = upsets + 1 /\ upsets <= upsets'
BY EwdsAssumption DEF TypeOK, Upset

LEMMA RequestType ==
  ASSUME TypeOK, NEW q \in Queries, query[q].at # "idle", Enqueue(q)
  PROVE  requests' \subseteq Requests
<1>1. query[q] \in QueryStates /\ query[q].id \in RequestIds /\ query[q].market \in Markets
  BY DEF TypeOK
<1>2. query[q].tries \in 0 .. MaxUpsets
  BY <1>1 DEF QueryStates
<1> QED
  BY <1>1, <1>2 DEF Enqueue, TypeOK, Requests

LEMMA TypeStep ==
  ASSUME TypeOK, TriesAreUpsets, PollsLeft, [Next]_vars
  PROVE  TypeOK' /\ TriesAreUpsets' /\ PollsLeft'
<1>0. /\ upsets \in Nat /\ upsets \in 0 .. MaxUpsets /\ MaxNow \in Nat /\ now \in 0 .. MaxNow
      /\ MaxPolls \in Nat /\ 0 < MaxPolls
  BY EwdsAssumption DEF TypeOK
<1>1. CASE UNCHANGED vars
  BY <1>1 DEF vars, TypeOK, TriesAreUpsets, PollsLeft
<1>2. ASSUME NEW m \in Markets, TradesSettle(m)
      PROVE  TypeOK' /\ TriesAreUpsets' /\ PollsLeft'
  BY <1>2 DEF TradesSettle, TypeOK, TriesAreUpsets, PollsLeft
<1>3. ASSUME NEW r \in requests, Handle(r)
      PROVE  TypeOK' /\ TriesAreUpsets' /\ PollsLeft'
  <2>1. r.id \in RequestIds /\ r.id.op \in Ops /\ r.market \in Markets
    BY DEF TypeOK, Requests, RequestIds
  <2>2. PICK message \in Messages : log' = [log EXCEPT ![r.id.op] = Append(@, message)]
    BY <1>3, <2>1 DEF Handle, Messages, Answers
  <2>3. /\ upsets' \in 0 .. MaxUpsets /\ upsets' \in Nat /\ upsets <= upsets'
        /\ UNCHANGED <<now, traded, cursor, query, reader>> /\ requests' \subseteq Requests
    BY <1>0, <1>3, UpsetCounts DEF Handle, TypeOK
  <2>4. \A op \in Ops : Len(log'[op]) \in Nat /\ Len(log[op]) \in Nat /\ cursor[op] \in Nat
                       /\ Len(log[op]) <= Len(log'[op]) /\ cursor[op] <= Len(log[op])
    BY <2>1, <2>2, AnswerProperties DEF TypeOK
  <2>5. \A q \in Queries : query[q].tries \in Nat
    BY EwdsAssumption DEF TypeOK, QueryStates
  <2>6. log' \in [Ops -> Seq(Messages)]
    BY <2>1, <2>2, AnswerProperties
  <2>7. \A op \in Ops : cursor[op] <= Len(log'[op])
    BY <2>4
  <2>8. TypeOK'
    BY <2>3, <2>6, <2>7 DEF TypeOK
  <2>9. TriesAreUpsets' /\ PollsLeft'
    BY <1>0, <2>3, <2>5 DEF TriesAreUpsets, PollsLeft
  <2> QED
    BY <2>8, <2>9
<1>4. ASSUME NEW r \in requests, HandlerDrops(r)
      PROVE  TypeOK' /\ TriesAreUpsets' /\ PollsLeft'
  <2>1. /\ upsets' \in 0 .. MaxUpsets /\ upsets' \in Nat /\ upsets <= upsets'
        /\ UNCHANGED <<now, traded, log, cursor, query, reader>> /\ requests' \subseteq Requests
    BY <1>4, UpsetCounts DEF HandlerDrops, TypeOK
  <2>2. \A q \in Queries : query[q].tries \in Nat
    BY EwdsAssumption DEF TypeOK, QueryStates
  <2>3. TypeOK'
    BY <2>1 DEF TypeOK
  <2>4. TriesAreUpsets' /\ PollsLeft'
    BY <1>0, <2>1, <2>2 DEF TriesAreUpsets, PollsLeft
  <2> QED
    BY <2>3, <2>4
<1>5. ASSUME NEW q \in Queries, NEW op \in Ops, NEW m \in Markets, Ask(q, op, m)
      PROVE  TypeOK' /\ TriesAreUpsets' /\ PollsLeft'
  <2> DEFINE id == [op |-> op, ms |-> now']
             b == m \in traded
             r == [NewQuery EXCEPT !.at = "publish", !.id = id, !.market = m, !.before = b]
  <2>1. now' \in 0 .. MaxNow /\ query' = [query EXCEPT ![q] = r]
        /\ UNCHANGED <<traded, requests, log, cursor, upsets, reader>>
    BY <1>0, <1>5 DEF Ask
  <2>2. id \in RequestIds
    BY <2>1 DEF RequestIds
  <2>4. /\ r \in QueryStates /\ r.at = "publish" /\ r.id = id /\ r.market = m
        /\ r.tries = 0 /\ r.polls = 0
    <3>1. b \in BOOLEAN
      OBVIOUS
    <3> HIDE DEF b, id
    <3>2. NewQuery \in QueryStates /\ NewQuery.tries = 0 /\ NewQuery.polls = 0
      BY NewQueryType
    <3> QED
      BY <2>2, <3>1, <3>2 DEF QueryStates, Labels
  <2> HIDE DEF r, id, b
  <2>5. /\ query' \in [Queries -> QueryStates]
        /\ \A p \in Queries :
             query'[p].at # "idle" => query'[p].id \in RequestIds /\ query'[p].market \in Markets
        /\ TriesAreUpsets' /\ PollsLeft'
    <3>1. upsets' \in Nat /\ upsets <= upsets' /\ r.tries <= upsets' /\ r.polls < MaxPolls
      BY <1>0, <2>1, <2>4
    <3> QED
      BY <2>1, <2>2, <2>4, <3>1, QueryTakes
  <2> QED
    BY <2>1, <2>5 DEF TypeOK
<1>6. ASSUME NEW q \in Queries, Publish(q) \/ PublishUnanswered(q)
      PROVE  TypeOK' /\ TriesAreUpsets' /\ PollsLeft'
  <2>1. query[q].at = "publish" /\ Enqueue(q) /\ UNCHANGED <<now, traded, log, cursor, reader>>
    BY <1>6 DEF Publish, PublishUnanswered
  <2>2. upsets' \in 0 .. MaxUpsets /\ upsets' \in Nat /\ upsets <= upsets'
    BY <1>0, <1>6, UpsetCounts DEF Publish, PublishUnanswered
  <2>3. /\ query[q] \in QueryStates /\ query[q].polls < MaxPolls
        /\ query[q].id \in RequestIds /\ query[q].market \in Markets
        /\ query[q].tries \in Nat /\ query[q].tries <= upsets
        /\ MaxUpsets \in Nat
    BY <2>1, EwdsAssumption DEF TypeOK, PollsLeft, TriesAreUpsets, QueryStates
  <2>4. PICK r \in QueryStates :
          /\ query' = [query EXCEPT ![q] = r]
          /\ r.id = query[q].id /\ r.market = query[q].market /\ r.polls = query[q].polls
          /\ r.tries <= upsets'
    <3>1. CASE \/ query' = [query EXCEPT ![q] = [@ EXCEPT !.at = "poll"]]
               \/ query' = [query EXCEPT ![q] = [@ EXCEPT !.at = "error"]]
      BY <1>0, <2>2, <2>3, <3>1 DEF QueryStates, Labels
    <3>2. CASE /\ query' = [query EXCEPT ![q] = [@ EXCEPT !.tries = query[q].tries + 1]]
               /\ upsets' = upsets + 1
      <4>1. query[q].tries + 1 \in 0 .. MaxUpsets /\ query[q].tries + 1 <= upsets'
        BY <1>0, <2>2, <2>3, <3>2
      <4>2. [query[q] EXCEPT !.tries = query[q].tries + 1] \in QueryStates
        BY <2>3, <4>1 DEF QueryStates
      <4> QED
        BY <2>3, <3>2, <4>1, <4>2 DEF QueryStates
    <3> QED
      BY <1>6, <3>1, <3>2, UpsetCounts DEF Publish, PublishUnanswered
  <2>5. /\ query' \in [Queries -> QueryStates]
        /\ \A p \in Queries :
             query'[p].at # "idle" => query'[p].id \in RequestIds /\ query'[p].market \in Markets
        /\ TriesAreUpsets' /\ PollsLeft'
    BY <2>2, <2>3, <2>4, QueryTakes
  <2>6. requests' \subseteq Requests
    BY <2>1, RequestType
  <2> QED
    BY <2>1, <2>2, <2>5, <2>6 DEF TypeOK
<1>7. ASSUME NEW q \in Queries, Poll(q) \/ PollUnanswered(q) \/ DeadlinePasses(q)
      PROVE  TypeOK' /\ TriesAreUpsets' /\ PollsLeft'
  <2> DEFINE op == query[q].id.op
  <2>1. query[q].at = "poll" /\ UNCHANGED <<now, traded, requests, log>>
    BY <1>7 DEF Poll, PollUnanswered, DeadlinePasses
  <2>2. upsets' \in 0 .. MaxUpsets /\ upsets' \in Nat /\ upsets <= upsets'
    BY <1>0, <1>7, UpsetCounts DEF Poll, PollUnanswered, DeadlinePasses
  <2>3. /\ query[q] \in QueryStates /\ query[q].polls < MaxPolls /\ op \in Ops
        /\ query[q].id \in RequestIds /\ query[q].market \in Markets
        /\ query[q].tries \in Nat /\ query[q].tries <= upsets
    BY <2>1, EwdsAssumption DEF TypeOK, PollsLeft, TriesAreUpsets, QueryStates, RequestIds
  <2>4. query[q].tries <= upsets'
    BY <1>0, <2>2, <2>3
  <2>5. PICK r \in QueryStates :
          /\ query' = [query EXCEPT ![q] = r]
          /\ r.id = query[q].id /\ r.market = query[q].market /\ r.tries = query[q].tries
          /\ r.at # "publish" /\ (r.at = "poll" => r.polls < MaxPolls)
    <3>1. CASE Poll(q)
      <4>1. Batch(op) \in Seq(Messages)
        BY <2>3, BatchProperties
      <4>2. query' = [query EXCEPT ![q] = Resume(q, Batch(op))]
        BY <3>1 DEF Poll
      <4>3. PICK r : r = Resume(q, Batch(op))
        OBVIOUS
      <4>4. /\ r \in QueryStates /\ r.id = query[q].id /\ r.market = query[q].market
            /\ r.tries = query[q].tries
            /\ r.at # "publish" /\ (r.at = "poll" => r.polls < MaxPolls)
        BY <2>1, <4>1, <4>3, ResumeCases
      <4> QED
        BY <4>2, <4>3, <4>4
    <3>2. CASE \/ query' = query
               \/ query' = [query EXCEPT ![q] = [@ EXCEPT !.at = "error"]]
               \/ query' = [query EXCEPT ![q] = [@ EXCEPT !.at = "timeout"]]
      <4>1. query = [query EXCEPT ![q] = query[q]]
        BY DEF TypeOK
      <4> QED
        BY <2>1, <2>3, <3>2, <4>1 DEF QueryStates, Labels
    <3> QED
      BY <1>7, <3>1, <3>2 DEF PollUnanswered, DeadlinePasses
  <2>6. /\ query' \in [Queries -> QueryStates]
        /\ \A p \in Queries :
             query'[p].at # "idle" => query'[p].id \in RequestIds /\ query'[p].market \in Markets
        /\ TriesAreUpsets' /\ PollsLeft'
    BY <2>2, <2>3, <2>4, <2>5, QueryTakes
  <2>7. /\ cursor' \in [Ops -> Nat] /\ reader' \in [Ops -> Seq(Queries \cup {"lost"})]
        /\ \A o \in Ops : cursor'[o] <= Len(log[o]) /\ Len(reader'[o]) = cursor'[o]
    <3>1. CASE UNCHANGED <<cursor, reader>>
      BY <3>1 DEF TypeOK
    <3>2. ASSUME NEW who \in Queries \cup {"lost"}, Consume(op, who)
          PROVE  /\ cursor' \in [Ops -> Nat] /\ reader' \in [Ops -> Seq(Queries \cup {"lost"})]
                 /\ \A o \in Ops : cursor'[o] <= Len(log[o]) /\ Len(reader'[o]) = cursor'[o]
      BY <2>3, <3>2, ConsumeProperties
    <3> QED
      BY <1>7, <3>1, <3>2 DEF Poll, PollUnanswered, DeadlinePasses
  <2> QED
    BY <2>1, <2>2, <2>6, <2>7 DEF TypeOK
<1> QED
  BY <1>1, <1>2, <1>3, <1>4, <1>5, <1>6, <1>7 DEF Next

-----------------------------------------------------------------------------
(* A query changes by its own actions only.                                *)
Acts(q) ==
  \/ \E op \in Ops, m \in Markets : Ask(q, op, m)
  \/ Publish(q) \/ PublishUnanswered(q) \/ Poll(q) \/ PollUnanswered(q) \/ DeadlinePasses(q)

LEMMA OwnMoves ==
  ASSUME TypeOK, [Next]_vars, NEW q \in Queries, query'[q] # query[q]
  PROVE  Acts(q)
<1>1. ASSUME NEW p \in Queries, Acts(p)
      PROVE  p = q
  <2>1. \/ UNCHANGED query
        \/ \E r : query' = [query EXCEPT ![p] = r]
    BY <1>1 DEF Acts, Ask, Publish, PublishUnanswered, Poll, PollUnanswered, DeadlinePasses
  <2> QED
    BY <2>1 DEF TypeOK
<1>2. \E p \in Queries : Acts(p)
  BY DEF Acts, Next, vars, TradesSettle, Handle, HandlerDrops
<1> QED
  BY <1>1, <1>2

LEMMA TradedGrows ==
  ASSUME TypeOK, [Next]_vars
  PROVE  traded \subseteq traded'
BY DEF Next, vars, TradesSettle, Handle, HandlerDrops, Ask, Publish, PublishUnanswered, Poll,
       PollUnanswered, DeadlinePasses

LEMMA BeforeStep ==
  ASSUME TypeOK, PollsLeft, BeforeTraded, [Next]_vars
  PROVE  BeforeTraded'
<1> SUFFICES ASSUME NEW q \in Queries, query'[q].at # "idle", query'[q].before
             PROVE  query'[q].market \in traded'
  BY DEF BeforeTraded
<1>1. CASE query[q].at # "idle"
  BY <1>1, AskedStays, TradedGrows DEF BeforeTraded
<1>2. CASE query[q].at = "idle" /\ query'[q] = query[q]
  BY <1>2
<1>3. ASSUME NEW op \in Ops, NEW m \in Markets, Ask(q, op, m)
      PROVE  query'[q].market \in traded'
  <2>1. /\ query'[q].market = m /\ query'[q].before = (m \in traded) /\ traded' = traded
    <3>1. query \in [Queries -> QueryStates] /\ NewQuery \in QueryStates
      BY NewQueryType DEF TypeOK
    <3> QED
      BY <1>3, <3>1 DEF Ask, QueryStates
  <2> QED
    BY <2>1
<1>4. query[q].at = "idle" /\ query'[q] # query[q] => \E op \in Ops, m \in Markets : Ask(q, op, m)
  BY OwnMoves DEF Acts, Publish, PublishUnanswered, Poll, PollUnanswered, DeadlinePasses
<1> QED
  BY <1>1, <1>2, <1>3, <1>4

LEMMA RequestsStep ==
  ASSUME TypeOK, PollsLeft, RequestsAsked, [Next]_vars
  PROVE  RequestsAsked'
<1> SUFFICES ASSUME NEW r \in requests'
             PROVE  \E q \in Queries : query'[q].at # "idle" /\ query'[q].id = r.id
                                       /\ query'[q].market = r.market
  BY DEF RequestsAsked
<1>1. CASE r \in requests
  BY <1>1, AskedStays DEF RequestsAsked
<1>2. ASSUME NEW q \in Queries, query[q].at = "publish", Enqueue(q), r \notin requests
      PROVE  query'[q].at # "idle" /\ query'[q].id = r.id /\ query'[q].market = r.market
  BY <1>2, AskedStays DEF Enqueue
<1> QED
  BY <1>1, <1>2
  DEF Next, vars, TradesSettle, Handle, HandlerDrops, Ask, Publish, PublishUnanswered, Poll,
      PollUnanswered, DeadlinePasses

(* Every answer belongs to a query that asked for it.                      *)
LEMMA LogStep ==
  ASSUME TypeOK, PollsLeft, BeforeTraded, RequestsAsked, LogAsked, [Next]_vars
  PROVE  LogAsked'
<1> SUFFICES ASSUME NEW op \in Ops, NEW i \in 1 .. Len(log'[op])
             PROVE  \E q \in Queries : Asked(q, log[op][i].id, log[op][i].data)'
  BY DEF LogAsked
<1>1. CASE i \in 1 .. Len(log[op]) /\ log'[op][i] = log[op][i]
  <2>1. PICK q \in Queries : Asked(q, log[op][i].id, log[op][i].data)
    BY <1>1 DEF LogAsked
  <2> QED
    BY <1>1, <2>1, AskedStays DEF Asked
<1>2. ASSUME NEW r \in requests, Handle(r)
      PROVE  \E q \in Queries : Asked(q, log[op][i].id, log[op][i].data)'
  <2> DEFINE empty == r.id.op = "trades.query" /\ r.market \notin traded
  <2>1. r.id \in RequestIds /\ r.id.op \in Ops /\ r.market \in Markets
    BY DEF TypeOK, Requests, RequestIds
  <2>2. PICK message \in Messages :
          /\ log' = [log EXCEPT ![r.id.op] = Append(@, message)]
          /\ message.id = r.id /\ message.data.market = r.market /\ message.data.empty = empty
    <3> DEFINE Message(success) ==
                 [id |-> r.id, success |-> success,
                  data |-> [market |-> r.market, empty |-> empty]]
    <3>1. \/ log' = [log EXCEPT ![r.id.op] = Append(@, Message(TRUE))]
          \/ log' = [log EXCEPT ![r.id.op] = Append(@, Message(FALSE))]
      BY <1>2 DEF Handle
    <3>2. empty \in BOOLEAN
      OBVIOUS
    <3> HIDE DEF empty
    <3>3. ASSUME NEW success \in BOOLEAN
          PROVE  /\ Message(success) \in Messages /\ Message(success).id = r.id
                 /\ Message(success).data.market = r.market /\ Message(success).data.empty = empty
      BY <2>1, <3>2 DEF Messages, Answers
    <3> HIDE DEF Message
    <3> QED
      BY <3>1, <3>3
  <2>3. CASE i \in 1 .. Len(log[op])
    BY <1>1, <2>1, <2>2, <2>3, AnswerProperties
  <2>4. CASE log'[op][i] = message
    <3>1. PICK q \in Queries : query[q].at # "idle" /\ query[q].id = r.id
                               /\ query[q].market = r.market
      BY DEF RequestsAsked
    <3>2. empty => ~ query[q].before
      BY <3>1 DEF BeforeTraded
    <3> HIDE DEF empty
    <3>3. message.data.empty => ~ query[q].before
      BY <2>2, <3>2
    <3> QED
      BY <2>2, <2>4, <3>1, <3>3, AskedStays DEF Asked
  <2>5. i \in 1 .. Len(log[op]) \/ log'[op][i] = message
    BY <1>1, <2>1, <2>2, AnswerProperties
  <2> QED
    BY <2>3, <2>4, <2>5
<1>3. CASE log' = log
  BY <1>1, <1>3
<1> QED
  BY <1>2, <1>3
  DEF Next, vars, TradesSettle, HandlerDrops, Ask, Publish, PublishUnanswered, Poll,
      PollUnanswered, DeadlinePasses

LEMMA AnswersStep ==
  ASSUME TypeOK, PollsLeft, LogAsked, AnswersAsked, [Next]_vars
  PROVE  AnswersAsked'
<1> SUFFICES ASSUME NEW q \in Queries, query'[q].at = "returned"
             PROVE  \E p \in Queries : Asked(p, query[q].id, query[q].answer)'
  BY DEF AnswersAsked
<1>1. CASE query[q].at = "returned" /\ query'[q] = query[q]
  <2>1. PICK p \in Queries : Asked(p, query[q].id, query[q].answer)
    BY <1>1 DEF AnswersAsked
  <2> QED
    BY <1>1, <2>1, AskedStays DEF Asked
<1>2. CASE Poll(q)
  <2> DEFINE op == query[q].id.op
  <2>1. query[q].at = "poll" /\ op \in Ops /\ query'[q] = Resume(q, Batch(op))
    BY <1>2 DEF Poll, TypeOK, RequestIds
  <2>2. Batch(op) \in Seq(Messages)
    BY <2>1, BatchProperties
  <2>3. PICK i \in DOMAIN Batch(op) :
          Batch(op)[i].id = query[q].id /\ query'[q].answer = Batch(op)[i].data
    BY <2>1, <2>2, ResumeCases
  <2>4. Batch(op)[i] = log[op][cursor[op] + i] /\ cursor[op] + i \in 1 .. Len(log[op])
    <3> HIDE DEF op
    <3>1. /\ cursor[op] \in Nat /\ BatchEnd(op) \in Nat /\ BatchEnd(op) <= Len(log[op])
          /\ DOMAIN Batch(op) = 1 .. (BatchEnd(op) - cursor[op])
          /\ Batch(op)[i] = log[op][cursor[op] + i]
      BY <2>1, <2>3, BatchProperties
    <3>2. Len(log[op]) \in Nat
      BY <2>1 DEF TypeOK
    <3>3. i \in 1 .. (BatchEnd(op) - cursor[op])
      BY <2>3, <3>1
    <3> QED
      BY <3>1, <3>2, <3>3
  <2>5. PICK p \in Queries : Asked(p, query[q].id, query'[q].answer)
    BY <2>1, <2>3, <2>4 DEF LogAsked
  <2>6. query'[q].id = query[q].id
    BY <2>1, AskedStays
  <2> QED
    BY <2>5, <2>6, AskedStays DEF Asked
<1>3. ASSUME query'[q] # query[q], ~ Poll(q)
      PROVE  FALSE
  <2>1. /\ query \in [Queries -> QueryStates] /\ query[q] \in QueryStates
        /\ NewQuery \in QueryStates
    BY NewQueryType DEF TypeOK
  <2>2. CASE \E op \in Ops, m \in Markets : Ask(q, op, m)
    BY <2>1, <2>2 DEF Ask, QueryStates
  <2>3. CASE Publish(q) \/ PublishUnanswered(q) \/ PollUnanswered(q) \/ DeadlinePasses(q)
    <3>1. \/ query' = [query EXCEPT ![q] = [@ EXCEPT !.at = "poll"]]
          \/ query' = [query EXCEPT ![q] = [@ EXCEPT !.at = "error"]]
          \/ query' = [query EXCEPT ![q] = [@ EXCEPT !.at = "timeout"]]
          \/ /\ query[q].at = "publish"
             /\ query' = [query EXCEPT ![q] = [@ EXCEPT !.tries = query[q].tries + 1]]
      BY <1>3, <2>3 DEF Publish, PublishUnanswered, PollUnanswered, DeadlinePasses
    <3> QED
      BY <2>1, <3>1 DEF QueryStates
  <2> QED
    BY <1>3, <2>2, <2>3, OwnMoves DEF Acts
<1>4. query'[q] = query[q] => query[q].at = "returned"
  OBVIOUS
<1> QED
  BY <1>1, <1>2, <1>3, <1>4

-----------------------------------------------------------------------------
(* Where a message behind the cursor has come from.                        *)
LEMMA ReaderStep ==
  ASSUME TypeOK, [Next]_vars, NEW o \in Ops, NEW i \in 1 .. cursor'[o]
  PROVE  /\ i \in 1 .. Len(log[o]) /\ log'[o][i] = log[o][i]
         /\ \/ i \in 1 .. cursor[o] /\ reader'[o][i] = reader[o][i]
            \/ reader'[o][i] = "lost"
            \/ \E p \in Queries : /\ Poll(p) /\ reader'[o][i] = p
                                  /\ o = query[p].id.op
                                  /\ i \in (cursor[o] + 1) .. BatchEnd(o)
<1>1. cursor[o] \in Nat /\ Len(log[o]) \in Nat /\ cursor[o] <= Len(log[o])
  BY DEF TypeOK
<1>2. ASSUME UNCHANGED <<log, cursor, reader>>
      PROVE  i \in 1 .. Len(log[o]) /\ i \in 1 .. cursor[o]
  BY <1>1, <1>2
<1>3. ASSUME NEW r \in requests, Handle(r)
      PROVE  /\ i \in 1 .. Len(log[o]) /\ log'[o][i] = log[o][i]
             /\ i \in 1 .. cursor[o] /\ reader'[o][i] = reader[o][i]
  <2>1. r.id.op \in Ops /\ r.id \in RequestIds /\ r.market \in Markets
    BY DEF TypeOK, Requests, RequestIds
  <2>2. PICK message \in Messages : log' = [log EXCEPT ![r.id.op] = Append(@, message)]
    BY <1>3, <2>1 DEF Handle, Messages, Answers
  <2>3. UNCHANGED <<cursor, reader>>
    BY <1>3 DEF Handle
  <2>4. i \in 1 .. Len(log[o]) /\ i \in 1 .. cursor[o]
    BY <1>1, <2>3
  <2> QED
    BY <2>1, <2>2, <2>3, <2>4, AnswerProperties
<1>4. ASSUME NEW p \in Queries, NEW who \in {p, "lost"}, query[p].at = "poll",
             Consume(query[p].id.op, who), UNCHANGED log
      PROVE  /\ i \in 1 .. Len(log[o])
             /\ \/ i \in 1 .. cursor[o] /\ reader'[o][i] = reader[o][i]
                \/ /\ reader'[o][i] = who /\ o = query[p].id.op
                   /\ i \in (cursor[o] + 1) .. BatchEnd(o)
  <2> DEFINE op == query[p].id.op
  <2>1. op \in Ops
    BY <1>4 DEF TypeOK, RequestIds
  <2>2. /\ cursor' \in [Ops -> Nat]
        /\ cursor'[o] <= Len(log[o]) /\ cursor'[op] = BatchEnd(op)
        /\ o # op => cursor'[o] = cursor[o]
        /\ \A k \in 1 .. cursor[o] : reader'[o][k] = reader[o][k]
        /\ \A k \in (cursor[op] + 1) .. cursor'[op] : reader'[op][k] = who
    BY <1>4, <2>1, ConsumeProperties
  <2>3. i \in 1 .. Len(log[o]) /\ cursor'[o] \in Nat
    BY <1>1, <2>2
  <2>4. i \in 1 .. cursor[o] \/ i \in (cursor[o] + 1) .. cursor'[o]
    BY <1>1, <2>3
  <2>5. CASE i \in 1 .. cursor[o]
    BY <2>2, <2>3, <2>5
  <2>6. CASE i \in (cursor[o] + 1) .. cursor'[o]
    <3>1. o = op
      BY <1>1, <2>2, <2>6
    <3> QED
      BY <2>2, <2>3, <2>6, <3>1
  <2> QED
    BY <2>4, <2>5, <2>6
<1>5. ASSUME NEW p \in Queries, Poll(p)
      PROVE  query[p].at = "poll" /\ Consume(query[p].id.op, p) /\ UNCHANGED log
  BY <1>5 DEF Poll
<1>6. ASSUME NEW p \in Queries, PollUnanswered(p)
      PROVE  query[p].at = "poll" /\ Consume(query[p].id.op, "lost") /\ UNCHANGED log
  BY <1>6 DEF PollUnanswered
<1>7. CASE \E p \in Queries : Poll(p)
  BY <1>4, <1>5, <1>7
<1>8. CASE \E p \in Queries : PollUnanswered(p)
  BY <1>4, <1>6, <1>8
<1> QED
  BY <1>2, <1>3, <1>7, <1>8
  DEF Next, vars, TradesSettle, HandlerDrops, Ask, Publish, PublishUnanswered, DeadlinePasses

(* A query that goes on has not read its answer.                           *)
LEMMA UnreadStep ==
  ASSUME TypeOK, TypeOK', PollsLeft, Unread, [Next]_vars
  PROVE  Unread'
<1> SUFFICES ASSUME NEW q \in Queries
             PROVE  /\ query'[q].at \in {"idle", "publish"} =>
                         \A op \in Ops : \A i \in 1 .. cursor'[op] : reader'[op][i] # q
                    /\ query'[q].at \in {"poll", "timeout"} =>
                         \A i \in 1 .. cursor'[query'[q].id.op] :
                           log'[query'[q].id.op][i].id = query'[q].id
                             => reader'[query'[q].id.op][i] # q
  BY DEF Unread
<1>1. "lost" # q
  BY EwdsAssumption
<1>2. CASE Poll(q)
  <2> DEFINE op == query[q].id.op
  <2>1. query[q].at = "poll" /\ op \in Ops /\ query'[q] = Resume(q, Batch(op))
    BY <1>2 DEF Poll, TypeOK, RequestIds
  <2>2. Batch(op) \in Seq(Messages)
    BY <2>1, BatchProperties
  <2>3. /\ query'[q].id = query[q].id
        /\ query'[q].at \notin {"idle", "publish"}
        /\ query'[q].at \in {"poll", "timeout"} =>
             \A i \in DOMAIN Batch(op) : Batch(op)[i].id # query[q].id
    BY <2>1, <2>2, ResumeCases
  <2>4. ASSUME query'[q].at \in {"poll", "timeout"}, NEW i \in 1 .. cursor'[op],
               log'[op][i].id = query[q].id, reader'[op][i] = q
        PROVE  FALSE
    <3>1. log[op][i].id = query[q].id
      BY <2>1, <2>4, ReaderStep
    <3>2. i \in 1 .. cursor[op] => reader'[op][i] # reader[op][i]
      BY <2>1, <2>4, <3>1 DEF Unread
    <3>3. i \in (cursor[op] + 1) .. BatchEnd(op)
      BY <1>1, <2>1, <2>4, <3>2, ReaderStep
    <3>4. cursor[op] \in Nat /\ BatchEnd(op) \in Nat
      BY <2>1, BatchProperties
    <3>5. i - cursor[op] \in DOMAIN Batch(op) /\ cursor[op] + (i - cursor[op]) = i
      BY <2>1, <3>3, <3>4, BatchProperties
    <3>6. Batch(op)[i - cursor[op]] = log[op][i]
      BY <2>1, <3>5, BatchProperties
    <3> QED
      BY <2>3, <2>4, <3>1, <3>5, <3>6
  <2> QED
    BY <2>3, <2>4
<1>3. CASE ~ Poll(q)
  <2>1. ASSUME NEW op \in Ops, NEW i \in 1 .. cursor'[op], reader'[op][i] = q
        PROVE  i \in 1 .. cursor[op] /\ reader[op][i] = q /\ log'[op][i] = log[op][i]
    BY <1>1, <1>3, <2>1, ReaderStep
  <2>2. CASE query'[q] = query[q]
    <3>1. CASE query[q].at \in {"idle", "publish"}
      BY <2>1, <2>2, <3>1 DEF Unread
    <3>2. CASE query[q].at \in {"poll", "timeout"}
      <4>1. query[q].id.op \in Ops
        BY <3>2 DEF TypeOK, RequestIds
      <4> QED
        BY <2>1, <2>2, <3>2, <4>1 DEF Unread
    <3> QED
      BY <2>2, <3>1, <3>2
  <2>3. CASE query[q].at \in {"idle", "publish"}
    <3>1. \A op \in Ops : \A i \in 1 .. cursor'[op] : reader'[op][i] # q
      BY <2>1, <2>3 DEF Unread
    <3>2. query'[q].at \in {"poll", "timeout"} => query'[q].id.op \in Ops
      BY DEF TypeOK, RequestIds
    <3> QED
      BY <3>1, <3>2
  <2>4. CASE query[q].at = "poll"
    <3>1. query'[q].id = query[q].id /\ query'[q].at \notin {"idle", "publish"}
          /\ query[q].id.op \in Ops
      <4>1. query[q].id.op \in Ops /\ query[q] \in QueryStates
            /\ query \in [Queries -> QueryStates]
        BY <2>4 DEF TypeOK, RequestIds
      <4>2. \/ query'[q] = query[q]
            \/ query' = [query EXCEPT ![q] = [@ EXCEPT !.at = "error"]]
            \/ query' = [query EXCEPT ![q] = [@ EXCEPT !.at = "timeout"]]
        BY <1>3, <2>4, OwnMoves
        DEF Acts, Ask, Publish, PublishUnanswered, PollUnanswered, DeadlinePasses
      <4> QED
        BY <2>4, <4>1, <4>2 DEF QueryStates
    <3> QED
      BY <2>1, <2>4, <3>1 DEF Unread
  <2> QED
    BY <1>3, <2>2, <2>3, <2>4, OwnMoves
    DEF Acts, Ask, Publish, PublishUnanswered, PollUnanswered, DeadlinePasses
<1> QED
  BY <1>2, <1>3

-----------------------------------------------------------------------------
LEMMA InvStep == EwdsInv /\ [Next]_vars => EwdsInv'
<1> SUFFICES ASSUME EwdsInv, [Next]_vars PROVE EwdsInv'
  OBVIOUS
<1> USE DEF EwdsInv
<1>1. TypeOK' /\ TriesAreUpsets' /\ PollsLeft'
  BY TypeStep
<1>2. BeforeTraded' /\ RequestsAsked' /\ LogAsked' /\ AnswersAsked'
  BY BeforeStep, RequestsStep, LogStep, AnswersStep
<1>3. Unread'
  BY <1>1, UnreadStep
<1> QED
  BY <1>1, <1>2, <1>3

LEMMA EwdsInvariant == Spec => []EwdsInv
<1>1. Init => EwdsInv
  BY InitInv
<1>2. EwdsInv /\ [Next]_vars => EwdsInv'
  BY InvStep
<1> QED
  BY <1>1, <1>2, PTL DEF Spec

(* Every reachable state of the transport has the types of TypeOK.         *)
THEOREM QueryType == Spec => []TypeOK
<1>1. EwdsInv => TypeOK
  BY DEF EwdsInv
<1> QED
  BY <1>1, EwdsInvariant, PTL

(* get_orders returns the answer to the query's own request, whatever the  *)
(* shared cursor, the broker and the handler do, unless two queries were   *)
(* made in one millisecond.                                                *)
THEOREM QueryOwnOrders == Spec => []OwnOrders
<1>1. EwdsInv => OwnOrders
  BY DEF EwdsInv, AnswersAsked, Asked, OwnOrders, Returned, SameId
<1> QED
  BY <1>1, EwdsInvariant, PTL

(* An empty answer of get_trades means that the market had no trades when  *)
(* it was asked, with the same exception.                                  *)
THEOREM QueryEmptyMeansUntraded == Spec => []EmptyMeansUntraded
<1>1. EwdsInv => EmptyMeansUntraded
  BY DEF EwdsInv, AnswersAsked, Asked, EmptyMeansUntraded, Returned, TradesReturned, SameId
<1> QED
  BY <1>1, EwdsInvariant, PTL

(* A query that times out has not overlooked its answer in any batch that  *)
(* was handed to it.                                                       *)
THEOREM QueryNotOverlooked == Spec => []NotOverlooked
<1>1. EwdsInv => NotOverlooked
  BY DEF EwdsInv, Unread, NotOverlooked
<1> QED
  BY <1>1, EwdsInvariant, PTL
=============================================================================
