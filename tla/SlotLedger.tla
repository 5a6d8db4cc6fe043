----------------------------- MODULE SlotLedger -----------------------------
(***************************************************************************)
(* What a clearing node promises to the readers of the off-chain store,    *)
(* in the words of docs/implementation/architecture.md: an idempotency     *)
(* check prevents a slot from being cleared twice.  A slot is cleared at   *)
(* most once; its final result is recorded at most once, after the trades, *)
(* and comes from the same order book.                                     *)
(***************************************************************************)
EXTENDS Sequences

CONSTANTS Markets, Books

VARIABLES
  cleared, \* [Markets -> Seq(Books)]: the batches of trades of a slot
  reports  \* the final results of a slot: a set of records with a book

slotVars == <<cleared, reports>>

Init ==
  /\ cleared = [m \in Markets |-> <<>>]
  /\ reports = [m \in Markets |-> {}]

Clear(m, b) ==
  /\ cleared[m] = <<>>
  /\ cleared' = [cleared EXCEPT ![m] = <<b>>]
  /\ UNCHANGED reports

Report(m, b) ==
  /\ cleared[m] = <<b>>
  /\ reports[m] = {}
  /\ \E e \in reports'[m] :
       /\ e.book = b
       /\ reports' = [reports EXCEPT ![m] = {e}]
  /\ UNCHANGED cleared

Next == \E m \in Markets, b \in Books : Clear(m, b) \/ Report(m, b)

Spec == Init /\ [][Next]_slotVars
=============================================================================
