---------------------------- MODULE MCEwdsClient ----------------------------
(* Two queries that overlap, on two markets.                               *)
EXTENDS EwdsClient

CONSTANTS q1, q2, m1, m2

MCQueries == {q1, q2}
MCMarkets == {m1, m2}
Settling1 == {m1}
=============================================================================
