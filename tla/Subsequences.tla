---------------------------- MODULE Subsequences ----------------------------
(***************************************************************************)
(* The list comprehensions of the code, [x for x in s if ...], as the      *)
(* subsequence at a set of positions.                                      *)
(***************************************************************************)
EXTENDS Integers, Sequences

(* The elements of s at the positions in K, in their order.                *)
Subsequence(s, K) ==
  LET taken[n \in 0 .. Len(s)] ==
        IF n = 0 THEN <<>>
        ELSE IF n \in K THEN Append(taken[n - 1], s[n]) ELSE taken[n - 1]
  IN taken[Len(s)]
=============================================================================
