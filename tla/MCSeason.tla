------------------------------ MODULE MCSeason ------------------------------
(***************************************************************************)
(* Histories of three slots and two meters of the community, with or       *)
(* without one of another; then markets of two orders a side, which one or *)
(* several facilities have placed.                                         *)
(***************************************************************************)
EXTENDS Season

CONSTANTS c1, c2, all

MCCommunityOf == [m \in {"m1", "m2", "m3"} |-> IF m = "m3" THEN c2 ELSE c1]

(* What the two meters show at one time, and nothing.                      *)
Pairs == {<<3, -1>>, <<1, -1>>, <<1, -2>>, <<1, -6>>, <<1, -9>>, <<0, -2>>, <<2, 1>>}

Day(t) == {{}} \cup {{[meter |-> "m1", slot |-> t, energy |-> p[1]],
                      [meter |-> "m2", slot |-> t, energy |-> p[2]]} : p \in Pairs}
Neighbour == {{}} \cup {{[meter |-> "m3", slot |-> t, energy |-> -4]} : t \in 1 .. 3}

MCHistories == {a \cup b \cup c \cup d : a \in Day(1), b \in Day(2), c \in Day(3), d \in Neighbour}

MCBids == {"bid1", "bid2"}
MCOffers == {"offer1", "offer2"}
MCFacilities ==
  {[o \in MCBids \cup MCOffers |-> o],
   [o \in MCBids \cup MCOffers |-> IF o = "offer2" THEN "offer1" ELSE IF o = "bid2" THEN "bid1" ELSE o]}
=============================================================================
