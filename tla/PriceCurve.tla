----------------------------- MODULE PriceCurve -----------------------------
(***************************************************************************)
(* sigmoid_price (src/sigmoid.py of the clearing and the execution node)   *)
(* and sigmoid_price_unclamped (amm-calibration/src/pricing.py):           *)
(*                                                                         *)
(*   upper - (upper - lower) / (1 + exp(-steepness * (ratio - theta)))     *)
(*                                                                         *)
(* rounded to quarters of the band.  The rounded price falls by a quarter  *)
(* where the exponent passes ln(1/7), ln(3/5), ln(5/3) and ln(7), given in *)
(* hundredths.  Rounded so, the curve has the shape of the sigmoid: in the *)
(* band, falling in the ratio, flat without steepness, and alike with and  *)
(* without the clamp.  The guards against overflow decide far beyond the   *)
(* outer two places and change nothing.                                    *)
(***************************************************************************)
EXTENDS Integers, FiniteSets

Quarters == 4
Places == {-195, -51, 51, 195}

(* The price at the ratio supply / demand, in the unit of the band.        *)
SigmoidPrice(supply, demand, upper, lower, theta, steepness) ==
  LET passed == {x \in Places : 100 * steepness * (supply - theta * demand) >= x * demand} IN
  IF upper <= lower THEN lower ELSE upper - ((upper - lower) * Cardinality(passed)) \div Quarters
=============================================================================
