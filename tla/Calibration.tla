---------------------------- MODULE Calibration ----------------------------
(***************************************************************************)
(* The calibration job: the measurements fetched over the gateway          *)
(* (fetch_measurements.py, get_measurements of ewds_client.py), their      *)
(* aggregation to market slots (amm-calibration/src/measurements.py), the  *)
(* coarse and the fine pass of the grid search (src/optimizer.py) and the  *)
(* parameters handed to the clearing node (src/calibrate.py).              *)
(*                                                                         *)
(* Parameters and prices are whole numbers.  The grids have few steps      *)
(* where the code has 50 and 40: as there, the fine window spans one       *)
(* coarse step to each side and contains the coarse optimum.               *)
(***************************************************************************)
EXTENDS PriceCurve, Sequences, FiniteSetsExt, Functions

CONSTANTS
  Histories,     \* sets of measurements: [meter, slot, energy]
  CommunityOf,   \* the community of each meter
  Communities,   \* those a calibration may be asked for,
  Everyone,      \* the absence of a filter
  KUpper, KLower,
  Highest,       \* both parameters are searched in 0 .. Highest
  CoarseSteps, FineSteps

ASSUME CalibrationAssumption ==
  /\ Everyone \notin Communities
  /\ KUpper \in Nat /\ KLower \in Nat
  /\ Highest \in Nat /\ CoarseSteps \in Nat \ {0} /\ FineSteps \in Nat \ {0}
  /\ Highest % CoarseSteps = 0
  /\ (Highest \div CoarseSteps) % FineSteps = 0
  /\ FineSteps % 2 = 0
  /\ \A h \in Histories : IsFiniteSet(h) /\ \A m \in h : m.energy \in Int

VARIABLES
  step,       \* "stored", "fetched", "aggregated", "coarse", "calibrated" or "failed"
  history,    \* the measurements in hand
  community,  \* the filter
  slots,      \* aggregate_slots: [supply, demand] by time slot
  params      \* the best point so far: <<theta, steepness>>

calibrationVars == <<step, history, community, slots, params>>

NoParams == <<0, 0>>
NoSlots == <<>>

CalibrationInit ==
  /\ step = "stored"
  /\ history \in Histories
  /\ community \in Communities \cup {Everyone}
  /\ slots = NoSlots
  /\ params = NoParams

-----------------------------------------------------------------------------
InCommunity(m) == community = Everyone \/ CommunityOf[m.meter] = community

(* get_measurements: the reply is filtered once more by the client.        *)
Fetch ==
  /\ step = "stored"
  /\ history' = {m \in history : InCommunity(m)}
  /\ step' = "fetched"
  /\ UNCHANGED <<community, slots, params>>

(* A file of measurements that nobody filtered is as good.                 *)
TakeFile ==
  /\ step = "stored"
  /\ step' = "fetched"
  /\ UNCHANGED <<history, community, slots, params>>

(* aggregate_slots: consumption is positive, production negative.          *)
(* Mutant: the filter is not applied.                                      *)
Consumption(m) == IF m.energy >= 0 THEN m.energy ELSE 0
Production(m) == IF m.energy < 0 THEN - m.energy ELSE 0

Unfiltered(t) == {m \in history : m.slot = t}
Of(t) == {m \in history : m.slot = t /\ InCommunity(m)}

SlotAt(t) == [supply |-> SumFunction([m \in Of(t) |-> Production(m)]),
              demand |-> SumFunction([m \in Of(t) |-> Consumption(m)])]

TimesOf(measured) == {m.slot : m \in {x \in measured : InCommunity(x)}}

(* calibrate: without a single slot it raises.                             *)
Aggregate ==
  /\ step = "fetched"
  /\ slots' = [t \in TimesOf(history) |-> SlotAt(t)]
  /\ step' = IF TimesOf(history) = {} THEN "failed" ELSE "aggregated"
  /\ UNCHANGED <<history, community, params>>

-----------------------------------------------------------------------------
(* objective, times 2 * Cardinality(Usable), with alpha = 1/2: the worse   *)
(* off side's return of each slot, against the part of the band that is    *)
(* not used at the extreme ratios.                                         *)
Usable == {t \in DOMAIN slots : KLower < KUpper /\ slots[t].supply > 0 /\ slots[t].demand > 0}

PriceAt(t, p) == SigmoidPrice(slots[t].supply, slots[t].demand, KUpper, KLower, p[1], p[2])

Abundant(s, t) == slots[s].supply * slots[t].demand >= slots[t].supply * slots[s].demand
RichestSlot == CHOOSE s \in Usable : \A t \in Usable : Abundant(s, t)
ScarcestSlot == CHOOSE s \in Usable : \A t \in Usable : Abundant(t, s)

Objective(p) ==
  IF Usable = {} THEN 0
  ELSE LET Return(t) == Min({KUpper - PriceAt(t, p), PriceAt(t, p) - KLower})
           unused == (PriceAt(RichestSlot, p) - KLower) + (KUpper - PriceAt(ScarcestSlot, p))
       IN Cardinality(Usable) * unused - 2 * SumFunction([t \in Usable |-> Return(t)])

(* _grid_min: the first point of the least value, steepness being the      *)
(* inner loop.                                                             *)
Earlier(p, q) == p[1] < q[1] \/ (p[1] = q[1] /\ p[2] <= q[2])

Steps(from, to, n) == {from + ((to - from) * i) \div n : i \in 0 .. n}
Grid(first, last, n) == Steps(first[1], last[1], n) \X Steps(first[2], last[2], n)

GridMin(first, last, n) ==
  LET value == [p \in Grid(first, last, n) |-> Objective(p)] IN
  CHOOSE p \in DOMAIN value : \A q \in DOMAIN value :
    value[p] < value[q] \/ (value[p] = value[q] /\ Earlier(p, q))

(* optimize_params: the coarse pass over the box, and the fine one in the  *)
(* window of one coarse step around its best, clipped to the box.          *)
(* Mutant: the window begins beside the coarse optimum.                    *)
Width == Highest \div CoarseSteps
Beside == [k \in 1 .. 2 |-> Min({Highest - Width, params[k] + 1})]
LowCorner == [k \in 1 .. 2 |-> Max({0, params[k] - Width})]
HighCorner == [k \in 1 .. 2 |-> Min({Highest, params[k] + Width})]

Coarse ==
  /\ step = "aggregated"
  /\ params' = GridMin(<<0, 0>>, <<Highest, Highest>>, CoarseSteps)
  /\ step' = "coarse"
  /\ UNCHANGED <<history, community, slots>>

Refine ==
  /\ step = "coarse"
  /\ params' = GridMin(LowCorner, HighCorner, FineSteps)
  /\ step' = "calibrated"
  /\ UNCHANGED <<history, community, slots>>

CalibrationNext == Fetch \/ TakeFile \/ Aggregate \/ Coarse \/ Refine

-----------------------------------------------------------------------------
(* Whichever way the measurements came, the slots hold the energy of the   *)
(* community that was asked for, each measurement on one side, and every   *)
(* time at which the community was measured has its slot.                  *)
EnergyConserved ==
  step \in {"aggregated", "coarse", "calibrated"} =>
    LET mine == {m \in history : InCommunity(m)}
    IN /\ DOMAIN slots = {m.slot : m \in mine}
       /\ \A t \in DOMAIN slots :
            slots[t].demand - slots[t].supply = SumFunction([m \in {x \in mine : x.slot = t} |-> m.energy])

(* The search keeps what it has found: the parameters it returns lie in    *)
(* the box and are no worse than any point of the coarse grid, also where  *)
(* the fine window is clipped at a bound.  Without one slot in which both  *)
(* sides have energy nothing tells the points apart, and the job returns   *)
(* its first point, the flat price, without an error.                      *)
SearchKeepsBest ==
  step = "calibrated" =>
    /\ params \in (0 .. Highest) \X (0 .. Highest)
    /\ \A p \in Grid(<<0, 0>>, <<Highest, Highest>>, CoarseSteps) : Objective(params) <= Objective(p)
    /\ Usable = {} => params = <<0, 0>>
=============================================================================
