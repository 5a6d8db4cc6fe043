---------------------------- MODULE Season_proofs ----------------------------
(***************************************************************************)
(* What the calibration and the penalties promise for any histories, any   *)
(* grid that divides the box, and any reports and measurements.            *)
(***************************************************************************)
EXTENDS Season, FoldFacts

(* A finite set that is not empty has a best element in every order in     *)
(* which any two can be compared.                                          *)
LEMMA FiniteBest ==
  ASSUME NEW T, IsFiniteSet(T), T # {}, NEW R,
         \A x, y \in T : <<x, y>> \in R \/ <<y, x>> \in R,
         \A x, y, z \in T : <<x, y>> \in R /\ <<y, z>> \in R => <<x, z>> \in R
  PROVE  \E x \in T : \A y \in T : <<x, y>> \in R
<1> DEFINE Best(U, x) == \A y \in U : <<x, y>> \in R
           P == {U \in SUBSET T : U # {} => \E x \in U : Best(U, x)}
<1>1. ASSUME NEW U \in SUBSET T, \A x \in U : U \ {x} \in P
      PROVE  U \in P
  <2> SUFFICES ASSUME U # {}
               PROVE  \E x \in U : Best(U, x)
    OBVIOUS
  <2>1. PICK x \in U : TRUE
    OBVIOUS
  <2>2. <<x, x>> \in R
    OBVIOUS
  <2>3. CASE U \ {x} = {}
    <3>1. \A y \in U : y = x
      BY <2>3
    <3> QED
      BY <2>2, <3>1
  <2>4. CASE U \ {x} # {}
    <3>1. PICK z \in U \ {x} : Best(U \ {x}, z)
      BY <1>1, <2>1, <2>4
    <3>2. CASE <<z, x>> \in R
      BY <3>1, <3>2
    <3>3. CASE <<x, z>> \in R
      <4>1. ASSUME NEW y \in U
            PROVE  <<x, y>> \in R
        <5>1. CASE y = x
          BY <2>2, <5>1
        <5>2. CASE y # x
          <6>1. <<z, y>> \in R
            BY <3>1, <5>2
          <6> QED
            BY <3>3, <6>1, <2>1, <3>1
        <5> QED
          BY <5>1, <5>2
      <4> QED
        BY <4>1, <2>1
    <3> QED
      BY <2>1, <3>1, <3>2, <3>3
  <2> QED
    BY <2>3, <2>4
<1> HIDE DEF P
<1>2. \A U \in SUBSET T : U \in P
  BY <1>1, Growing
<1> QED
  BY <1>2 DEF P

(* The image of a finite set under a function is finite.                   *)
LEMMA FiniteImage ==
  ASSUME NEW T, IsFiniteSet(T), NEW f
  PROVE  IsFiniteSet({f[x] : x \in T})
<1> DEFINE Image(U) == {f[x] : x \in U}
           P == {U \in SUBSET T : IsFiniteSet(Image(U))}
<1>1. ASSUME NEW U \in SUBSET T, \A x \in U : U \ {x} \in P
      PROVE  IsFiniteSet(Image(U))
  <2>1. CASE U = {}
    <3>1. Image(U) = {}
      BY <2>1
    <3> QED
      BY <3>1, FS_EmptySet
  <2>2. CASE U # {}
    <3>1. PICK x \in U : TRUE
      BY <2>2
    <3>2. Image(U) = Image(U \ {x}) \cup {f[x]}
      BY <3>1
    <3>3. IsFiniteSet(Image(U \ {x}))
      BY <1>1, <3>1
    <3> HIDE DEF Image
    <3>4. IsFiniteSet(Image(U \ {x}) \cup {f[x]})
      BY <3>3, FS_AddElement
    <3> QED
      BY <3>2, <3>4
  <2> QED
    BY <2>1, <2>2
<1>2. \A U \in SUBSET T : (\A x \in U : U \ {x} \in P) => U \in P
  BY <1>1
<1> HIDE DEF P
<1>3. \A U \in SUBSET T : U \in P
  BY <1>2, Growing
<1> QED
  BY <1>3 DEF P

-----------------------------------------------------------------------------
(* The slots of an aggregated history.                                     *)
SlotsOK ==
  /\ IsFiniteSet(DOMAIN slots)
  /\ \A t \in DOMAIN slots : slots[t].supply \in Nat /\ slots[t].demand \in Nat

(* The price is a whole number, whatever the parameters are.               *)
LEMMA PriceInt ==
  ASSUME NEW supply, NEW demand, NEW upper \in Int, NEW lower \in Int, NEW theta, NEW steepness
  PROVE  SigmoidPrice(supply, demand, upper, lower, theta, steepness) \in Int
<1> DEFINE passed == {x \in Places : 100 * steepness * (supply - theta * demand) >= x * demand}
<1>1. IsFiniteSet(Places)
  <2>1. IsFiniteSet({-195}) /\ IsFiniteSet({-51}) /\ IsFiniteSet({51}) /\ IsFiniteSet({195})
    BY FS_Singleton
  <2>2. Places = (({-195} \cup {-51}) \cup {51}) \cup {195}
    BY DEF Places
  <2>3. IsFiniteSet({-195} \cup {-51})
    BY <2>1, FS_Union
  <2> DEFINE two == {-195} \cup {-51}
             three == two \cup {51}
  <2> HIDE DEF two
  <2>4. IsFiniteSet(three)
    BY <2>1, <2>3, FS_Union DEF two
  <2> HIDE DEF three
  <2>5. IsFiniteSet(three \cup {195})
    BY <2>1, <2>4, FS_Union
  <2> QED
    BY <2>2, <2>5 DEF two, three
<1>2. Cardinality(passed) \in Nat
  BY <1>1, FS_Subset, FS_CardinalityType
<1> QED
  BY <1>2 DEF SigmoidPrice, Quarters

(* A market and one of the same, counted in smaller units, have one price. *)
LEMMA PriceScales ==
  ASSUME NEW s \in Int, NEW d \in Int, NEW c \in Nat \ {0}, NEW upper, NEW lower,
         NEW theta \in Int, NEW steepness \in Int
  PROVE  SigmoidPrice(s * c, d * c, upper, lower, theta, steepness)
           = SigmoidPrice(s, d, upper, lower, theta, steepness)
<1> DEFINE a == 100 * steepness * (s - theta * d)
           b == 100 * steepness * (s * c - theta * (d * c))
<1>1. ASSUME NEW x \in Places
      PROVE  b >= x * (d * c) <=> a >= x * d
  <2>1. x \in Int
    BY DEF Places
  <2>2. b = a * c
    OBVIOUS
  <2>3. x * (d * c) = (x * d) * c
    BY <2>1
  <2>4. a \in Int /\ x * d \in Int
    BY <2>1
  <2> HIDE DEF a, b
  <2>5. \A y, z \in Int : y * c >= z * c <=> y >= z
    OBVIOUS
  <2> QED
    BY <2>2, <2>3, <2>4, <2>5
<1>2. {x \in Places : b >= x * (d * c)} = {x \in Places : a >= x * d}
  BY <1>1
<1> QED
  BY <1>2 DEF SigmoidPrice

(* Of the usable slots one is the richest and one the scarcest: the        *)
(* objective compares the prices of slots that exist.                      *)
LEMMA ExtremeSlots ==
  ASSUME SlotsOK, Usable # {}
  PROVE  RichestSlot \in Usable /\ ScarcestSlot \in Usable
<1>1. IsFiniteSet(Usable)
  BY FS_Subset DEF SlotsOK, Usable
<1>2. \A t \in Usable : slots[t].supply \in Nat \ {0} /\ slots[t].demand \in Nat \ {0}
  BY DEF SlotsOK, Usable
<1>3. \A s, t \in Usable : Abundant(s, t) \/ Abundant(t, s)
  BY <1>2 DEF Abundant
<1>4. ASSUME NEW r \in Usable, NEW s \in Usable, NEW t \in Usable, Abundant(r, s), Abundant(s, t)
      PROVE  Abundant(r, t)
  <2> DEFINE a == slots[r].supply
             b == slots[r].demand
             c == slots[s].supply
             d == slots[s].demand
             e == slots[t].supply
             f == slots[t].demand
  <2>1. a \in Nat /\ b \in Nat /\ c \in Nat /\ d \in Nat \ {0} /\ e \in Nat /\ f \in Nat
    BY <1>2
  <2>2. a * d >= c * b /\ c * f >= e * d
    BY <1>4 DEF Abundant
  <2> HIDE DEF a, b, c, d, e, f
  <2>3. (a * d) * f >= (c * b) * f /\ (c * f) * b >= (e * d) * b
    BY <2>1, <2>2
  <2>4. (a * f) * d >= (e * b) * d
    BY <2>1, <2>3
  <2>5. a * f \in Int /\ e * b \in Int
    BY <2>1
  <2>6. \A y, z \in Int : y * d >= z * d => y >= z
    BY <2>1
  <2>7. a * f >= e * b
    BY <2>4, <2>5, <2>6
  <2> QED
    BY <2>7 DEF Abundant, a, b, e, f
<1>5. \E s \in Usable : \A t \in Usable : Abundant(s, t)
  <2> DEFINE R == {ss \in Usable \X Usable : Abundant(ss[1], ss[2])}
  <2>1. \A s, t \in Usable : <<s, t>> \in R <=> Abundant(s, t)
    OBVIOUS
  <2> HIDE DEF R
  <2>2. \E s \in Usable : \A t \in Usable : <<s, t>> \in R
    BY <1>1, <1>3, <1>4, <2>1, FiniteBest
  <2> QED
    BY <2>1, <2>2
<1>6. \E s \in Usable : \A t \in Usable : Abundant(t, s)
  <2> DEFINE R == {ss \in Usable \X Usable : Abundant(ss[2], ss[1])}
  <2>1. \A s, t \in Usable : <<s, t>> \in R <=> Abundant(t, s)
    OBVIOUS
  <2> HIDE DEF R
  <2>2. \E s \in Usable : \A t \in Usable : <<s, t>> \in R
    BY <1>1, <1>3, <1>4, <2>1, FiniteBest
  <2> QED
    BY <2>1, <2>2
<1> QED
  BY <1>5, <1>6 DEF RichestSlot, ScarcestSlot

(* What the search compares are whole numbers.                             *)
LEMMA ObjectiveInt ==
  ASSUME SlotsOK, NEW p
  PROVE  Objective(p) \in Int
<1>1. CASE Usable = {}
  BY <1>1 DEF Objective
<1>2. CASE Usable # {}
  <2>1. IsFiniteSet(Usable)
    BY FS_Subset DEF SlotsOK, Usable
  <2>2. KUpper \in Int /\ KLower \in Int
    BY CalibrationAssumption
  <2>3. \A t : PriceAt(t, p) \in Int
    BY <2>2, PriceInt DEF PriceAt
  <2> DEFINE Return(t) == Min({KUpper - PriceAt(t, p), PriceAt(t, p) - KLower})
             f == [t \in Usable |-> Return(t)]
  <2>4. \A t : Return(t) \in Int
    <3> SUFFICES ASSUME NEW t
                 PROVE  Return(t) \in Int
      OBVIOUS
    <3> DEFINE a == KUpper - PriceAt(t, p)
               b == PriceAt(t, p) - KLower
    <3>1. a \in Int /\ b \in Int
      BY <2>2, <2>3
    <3> HIDE DEF a, b
    <3>2. \E x \in {a, b} : \A y \in {a, b} : x <= y
      BY <3>1
    <3>3. Min({a, b}) \in {a, b}
      BY <3>2 DEF Min
    <3> QED
      BY <3>1, <3>3 DEF a, b
  <2> HIDE DEF Return
  <2>5. Summands(f, Usable)
    BY <2>1, <2>4 DEF Summands
  <2>6. SumFunction(f) \in Int
    <3>1. DOMAIN f = Usable
      OBVIOUS
    <3> HIDE DEF f
    <3>2. SumFunctionOnSet(f, Usable) \in Int
      BY <2>5, SumInt
    <3> QED
      BY <3>1, <3>2 DEF SumFunction
  <2>7. Cardinality(Usable) \in Nat
    BY <2>1, FS_CardinalityType
  <2>8. Objective(p) = Cardinality(Usable)
                         * ((PriceAt(RichestSlot, p) - KLower) + (KUpper - PriceAt(ScarcestSlot, p)))
                         - 2 * SumFunction(f)
    BY <1>2 DEF Objective, Return
  <2> HIDE DEF f
  <2>9. PriceAt(RichestSlot, p) \in Int /\ PriceAt(ScarcestSlot, p) \in Int
    BY <2>3
  <2> QED
    BY <2>2, <2>6, <2>7, <2>8, <2>9
<1> QED
  BY <1>1, <1>2

-----------------------------------------------------------------------------
(* The grids of the search.  A step that divides evenly, and one that does *)
(* not leave its interval.                                                 *)
LEMMA EvenStep ==
  ASSUME NEW a \in Nat, NEW n \in Nat \ {0}
  PROVE  (a * n) \div n = a
OBVIOUS

(* The points of a grid lie in its box, and its first corner is one.       *)
LEMMA StepBounds ==
  ASSUME NEW a \in Nat, NEW n \in Nat \ {0}, NEW i \in 0 .. n
  PROVE  (a * i) \div n \in 0 .. a
<1>1. a * i \in Nat /\ a * i <= a * n
  OBVIOUS
<1>2. \A b \in Nat : b <= a * n => b \div n \in 0 .. a
  OBVIOUS
<1> QED
  BY <1>1, <1>2

(* Both ends of an interval are points of its grid, and no point is        *)
(* outside.                                                                *)
LEMMA StepsSpan ==
  ASSUME NEW from \in Int, NEW to \in Int, from <= to, NEW n \in Nat \ {0}
  PROVE  /\ IsFiniteSet(Steps(from, to, n))
         /\ Steps(from, to, n) \subseteq from .. to
         /\ from \in Steps(from, to, n)
         /\ to \in Steps(from, to, n)
<1> DEFINE a == to - from
           point(i) == from + (a * i) \div n
<1>1. a \in Nat
  OBVIOUS
<1>2. Steps(from, to, n) = {point(i) : i \in 0 .. n}
  BY DEF Steps
<1>4. ASSUME NEW i \in 0 .. n
      PROVE  point(i) \in from .. to
  <2>1. (a * i) \div n \in 0 .. a
    BY <1>1, StepBounds
  <2> HIDE DEF a
  <2> QED
    BY <2>1 DEF a
<1>5. point(0) = from /\ point(n) = to
  <2>1. (a * n) \div n = a
    BY <1>1, EvenStep
  <2>2. (a * 0) \div n = 0
    BY <1>1
  <2> QED
    BY <2>1, <2>2
<1>6. 0 \in 0 .. n /\ n \in 0 .. n
  OBVIOUS
<1> HIDE DEF point
<1>7. Steps(from, to, n) \subseteq from .. to
  BY <1>2, <1>4
<1>8. IsFiniteSet(Steps(from, to, n))
  BY <1>7, FS_Interval, FS_Subset
<1> QED
  BY <1>2, <1>5, <1>6, <1>7, <1>8

(* A point of the plane, and the box between two of them.                  *)
Box(first, last) == (first[1] .. last[1]) \X (first[2] .. last[2])

Corners(first, last) ==
  /\ first \in Int \X Int /\ last \in Int \X Int
  /\ first[1] <= last[1] /\ first[2] <= last[2]

LEMMA GridInBox ==
  ASSUME NEW first, NEW last, Corners(first, last), NEW n \in Nat \ {0}
  PROVE  /\ IsFiniteSet(Grid(first, last, n))
         /\ Grid(first, last, n) \subseteq Box(first, last)
         /\ first \in Grid(first, last, n)
<1>1. /\ first[1] \in Int /\ first[2] \in Int /\ last[1] \in Int /\ last[2] \in Int
      /\ first = <<first[1], first[2]>>
      /\ first[1] <= last[1] /\ first[2] <= last[2]
  BY DEF Corners
<1> DEFINE X == Steps(first[1], last[1], n)
           Y == Steps(first[2], last[2], n)
<1>2. IsFiniteSet(X) /\ X \subseteq first[1] .. last[1] /\ first[1] \in X
  BY <1>1, StepsSpan
<1>3. IsFiniteSet(Y) /\ Y \subseteq first[2] .. last[2] /\ first[2] \in Y
  BY <1>1, StepsSpan
<1> HIDE DEF X, Y
<1>4. IsFiniteSet(X \X Y) /\ X \X Y \subseteq Box(first, last) /\ first \in X \X Y
  BY <1>1, <1>2, <1>3, FS_Product DEF Box
<1> QED
  BY <1>4 DEF Grid, X, Y

(* The minimum over a grid is a point of it, no other point of it has a    *)
(* lower value, and of several of the lowest value it is the first.        *)
LEMMA GridMinIsMin ==
  ASSUME SlotsOK, NEW first, NEW last, Corners(first, last), NEW n \in Nat \ {0}
  PROVE  /\ GridMin(first, last, n) \in Grid(first, last, n)
         /\ \A q \in Grid(first, last, n) :
              \/ Objective(GridMin(first, last, n)) < Objective(q)
              \/ /\ Objective(GridMin(first, last, n)) = Objective(q)
                 /\ Earlier(GridMin(first, last, n), q)
<1> DEFINE G == Grid(first, last, n)
           value == [p \in G |-> Objective(p)]
           Before(p, q) == value[p] < value[q] \/ (value[p] = value[q] /\ Earlier(p, q))
           R == {pq \in G \X G : Before(pq[1], pq[2])}
<1>1. IsFiniteSet(G) /\ G \subseteq Box(first, last) /\ first \in G
  BY GridInBox
<1>2. \A p \in G : p \in Int \X Int
  BY <1>1 DEF Box, Corners
<1>3. \A p \in G : value[p] = Objective(p) /\ value[p] \in Int
  BY ObjectiveInt
<1>4. DOMAIN value = G
  OBVIOUS
<1>5. GridMin(first, last, n) = CHOOSE p \in DOMAIN value : \A q \in DOMAIN value : Before(p, q)
  BY DEF GridMin
<1> HIDE DEF value, G
<1>6. \A p, q \in G : Before(p, q) \/ Before(q, p)
  BY <1>2, <1>3 DEF Earlier
<1>7. \A p, q, r \in G : Before(p, q) /\ Before(q, r) => Before(p, r)
  <2> SUFFICES ASSUME NEW p \in G, NEW q \in G, NEW r \in G, Before(p, q), Before(q, r)
               PROVE  Before(p, r)
    OBVIOUS
  <2>1. /\ value[p] \in Int /\ value[q] \in Int /\ value[r] \in Int
        /\ p[1] \in Int /\ p[2] \in Int /\ q[1] \in Int /\ q[2] \in Int /\ r[1] \in Int /\ r[2] \in Int
    BY <1>2, <1>3
  <2> QED
    BY <2>1 DEF Earlier
<1>8. \A p, q \in G : <<p, q>> \in R <=> Before(p, q)
  OBVIOUS
<1> HIDE DEF R, Before
<1>9. \E p \in G : \A q \in G : <<p, q>> \in R
  BY <1>1, <1>6, <1>7, <1>8, FiniteBest
<1>10. \E p \in G : \A q \in G : Before(p, q)
  BY <1>8, <1>9
<1>11. GridMin(first, last, n) \in G /\ \A q \in G : Before(GridMin(first, last, n), q)
  BY <1>4, <1>5, <1>10
<1> QED
  BY <1>3, <1>11 DEF Before, G

-----------------------------------------------------------------------------
(* The objective is a function of the slots and of the point alone.        *)
LEMMA ObjectiveSteady ==
  ASSUME slots' = slots
  PROVE  Usable' = Usable /\ \A p : Objective(p)' = Objective(p)
<1>1. Usable' = Usable
  BY DEF Usable
<1>2. \A t, p : PriceAt(t, p)' = PriceAt(t, p)
  BY DEF PriceAt
<1>3. \A s, t : Abundant(s, t)' = Abundant(s, t)
  BY DEF Abundant
<1>4. RichestSlot' = RichestSlot
  BY DEF RichestSlot, Abundant, Usable
<1>5. ScarcestSlot' = ScarcestSlot
  BY DEF ScarcestSlot, Abundant, Usable
<1>6. ASSUME NEW p
      PROVE  Objective(p)' = Objective(p)
  BY <1>1, <1>2, <1>4, <1>5 DEF Objective
<1> QED
  BY <1>1, <1>6

LEMMA MinOfTwo ==
  ASSUME NEW a \in Int, NEW b \in Int
  PROVE  Min({a, b}) = IF a <= b THEN a ELSE b
<1>1. \E x \in {a, b} : \A y \in {a, b} : x <= y
  OBVIOUS
<1>2. Min({a, b}) \in {a, b} /\ \A y \in {a, b} : Min({a, b}) <= y
  BY <1>1 DEF Min
<1> QED
  BY <1>2

LEMMA MaxOfTwo ==
  ASSUME NEW a \in Int, NEW b \in Int
  PROVE  Max({a, b}) = IF a >= b THEN a ELSE b
<1>1. \E x \in {a, b} : \A y \in {a, b} : x >= y
  OBVIOUS
<1>2. Max({a, b}) \in {a, b} /\ \A y \in {a, b} : Max({a, b}) >= y
  BY <1>1 DEF Max
<1> QED
  BY <1>2

CoarseGrid == Grid(<<0, 0>>, <<Highest, Highest>>, CoarseSteps)

(* The fine steps are an even number, and the coarse ones divide the box,  *)
(* so the fine grid has the coarse optimum in its middle.                  *)
LEMMA WidthDivides ==
  /\ Width \in Nat /\ Highest = Width * CoarseSteps
  /\ \E h \in Nat \ {0} : FineSteps = 2 * h
<1>1. Highest \in Nat /\ CoarseSteps \in Nat \ {0} /\ Highest % CoarseSteps = 0
  BY CalibrationAssumption
<1>2. FineSteps \in Nat \ {0} /\ FineSteps % 2 = 0
  BY CalibrationAssumption
<1>3. Width \in Nat /\ Highest = Width * CoarseSteps
  BY <1>1 DEF Width
<1>4. FineSteps \div 2 \in Nat \ {0} /\ FineSteps = 2 * (FineSteps \div 2)
  BY <1>2
<1> QED
  BY <1>3, <1>4

(* One coordinate of the fine window: it lies in the box, and the point    *)
(* around which it was laid is one of its steps, also at a bound.          *)
LEMMA WindowSteps ==
  ASSUME NEW x \in Steps(0, Highest, CoarseSteps), NEW low, NEW high,
         low = Max({0, x - Width}), high = Min({Highest, x + Width})
  PROVE  /\ x \in 0 .. Highest
         /\ low \in 0 .. x /\ high \in x .. Highest
         /\ x \in Steps(low, high, FineSteps)
<1>1. Highest \in Nat /\ CoarseSteps \in Nat \ {0} /\ FineSteps \in Nat \ {0}
  BY CalibrationAssumption
<1>2. Width \in Nat /\ Highest = Width * CoarseSteps
  BY WidthDivides
<1>3. PICK h \in Nat \ {0} : FineSteps = 2 * h
  BY WidthDivides
<1>4. PICK i \in 0 .. CoarseSteps : x = (Highest * i) \div CoarseSteps
  BY <1>1 DEF Steps
<1>5. x = Width * i
  <2>1. Highest * i = (Width * i) * CoarseSteps
    BY <1>1, <1>2
  <2>2. Width * i \in Nat
    BY <1>2
  <2> HIDE <1>2
  <2> QED
    BY <1>1, <1>4, <2>1, <2>2, EvenStep
<1>6. x \in 0 .. Highest
  BY <1>1, <1>4, StepBounds
<1>7. low = (IF 0 >= x - Width THEN 0 ELSE x - Width)
  BY <1>2, <1>6, MaxOfTwo
<1>8. high = (IF Highest <= x + Width THEN Highest ELSE x + Width)
  BY <1>1, <1>2, <1>6, MinOfTwo
<1>9. low \in 0 .. x /\ high \in x .. Highest
  BY <1>1, <1>2, <1>6, <1>7, <1>8
<1>10. CASE i = 0
  <2>1. x = 0 /\ low = 0
    BY <1>2, <1>5, <1>7, <1>10
  <2> QED
    BY <1>1, <1>6, <1>9, <2>1, StepsSpan
<1>11. CASE i = CoarseSteps
  <2>1. x = Highest /\ high = Highest
    BY <1>1, <1>2, <1>5, <1>8, <1>11
  <2> QED
    BY <1>1, <1>6, <1>9, <2>1, StepsSpan
<1>12. CASE i \in 1 .. (CoarseSteps - 1)
  <2>1. Width * 1 <= Width * i /\ Width * i + Width <= Width * CoarseSteps
    <3>1. Width * i + Width = Width * (i + 1)
      BY <1>2
    <3> QED
      BY <1>1, <1>2, <1>12, <3>1
  <2>2. low = x - Width /\ high = x + Width
    BY <1>1, <1>2, <1>5, <1>6, <1>7, <1>8, <2>1
  <2>3. (high - low) * h = Width * FineSteps
    BY <1>2, <1>3, <1>6, <2>2
  <2>4. ((high - low) * h) \div FineSteps = Width
    BY <1>1, <1>2, <2>3, EvenStep
  <2>5. x = low + ((high - low) * h) \div FineSteps /\ h \in 0 .. FineSteps
    BY <1>2, <1>3, <1>6, <2>2, <2>4
  <2> QED
    BY <1>6, <1>9, <2>5 DEF Steps
<1> QED
  BY <1>1, <1>6, <1>9, <1>10, <1>11, <1>12

(* The fine grid contains the coarse optimum and stays in the box.         *)
LEMMA WindowGrid ==
  ASSUME params \in CoarseGrid
  PROVE  /\ Corners(LowCorner, HighCorner)
         /\ params \in Grid(LowCorner, HighCorner, FineSteps)
         /\ Box(LowCorner, HighCorner) \subseteq (0 .. Highest) \X (0 .. Highest)
<1> DEFINE S == Steps(0, Highest, CoarseSteps)
<1>1. params = <<params[1], params[2]>> /\ params[1] \in S /\ params[2] \in S
  <2>1. CoarseGrid = S \X S
    BY DEF CoarseGrid, Grid
  <2> HIDE DEF S
  <2> QED
    BY <2>1
<1>2. /\ LowCorner[1] = Max({0, params[1] - Width}) /\ HighCorner[1] = Min({Highest, params[1] + Width})
      /\ LowCorner[2] = Max({0, params[2] - Width}) /\ HighCorner[2] = Min({Highest, params[2] + Width})
  BY DEF LowCorner, HighCorner
<1>3. LowCorner = <<LowCorner[1], LowCorner[2]>> /\ HighCorner = <<HighCorner[1], HighCorner[2]>>
  BY DEF LowCorner, HighCorner
<1>4. /\ params[1] \in 0 .. Highest
      /\ LowCorner[1] \in 0 .. params[1] /\ HighCorner[1] \in params[1] .. Highest
      /\ params[1] \in Steps(LowCorner[1], HighCorner[1], FineSteps)
  BY <1>1, <1>2, WindowSteps
<1>5. /\ params[2] \in 0 .. Highest
      /\ LowCorner[2] \in 0 .. params[2] /\ HighCorner[2] \in params[2] .. Highest
      /\ params[2] \in Steps(LowCorner[2], HighCorner[2], FineSteps)
  BY <1>1, <1>2, WindowSteps
<1>6. Highest \in Nat
  BY CalibrationAssumption
<1> HIDE DEF S
<1>7. params \in Grid(LowCorner, HighCorner, FineSteps)
  BY <1>1, <1>4, <1>5 DEF Grid
<1>8. Corners(LowCorner, HighCorner)
  BY <1>3, <1>4, <1>5, <1>6 DEF Corners
<1>9. Box(LowCorner, HighCorner) \subseteq (0 .. Highest) \X (0 .. Highest)
  BY <1>4, <1>5, <1>6 DEF Box
<1> QED
  BY <1>7, <1>8, <1>9

-----------------------------------------------------------------------------
(* The invariant of the calibration.                                       *)
HistoryOK == IsFiniteSet(history) /\ \A m \in history : m.energy \in Int

SlotsMade ==
  step \in {"aggregated", "coarse", "calibrated"} => slots = [t \in TimesOf(history) |-> SlotAt(t)]

BestOfCoarse ==
  step = "coarse" =>
    /\ params \in CoarseGrid
    /\ \A p \in CoarseGrid : Objective(params) <= Objective(p)
    /\ Usable = {} => params = <<0, 0>>

CalibrationInv ==
  /\ HistoryOK
  /\ params \in Nat \X Nat
  /\ SlotsMade
  /\ BestOfCoarse
  /\ SearchKeepsBest

(* Each measurement counts for one side, so that the sides of a slot       *)
(* differ by the net energy of its measurements.                           *)
LEMMA SidesOfSlot ==
  ASSUME HistoryOK, NEW t
  PROVE  /\ IsFiniteSet(Of(t))
         /\ SlotAt(t).supply \in Nat /\ SlotAt(t).demand \in Nat
         /\ SlotAt(t).demand - SlotAt(t).supply = SumFunctionOnSet([m \in Of(t) |-> m.energy], Of(t))
<1> DEFINE f == [m \in Of(t) |-> Consumption(m)]
           g == [m \in Of(t) |-> Production(m)]
           h == [m \in Of(t) |-> m.energy]
           T == Of(t)
<1>1. IsFiniteSet(T) /\ \A m \in T : m.energy \in Int
  BY FS_Subset DEF HistoryOK, Of
<1>2. \A m \in T : f[m] \in Nat /\ g[m] \in Nat /\ h[m] \in Int /\ f[m] = h[m] + g[m]
  BY <1>1 DEF Consumption, Production
<1>3. SlotAt(t).supply = SumFunctionOnSet(g, T) /\ SlotAt(t).demand = SumFunctionOnSet(f, T)
  BY DEF SlotAt, SumFunction
<1> HIDE DEF f, g, h, T
<1>4. Summands(h, T) /\ Summands(g, T)
  BY <1>1, <1>2 DEF Summands
<1>5. SumFunctionOnSet(g, T) \in Nat /\ SumFunctionOnSet(f, T) \in Nat
  BY <1>1, <1>2, SumNat
<1>6. SumFunctionOnSet(f, T) = SumFunctionOnSet(h, T) + SumFunctionOnSet(g, T)
  BY <1>2, <1>4, SumPlus
<1>7. SumFunctionOnSet(h, T) \in Int
  BY <1>4, SumInt
<1>8. /\ SlotAt(t).supply \in Nat /\ SlotAt(t).demand \in Nat
      /\ SlotAt(t).demand - SlotAt(t).supply = SumFunctionOnSet(h, T)
  BY <1>3, <1>5, <1>6, <1>7
<1> QED
  BY <1>1, <1>8 DEF h, T

(* The slots made of the history are typed, and hold its energy.           *)
LEMMA SlotsAreOK ==
  ASSUME HistoryOK, slots = [t \in TimesOf(history) |-> SlotAt(t)]
  PROVE  SlotsOK
<1>1. IsFiniteSet(DOMAIN slots)
  <2> DEFINE mine == {x \in history : InCommunity(x)}
             time == [m \in mine |-> m.slot]
  <2>1. IsFiniteSet(mine)
    BY FS_Subset DEF HistoryOK
  <2>2. DOMAIN slots = {time[m] : m \in mine}
    BY DEF TimesOf
  <2> HIDE DEF mine, time
  <2> QED
    BY <2>1, <2>2, FiniteImage
<1>2. \A t \in DOMAIN slots : slots[t] = SlotAt(t)
  OBVIOUS
<1> QED
  BY <1>1, <1>2, SidesOfSlot DEF SlotsOK

LEMMA EnergyFollows ==
  ASSUME HistoryOK, SlotsMade
  PROVE  EnergyConserved
<1> DEFINE mine == {m \in history : InCommunity(m)}
<1> SUFFICES ASSUME step \in {"aggregated", "coarse", "calibrated"}
             PROVE  /\ DOMAIN slots = {m.slot : m \in mine}
                    /\ \A t \in DOMAIN slots :
                         slots[t].demand - slots[t].supply
                           = SumFunction([m \in {x \in mine : x.slot = t} |-> m.energy])
  BY DEF EnergyConserved
<1>1. slots = [t \in TimesOf(history) |-> SlotAt(t)]
  BY DEF SlotsMade
<1>2. DOMAIN slots = {m.slot : m \in mine}
  BY <1>1 DEF TimesOf
<1>3. ASSUME NEW t \in DOMAIN slots
      PROVE  slots[t].demand - slots[t].supply
               = SumFunction([m \in {x \in mine : x.slot = t} |-> m.energy])
  <2>1. {x \in mine : x.slot = t} = Of(t)
    BY DEF Of
  <2>2. slots[t] = SlotAt(t)
    BY <1>1
  <2>3. SumFunction([m \in Of(t) |-> m.energy]) = SumFunctionOnSet([m \in Of(t) |-> m.energy], Of(t))
    BY DEF SumFunction
  <2> HIDE DEF mine
  <2>4. slots[t].demand - slots[t].supply = SumFunction([m \in Of(t) |-> m.energy])
    BY <2>2, <2>3, SidesOfSlot
  <2> QED
    BY <2>1, <2>4
<1> QED
  BY <1>2, <1>3

-----------------------------------------------------------------------------
(* The market and its trades.                                              *)
Placed ==
  /\ reported \in [Orders -> Nat \ {0}]
  /\ partners \in SUBSET (Bids \X Offers) /\ IsFiniteSet(partners)

MadeTrades ==
  {t \in {Trade(p[1], p[2], DirectEnergy(p[1], p[2])) : p \in partners}
           \cup {Trade(i, Pool, Share(i) - DirectOf(i)) : i \in Bids}
           \cup {Trade(Pool, j, Share(j) - DirectOf(j)) : j \in Offers} : t.energy > 0}

DuePenalties == [t \in trades |-> Penalty(Rule, Market, t, Pool, Measured(OwnerOf(t)))]

LEMMA Totals ==
  ASSUME Placed, NEW orders \in SUBSET Orders
  PROVE  /\ IsFiniteSet(orders)
         /\ Total(orders) \in Nat
         /\ \A o \in orders : reported[o] <= Total(orders)
<1>1. IsFiniteSet(Orders)
  BY SeasonAssumption, FS_Union DEF Orders
<1>2. IsFiniteSet(orders)
  BY <1>1, FS_Subset
<1>3. \A o \in orders : reported[o] \in Nat
  BY DEF Placed
<1> QED
  BY <1>2, <1>3, SumNat DEF Total

(* The smaller side is traded in full.                                     *)
LEMMA TradedIsLeast ==
  ASSUME Placed
  PROVE  /\ Supply \in Nat /\ Demand \in Nat
         /\ Traded = IF Supply <= Demand THEN Supply ELSE Demand
<1>1. Supply \in Nat /\ Demand \in Nat
  BY Totals DEF Supply, Demand, Orders
<1> QED
  BY <1>1, MinOfTwo DEF Traded

(* A share is no more than what the order is for, and on the side that is  *)
(* served it is that.                                                      *)
LEMMA ShareBounds ==
  ASSUME Placed, NEW o \in Orders
  PROVE  /\ Parts \in Nat /\ reported[o] \in Nat \ {0}
         /\ Share(o) \in Nat /\ Share(o) <= reported[o] * Parts
         /\ o \in Bids /\ Demand <= Supply => Share(o) = reported[o] * Parts
         /\ o \in Offers /\ Supply <= Demand => Share(o) = reported[o] * Parts
         /\ Parts > 0 => Share(o) > 0
<1> DEFINE r == reported[o]
           c == Traded * (IF o \in Bids THEN Supply ELSE Demand)
<1>1. r \in Nat \ {0}
  BY DEF Placed
<1>2. Supply \in Nat /\ Demand \in Nat /\ Traded = IF Supply <= Demand THEN Supply ELSE Demand
  BY TradedIsLeast
<1>3. Parts = Supply * Demand
  BY DEF Parts
<1>4. (o \in Bids /\ o \notin Offers) \/ (o \in Offers /\ o \notin Bids)
  BY SeasonAssumption DEF Orders
<1>5. Share(o) = r * c
  <2>1. Share(o) = r * Traded * (IF o \in Bids THEN Supply ELSE Demand)
    BY DEF Share
  <2> HIDE DEF r
  <2> QED
    BY <1>1, <1>2, <2>1
<1> HIDE DEF r
<1>6. c \in Nat /\ c <= Supply * Demand
  <2>1. CASE o \in Bids
    BY <1>2, <2>1
  <2>2. CASE o \in Offers /\ o \notin Bids
    BY <1>2, <2>2
  <2> QED
    BY <1>4, <2>1, <2>2
<1>7. /\ o \in Bids /\ Demand <= Supply => c = Supply * Demand
      /\ o \in Offers /\ Supply <= Demand => c = Supply * Demand
  BY <1>2, <1>4
<1>8. Supply * Demand > 0 => c > 0
  <2> SUFFICES ASSUME Supply * Demand > 0
               PROVE  c > 0
    OBVIOUS
  <2>1. Supply > 0 /\ Demand > 0
    BY <1>2
  <2>2. Traded > 0 /\ Traded \in Nat
    BY <1>2, <2>1
  <2> QED
    BY <1>2, <2>1, <2>2
<1> HIDE DEF c
<1>9. Supply * Demand \in Nat
  BY <1>2
<1>10. r * c \in Nat /\ r * c <= r * Parts /\ (c > 0 => r * c > 0)
  BY <1>1, <1>3, <1>6, <1>9
<1> QED
  BY <1>1, <1>3, <1>5, <1>7, <1>8, <1>9, <1>10 DEF r

(* The energy an order trades with a partner, if it has one.               *)
LEMMA DirectIsTraded ==
  ASSUME Placed, NEW o \in Orders
  PROVE  /\ \A p \in partners : DirectEnergy(p[1], p[2]) \in Nat
         /\ DirectOf(o) \in Nat
         /\ DirectOf(o) # 0 =>
              \E p \in partners : o \in {p[1], p[2]} /\ DirectEnergy(p[1], p[2]) > 0
<1> DEFINE T == {p \in partners : o \in {p[1], p[2]}}
           f == [pair \in T |-> DirectEnergy(pair[1], pair[2])]
<1>1. \A p \in partners : DirectEnergy(p[1], p[2]) \in Nat
  <2> SUFFICES ASSUME NEW p \in partners
               PROVE  DirectEnergy(p[1], p[2]) \in Nat
    OBVIOUS
  <2>1. p[1] \in Orders /\ p[2] \in Orders
    BY DEF Placed, Orders
  <2>2. Share(p[1]) \in Nat /\ Share(p[2]) \in Nat
    BY <2>1, ShareBounds
  <2>3. Min({Share(p[1]), Share(p[2])}) \in Nat
    BY <2>2, MinOfTwo
  <2> QED
    BY <2>3 DEF DirectEnergy
<1>2. IsFiniteSet(T)
  BY FS_Subset DEF Placed
<1>3. DirectOf(o) = SumFunctionOnSet(f, T)
  BY DEF DirectOf, SumFunction
<1>4. \A p \in T : f[p] = DirectEnergy(p[1], p[2]) /\ f[p] \in Nat
  BY <1>1
<1>5. \A p \in T : p \in partners /\ o \in {p[1], p[2]}
  OBVIOUS
<1> HIDE DEF f, T
<1>6. DirectOf(o) \in Nat
  BY <1>2, <1>3, <1>4, SumNat
<1>7. (\A p \in T : f[p] = 0) => DirectOf(o) = 0
  BY <1>2, <1>3, SumZero
<1> QED
  BY <1>1, <1>4, <1>5, <1>6, <1>7

(* A facility of which only one trade is known, and that with the pool,    *)
(* has one order, and has traded with nobody else.                         *)
LEMMA OneTradeOneOrder ==
  ASSUME Placed, trades = MadeTrades, Parts > 0, NEW t \in trades, Pool \in {t.bid, t.offer},
         TradesOf(OwnerOf(t)) = {t}
  PROVE  \E o \in Orders : /\ OrdersOf(OwnerOf(t)) = {o}
                           /\ t.energy = Share(o)
                           /\ t.bid = Pool => o \in Offers /\ t.offer # Pool
                           /\ t.bid # Pool => o \in Bids /\ t.offer = Pool
<1> DEFINE f == OwnerOf(t)
           Rest(o) == IF o \in Bids THEN Trade(o, Pool, Share(o) - DirectOf(o))
                      ELSE Trade(Pool, o, Share(o) - DirectOf(o))
           o == IF t.offer = Pool THEN t.bid ELSE t.offer
<1>1. Pool \notin Bids /\ Pool \notin Offers /\ Bids \cap Offers = {}
  BY SeasonAssumption
<1>2. ASSUME NEW k \in OrdersOf(f)
      PROVE  DirectOf(k) = 0 /\ t = Rest(k)
  <2>1. k \in Orders /\ facility[k] = f
    BY DEF OrdersOf
  <2>2. ASSUME DirectOf(k) # 0
        PROVE  FALSE
    <3>1. PICK p \in partners : k \in {p[1], p[2]} /\ DirectEnergy(p[1], p[2]) > 0
      BY <2>1, <2>2, DirectIsTraded
    <3>2. p[1] \in Bids /\ p[2] \in Offers
      BY DEF Placed
    <3> DEFINE d == Trade(p[1], p[2], DirectEnergy(p[1], p[2]))
    <3>3. d.bid = p[1] /\ d.offer = p[2] /\ d.energy > 0
      BY <3>1 DEF Trade
    <3>4. d \in trades
      BY <3>3 DEF MadeTrades
    <3> HIDE DEF d
    <3>5. d \in TradesOf(f)
      BY <3>1, <3>3, <3>4 DEF TradesOf
    <3> QED
      BY <1>1, <3>2, <3>3, <3>5
  <2>3. Share(k) > 0 /\ Share(k) \in Nat
    BY <2>1, ShareBounds
  <2>4. Rest(k).energy > 0 /\ k \in {Rest(k).bid, Rest(k).offer}
    BY <2>2, <2>3 DEF Trade
  <2>5. Rest(k) \in trades
    BY <2>1, <2>4 DEF MadeTrades, Orders
  <2>6. Rest(k) \in TradesOf(f)
    BY <2>4, <2>5 DEF TradesOf, OrdersOf
  <2> QED
    BY <2>2, <2>6
<1>3. /\ o \in Orders /\ facility[o] = f
      /\ t.bid = Pool => o \in Offers /\ t.offer # Pool
      /\ t.bid # Pool => o \in Bids /\ t.offer = Pool
  <2>1. \/ \E p \in partners : t.bid = p[1] /\ t.offer = p[2]
        \/ t.bid \in Bids /\ t.offer = Pool
        \/ t.bid = Pool /\ t.offer \in Offers
    BY DEF MadeTrades, Trade
  <2>2. \A p \in partners : p[1] # Pool /\ p[2] # Pool
    BY <1>1 DEF Placed
  <2> QED
    BY <1>1, <2>1, <2>2 DEF Orders, OwnerOf
<1>4. o \in OrdersOf(f) /\ \A k \in OrdersOf(f) : k \in Orders
  BY <1>3 DEF OrdersOf
<1>5. ASSUME NEW k \in OrdersOf(f)
      PROVE  k = o /\ t.energy = Share(k)
  <2>1. t = Rest(k) /\ DirectOf(k) = 0 /\ k \in Orders
    BY <1>2, <1>4
  <2>2. Share(k) \in Nat
    BY <2>1, ShareBounds
  <2> QED
    BY <1>1, <2>1, <2>2 DEF Trade, Orders
<1>6. OrdersOf(f) = {o} /\ t.energy = Share(o)
  BY <1>4, <1>5
<1> HIDE DEF o
<1> QED
  BY <1>3, <1>6

(* A trade with the pool is made of a share.                               *)
LEMMA PoolTradeParts ==
  ASSUME Placed, trades = MadeTrades, NEW t \in trades, Pool \in {t.bid, t.offer}
  PROVE  Parts > 0
<1>1. t.energy > 0 /\ \E o \in Orders : t.energy = Share(o) - DirectOf(o)
  <2>1. \A p \in partners : p[1] # Pool /\ p[2] # Pool
    BY SeasonAssumption DEF Placed
  <2> QED
    BY <2>1 DEF MadeTrades, Trade, Orders
<1>2. PICK o \in Orders : t.energy = Share(o) - DirectOf(o)
  BY <1>1
<1>3. /\ Share(o) \in Nat /\ DirectOf(o) \in Nat /\ Parts \in Nat
      /\ reported[o] \in Nat /\ Share(o) <= reported[o] * Parts
  BY ShareBounds, DirectIsTraded
<1>4. Share(o) > 0
  BY <1>1, <1>2, <1>3
<1> QED
  BY <1>3, <1>4

(* What a facility is charged whose only trade is with the pool, and which *)
(* had or needed what it reported.                                         *)
LEMMA NothingIsDue ==
  ASSUME Placed, params \in Nat \X Nat, trades = MadeTrades, NEW t \in trades,
         Truthful(OwnerOf(t)), TradesOf(OwnerOf(t)) = {t}
  PROVE  Penalty(Rule, Market, t, Pool, Measured(OwnerOf(t))) = 0
<1> DEFINE measured == Measured(OwnerOf(t))
<1>1. CASE t.bid # Pool /\ t.offer # Pool
  BY <1>1 DEF Penalty
<1>2. CASE Pool \in {t.bid, t.offer}
  <2>1. Parts > 0
    BY <1>2, PoolTradeParts
  <2>2. PICK o \in Orders : /\ OrdersOf(OwnerOf(t)) = {o}
                            /\ t.energy = Share(o)
                            /\ t.bid = Pool => o \in Offers /\ t.offer # Pool
                            /\ t.bid # Pool => o \in Bids /\ t.offer = Pool
    BY <1>2, <2>1, OneTradeOneOrder
  <2>3. /\ Parts \in Nat \ {0} /\ reported[o] \in Nat \ {0}
        /\ Share(o) \in Nat /\ Share(o) <= reported[o] * Parts
        /\ o \in Bids /\ Demand <= Supply => Share(o) = reported[o] * Parts
        /\ o \in Offers /\ Supply <= Demand => Share(o) = reported[o] * Parts
    BY <2>1, ShareBounds
  <2>4. Total({o}) = reported[o]
    <3>1. IsFiniteSet({o}) /\ \A y \in {o} \ {o} : reported[y] = 0
      BY FS_Singleton
    <3> QED
      BY <2>3, <3>1, SumSingle DEF Total
  <2>5. measured = reported[o] * Parts
    BY <2>2, <2>4 DEF Truthful
  <2>6. Supply \in Nat /\ Demand \in Nat
    BY TradedIsLeast
  <2>7. /\ Market.supply = Supply * Parts /\ Market.demand = Demand * Parts
        /\ Market.price = Price /\ Rule.upper = KUpper /\ KUpper \in Nat
    BY CalibrationAssumption DEF Market, Rule
  <2>8. PriceOf(Rule, Market.supply, Market.demand) = Market.price /\ Market.price \in Int
    <3>1. params[1] \in Int /\ params[2] \in Int /\ KUpper \in Int /\ KLower \in Int
      BY CalibrationAssumption
    <3>2. SigmoidPrice(Supply * Parts, Demand * Parts, KUpper, KLower, params[1], params[2])
            = SigmoidPrice(Supply, Demand, KUpper, KLower, params[1], params[2])
      BY <2>3, <2>6, <3>1, PriceScales
    <3>3. SigmoidPrice(Supply, Demand, KUpper, KLower, params[1], params[2]) \in Int
      BY <3>1, PriceInt
    <3> QED
      BY <2>7, <3>2, <3>3 DEF Price, PriceOf, Rule
  <2>9. SupplyLimited(Market) => Supply <= Demand
    BY <2>3, <2>6, <2>7 DEF SupplyLimited
  <2>10. DemandLimited(Market) => Demand <= Supply
    BY <2>3, <2>6, <2>7 DEF DemandLimited
  <2>11. measured \in Nat /\ t.energy \in Nat /\ t.energy <= measured
    BY <2>2, <2>3, <2>5
  <2>12. Market.supply \in Nat /\ Market.demand \in Nat
    BY <2>3, <2>6, <2>7
  <2> HIDE DEF measured
  <2>13. CASE t.bid = Pool
    <3>1. Shortfall(Rule, t.energy, measured) = 0
      <4>1. AtLeastZero(t.energy - measured) = 0
        BY <2>11 DEF AtLeastZero
      <4> QED
        BY <2>7, <4>1 DEF Shortfall
    <3>2. ASSUME SupplyLimited(Market), NEW quantity \in Nat
          PROVE  SellerExternality(Rule, measured, t.energy, Market.supply, Market.demand,
                                   Market.price, quantity) = 0
      <4>1. measured = t.energy
        BY <2>2, <2>3, <2>5, <2>9, <2>13, <3>2
      <4>2. AtLeastZero(measured - t.energy) = 0 /\ Market.supply + 0 = Market.supply
        BY <2>11, <2>12, <4>1 DEF AtLeastZero
      <4>3. AtLeastZero(Market.price - PriceOf(Rule, Market.supply, Market.demand)) = 0
        BY <2>8 DEF AtLeastZero
      <4> QED
        BY <4>2, <4>3 DEF SellerExternality
    <3> DEFINE quantity == IF SupplyLimited(Market) THEN Market.supply ELSE Market.demand
    <3>3. Penalty(Rule, Market, t, Pool, measured)
            = Shortfall(Rule, t.energy, measured)
                + IF SupplyLimited(Market)
                  THEN SellerExternality(Rule, measured, t.energy, Market.supply, Market.demand,
                                         Market.price, quantity)
                  ELSE 0
      BY <2>2, <2>13 DEF Penalty
    <3>4. quantity \in Nat
      BY <2>12
    <3> HIDE DEF quantity
    <3> QED
      BY <3>1, <3>2, <3>3, <3>4 DEF measured
  <2>14. CASE t.bid # Pool
    <3>1. t.offer = Pool
      BY <2>2, <2>14
    <3>2. ASSUME DemandLimited(Market), NEW quantity \in Nat
          PROVE  BuyerExternality(Rule, measured, t.energy, Market.supply, Market.demand,
                                  Market.price, quantity) = 0
      <4>1. measured = t.energy
        BY <2>2, <2>3, <2>5, <2>10, <2>14, <3>2
      <4>2. AtLeastZero(measured - t.energy) = 0 /\ Market.demand + 0 = Market.demand
        BY <2>11, <2>12, <4>1 DEF AtLeastZero
      <4>3. AtLeastZero(PriceOf(Rule, Market.supply, Market.demand) - Market.price) = 0
        BY <2>8 DEF AtLeastZero
      <4> QED
        BY <4>2, <4>3 DEF BuyerExternality
    <3> DEFINE quantity == IF SupplyLimited(Market) THEN Market.supply ELSE Market.demand
    <3>3. Penalty(Rule, Market, t, Pool, measured)
            = IF DemandLimited(Market)
              THEN BuyerExternality(Rule, measured, t.energy, Market.supply, Market.demand,
                                    Market.price, quantity)
              ELSE 0
      BY <2>14, <3>1 DEF Penalty
    <3>4. quantity \in Nat
      BY <2>12
    <3> HIDE DEF quantity
    <3> QED
      BY <3>2, <3>3, <3>4 DEF measured
  <2> QED
    BY <2>13, <2>14
<1> QED
  BY <1>1, <1>2

-----------------------------------------------------------------------------
(* The inductive invariant: what each phase hands to the next.             *)
MarketPlaced == step \in {"open", "cleared", "metered", "charged"} => Placed

TradesMade == step \in {"cleared", "metered", "charged"} => trades = MadeTrades

PenaltiesMade == step = "charged" => penalties = DuePenalties

IInv ==
  /\ CalibrationInv
  /\ truth \in Nat
  /\ MarketPlaced
  /\ TradesMade
  /\ PenaltiesMade

LEMMA TruthFollows == IInv => TruthfulPayNothing
<1> SUFFICES ASSUME IInv, step = "charged", NEW t \in trades,
                    Truthful(OwnerOf(t)), TradesOf(OwnerOf(t)) = {t}
             PROVE  penalties[t] = 0
  BY DEF TruthfulPayNothing
<1>1. Placed /\ params \in Nat \X Nat /\ trades = MadeTrades
  BY DEF IInv, CalibrationInv, MarketPlaced, TradesMade
<1>2. penalties[t] = Penalty(Rule, Market, t, Pool, Measured(OwnerOf(t)))
  BY DEF IInv, PenaltiesMade, DuePenalties
<1> QED
  BY <1>1, <1>2, NothingIsDue

LEMMA InitIInv == Init => IInv
<1> SUFFICES ASSUME Init
             PROVE  IInv
  OBVIOUS
<1>1. step = "stored" /\ history \in Histories /\ params = <<0, 0>> /\ truth = 0
  BY DEF Init, CalibrationInit, NoParams
<1>2. HistoryOK
  BY <1>1, CalibrationAssumption DEF HistoryOK
<1> QED
  BY <1>1, <1>2 DEF IInv, CalibrationInv, SlotsMade, BestOfCoarse, SearchKeepsBest, MarketPlaced,
                    TradesMade, PenaltiesMade

LEMMA FetchKeeps == CalibrationInv /\ (Fetch \/ TakeFile) => CalibrationInv'
<1> SUFFICES ASSUME CalibrationInv, Fetch \/ TakeFile
             PROVE  CalibrationInv'
  OBVIOUS
<1>1. step' = "fetched" /\ params' = params /\ history' \subseteq history
  BY DEF Fetch, TakeFile
<1>2. HistoryOK'
  BY <1>1, FS_Subset DEF CalibrationInv, HistoryOK
<1> QED
  BY <1>1, <1>2 DEF CalibrationInv, SlotsMade, BestOfCoarse, SearchKeepsBest

LEMMA AggregateKeeps == CalibrationInv /\ Aggregate => CalibrationInv'
<1> SUFFICES ASSUME CalibrationInv, Aggregate
             PROVE  CalibrationInv'
  OBVIOUS
<1>1. /\ step' \in {"failed", "aggregated"} /\ params' = params
      /\ history' = history /\ community' = community
      /\ slots' = [t \in TimesOf(history) |-> SlotAt(t)]
  BY DEF Aggregate
<1>2. TimesOf(history)' = TimesOf(history) /\ \A t : SlotAt(t)' = SlotAt(t)
  BY <1>1 DEF TimesOf, InCommunity, SlotAt, Of
<1>3. HistoryOK'
  BY <1>1 DEF CalibrationInv, HistoryOK
<1>4. SlotsMade'
  BY <1>1, <1>2 DEF SlotsMade
<1> QED
  BY <1>1, <1>3, <1>4 DEF CalibrationInv, BestOfCoarse, SearchKeepsBest

(* Both passes leave the slots as they are, and the slots are well formed. *)
LEMMA SearchInput ==
  ASSUME CalibrationInv, Coarse \/ Refine
  PROVE  /\ SlotsOK
         /\ HistoryOK' /\ SlotsMade'
         /\ Usable' = Usable /\ \A p : Objective(p)' = Objective(p)
<1>1. /\ step \in {"aggregated", "coarse"} /\ step' \in {"coarse", "calibrated"}
      /\ history' = history /\ community' = community /\ slots' = slots
  BY DEF Coarse, Refine
<1>2. TimesOf(history)' = TimesOf(history) /\ \A t : SlotAt(t)' = SlotAt(t)
  BY <1>1 DEF TimesOf, InCommunity, SlotAt, Of
<1>3. HistoryOK /\ slots = [t \in TimesOf(history) |-> SlotAt(t)]
  BY <1>1 DEF CalibrationInv, SlotsMade
<1>4. SlotsOK
  BY <1>3, SlotsAreOK
<1>5. HistoryOK' /\ SlotsMade'
  BY <1>1, <1>2, <1>3 DEF HistoryOK, SlotsMade
<1>6. Usable' = Usable /\ \A p : Objective(p)' = Objective(p)
  BY <1>1, ObjectiveSteady
<1> QED
  BY <1>4, <1>5, <1>6

LEMMA CoarseKeeps == CalibrationInv /\ Coarse => CalibrationInv'
<1> SUFFICES ASSUME CalibrationInv, Coarse
             PROVE  CalibrationInv'
  OBVIOUS
<1> DEFINE best == GridMin(<<0, 0>>, <<Highest, Highest>>, CoarseSteps)
<1>1. step' = "coarse" /\ params' = best
  BY DEF Coarse
<1>2. /\ SlotsOK /\ HistoryOK' /\ SlotsMade'
      /\ Usable' = Usable /\ \A p : Objective(p)' = Objective(p)
  BY SearchInput
<1>3. Highest \in Nat /\ CoarseSteps \in Nat \ {0}
  BY CalibrationAssumption
<1>4. Corners(<<0, 0>>, <<Highest, Highest>>)
  BY <1>3 DEF Corners
<1>5. /\ CoarseGrid \subseteq Box(<<0, 0>>, <<Highest, Highest>>)
      /\ <<0, 0>> \in CoarseGrid
  BY <1>3, <1>4, GridInBox DEF CoarseGrid
<1>6. /\ best \in CoarseGrid
      /\ \A q \in CoarseGrid : \/ Objective(best) < Objective(q)
                               \/ Objective(best) = Objective(q) /\ Earlier(best, q)
  BY <1>2, <1>3, <1>4, GridMinIsMin DEF CoarseGrid
<1> HIDE DEF best
<1>7. \A p : Objective(p) \in Int
  BY <1>2, ObjectiveInt
<1>8. \A q \in CoarseGrid : Objective(best) <= Objective(q)
  BY <1>6, <1>7
<1>9. best \in Nat \X Nat
  BY <1>3, <1>5, <1>6 DEF Box
<1>10. Usable = {} => best = <<0, 0>>
  <2> SUFFICES ASSUME Usable = {}
               PROVE  best = <<0, 0>>
    OBVIOUS
  <2>1. Objective(best) = 0 /\ Objective(<<0, 0>>) = 0
    BY DEF Objective
  <2>2. Earlier(best, <<0, 0>>)
    BY <1>5, <1>6, <2>1
  <2>3. best[1] = 0 /\ best[2] = 0
    BY <1>9, <2>2 DEF Earlier
  <2> QED
    BY <1>9, <2>3
<1>11. BestOfCoarse'
  <2>1. CoarseGrid' = CoarseGrid
    BY DEF CoarseGrid
  <2> QED
    BY <1>1, <1>2, <1>6, <1>8, <1>10, <2>1 DEF BestOfCoarse
<1> QED
  BY <1>1, <1>2, <1>9, <1>11 DEF CalibrationInv, SearchKeepsBest

LEMMA RefineKeeps == CalibrationInv /\ Refine => CalibrationInv'
<1> SUFFICES ASSUME CalibrationInv, Refine
             PROVE  CalibrationInv'
  OBVIOUS
<1> DEFINE best == GridMin(LowCorner, HighCorner, FineSteps)
<1>1. step = "coarse" /\ step' = "calibrated" /\ params' = best
  BY DEF Refine
<1>2. /\ SlotsOK /\ HistoryOK' /\ SlotsMade'
      /\ Usable' = Usable /\ \A p : Objective(p)' = Objective(p)
  BY SearchInput
<1>3. /\ params \in CoarseGrid
      /\ \A p \in CoarseGrid : Objective(params) <= Objective(p)
      /\ Usable = {} => params = <<0, 0>>
  BY <1>1 DEF CalibrationInv, BestOfCoarse
<1>4. Highest \in Nat /\ FineSteps \in Nat \ {0}
  BY CalibrationAssumption
<1>5. /\ Corners(LowCorner, HighCorner)
      /\ params \in Grid(LowCorner, HighCorner, FineSteps)
      /\ Box(LowCorner, HighCorner) \subseteq (0 .. Highest) \X (0 .. Highest)
  BY <1>3, WindowGrid
<1>6. /\ best \in Grid(LowCorner, HighCorner, FineSteps)
      /\ \A q \in Grid(LowCorner, HighCorner, FineSteps) :
            \/ Objective(best) < Objective(q)
            \/ Objective(best) = Objective(q) /\ Earlier(best, q)
  BY <1>2, <1>4, <1>5, GridMinIsMin
<1>7. Grid(LowCorner, HighCorner, FineSteps) \subseteq Box(LowCorner, HighCorner)
  BY <1>4, <1>5, GridInBox
<1> HIDE DEF best
<1>8. \A p : Objective(p) \in Int
  BY <1>2, ObjectiveInt
<1>9. Objective(best) <= Objective(params)
  BY <1>5, <1>6, <1>8
<1>10. best \in (0 .. Highest) \X (0 .. Highest)
  BY <1>5, <1>6, <1>7
<1>11. \A p \in CoarseGrid : Objective(best) <= Objective(p)
  BY <1>3, <1>8, <1>9
<1>12. Usable = {} => best = <<0, 0>>
  <2> SUFFICES ASSUME Usable = {}
               PROVE  best = <<0, 0>>
    OBVIOUS
  <2>1. Objective(best) = 0 /\ Objective(params) = 0
    BY DEF Objective
  <2>2. Earlier(best, <<0, 0>>)
    BY <1>3, <1>5, <1>6, <2>1
  <2>3. best[1] = 0 /\ best[2] = 0
    BY <1>4, <1>10, <2>2 DEF Earlier
  <2> QED
    BY <1>10, <2>3
<1>13. SearchKeepsBest'
  BY <1>1, <1>2, <1>10, <1>11, <1>12 DEF SearchKeepsBest, CoarseGrid
<1>14. best \in Nat \X Nat
  BY <1>4, <1>10
<1> QED
  BY <1>1, <1>2, <1>13, <1>14 DEF CalibrationInv, BestOfCoarse

(* After the calibration only its parameters are left.                     *)
LEMMA SteadyOnceOpen ==
  ASSUME IInv, OpenMarket \/ ClearMarket \/ ReadMeters \/ Charge
  PROVE  CalibrationInv'
<1>1. /\ step' \in {"open", "cleared", "metered", "charged"}
      /\ params' = params /\ (history' = {} \/ history' = history)
  BY DEF OpenMarket, ClearMarket, ReadMeters, Charge
<1>2. HistoryOK'
  BY <1>1, FS_EmptySet DEF IInv, CalibrationInv, HistoryOK
<1> QED
  BY <1>1, <1>2 DEF IInv, CalibrationInv, SlotsMade, BestOfCoarse, SearchKeepsBest

(* What the trades and the penalties are computed from.                    *)
LEMMA MarketSteady ==
  ASSUME reported' = reported, partners' = partners
  PROVE  /\ Placed' = Placed
         /\ MadeTrades' = MadeTrades
<1>1. \A orders : Total(orders)' = Total(orders)
  BY DEF Total
<1>2. Supply' = Supply /\ Demand' = Demand
  BY DEF Supply, Demand, Total
<1>3. Traded' = Traded
  BY <1>2 DEF Traded
<1>4. \A o : Share(o)' = Share(o)
  BY <1>2, <1>3 DEF Share
<1>5. \A i, j : DirectEnergy(i, j)' = DirectEnergy(i, j)
  BY <1>4 DEF DirectEnergy
<1>6. \A o : DirectOf(o)' = DirectOf(o)
  BY <1>5 DEF DirectOf
<1>7. MadeTrades' = MadeTrades
  BY <1>4, <1>5, <1>6 DEF MadeTrades
<1>8. Placed' = Placed
  BY DEF Placed
<1> QED
  BY <1>7, <1>8

LEMMA DueSteady ==
  ASSUME params' = params, facility' = facility, reported' = reported,
         trades' = trades, truth' = truth, liar' = liar
  PROVE  DuePenalties' = DuePenalties
<1>1. \A orders : Total(orders)' = Total(orders)
  BY DEF Total
<1>2. Supply' = Supply /\ Demand' = Demand
  BY <1>1 DEF Supply, Demand
<1>3. Rule' = Rule /\ Parts' = Parts
  BY <1>2 DEF Rule, Parts
<1>4. Price' = Price
  BY <1>2, <1>3 DEF Price
<1>5. Market' = Market
  BY <1>2, <1>3, <1>4 DEF Market
<1>6. \A f : OrdersOf(f)' = OrdersOf(f)
  BY DEF OrdersOf
<1>7. \A f : Measured(f)' = Measured(f)
  BY <1>1, <1>3, <1>6 DEF Measured
<1>8. \A t : OwnerOf(t)' = OwnerOf(t)
  BY DEF OwnerOf
<1>9. \A t : Measured(OwnerOf(t))' = Measured(OwnerOf(t))
  BY <1>7, <1>8
<1> QED
  BY <1>3, <1>5, <1>9 DEF DuePenalties

LEMMA OpenKeeps == IInv /\ OpenMarket => IInv'
<1> SUFFICES ASSUME IInv, OpenMarket
             PROVE  IInv'
  OBVIOUS
<1>1. CalibrationInv'
  BY SteadyOnceOpen
<1>2. step' = "open" /\ truth' = truth /\ reported' \in [Orders -> Nat \ {0}]
  <2>1. step' = "open" /\ truth' = truth /\ reported' \in [Orders -> Reports]
    BY DEF OpenMarket
  <2>2. Reports \subseteq Nat \ {0}
    BY SeasonAssumption
  <2> QED
    BY <2>1, <2>2
<1>3. partners' \in SUBSET (Bids \X Offers) /\ IsFiniteSet(partners')
  <2>1. partners' = {} \/ \E i \in Bids, j \in Offers : partners' = {<<i, j>>}
    BY DEF OpenMarket
  <2>2. CASE partners' = {}
    BY <2>2, FS_EmptySet
  <2>3. ASSUME NEW i \in Bids, NEW j \in Offers, partners' = {<<i, j>>}
        PROVE  partners' \in SUBSET (Bids \X Offers) /\ IsFiniteSet(partners')
    <3>1. IsFiniteSet({<<i, j>>})
      BY FS_Singleton
    <3> QED
      BY <2>3, <3>1
  <2> QED
    BY <2>1, <2>2, <2>3
<1>4. Placed'
  BY <1>2, <1>3 DEF Placed
<1> QED
  BY <1>1, <1>2, <1>4 DEF IInv, MarketPlaced, TradesMade, PenaltiesMade

LEMMA ClearKeeps == IInv /\ ClearMarket => IInv'
<1> SUFFICES ASSUME IInv, ClearMarket
             PROVE  IInv'
  OBVIOUS
<1>1. CalibrationInv'
  BY SteadyOnceOpen
<1>2. /\ step = "open" /\ step' = "cleared" /\ trades' = MadeTrades
      /\ reported' = reported /\ partners' = partners /\ truth' = truth
  BY DEF ClearMarket, MadeTrades
<1>3. Placed' /\ trades' = MadeTrades'
  BY <1>2, MarketSteady DEF IInv, MarketPlaced
<1> QED
  BY <1>1, <1>2, <1>3 DEF IInv, MarketPlaced, TradesMade, PenaltiesMade

LEMMA ReadKeeps == IInv /\ ReadMeters => IInv'
<1> SUFFICES ASSUME IInv, ReadMeters
             PROVE  IInv'
  OBVIOUS
<1>1. CalibrationInv'
  BY SteadyOnceOpen
<1>2. /\ step = "cleared" /\ step' = "metered" /\ trades' = trades
      /\ reported' = reported /\ partners' = partners
  BY DEF ReadMeters
<1>3. truth' \in Nat
  BY SeasonAssumption DEF ReadMeters
<1>4. Placed' /\ trades' = MadeTrades'
  BY <1>2, MarketSteady DEF IInv, MarketPlaced, TradesMade
<1> QED
  BY <1>1, <1>2, <1>3, <1>4 DEF IInv, MarketPlaced, TradesMade, PenaltiesMade

LEMMA ChargeKeeps == IInv /\ Charge => IInv'
<1> SUFFICES ASSUME IInv, Charge
             PROVE  IInv'
  OBVIOUS
<1>1. CalibrationInv'
  BY SteadyOnceOpen
<1>2. /\ step = "metered" /\ step' = "charged" /\ penalties' = DuePenalties
      /\ params' = params /\ facility' = facility /\ reported' = reported
      /\ partners' = partners /\ trades' = trades /\ truth' = truth /\ liar' = liar
  BY DEF Charge, DuePenalties
<1>3. Placed' /\ trades' = MadeTrades'
  BY <1>2, MarketSteady DEF IInv, MarketPlaced, TradesMade
<1>4. DuePenalties' = DuePenalties
  BY <1>2, DueSteady
<1> QED
  BY <1>1, <1>2, <1>3, <1>4 DEF IInv, MarketPlaced, TradesMade, PenaltiesMade

LEMMA CalibrateKeeps == IInv /\ Calibrate => IInv'
<1> SUFFICES ASSUME IInv, Calibrate
             PROVE  IInv'
  OBVIOUS
<1>1. CalibrationInv'
  BY FetchKeeps, AggregateKeeps, CoarseKeeps, RefineKeeps DEF IInv, Calibrate, CalibrationNext
<1>2. step' \in {"fetched", "failed", "aggregated", "coarse", "calibrated"} /\ truth' = truth
  BY DEF Calibrate, marketVars, CalibrationNext, Fetch, TakeFile, Aggregate, Coarse, Refine
<1> QED
  BY <1>1, <1>2 DEF IInv, MarketPlaced, TradesMade, PenaltiesMade

LEMMA StutterKeeps == IInv /\ UNCHANGED vars => IInv'
<1> SUFFICES ASSUME IInv, UNCHANGED vars
             PROVE  IInv'
  OBVIOUS
<1>1. /\ step' = step /\ history' = history /\ community' = community /\ slots' = slots
      /\ params' = params /\ facility' = facility /\ partners' = partners
      /\ reported' = reported /\ trades' = trades /\ truth' = truth /\ liar' = liar
      /\ penalties' = penalties
  BY DEF vars, calibrationVars, marketVars
<1>2. Placed' = Placed /\ MadeTrades' = MadeTrades
  BY <1>1, MarketSteady
<1>3. Usable' = Usable /\ \A p : Objective(p)' = Objective(p)
  BY <1>1, ObjectiveSteady
<1>4. CalibrationInv'
  <2>1. TimesOf(history)' = TimesOf(history) /\ \A t : SlotAt(t)' = SlotAt(t)
    BY <1>1 DEF TimesOf, InCommunity, SlotAt, Of
  <2>2. HistoryOK' /\ SlotsMade'
    BY <1>1, <2>1 DEF IInv, CalibrationInv, HistoryOK, SlotsMade
  <2>3. BestOfCoarse' /\ SearchKeepsBest'
    <3>1. CoarseGrid' = CoarseGrid
      BY DEF CoarseGrid
    <3> QED
      BY <1>1, <1>3, <3>1 DEF IInv, CalibrationInv, BestOfCoarse, SearchKeepsBest
  <2> QED
    BY <1>1, <2>2, <2>3 DEF IInv, CalibrationInv
<1>5. PenaltiesMade'
  <2>1. DuePenalties' = DuePenalties
    BY <1>1, DueSteady
  <2> QED
    BY <1>1, <2>1 DEF IInv, PenaltiesMade
<1> QED
  BY <1>1, <1>2, <1>4, <1>5 DEF IInv, MarketPlaced, TradesMade

-----------------------------------------------------------------------------
(* Of the four places at which the curve falls at most all are passed.     *)
LEMMA PlacesPassed ==
  ASSUME NEW A \in SUBSET Places
  PROVE  /\ Cardinality(A) \in 0 .. Quarters
         /\ \A B \in SUBSET A : Cardinality(B) \in Nat /\ Cardinality(B) <= Cardinality(A)
<1> DEFINE low == {-195} \cup {-51}
           most == low \cup {51}
<1>1. IsFiniteSet({-195}) /\ Cardinality({-195}) = 1
  BY FS_Singleton
<1>2. IsFiniteSet(low) /\ Cardinality(low) <= 2 /\ Cardinality(low) \in Nat
  <2>1. IsFiniteSet(low) /\ Cardinality(low) = IF -51 \in {-195} THEN 1 ELSE 1 + 1
    BY <1>1, FS_AddElement
  <2> HIDE DEF low
  <2> QED
    BY <2>1
<1> HIDE DEF low
<1>3. IsFiniteSet(most) /\ Cardinality(most) <= 3 /\ Cardinality(most) \in Nat
  <2>1. /\ IsFiniteSet(most)
        /\ Cardinality(most) = IF 51 \in low THEN Cardinality(low) ELSE Cardinality(low) + 1
    BY <1>2, FS_AddElement
  <2> HIDE DEF most
  <2> QED
    BY <1>2, <2>1
<1> HIDE DEF most
<1>4. IsFiniteSet(Places) /\ Cardinality(Places) <= 4 /\ Cardinality(Places) \in Nat
  <2>1. Places = most \cup {195}
    BY DEF Places, most, low
  <2>2. /\ IsFiniteSet(most \cup {195})
        /\ Cardinality(most \cup {195}) = IF 195 \in most THEN Cardinality(most) ELSE Cardinality(most) + 1
    BY <1>3, FS_AddElement
  <2> QED
    BY <1>3, <2>1, <2>2
<1>5. IsFiniteSet(A) /\ Cardinality(A) <= Cardinality(Places) /\ Cardinality(A) \in Nat
  BY <1>4, FS_Subset, FS_CardinalityType
<1>6. ASSUME NEW B \in SUBSET A
      PROVE  Cardinality(B) \in Nat /\ Cardinality(B) <= Cardinality(A)
  BY <1>5, FS_Subset, FS_CardinalityType
<1> QED
  BY <1>4, <1>5, <1>6 DEF Quarters

(* The price stays in the band, and where more places are passed it is not *)
(* higher.                                                                 *)
LEMMA PriceFalls ==
  ASSUME NEW upper \in Int, NEW lower \in Int, lower <= upper, NEW theta, NEW steepness,
         NEW s, NEW d, NEW t, NEW e,
         \A x \in Places : 100 * steepness * (s - theta * d) >= x * d
                             => 100 * steepness * (t - theta * e) >= x * e
  PROVE  /\ SigmoidPrice(s, d, upper, lower, theta, steepness) \in lower .. upper
         /\ SigmoidPrice(t, e, upper, lower, theta, steepness) \in lower .. upper
         /\ SigmoidPrice(t, e, upper, lower, theta, steepness)
              <= SigmoidPrice(s, d, upper, lower, theta, steepness)
<1> DEFINE B == {x \in Places : 100 * steepness * (s - theta * d) >= x * d}
           A == {x \in Places : 100 * steepness * (t - theta * e) >= x * e}
           b == Cardinality(B)
           a == Cardinality(A)
           band == upper - lower
<1>1. b \in 0 .. Quarters /\ a \in 0 .. Quarters /\ b <= a
  <2>1. A \in SUBSET Places /\ B \in SUBSET A /\ B \in SUBSET Places
    OBVIOUS
  <2> HIDE DEF A, B
  <2> QED
    BY <2>1, PlacesPassed
<1>2. band \in Nat
  OBVIOUS
<1>3. /\ SigmoidPrice(s, d, upper, lower, theta, steepness)
           = IF upper <= lower THEN lower ELSE upper - (band * b) \div Quarters
      /\ SigmoidPrice(t, e, upper, lower, theta, steepness)
           = IF upper <= lower THEN lower ELSE upper - (band * a) \div Quarters
  BY DEF SigmoidPrice
<1> HIDE DEF A, B, a, b
<1>4. (band * b) \div Quarters \in 0 .. band /\ (band * a) \div Quarters \in 0 .. band
  BY <1>1, <1>2, StepBounds DEF Quarters
<1>5. (band * b) \div Quarters <= (band * a) \div Quarters
  <2>1. band * b \in Nat /\ band * a \in Nat /\ band * b <= band * a
    BY <1>1, <1>2 DEF Quarters
  <2>2. \A y, z \in Nat : y <= z => y \div 4 <= z \div 4
    OBVIOUS
  <2> QED
    BY <2>1, <2>2 DEF Quarters
<1>6. upper - band = lower
  OBVIOUS
<1> HIDE DEF band
<1> QED
  BY <1>2, <1>3, <1>4, <1>5, <1>6

(* More supply never raises the price, more demand never lowers it, and    *)
(* it stays in its band.                                                   *)
LEMMA SupplyLowers ==
  ASSUME NEW upper \in Int, NEW lower \in Int, lower <= upper, NEW theta \in Nat, NEW steepness \in Nat,
         NEW d \in Nat, NEW s \in Nat, NEW t \in Nat, s <= t
  PROVE  /\ SigmoidPrice(s, d, upper, lower, theta, steepness) \in lower .. upper
         /\ SigmoidPrice(t, d, upper, lower, theta, steepness) \in lower .. upper
         /\ SigmoidPrice(t, d, upper, lower, theta, steepness)
              <= SigmoidPrice(s, d, upper, lower, theta, steepness)
<1>1. 100 * steepness * (s - theta * d) <= 100 * steepness * (t - theta * d)
  <2> DEFINE k == 100 * steepness
             y == s - theta * d
             z == t - theta * d
  <2>1. k \in Nat /\ y \in Int /\ z \in Int /\ y <= z
    OBVIOUS
  <2> HIDE DEF k, y, z
  <2>2. k * y <= k * z
    BY <2>1
  <2> QED
    BY <2>2 DEF k, y, z
<1>2. 100 * steepness * (s - theta * d) \in Int /\ 100 * steepness * (t - theta * d) \in Int
  OBVIOUS
<1>3. \A x \in Places : x \in Int /\ x * d \in Int
  BY DEF Places
<1>4. \A x \in Places : 100 * steepness * (s - theta * d) >= x * d
                          => 100 * steepness * (t - theta * d) >= x * d
  BY <1>1, <1>2, <1>3
<1> QED
  BY <1>4, PriceFalls

LEMMA DemandRaises ==
  ASSUME NEW upper \in Int, NEW lower \in Int, lower <= upper, NEW theta \in Nat, NEW steepness \in Nat,
         NEW s \in Nat, NEW d \in Nat, NEW e \in Nat, d <= e
  PROVE  /\ SigmoidPrice(s, d, upper, lower, theta, steepness) \in lower .. upper
         /\ SigmoidPrice(s, e, upper, lower, theta, steepness) \in lower .. upper
         /\ SigmoidPrice(s, d, upper, lower, theta, steepness)
              <= SigmoidPrice(s, e, upper, lower, theta, steepness)
<1>1. ASSUME NEW x \in Places, 100 * steepness * (s - theta * e) >= x * e
      PROVE  100 * steepness * (s - theta * d) >= x * d
  <2> DEFINE all == 100 * steepness * s
             k == x + 100 * steepness * theta
  <2>1. x \in Int
    BY DEF Places
  <2>2. all \in Nat /\ k \in Int
    BY <2>1
  <2>3. /\ 100 * steepness * (s - theta * e) = all - (100 * steepness * theta) * e
        /\ 100 * steepness * (s - theta * d) = all - (100 * steepness * theta) * d
    OBVIOUS
  <2>4. /\ k * e = x * e + (100 * steepness * theta) * e
        /\ k * d = x * d + (100 * steepness * theta) * d
    BY <2>1
  <2>5. /\ x * e \in Int /\ (100 * steepness * theta) * e \in Int
        /\ x * d \in Int /\ (100 * steepness * theta) * d \in Int
    BY <2>1
  <2>6. all >= k * e
    BY <1>1, <2>2, <2>3, <2>4, <2>5
  <2> HIDE DEF all, k
  <2>7. all >= k * d
    <3>1. CASE k >= 0
      <4>1. k * d <= k * e /\ k * d \in Int /\ k * e \in Int
        BY <2>2, <3>1
      <4> QED
        BY <2>2, <2>6, <4>1
    <3>2. CASE k < 0
      <4>1. k * d <= 0 /\ k * d \in Int
        BY <2>2, <3>2
      <4> QED
        BY <2>2, <4>1
    <3> QED
      BY <2>2, <3>1, <3>2
  <2> QED
    BY <2>2, <2>3, <2>4, <2>5, <2>7
<1>2. \A x \in Places : 100 * steepness * (s - theta * e) >= x * e
                          => 100 * steepness * (s - theta * d) >= x * d
  BY <1>1
<1> QED
  BY <1>2, PriceFalls
-----------------------------------------------------------------------------
(* Promising more than one has: the shortfall costs more than it earns.    *)
LEMMA OverpromiseLoses ==
  ASSUME NEW p \in Nat, NEW best \in Nat, NEW upper \in Nat, NEW r \in Nat, NEW q \in 0 .. r,
         NEW supply \in Nat, p <= upper, p <= best
  PROVE  (10 * (p * r) - 11 * upper * (r - q)) * supply <= 10 * (best * (q * supply))
<1>1. p * (r - q) <= upper * (r - q) /\ 0 <= upper * (r - q) /\ upper * (r - q) \in Int
  OBVIOUS
<1>2. p * r = p * q + p * (r - q) /\ p * q <= best * q
  OBVIOUS
<1>3. 11 * upper * (r - q) = 11 * (upper * (r - q))
  OBVIOUS
<1>4. 10 * (p * r) - 11 * upper * (r - q) <= 10 * (best * q)
  <2>1. p * q \in Int /\ p * (r - q) \in Int /\ best * q \in Int
    OBVIOUS
  <2> QED
    BY <1>1, <1>2, <1>3, <2>1
<1>5. best * (q * supply) = (best * q) * supply
  OBVIOUS
<1> DEFINE a == 10 * (p * r) - 11 * upper * (r - q)
           b == best * q
<1>6. a \in Int /\ b \in Int /\ a <= 10 * b
  BY <1>4
<1> HIDE DEF a, b
<1>7. a * supply <= (10 * b) * supply
  BY <1>6
<1> QED
  BY <1>5, <1>6, <1>7 DEF a, b

(* Withholding: what the higher price brings is less than the externality, *)
(* which counts the whole market, takes away.                              *)
LEMMA WithholdingLoses ==
  ASSUME NEW p \in Nat, NEW best \in Nat, NEW lower \in Nat, NEW r \in Nat, NEW w \in Nat,
         NEW supply \in Nat, NEW demand \in Nat, NEW sold \in Nat,
         r <= supply, supply <= demand, lower <= best, best <= p,
         NEW q \in Nat, q = r + w, NEW s \in Nat, s = supply + w,
         sold = IF s <= demand THEN s ELSE demand
  PROVE  (10 * (p * r + lower * w) - 10 * (p - best) * supply) * s
           <= 10 * (q * (best * sold + lower * (s - sold)))
<1> DEFINE e == best - lower
<1>1. (p - best) * r <= (p - best) * supply
  OBVIOUS
<1>2. p * r + lower * w - (p - best) * supply <= lower * q + e * r
  <2>1. p * r = (p - best) * r + best * r /\ best * r = lower * r + e * r
    OBVIOUS
  <2>2. lower * q = lower * r + lower * w
    OBVIOUS
  <2>3. /\ p * r \in Int /\ (p - best) * r \in Int /\ best * r \in Int /\ lower * r \in Int
        /\ e * r \in Int /\ lower * w \in Int /\ (p - best) * supply \in Int
    OBVIOUS
  <2> QED
    BY <1>1, <2>1, <2>2, <2>3
<1>3. best * sold + lower * (s - sold) = lower * s + e * sold
  <2>1. best * sold = lower * sold + e * sold /\ lower * (s - sold) = lower * s - lower * sold
    OBVIOUS
  <2> QED
    BY <2>1
<1>4. r * s <= q * sold
  <2>1. CASE s <= demand
    BY <2>1
  <2>2. CASE s > demand
    <3>1. r * supply <= r * demand /\ r * w <= w * demand
      OBVIOUS
    <3>2. r * s = r * supply + r * w /\ q * sold = r * demand + w * demand
      BY <2>2
    <3> QED
      BY <3>1, <3>2
  <2> QED
    BY <2>1, <2>2
<1>5. s \in Nat /\ e \in Nat
  OBVIOUS
<1>6. 10 * (p * r + lower * w) - 10 * (p - best) * supply
        = 10 * (p * r + lower * w - (p - best) * supply)
  OBVIOUS
<1> DEFINE a == p * r + lower * w - (p - best) * supply
           b == lower * q
           c == e * r
<1>7. a \in Int /\ b \in Int /\ c \in Int /\ a <= b + c
  BY <1>2
<1>8. b * s = q * (lower * s)
  OBVIOUS
<1>9. c * s <= q * (e * sold)
  <2>1. c * s = e * (r * s) /\ q * (e * sold) = e * (q * sold)
    OBVIOUS
  <2>2. r * s \in Int /\ q * sold \in Int
    BY <1>5
  <2> HIDE DEF e, c
  <2> QED
    BY <1>4, <1>5, <2>1, <2>2
<1>10. q * (best * sold + lower * (s - sold)) = q * (lower * s) + q * (e * sold)
  <2>1. lower * s \in Int /\ e * sold \in Int
    BY <1>5
  <2>2. \A y, z \in Int : q * (y + z) = q * y + q * z
    OBVIOUS
  <2>3. q * (lower * s + e * sold) = q * (lower * s) + q * (e * sold)
    BY <2>1, <2>2
  <2> DEFINE total == best * sold + lower * (s - sold)
  <2>4. total = lower * s + e * sold
    BY <1>3
  <2> HIDE DEF e, total
  <2>5. q * total = q * (lower * s) + q * (e * sold)
    BY <2>3, <2>4
  <2> QED
    BY <2>5 DEF total
<1>11. q * (lower * s) \in Int /\ q * (e * sold) \in Int
  BY <1>5
<1>12. a * s <= b * s + c * s
  <2> HIDE DEF a, b, c
  <2> QED
    BY <1>5, <1>7
<1>13. a * s \in Int /\ b * s \in Int /\ c * s \in Int /\ (10 * a) * s = 10 * (a * s)
  <2> HIDE DEF a, b, c
  <2> QED
    BY <1>5, <1>7
<1>14. (10 * a) * s <= 10 * (q * (best * sold + lower * (s - sold)))
  <2> HIDE DEF a, b, c, e
  <2> QED
    BY <1>8, <1>9, <1>10, <1>11, <1>12, <1>13
<1> QED
  BY <1>6, <1>14

(* The same for a buyer: what was bought too much is resold at the floor,  *)
(* and who asks for less than he needs pays the ceiling for the rest.      *)
LEMMA OverbuyingLoses ==
  ASSUME NEW p \in Nat, NEW best \in Nat, NEW lower \in Nat, NEW r \in Nat, NEW q \in 0 .. r,
         NEW demand \in Nat, lower <= p, best <= p
  PROVE  10 * (p * r - lower * (r - q)) * demand >= 10 * (best * (q * demand))
<1>1. p * (r - q) >= lower * (r - q) /\ p * q >= best * q
  OBVIOUS
<1>2. p * r = p * q + p * (r - q)
  OBVIOUS
<1> DEFINE a == p * r - lower * (r - q)
           b == best * q
<1>3. a \in Int /\ b \in Int /\ a >= b
  <2>1. /\ p * r \in Int /\ p * q \in Int /\ p * (r - q) \in Int
        /\ lower * (r - q) \in Int /\ best * q \in Int
    OBVIOUS
  <2> QED
    BY <1>1, <1>2, <2>1
<1>4. best * (q * demand) = b * demand
  OBVIOUS
<1> HIDE DEF a, b
<1>5. (10 * a) * demand >= (10 * b) * demand /\ (10 * b) * demand = 10 * (b * demand)
  BY <1>3
<1>6. 10 * a * demand >= 10 * (b * demand)
  BY <1>3, <1>5
<1> QED
  BY <1>4, <1>6 DEF a

(* A buyer who reports too little pays in penalty and balance at least     *)
(* what the truth would have cost: p is the price on the false report r,   *)
(* best the price on the true quantity q.                                  *)
LEMMA UnderbuyingLoses ==
  ASSUME NEW p \in Nat, NEW best \in Nat, NEW upper \in Nat, NEW r \in Nat, NEW w \in Nat,
         NEW supply \in Nat, NEW demand \in Nat, NEW bought \in Nat,
         r <= demand, demand <= supply, p <= best, best <= upper,
         NEW q \in Nat, q = r + w, NEW d \in Nat, d = demand + w,
         bought = IF d <= supply THEN d ELSE supply
  PROVE  (10 * (p * r + upper * w) + 10 * (best - p) * demand) * d
           >= 10 * (q * (best * bought + upper * (d - bought)))
<1> DEFINE e == upper - best
<1>1. (best - p) * r <= (best - p) * demand
  OBVIOUS
<1>2. p * r + upper * w + (best - p) * demand >= upper * q - e * r
  <2>1. p * r + (best - p) * r = best * r /\ best * r = upper * r - e * r
    OBVIOUS
  <2>2. upper * q = upper * r + upper * w
    OBVIOUS
  <2>3. /\ p * r \in Int /\ (best - p) * r \in Int /\ best * r \in Int /\ upper * r \in Int
        /\ e * r \in Int /\ upper * w \in Int /\ (best - p) * demand \in Int
    OBVIOUS
  <2> QED
    BY <1>1, <2>1, <2>2, <2>3
<1>3. best * bought + upper * (d - bought) = upper * d - e * bought
  <2>1. best * bought = upper * bought - e * bought /\ upper * (d - bought) = upper * d - upper * bought
    OBVIOUS
  <2> QED
    BY <2>1
<1>4. r * d <= q * bought
  <2>1. CASE d <= supply
    BY <2>1
  <2>2. CASE d > supply
    <3>1. r * demand <= r * supply /\ r * w <= w * supply
      OBVIOUS
    <3>2. r * d = r * demand + r * w /\ q * bought = r * supply + w * supply
      BY <2>2
    <3> QED
      BY <3>1, <3>2
  <2> QED
    BY <2>1, <2>2
<1>5. d \in Nat /\ e \in Nat
  OBVIOUS
<1>6. 10 * (p * r + upper * w) + 10 * (best - p) * demand
        = 10 * (p * r + upper * w + (best - p) * demand)
  OBVIOUS
<1> DEFINE a == p * r + upper * w + (best - p) * demand
           b == upper * q
           c == e * r
<1>7. a \in Int /\ b \in Int /\ c \in Int /\ a >= b - c
  BY <1>2
<1>8. b * d = q * (upper * d)
  OBVIOUS
<1>9. c * d <= q * (e * bought)
  <2>1. c * d = e * (r * d) /\ q * (e * bought) = e * (q * bought)
    OBVIOUS
  <2>2. r * d \in Int /\ q * bought \in Int
    BY <1>5
  <2> HIDE DEF e, c
  <2> QED
    BY <1>4, <1>5, <2>1, <2>2
<1>10. q * (best * bought + upper * (d - bought)) = q * (upper * d) - q * (e * bought)
  <2>1. upper * d \in Int /\ e * bought \in Int
    BY <1>5
  <2>2. \A y, z \in Int : q * (y - z) = q * y - q * z
    OBVIOUS
  <2>3. q * (upper * d - e * bought) = q * (upper * d) - q * (e * bought)
    BY <2>1, <2>2
  <2> DEFINE total == best * bought + upper * (d - bought)
  <2>4. total = upper * d - e * bought
    BY <1>3
  <2> HIDE DEF e, total
  <2>5. q * total = q * (upper * d) - q * (e * bought)
    BY <2>3, <2>4
  <2> QED
    BY <2>5 DEF total
<1>11. q * (upper * d) \in Int /\ q * (e * bought) \in Int
  BY <1>5
<1>12. a * d >= b * d - c * d
  <2> HIDE DEF a, b, c
  <2> QED
    BY <1>5, <1>7
<1>13. a * d \in Int /\ b * d \in Int /\ c * d \in Int /\ (10 * a) * d = 10 * (a * d)
  <2> HIDE DEF a, b, c
  <2> QED
    BY <1>5, <1>7
<1>14. (10 * a) * d >= 10 * (q * (best * bought + upper * (d - bought)))
  <2> HIDE DEF a, b, c, e
  <2> QED
    BY <1>8, <1>9, <1>10, <1>11, <1>12, <1>13
<1> QED
  BY <1>6, <1>14

(* The trade that the two properties choose, and what it is made of.       *)
LEMMA LiarsTrade ==
  ASSUME Placed, trades = MadeTrades, NEW side \in {Bids, Offers}, LiarOnServedSide(side)
  PROVE  \E t \in trades :
           /\ (CHOOSE x \in trades : TradesOf(liar) = {x}) = t
           /\ OwnerOf(t) = liar
           /\ Parts \in Nat \ {0}
           /\ \E o \in side : /\ t.energy = Share(o)
                              /\ o \in Offers => t.bid = Pool /\ t.offer = o /\ t.offer # Pool
                              /\ o \in Bids => t.bid = o /\ t.offer = Pool /\ t.bid # Pool
<1>1. PICK t \in trades : TradesOf(liar) = {t} /\ Pool \in {t.bid, t.offer}
  BY DEF LiarOnServedSide
<1>2. PICK o \in side : OrdersOf(liar) = {o}
  BY DEF LiarOnServedSide
<1>3. (CHOOSE x \in trades : TradesOf(liar) = {x}) = t
  <2> DEFINE x == CHOOSE x \in trades : TradesOf(liar) = {x}
  <2>1. x \in trades /\ TradesOf(liar) = {x}
    BY <1>1
  <2> QED
    BY <1>1, <2>1
<1>4. Pool \notin Bids /\ Pool \notin Offers /\ Bids \cap Offers = {}
  BY SeasonAssumption
<1>5. o \in {t.bid, t.offer} /\ facility[o] = liar /\ o \in Orders
  BY <1>1, <1>2 DEF TradesOf, OrdersOf
<1>6. OwnerOf(t) = liar
  BY <1>1, <1>4, <1>5 DEF OwnerOf, Orders
<1>7. Parts > 0 /\ Parts \in Nat
  BY <1>1, <1>5, PoolTradeParts, ShareBounds
<1>8. PICK k \in Orders : /\ OrdersOf(OwnerOf(t)) = {k}
                          /\ t.energy = Share(k)
                          /\ t.bid = Pool => k \in Offers /\ t.offer # Pool
                          /\ t.bid # Pool => k \in Bids /\ t.offer = Pool
  BY <1>1, <1>6, <1>7, OneTradeOneOrder
<1>9. k = o
  BY <1>2, <1>6, <1>8
<1> QED
  BY <1>3, <1>4, <1>5, <1>6, <1>7, <1>8, <1>9

(* Energies in parts of a unit, and the same in units.                     *)
LEMMA InParts ==
  ASSUME NEW a \in Nat, NEW b \in Nat, NEW c \in Nat \ {0}
  PROVE  /\ AtLeastZero(a * c - b * c) = AtLeastZero(a - b) * c
         /\ AtLeastZero(a - b) = IF a >= b THEN a - b ELSE 0
<1>1. a * c - b * c = (a - b) * c
  OBVIOUS
<1>2. a - b > 0 <=> (a - b) * c > 0
  OBVIOUS
<1> QED
  BY <1>1, <1>2 DEF AtLeastZero

(* What a seller and a buyer are charged for their trade with the pool,    *)
(* when they are on the side that is served.                               *)
LEMMA SellersCharge ==
  ASSUME KLower \in Int, KUpper \in Nat, params \in Nat \X Nat,
         NEW c \in Nat \ {0}, c = Parts, Supply \in Nat, Demand \in Nat, Supply <= Demand,
         NEW t, NEW r \in Nat, NEW q \in Nat, t.bid = Pool, t.offer # Pool, t.energy = r * c
  PROVE  Penalty(Rule, Market, t, Pool, q * c)
           = (11 * KUpper * AtLeastZero(r - q)
               + 10 * AtLeastZero(Price - PriceOf(Rule, Supply + AtLeastZero(q - r), Demand)) * Supply) * c
<1> DEFINE w == AtLeastZero(q - r)
           gap == AtLeastZero(Price - PriceOf(Rule, Supply + w, Demand))
<1>1. /\ w \in Nat /\ AtLeastZero(q * c - r * c) = w * c
      /\ AtLeastZero(r - q) \in Nat /\ AtLeastZero(r * c - q * c) = AtLeastZero(r - q) * c
  <2>1. w \in Nat /\ AtLeastZero(r - q) \in Nat
    BY DEF AtLeastZero
  <2>2. AtLeastZero(q * c - r * c) = AtLeastZero(q - r) * c
    BY InParts
  <2>3. AtLeastZero(r * c - q * c) = AtLeastZero(r - q) * c
    BY InParts
  <2> QED
    BY <2>1, <2>2, <2>3
<1>2. /\ Market.supply = Supply * c /\ Market.demand = Demand * c
      /\ Market.price = Price /\ Rule.upper = KUpper
  BY DEF Market, Rule
<1>3. SupplyLimited(Market)
  <2>1. Supply * c <= Demand * c
    OBVIOUS
  <2> QED
    BY <1>2, <2>1 DEF SupplyLimited
<1>4. Penalty(Rule, Market, t, Pool, q * c)
        = Shortfall(Rule, r * c, q * c)
            + SellerExternality(Rule, q * c, r * c, Market.supply, Market.demand, Market.price, Market.supply)
  BY <1>3 DEF Penalty
<1> HIDE DEF w
<1>5. PriceOf(Rule, Supply * c + w * c, Demand * c) = PriceOf(Rule, Supply + w, Demand)
  <2>1. Supply * c + w * c = (Supply + w) * c /\ Supply + w \in Int
    BY <1>1
  <2>2. params[1] \in Int /\ params[2] \in Int
    OBVIOUS
  <2>3. SigmoidPrice((Supply + w) * c, Demand * c, KUpper, KLower, params[1], params[2])
          = SigmoidPrice(Supply + w, Demand, KUpper, KLower, params[1], params[2])
    BY <2>1, <2>2, PriceScales
  <2> QED
    BY <2>1, <2>3 DEF PriceOf, Rule
<1>6. gap \in Nat
  <2>1. Price \in Int /\ PriceOf(Rule, Supply + w, Demand) \in Int
    BY PriceInt DEF Price, PriceOf, Rule
  <2> QED
    BY <2>1 DEF AtLeastZero
<1>7. SellerExternality(Rule, q * c, r * c, Market.supply, Market.demand, Market.price, Market.supply)
        = 10 * gap * (Supply * c)
  BY <1>1, <1>2, <1>5 DEF SellerExternality
<1>8. Shortfall(Rule, r * c, q * c) = 11 * KUpper * (AtLeastZero(r - q) * c)
  BY <1>1, <1>2 DEF Shortfall
<1> HIDE DEF gap
<1>9. 11 * KUpper * (AtLeastZero(r - q) * c) + 10 * gap * (Supply * c)
        = (11 * KUpper * AtLeastZero(r - q) + 10 * gap * Supply) * c
  BY <1>1, <1>6
<1> QED
  BY <1>4, <1>7, <1>8, <1>9 DEF gap, w

(* A report r of a buyer who needs q, in a market of which c parts are a   *)
(* unit, is charged by how much more the true demand would have cost all.  *)
BuyerPays(t, r, q, c) ==
  Penalty(Rule, Market, t, Pool, q * c)
    = (10 * AtLeastZero(PriceOf(Rule, Supply, Demand + AtLeastZero(q - r)) - Price) * Demand) * c

(* What penalties.py:74 charges a buyer whose order is served in full.     *)
LEMMA BuyersCharge ==
  ASSUME KLower \in Int, KUpper \in Nat, params \in Nat \X Nat,
         NEW c \in Nat \ {0}, c = Parts, Supply \in Nat, Demand \in Nat, Demand <= Supply,
         NEW t, NEW r \in Nat, NEW q \in Nat, t.offer = Pool, t.bid # Pool, t.energy = r * c
  PROVE  BuyerPays(t, r, q, c)
<1> DEFINE w == AtLeastZero(q - r)
           gap == AtLeastZero(PriceOf(Rule, Supply, Demand + w) - Price)
           quantity == IF SupplyLimited(Market) THEN Market.supply ELSE Market.demand
<1>1. w \in Nat /\ AtLeastZero(q * c - r * c) = w * c
  <2>1. w \in Nat
    BY DEF AtLeastZero
  <2> QED
    BY <2>1, InParts
<1>2. /\ Market.supply = Supply * c /\ Market.demand = Demand * c
      /\ Market.price = Price
  BY DEF Market
<1>3. DemandLimited(Market) /\ quantity = Demand * c
  <2>1. Demand * c <= Supply * c /\ (Supply * c <= Demand * c => Supply * c = Demand * c)
    <3>1. Demand * c <= Supply * c /\ Demand * c \in Int /\ Supply * c \in Int
      OBVIOUS
    <3> QED
      BY <3>1
  <2> QED
    BY <1>2, <2>1 DEF DemandLimited, SupplyLimited
<1>4. Penalty(Rule, Market, t, Pool, q * c)
        = BuyerExternality(Rule, q * c, r * c, Market.supply, Market.demand, Market.price, quantity)
  BY <1>3 DEF Penalty
<1> HIDE DEF w, quantity
<1>5. PriceOf(Rule, Supply * c, Demand * c + w * c) = PriceOf(Rule, Supply, Demand + w)
  <2>1. Demand * c + w * c = (Demand + w) * c
    BY <1>1
  <2>2. params[1] \in Int /\ params[2] \in Int /\ Demand + w \in Int /\ Supply \in Int
    BY <1>1
  <2>3. SigmoidPrice(Supply * c, (Demand + w) * c, KUpper, KLower, params[1], params[2])
          = SigmoidPrice(Supply, Demand + w, KUpper, KLower, params[1], params[2])
    BY <2>2, PriceScales
  <2> QED
    BY <2>1, <2>3 DEF PriceOf, Rule
<1>6. gap \in Nat
  <2>1. Price \in Int /\ PriceOf(Rule, Supply, Demand + w) \in Int
    BY PriceInt DEF Price, PriceOf, Rule
  <2> QED
    BY <2>1 DEF AtLeastZero
<1>7. BuyerExternality(Rule, q * c, r * c, Market.supply, Market.demand, Market.price, quantity)
        = 10 * gap * (Demand * c)
  BY <1>1, <1>2, <1>3, <1>5 DEF BuyerExternality
<1> HIDE DEF gap
<1>8. 10 * gap * (Demand * c) = (10 * gap * Demand) * c
  BY <1>6
<1> QED
  BY <1>4, <1>7, <1>8 DEF gap, w, BuyerPays

(* What a seller gets for his report, and for the truth.                   *)
LEMMA SellerFollows ==
  ASSUME IInv, KLower <= KUpper
  PROVE  SellerGainsNothing
<1> SUFFICES ASSUME LiarOnServedSide(Offers), Supply <= Demand
             PROVE  SellerGainsNothing
  BY DEF SellerGainsNothing
<1> DEFINE x == CHOOSE x \in trades : TradesOf(liar) = {x}
<1>1. step = "charged"
  BY DEF LiarOnServedSide
<1>2. Placed /\ trades = MadeTrades /\ penalties = DuePenalties
  BY <1>1 DEF IInv, MarketPlaced, TradesMade, PenaltiesMade
<1>3. params \in Nat \X Nat /\ truth \in Nat /\ KLower \in Nat /\ KUpper \in Nat
  BY CalibrationAssumption DEF IInv, CalibrationInv
<1>4. PICK t \in trades :
           /\ x = t
           /\ OwnerOf(t) = liar
           /\ Parts \in Nat \ {0}
           /\ \E o \in Offers : /\ t.energy = Share(o)
                                /\ o \in Offers => t.bid = Pool /\ t.offer = o /\ t.offer # Pool
                                /\ o \in Bids => t.bid = o /\ t.offer = Pool /\ t.bid # Pool
  BY <1>2, LiarsTrade
<1>5. PICK o \in Offers : t.energy = Share(o) /\ t.bid = Pool /\ t.offer = o /\ t.offer # Pool
  BY <1>4
<1> DEFINE r == reported[o]
           q == truth
           c == Parts
           s == Supply - r + q
           sold == Min({s, Demand})
           best == PriceOf(Rule, s, Demand)
<1>6. o \in Orders /\ r \in Nat \ {0} /\ t.energy = r * c /\ c \in Nat \ {0}
  BY <1>2, <1>4, <1>5, ShareBounds DEF Orders
<1>7. Supply \in Nat /\ Demand \in Nat /\ r <= Supply
  BY <1>2, TradedIsLeast, Totals DEF Supply, Orders
<1>8. penalties[t] = Penalty(Rule, Market, t, Pool, q * c)
  BY <1>2, <1>4 DEF DuePenalties, Measured
<1>9. Penalty(Rule, Market, t, Pool, q * c)
        = (11 * KUpper * AtLeastZero(r - q)
             + 10 * AtLeastZero(Price - PriceOf(Rule, Supply + AtLeastZero(q - r), Demand)) * Supply) * c
  <2>1. KLower \in Int /\ KUpper \in Nat /\ params \in Nat \X Nat /\ Parts \in Nat \ {0}
    BY <1>3, <1>4
  <2>2. \A i, j \in Nat : \A k : k.bid = Pool /\ k.offer # Pool /\ k.energy = j * Parts =>
          Penalty(Rule, Market, k, Pool, i * Parts)
            = (11 * KUpper * AtLeastZero(j - i)
               + 10 * AtLeastZero(Price - PriceOf(Rule, Supply + AtLeastZero(i - j), Demand)) * Supply) * Parts
    <3> SUFFICES ASSUME NEW i \in Nat, NEW j \in Nat, NEW k, k.bid = Pool, k.offer # Pool,
                        k.energy = j * Parts
                 PROVE  Penalty(Rule, Market, k, Pool, i * Parts)
                          = (11 * KUpper * AtLeastZero(j - i)
                               + 10 * AtLeastZero(Price - PriceOf(Rule, Supply + AtLeastZero(i - j), Demand))
                                   * Supply) * Parts
      OBVIOUS
    <3> QED
      BY <1>7, <2>1, SellersCharge
  <2>3. q \in Nat /\ r \in Nat /\ t.energy = r * Parts
    BY <1>3, <1>6
  <2> QED
    BY <1>5, <2>2, <2>3
<1>10. s \in Nat
  BY <1>3, <1>6, <1>7
<1>11. sold = IF s <= Demand THEN s ELSE Demand
  BY <1>7, <1>10, MinOfTwo
<1>12. /\ Price \in KLower .. KUpper /\ best \in KLower .. KUpper
       /\ s <= Supply => Price <= best
       /\ Supply <= s => best <= Price
  <2>1. params[1] \in Nat /\ params[2] \in Nat
    BY <1>3
  <2> DEFINE curve(z) == SigmoidPrice(z, Demand, KUpper, KLower, params[1], params[2])
  <2>4. Price = curve(Supply) /\ best = curve(s)
    BY DEF Price, PriceOf, Rule
  <2> HIDE DEF s, best
  <2>5. \A y, z \in Nat : y <= z =>
          curve(y) \in KLower .. KUpper /\ curve(z) \in KLower .. KUpper /\ curve(z) <= curve(y)
    <3> SUFFICES ASSUME NEW y \in Nat, NEW z \in Nat, y <= z
                 PROVE  curve(y) \in KLower .. KUpper /\ curve(z) \in KLower .. KUpper /\ curve(z) <= curve(y)
      OBVIOUS
    <3>1. KUpper \in Int /\ KLower \in Int
      BY <1>3
    <3> QED
      BY <1>7, <2>1, <3>1, SupplyLowers
  <2> HIDE DEF curve
  <2>2. CASE s <= Supply
    BY <1>3, <1>7, <1>10, <2>2, <2>4, <2>5
  <2>3. CASE Supply <= s
    BY <1>3, <1>7, <1>10, <2>3, <2>4, <2>5
  <2> QED
    BY <1>7, <1>10, <2>2, <2>3
<1>13. Price \in Nat /\ best \in Nat /\ KLower <= Price /\ Price <= KUpper /\ KLower <= best
  BY <1>3, <1>12
<1>14. sold \in Nat /\ sold <= s
  BY <1>7, <1>10, <1>11
<1> DEFINE earned == SellerGain(r * c, q * c, Price) - penalties[t]
           promised == IF q = 0 THEN 0 ELSE SellerGain(q * sold, q * s, best) * c
<1> SUFFICES earned * s <= promised
  <2> DEFINE supply(z) == Supply - reported[z.offer] + truth
             result(z) == (SellerGain(z.energy, truth * Parts, Price) - penalties[z]) * supply(z)
             honest(z) == IF truth = 0 THEN 0
                          ELSE SellerGain(truth * Min({supply(z), Demand}), truth * supply(z),
                                          PriceOf(Rule, supply(z), Demand)) * Parts
  <2>1. result(x) <= honest(x) => SellerGainsNothing
    BY DEF SellerGainsNothing
  <2>2. result(t) = earned * s /\ honest(t) = promised
    BY <1>5, <1>6
  <2> HIDE DEF result, honest, supply, x, earned, promised, s
  <2> QED
    BY <1>4, <2>1, <2>2
<1>15. SellerGain(r * c, q * c, Price) = 10 * (Price * (r * c) + KLower * (AtLeastZero(q - r) * c))
  BY <1>3, <1>6, InParts DEF SellerGain
<1>16. SellerGain(q * sold, q * s, best) = 10 * (q * (best * sold + KLower * (s - sold)))
  <2>1. q * s >= q * sold /\ q * s \in Int /\ q * sold \in Int
    BY <1>3, <1>10, <1>14
  <2>2. AtLeastZero(q * s - q * sold) = q * s - q * sold
    BY <2>1 DEF AtLeastZero
  <2>3. best * (q * sold) + KLower * (q * s - q * sold) = q * (best * sold + KLower * (s - sold))
    <3> HIDE DEF q, s, sold, best
    <3> QED
      BY <1>3, <1>10, <1>13, <1>14 DEF q
  <2> QED
    BY <2>2, <2>3 DEF SellerGain
<1> HIDE DEF r, s, sold, best, x, c
<1>17. CASE q <= r
  <2>1. AtLeastZero(q - r) = 0 /\ AtLeastZero(r - q) = r - q /\ Supply + 0 = Supply
    BY <1>3, <1>6, <1>7, <1>17 DEF AtLeastZero
  <2>2. PriceOf(Rule, Supply, Demand) = Price /\ AtLeastZero(Price - Price) = 0
    BY <1>13 DEF Price, AtLeastZero
  <2>3. penalties[t] = (11 * KUpper * (r - q)) * c
    BY <1>3, <1>6, <1>7, <1>8, <1>9, <2>1, <2>2
  <2> DEFINE a == 10 * (Price * r) - 11 * KUpper * (r - q)
  <2>4. earned = a * c
    <3>1. SellerGain(r * c, q * c, Price) = 10 * (Price * (r * c))
      BY <1>3, <1>6, <1>13, <1>15, <2>1
    <3> QED
      BY <1>3, <1>6, <1>13, <2>3, <3>1
  <2>5. s <= Supply
    BY <1>3, <1>6, <1>7, <1>17 DEF s
  <2>6. sold = s
    BY <1>7, <1>10, <1>11, <2>5
  <2>7. q \in 0 .. r
    BY <1>3, <1>6, <1>17
  <2>8. a \in Int /\ a * s <= 10 * (best * (q * s))
    <3>1. Price <= best
      BY <1>12, <2>5
    <3> QED
      BY <1>3, <1>6, <1>10, <1>13, <2>7, <3>1, OverpromiseLoses
  <2>9. promised = (10 * (best * (q * s))) * c
    <3>1. CASE q = 0
      BY <1>6, <1>10, <1>13, <3>1
    <3>2. CASE q # 0
      <4>1. q * (best * s + KLower * (s - s)) = best * (q * s)
        BY <1>3, <1>10, <1>13
      <4> QED
        BY <1>16, <2>6, <3>2, <4>1
    <3> QED
      BY <3>1, <3>2
  <2> DEFINE y == 10 * (best * (q * s))
  <2>10. y \in Int
    BY <1>3, <1>10, <1>13
  <2>11. earned * s = (a * s) * c /\ a * s \in Int
    <3> HIDE DEF a, earned
    <3> QED
      BY <1>6, <1>10, <2>4, <2>8
  <2> HIDE DEF a, y, earned, promised
  <2>12. (a * s) * c <= y * c
    BY <1>6, <2>8, <2>10, <2>11 DEF y
  <2> QED
    BY <2>9, <2>11, <2>12 DEF y
<1>18. CASE r < q
  <2> DEFINE w == q - r
             gap == Price - best
  <2>1. w \in Nat /\ AtLeastZero(q - r) = w /\ AtLeastZero(r - q) = 0
    BY <1>3, <1>6, <1>18 DEF AtLeastZero
  <2>2. s = Supply + w /\ q = r + w
    BY <1>3, <1>6, <1>7 DEF s
  <2>3. best <= Price /\ gap \in Nat /\ AtLeastZero(Price - best) = gap
    <3>1. best <= Price
      BY <1>7, <1>12, <2>1, <2>2
    <3> QED
      BY <1>13, <3>1 DEF AtLeastZero
  <2>4. PriceOf(Rule, Supply + w, Demand) = best
    BY <2>2 DEF best
  <2>5. penalties[t] = (10 * gap * Supply) * c
    BY <1>3, <1>6, <1>7, <1>8, <1>9, <2>1, <2>3, <2>4
  <2> DEFINE a == 10 * (Price * r + KLower * w) - 10 * gap * Supply
             b == 10 * (q * (best * sold + KLower * (s - sold)))
  <2>6. SellerGain(r * c, q * c, Price) = 10 * (Price * (r * c) + KLower * (w * c))
    BY <1>15, <2>1
  <2>7. earned = a * c
    <3> HIDE DEF w, gap
    <3> QED
      BY <1>3, <1>6, <1>7, <1>13, <2>1, <2>3, <2>5, <2>6
  <2>8. a * s <= b
    <3> HIDE DEF w
    <3> QED
      BY <1>3, <1>6, <1>7, <1>10, <1>11, <1>13, <1>14, <2>1, <2>2, <2>3, WithholdingLoses
  <2>9. promised = b * c
    BY <1>6, <1>16, <1>18
  <2>10. a \in Int /\ b \in Int
    <3> HIDE DEF w, gap
    <3> QED
      BY <1>3, <1>6, <1>7, <1>10, <1>13, <1>14, <2>1, <2>3
  <2> HIDE DEF a, b, w, gap, earned, promised
  <2>11. earned * s = (a * s) * c /\ a * s \in Int
    BY <1>6, <1>10, <2>7, <2>10
  <2>12. (a * s) * c <= b * c
    BY <1>6, <2>8, <2>10, <2>11
  <2> QED
    BY <2>9, <2>11, <2>12
<1> QED
  BY <1>3, <1>6, <1>17, <1>18

(* What a buyer pays for his report, and for the truth.                    *)
LEMMA BuyerFollows ==
  ASSUME IInv, KLower <= KUpper
  PROVE  BuyerGainsNothing
<1> SUFFICES ASSUME LiarOnServedSide(Bids), Demand <= Supply
             PROVE  BuyerGainsNothing
  BY DEF BuyerGainsNothing
<1> DEFINE x == CHOOSE x \in trades : TradesOf(liar) = {x}
<1>1. step = "charged"
  BY DEF LiarOnServedSide
<1>2. Placed /\ trades = MadeTrades /\ penalties = DuePenalties
  BY <1>1 DEF IInv, MarketPlaced, TradesMade, PenaltiesMade
<1>3. params \in Nat \X Nat /\ truth \in Nat /\ KLower \in Nat /\ KUpper \in Nat
  BY CalibrationAssumption DEF IInv, CalibrationInv
<1>4. PICK t \in trades :
           /\ x = t
           /\ OwnerOf(t) = liar
           /\ Parts \in Nat \ {0}
           /\ \E o \in Bids : /\ t.energy = Share(o)
                              /\ o \in Offers => t.bid = Pool /\ t.offer = o /\ t.offer # Pool
                              /\ o \in Bids => t.bid = o /\ t.offer = Pool /\ t.bid # Pool
  BY <1>2, LiarsTrade
<1>5. PICK o \in Bids : t.energy = Share(o) /\ t.offer = Pool /\ t.bid = o /\ t.bid # Pool
  BY <1>4
<1> DEFINE r == reported[o]
           q == truth
           c == Parts
           d == Demand - r + q
           bought == Min({d, Supply})
           best == PriceOf(Rule, Supply, d)
<1>6. o \in Orders /\ r \in Nat \ {0} /\ t.energy = r * c /\ c \in Nat \ {0}
  BY <1>2, <1>4, <1>5, ShareBounds DEF Orders
<1>7. Supply \in Nat /\ Demand \in Nat /\ r <= Demand
  BY <1>2, TradedIsLeast, Totals DEF Demand, Orders
<1>8. penalties[t] = Penalty(Rule, Market, t, Pool, q * c)
  BY <1>2, <1>4 DEF DuePenalties, Measured
<1>9. Penalty(Rule, Market, t, Pool, q * c)
        = (10 * AtLeastZero(PriceOf(Rule, Supply, Demand + AtLeastZero(q - r)) - Price) * Demand) * c
  <2>1. KLower \in Int /\ KUpper \in Nat /\ params \in Nat \X Nat /\ Parts \in Nat \ {0}
    BY <1>3, <1>4
  <2>2. /\ q \in Nat /\ r \in Nat /\ t.energy = r * c /\ c \in Nat \ {0} /\ c = Parts
        /\ t.offer = Pool /\ t.bid # Pool
        /\ Supply \in Nat /\ Demand \in Nat /\ Demand <= Supply
    BY <1>3, <1>5, <1>6, <1>7
  <2> HIDE DEF r, q, c, x
  <2>3. BuyerPays(t, r, q, c)
    BY <2>1, <2>2, BuyersCharge
  <2> QED
    BY <2>3 DEF BuyerPays
<1>10. d \in Nat
  BY <1>3, <1>6, <1>7
<1>11. bought = IF d <= Supply THEN d ELSE Supply
  BY <1>7, <1>10, MinOfTwo
<1>12. /\ Price \in KLower .. KUpper /\ best \in KLower .. KUpper
       /\ d <= Demand => best <= Price
       /\ Demand <= d => Price <= best
  <2>1. params[1] \in Nat /\ params[2] \in Nat
    BY <1>3
  <2> DEFINE curve(z) == SigmoidPrice(Supply, z, KUpper, KLower, params[1], params[2])
  <2>2. Price = curve(Demand) /\ best = curve(d)
    BY DEF Price, PriceOf, Rule
  <2> HIDE DEF d, best
  <2>3. \A y, z \in Nat : y <= z =>
          curve(y) \in KLower .. KUpper /\ curve(z) \in KLower .. KUpper /\ curve(y) <= curve(z)
    <3> SUFFICES ASSUME NEW y \in Nat, NEW z \in Nat, y <= z
                 PROVE  curve(y) \in KLower .. KUpper /\ curve(z) \in KLower .. KUpper /\ curve(y) <= curve(z)
      OBVIOUS
    <3>1. KUpper \in Int /\ KLower \in Int
      BY <1>3
    <3> QED
      BY <1>7, <2>1, <3>1, DemandRaises
  <2> HIDE DEF curve
  <2>4. CASE d <= Demand
    BY <1>3, <1>7, <1>10, <2>2, <2>3, <2>4
  <2>5. CASE Demand <= d
    BY <1>3, <1>7, <1>10, <2>2, <2>3, <2>5
  <2> QED
    BY <1>7, <1>10, <2>4, <2>5
<1>13. Price \in Nat /\ best \in Nat /\ KLower <= Price /\ best <= KUpper
  BY <1>3, <1>12
<1>14. bought \in Nat /\ bought <= d
  BY <1>7, <1>10, <1>11
<1> DEFINE paid == BuyerCost(r * c, q * c, Price) + penalties[t]
           honest == IF q = 0 THEN 0 ELSE BuyerCost(q * bought, q * d, best) * c
<1> SUFFICES paid * d >= honest
  <2> DEFINE demand(z) == Demand - reported[z.bid] + truth
             result(z) == (BuyerCost(z.energy, truth * Parts, Price) + penalties[z]) * demand(z)
             truthful(z) == IF truth = 0 THEN 0
                            ELSE BuyerCost(truth * Min({demand(z), Supply}), truth * demand(z),
                                           PriceOf(Rule, Supply, demand(z))) * Parts
  <2>1. result(x) >= truthful(x) => BuyerGainsNothing
    BY DEF BuyerGainsNothing
  <2>2. result(t) = paid * d /\ truthful(t) = honest
    BY <1>5, <1>6
  <2> HIDE DEF result, truthful, demand, x, paid, honest, d
  <2> QED
    BY <1>4, <2>1, <2>2
<1>15. BuyerCost(r * c, q * c, Price)
         = 10 * (Price * (r * c) + KUpper * (AtLeastZero(q - r) * c) - KLower * (AtLeastZero(r - q) * c))
  <2>1. AtLeastZero(q * c - r * c) = AtLeastZero(q - r) * c
    BY <1>3, <1>6, InParts
  <2>2. AtLeastZero(r * c - q * c) = AtLeastZero(r - q) * c
    BY <1>3, <1>6, InParts
  <2> QED
    BY <2>1, <2>2 DEF BuyerCost
<1>16. BuyerCost(q * bought, q * d, best) = 10 * (q * (best * bought + KUpper * (d - bought)))
  <2>1. q * d >= q * bought /\ q * d \in Int /\ q * bought \in Int
    BY <1>3, <1>10, <1>14
  <2>2. AtLeastZero(q * d - q * bought) = q * d - q * bought /\ AtLeastZero(q * bought - q * d) = 0
    BY <2>1 DEF AtLeastZero
  <2>3. best * (q * bought) + KUpper * (q * d - q * bought) - KLower * 0
          = q * (best * bought + KUpper * (d - bought))
    <3> HIDE DEF q, d, bought, best
    <3> QED
      BY <1>3, <1>10, <1>13, <1>14 DEF q
  <2> QED
    BY <2>2, <2>3 DEF BuyerCost
<1> HIDE DEF r, d, bought, best, x, c
<1>17. CASE q <= r
  <2>1. AtLeastZero(q - r) = 0 /\ AtLeastZero(r - q) = r - q /\ Demand + 0 = Demand
    BY <1>3, <1>6, <1>7, <1>17 DEF AtLeastZero
  <2>2. PriceOf(Rule, Supply, Demand) = Price /\ AtLeastZero(Price - Price) = 0
    BY <1>13 DEF Price, AtLeastZero
  <2>3. penalties[t] = 0
    BY <1>6, <1>7, <1>8, <1>9, <2>1, <2>2
  <2> DEFINE a == 10 * (Price * r - KLower * (r - q))
             y == 10 * (best * (q * d))
  <2>4. paid = a * c
    <3>1. BuyerCost(r * c, q * c, Price) = 10 * (Price * (r * c) - KLower * ((r - q) * c))
      BY <1>3, <1>6, <1>13, <1>15, <2>1
    <3> QED
      BY <1>3, <1>6, <1>13, <2>3, <3>1
  <2>5. d <= Demand
    BY <1>3, <1>6, <1>7, <1>17 DEF d
  <2>6. bought = d
    BY <1>7, <1>10, <1>11, <2>5
  <2>7. q \in 0 .. r
    BY <1>3, <1>6, <1>17
  <2>8. a \in Int /\ a * d >= y
    <3>1. best <= Price
      BY <1>12, <2>5
    <3> QED
      BY <1>3, <1>6, <1>10, <1>13, <2>7, <3>1, OverbuyingLoses
  <2>9. honest = y * c
    <3>1. CASE q = 0
      BY <1>6, <1>10, <1>13, <3>1
    <3>2. CASE q # 0
      <4>1. q * (best * d + KUpper * (d - d)) = best * (q * d)
        BY <1>3, <1>10, <1>13
      <4> QED
        BY <1>16, <2>6, <3>2, <4>1
    <3> QED
      BY <3>1, <3>2
  <2>10. y \in Int
    BY <1>3, <1>10, <1>13
  <2> HIDE DEF a, y, paid, honest
  <2>11. paid * d = (a * d) * c /\ a * d \in Int
    BY <1>6, <1>10, <2>4, <2>8
  <2>12. (a * d) * c >= y * c
    BY <1>6, <2>8, <2>10, <2>11
  <2> QED
    BY <2>9, <2>11, <2>12
<1>18. CASE r < q
  <2> DEFINE w == q - r
             gap == best - Price
  <2>1. w \in Nat /\ AtLeastZero(q - r) = w /\ AtLeastZero(r - q) = 0
    BY <1>3, <1>6, <1>18 DEF AtLeastZero
  <2>2. d = Demand + w /\ q = r + w
    BY <1>3, <1>6, <1>7 DEF d
  <2>3. Price <= best /\ gap \in Nat /\ AtLeastZero(best - Price) = gap
    <3>1. Price <= best
      BY <1>7, <1>12, <2>1, <2>2
    <3> QED
      BY <1>13, <3>1 DEF AtLeastZero
  <2>4. PriceOf(Rule, Supply, Demand + w) = best
    BY <2>2 DEF best
  <2>5. penalties[t] = (10 * gap * Demand) * c
    BY <1>3, <1>6, <1>7, <1>8, <1>9, <2>1, <2>3, <2>4
  <2> DEFINE a == 10 * (Price * r + KUpper * w) + 10 * gap * Demand
             b == 10 * (q * (best * bought + KUpper * (d - bought)))
  <2>6. BuyerCost(r * c, q * c, Price) = 10 * (Price * (r * c) + KUpper * (w * c))
    <3> HIDE DEF w
    <3> QED
      BY <1>3, <1>6, <1>13, <1>15, <2>1
  <2>7. paid = a * c
    <3> HIDE DEF w, gap
    <3> QED
      BY <1>3, <1>6, <1>7, <1>13, <2>1, <2>3, <2>5, <2>6
  <2>8. a * d >= b
    <3> HIDE DEF w
    <3> QED
      BY <1>3, <1>6, <1>7, <1>10, <1>11, <1>13, <1>14, <2>1, <2>2, <2>3, UnderbuyingLoses
  <2>9. honest = b * c
    BY <1>6, <1>16, <1>18
  <2>10. a \in Int /\ b \in Int
    <3> HIDE DEF w, gap
    <3> QED
      BY <1>3, <1>6, <1>7, <1>10, <1>13, <1>14, <2>1, <2>3
  <2> HIDE DEF a, b, w, gap, paid, honest
  <2>11. paid * d = (a * d) * c /\ a * d \in Int
    BY <1>6, <1>10, <2>7, <2>10
  <2>12. (a * d) * c >= b * c
    BY <1>6, <2>8, <2>10, <2>11
  <2> QED
    BY <2>9, <2>11, <2>12
<1> QED
  BY <1>3, <1>6, <1>17, <1>18

-----------------------------------------------------------------------------
LEMMA NextIInv == IInv /\ [Next]_vars => IInv'
BY CalibrateKeeps, OpenKeeps, ClearKeeps, ReadKeeps, ChargeKeeps, StutterKeeps DEF Next

(* The invariant of the whole season, from the stored measurements to the  *)
(* charged trades.                                                         *)
THEOREM SeasonInvariant == Spec => []IInv
BY InitIInv, NextIInv, PTL DEF Spec

(* For any history: the slots that the calibration makes of it hold the    *)
(* net energy of the community asked for, each time once                   *)
(* (measurements.py:25).                                                   *)
THEOREM SeasonEnergyConserved == Spec => []EnergyConserved
<1>1. IInv => EnergyConserved
  BY EnergyFollows DEF IInv, CalibrationInv
<1> QED
  BY <1>1, SeasonInvariant, PTL

(* For any grids whose steps divide the box: the fine pass never gives up  *)
(* what the coarse pass has found (optimizer.py:89).                       *)
THEOREM SeasonSearchKeepsBest == Spec => []SearchKeepsBest
<1>1. IInv => SearchKeepsBest
  BY DEF IInv, CalibrationInv
<1> QED
  BY <1>1, SeasonInvariant, PTL

(* For any orders, owners, partners and reports: a facility whose          *)
(* measurement confirms its report and whose energy is one trade is        *)
(* charged nothing (penalties.py:107).                                     *)
THEOREM SeasonTruthfulPayNothing == Spec => []TruthfulPayNothing
BY SeasonInvariant, TruthFollows, PTL

(* For any orders, reports and measurements, when the floor is not above   *)
(* the ceiling, as the audit contract requires of a band                   *)
(* (AMMContract.sol:151): on the side that is served in full no facility   *)
(* with one order and no partner gains by a false report                   *)
(* (penalties.py:40, 74).                                                  *)
THEOREM SeasonLyingGainsNothing == KLower <= KUpper => (Spec => []LyingGainsNothing)
<1> SUFFICES ASSUME KLower <= KUpper
             PROVE  Spec => []LyingGainsNothing
  OBVIOUS
<1>1. IInv => LyingGainsNothing
  BY SellerFollows, BuyerFollows DEF LyingGainsNothing
<1> QED
  BY <1>1, SeasonInvariant, PTL
=============================================================================
