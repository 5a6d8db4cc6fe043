------------------------------ MODULE FoldFacts ------------------------------
(***************************************************************************)
(* What the sums, subsequences and concatenations of the models compute.   *)
(* The inductions are over sets: a set of numbers that is not empty has a  *)
(* least one, so that a set that holds 0 and every successor is all of Nat.*)
(***************************************************************************)
EXTENDS Subsequences, SequencesExt, SequenceTheorems, FiniteSetTheorems, TLAPS

Less == {ss \in Nat \X Nat : ss[1] < ss[2]}

LEMMA LessWF == IsWellFoundedOn(Less, Nat)
BY NatLessThanWellFounded DEF OpToRel, Less

(* Induction: a set of numbers that is not empty has a least element, and  *)
(* so a set that holds 0 and with n also n + 1 holds every number.         *)
LEMMA Least ==
  ASSUME NEW S \in SUBSET Nat, S # {}
  PROVE  \E i \in S : \A j \in S : i <= j
<1>1. PICK x \in S : \A y \in S : ~ (<<y, x>> \in Less)
  BY LessWF, WFMin
<1>2. ASSUME NEW y \in S
      PROVE  x <= y
  <2>1. x \in Nat /\ y \in Nat /\ <<y, x>> \notin Less
    BY <1>1
  <2> QED
    BY <2>1 DEF Less
<1> QED
  BY <1>2

LEMMA Counting ==
  ASSUME NEW P, 0 \in P, \A n \in Nat : n \in P => n + 1 \in P
  PROVE  \A n \in Nat : n \in P
<1>1. SUFFICES ASSUME NEW n \in Nat, n \notin P
               PROVE  FALSE
  OBVIOUS
<1>2. PICK m \in Nat \ P : \A k \in Nat \ P : m <= k
  <2>1. Nat \ P \in SUBSET Nat /\ Nat \ P # {}
    BY <1>1
  <2> QED
    BY <2>1, Least
<1>3. m # 0 /\ m - 1 \in Nat
  BY <1>2
<1>4. m - 1 \in P
  BY <1>2, <1>3
<1> QED
  BY <1>2, <1>3, <1>4

(* The same up to a bound.                                                 *)
LEMMA CountingTo ==
  ASSUME NEW N \in Nat, NEW P, 0 \in P, \A n \in 0 .. N : n < N /\ n \in P => n + 1 \in P
  PROVE  \A n \in 0 .. N : n \in P
<1> DEFINE Q == {n \in Nat : n <= N => n \in P}
<1>1. 0 \in Q
  OBVIOUS
<1>2. ASSUME NEW n \in Nat, n \in Q
      PROVE  n + 1 \in Q
  BY <1>2
<1> HIDE DEF Q
<1>3. \A n \in Nat : n \in Q
  BY <1>1, <1>2, Counting
<1> QED
  BY <1>3 DEF Q

(* A set of sets that holds every set of which it holds all that are one   *)
(* element smaller.                                                        *)
LEMMA Growing ==
  ASSUME NEW T, IsFiniteSet(T), NEW P,
         \A U \in SUBSET T : (\A x \in U : U \ {x} \in P) => U \in P
  PROVE  \A U \in SUBSET T : U \in P
<1> DEFINE Q == {n \in Nat : \A U \in SUBSET T : Cardinality(U) = n => U \in P}
<1>1. \A U \in SUBSET T : IsFiniteSet(U) /\ Cardinality(U) \in Nat
  BY FS_Subset, FS_CardinalityType
<1>2. 0 \in Q
  BY <1>1, FS_EmptySet
<1>3. ASSUME NEW n \in Nat, n \in Q
      PROVE  n + 1 \in Q
  <2> SUFFICES ASSUME NEW U \in SUBSET T, Cardinality(U) = n + 1
               PROVE  U \in P
    OBVIOUS
  <2>1. ASSUME NEW x \in U
        PROVE  U \ {x} \in P
    <3>1. IsFiniteSet(U)
      BY <1>1
    <3>2. Cardinality(U \ {x}) = Cardinality(U) - 1
      BY <3>1, FS_RemoveElement
    <3> QED
      BY <1>3, <3>2
  <2> QED
    BY <2>1
<1> HIDE DEF Q
<1>4. \A n \in Nat : n \in Q
  BY <1>2, <1>3, Counting
<1> QED
  BY <1>1, <1>4 DEF Q

-----------------------------------------------------------------------------
(* Sums.  SumFunctionOnSet is a recursive function over the subsets of the *)
(* set: it exists, and any two such functions agree.                       *)
Picked(U) == CHOOSE x \in U : TRUE

IsSum(f, T, g) ==
  g = [U \in SUBSET T |-> IF U = {} THEN 0 ELSE f[Picked(U)] + g[U \ {Picked(U)}]]

(* A sum over a finite set is the value at the set of a function on its    *)
(* subsets, one that takes the elements away one by one.                   *)
LEMMA SumExists ==
  ASSUME NEW f, NEW T, IsFiniteSet(T)
  PROVE  \E g : IsSum(f, T, g)
<1> DEFINE Small(n) == {U \in SUBSET T : Cardinality(U) <= n}
           Sums(n, g) == g = [U \in Small(n) |-> IF U = {} THEN 0
                                                 ELSE f[Picked(U)] + g[U \ {Picked(U)}]]
           Q == {n \in Nat : \E g : Sums(n, g)}
<1>1. \A U \in SUBSET T : IsFiniteSet(U) /\ Cardinality(U) \in Nat
  BY FS_Subset, FS_CardinalityType
<1>2. ASSUME NEW n \in Nat, NEW U \in Small(n), U # {}
      PROVE  U \ {Picked(U)} \in Small(n) /\ (n # 0 => U \ {Picked(U)} \in Small(n - 1))
  <2>1. Picked(U) \in U
    BY <1>2 DEF Picked
  <2>2. Cardinality(U \ {Picked(U)}) = Cardinality(U) - 1
    BY <1>1, <2>1, FS_RemoveElement
  <2> QED
    BY <1>1, <2>2
<1>3. 0 \in Q
  <2> DEFINE g == [U \in Small(0) |-> 0]
  <2>1. \A U \in Small(0) : U = {}
    BY <1>1, FS_EmptySet
  <2>2. Sums(0, g)
    BY <2>1
  <2> QED
    BY <2>2
<1>4. ASSUME NEW n \in Nat, n \in Q
      PROVE  n + 1 \in Q
  <2>1. PICK g : Sums(n, g)
    BY <1>4
  <2> DEFINE h == [U \in Small(n + 1) |-> IF U = {} THEN 0
                                          ELSE f[Picked(U)] + g[U \ {Picked(U)}]]
  <2>2. \A V \in Small(n) : V \in Small(n + 1) /\ h[V] = g[V]
    <3>1. \A V \in Small(n) : V \in Small(n + 1)
      BY <1>1
    <3> HIDE DEF Small
    <3> QED
      BY <2>1, <3>1
  <2>3. \A U \in Small(n + 1) : U # {} => U \ {Picked(U)} \in Small(n)
    BY <1>2
  <2>4. Sums(n + 1, h)
    BY <2>2, <2>3
  <2> HIDE DEF Sums, h
  <2> QED
    BY <2>4
<1> HIDE DEF Q
<1>5. Cardinality(T) \in Q
  BY <1>1, <1>3, <1>4, Counting
<1>6. Small(Cardinality(T)) = SUBSET T
  BY <1>1, FS_Subset
<1> QED
  BY <1>5, <1>6 DEF Q, IsSum

LEMMA SumsAgree ==
  ASSUME NEW f, NEW T, IsFiniteSet(T), NEW U \in SUBSET T, NEW g, NEW h,
         IsSum(f, T, g), IsSum(f, U, h)
  PROVE  g[U] = h[U]
<1> DEFINE P == {V \in SUBSET U : g[V] = h[V]}
<1>1. ASSUME NEW V \in SUBSET U, \A x \in V : V \ {x} \in P
      PROVE  V \in P
  <2>1. CASE V = {}
    BY <2>1 DEF IsSum
  <2>2. CASE V # {}
    <3>1. Picked(V) \in V
      BY <2>2 DEF Picked
    <3>2. g[V \ {Picked(V)}] = h[V \ {Picked(V)}]
      BY <1>1, <3>1
    <3> QED
      BY <2>2, <3>2 DEF IsSum
  <2> QED
    BY <2>1, <2>2
<1>2. IsFiniteSet(U)
  BY FS_Subset
<1> HIDE DEF P
<1>3. U \in P
  BY <1>1, <1>2, Growing
<1> QED
  BY <1>3 DEF P

LEMMA SumIsSum ==
  ASSUME NEW f, NEW T, IsFiniteSet(T)
  PROVE  \E g : IsSum(f, T, g) /\ SumFunctionOnSet(f, T) = g[T]
<1>1. IsSum(f, T, CHOOSE g : IsSum(f, T, g))
  BY SumExists
<1>2. SumFunctionOnSet(f, T) = (CHOOSE g : IsSum(f, T, g))[T]
  BY DEF SumFunctionOnSet, FoldFunctionOnSet, MapThenFoldSet, IsSum, Picked
<1> QED
  BY <1>1, <1>2

LEMMA SumEmpty ==
  ASSUME NEW f
  PROVE  SumFunctionOnSet(f, {}) = 0
<1>1. PICK g : IsSum(f, {}, g) /\ SumFunctionOnSet(f, {}) = g[{}]
  BY SumIsSum, FS_EmptySet
<1> QED
  BY <1>1 DEF IsSum

LEMMA SumOfNone ==
  ASSUME NEW f, NEW T, \A x \in T : FALSE
  PROVE  SumFunctionOnSet(f, T) = 0
<1>1. T = {}
  OBVIOUS
<1> QED
  BY <1>1, SumEmpty

(* How a sum over a set goes on: by the element picked and the sum over    *)
(* the rest.                                                               *)
LEMMA SumPicked ==
  ASSUME NEW f, NEW T, IsFiniteSet(T), T # {}
  PROVE  /\ Picked(T) \in T
         /\ SumFunctionOnSet(f, T) = f[Picked(T)] + SumFunctionOnSet(f, T \ {Picked(T)})
<1> DEFINE U == T \ {Picked(T)}
<1>1. IsFiniteSet(U)
  BY FS_Subset
<1>2. PICK g : IsSum(f, T, g) /\ SumFunctionOnSet(f, T) = g[T]
  BY SumIsSum
<1>3. PICK h : IsSum(f, U, h) /\ SumFunctionOnSet(f, U) = h[U]
  BY <1>1, SumIsSum
<1>4. g[U] = h[U]
  BY <1>2, <1>3, SumsAgree
<1>5. g[T] = f[Picked(T)] + g[U]
  BY <1>2 DEF IsSum
<1> QED
  BY <1>2, <1>3, <1>4, <1>5 DEF Picked
Summands(f, T) == IsFiniteSet(T) /\ \A x \in T : f[x] \in Int

LEMMA SumInt ==
  ASSUME NEW f, NEW T, Summands(f, T)
  PROVE  \A U \in SUBSET T : SumFunctionOnSet(f, U) \in Int
<1> DEFINE P == {U \in SUBSET T : SumFunctionOnSet(f, U) \in Int}
<1>1. ASSUME NEW U \in SUBSET T, \A x \in U : U \ {x} \in P
      PROVE  U \in P
  <2>1. CASE U = {}
    BY <2>1, SumEmpty
  <2>2. CASE U # {}
    <3>1. IsFiniteSet(U)
      BY FS_Subset DEF Summands
    <3>2. /\ Picked(U) \in U
          /\ SumFunctionOnSet(f, U) = f[Picked(U)] + SumFunctionOnSet(f, U \ {Picked(U)})
      BY <2>2, <3>1, SumPicked
    <3>3. f[Picked(U)] \in Int /\ SumFunctionOnSet(f, U \ {Picked(U)}) \in Int
      BY <1>1, <3>2 DEF Summands
    <3> QED
      BY <3>2, <3>3
  <2> QED
    BY <2>1, <2>2
<1> HIDE DEF P
<1>2. \A U \in SUBSET T : U \in P
  BY <1>1, Growing DEF Summands
<1> QED
  BY <1>2 DEF P

(* The order in which a sum is made does not matter.                       *)
LEMMA SumRemove ==
  ASSUME NEW f, NEW T, Summands(f, T)
  PROVE  \A U \in SUBSET T : \A x \in U :
           SumFunctionOnSet(f, U) = f[x] + SumFunctionOnSet(f, U \ {x})
<1> DEFINE Holds(U, x) == SumFunctionOnSet(f, U) = f[x] + SumFunctionOnSet(f, U \ {x})
           P == {U \in SUBSET T : \A x \in U : Holds(U, x)}
<1>1. ASSUME NEW U \in SUBSET T, \A x \in U : U \ {x} \in P
      PROVE  U \in P
  <2> SUFFICES ASSUME NEW x \in U
               PROVE  Holds(U, x)
    OBVIOUS
  <2> DEFINE c == Picked(U)
  <2>1. IsFiniteSet(U)
    BY FS_Subset DEF Summands
  <2>2. c \in U /\ Holds(U, c)
    BY <2>1, SumPicked
  <2>3. CASE x # c
    <3> DEFINE rest == SumFunctionOnSet(f, (U \ {x}) \ {c})
    <3>1. /\ SumFunctionOnSet(f, U \ {c}) = f[x] + rest
          /\ SumFunctionOnSet(f, U \ {x}) = f[c] + rest
      <4>1. Holds(U \ {c}, x) /\ Holds(U \ {x}, c)
        BY <1>1, <2>2, <2>3
      <4>2. (U \ {c}) \ {x} = (U \ {x}) \ {c}
        OBVIOUS
      <4> QED
        BY <4>1, <4>2
    <3>2. f[x] \in Int /\ f[c] \in Int /\ rest \in Int
      BY <2>2, SumInt DEF Summands
    <3> HIDE DEF rest, c
    <3> QED
      BY <2>2, <3>1, <3>2
  <2> QED
    BY <2>2, <2>3
<1> HIDE DEF P
<1>2. \A U \in SUBSET T : U \in P
  BY <1>1, Growing DEF Summands
<1> QED
  BY <1>2 DEF P
(* One step of an induction over the subsets of T, for sums.               *)
LEMMA SumStep ==
  ASSUME NEW f, NEW T, Summands(f, T), NEW U \in SUBSET T, U # {}
  PROVE  \E x \in U : /\ f[x] \in Int
                      /\ SumFunctionOnSet(f, U \ {x}) \in Int
                      /\ SumFunctionOnSet(f, U) = f[x] + SumFunctionOnSet(f, U \ {x})
<1>1. PICK x \in U : TRUE
  OBVIOUS
<1>2. f[x] \in Int /\ SumFunctionOnSet(f, U \ {x}) \in Int
  BY SumInt DEF Summands
<1>3. SumFunctionOnSet(f, U) = f[x] + SumFunctionOnSet(f, U \ {x})
  BY SumRemove
<1> QED
  BY <1>2, <1>3

(* Sums are linear.                                                        *)
LEMMA SumPlus ==
  ASSUME NEW f, NEW g, NEW h, NEW T, Summands(f, T), Summands(g, T),
         \A x \in T : h[x] = f[x] + g[x]
  PROVE  SumFunctionOnSet(h, T) = SumFunctionOnSet(f, T) + SumFunctionOnSet(g, T)
<1> DEFINE Sf(U) == SumFunctionOnSet(f, U)
           Sg(U) == SumFunctionOnSet(g, U)
           Sh(U) == SumFunctionOnSet(h, U)
           P == {U \in SUBSET T : Sh(U) = Sf(U) + Sg(U)}
<1>1. Summands(h, T)
  BY DEF Summands
<1>2. ASSUME NEW U \in SUBSET T, \A x \in U : U \ {x} \in P
      PROVE  U \in P
  <2>1. CASE U = {}
    BY <2>1, SumEmpty
  <2>2. CASE U # {}
    <3>1. PICK x \in U : f[x] \in Int /\ Sf(U \ {x}) \in Int /\ Sf(U) = f[x] + Sf(U \ {x})
      BY <2>2, SumStep
    <3>2. g[x] \in Int /\ Sg(U \ {x}) \in Int /\ Sg(U) = g[x] + Sg(U \ {x})
      BY SumInt, SumRemove DEF Summands
    <3>3. Sh(U) = h[x] + Sh(U \ {x})
      BY <1>1, SumRemove
    <3>4. Sh(U \ {x}) = Sf(U \ {x}) + Sg(U \ {x})
      BY <1>2
    <3> HIDE DEF Sf, Sg, Sh
    <3>5. Sh(U) = Sf(U) + Sg(U)
      BY <3>1, <3>2, <3>3, <3>4
    <3> QED
      BY <3>5
  <2> QED
    BY <2>1, <2>2
<1> HIDE DEF P
<1>3. \A U \in SUBSET T : U \in P
  BY <1>2, Growing DEF Summands
<1> QED
  BY <1>3 DEF P

LEMMA SumTimes ==
  ASSUME NEW f, NEW h, NEW T, NEW c \in Int, Summands(f, T), \A x \in T : h[x] = f[x] * c
  PROVE  SumFunctionOnSet(h, T) = SumFunctionOnSet(f, T) * c
<1> DEFINE Sf(U) == SumFunctionOnSet(f, U)
           Sh(U) == SumFunctionOnSet(h, U)
           P == {U \in SUBSET T : Sh(U) = Sf(U) * c}
<1>1. Summands(h, T)
  BY DEF Summands
<1>2. ASSUME NEW U \in SUBSET T, \A x \in U : U \ {x} \in P
      PROVE  U \in P
  <2>1. CASE U = {}
    BY <2>1, SumEmpty
  <2>2. CASE U # {}
    <3>1. PICK x \in U : f[x] \in Int /\ Sf(U \ {x}) \in Int /\ Sf(U) = f[x] + Sf(U \ {x})
      BY <2>2, SumStep
    <3>2. Sh(U) = h[x] + Sh(U \ {x})
      BY <1>1, SumRemove
    <3>3. Sh(U \ {x}) = Sf(U \ {x}) * c
      BY <1>2
    <3>4. \A a, b \in Int : (a + b) * c = a * c + b * c
      OBVIOUS
    <3> HIDE DEF Sf, Sh
    <3>5. Sh(U) = Sf(U) * c
      BY <3>1, <3>2, <3>3, <3>4
    <3> QED
      BY <3>5
  <2> QED
    BY <2>1, <2>2
<1> HIDE DEF P
<1>3. \A U \in SUBSET T : U \in P
  BY <1>2, Growing DEF Summands
<1> QED
  BY <1>3 DEF P

LEMMA SumZero ==
  ASSUME NEW f, NEW T, IsFiniteSet(T), \A x \in T : f[x] = 0
  PROVE  SumFunctionOnSet(f, T) = 0
<1>1. Summands(f, T) /\ \A x \in T : f[x] = f[x] * 0
  BY DEF Summands
<1>2. SumFunctionOnSet(f, T) = SumFunctionOnSet(f, T) * 0
  BY <1>1, SumTimes
<1> QED
  BY <1>1, <1>2, SumInt

LEMMA SumSame ==
  ASSUME NEW f, NEW g, NEW T, Summands(f, T), \A x \in T : g[x] = f[x]
  PROVE  SumFunctionOnSet(g, T) = SumFunctionOnSet(f, T)
<1>1. \A x \in T : g[x] = f[x] * 1
  BY DEF Summands
<1>2. SumFunctionOnSet(g, T) = SumFunctionOnSet(f, T) * 1
  BY <1>1, SumTimes
<1> QED
  BY <1>2, SumInt

(* A sum of natural numbers is at least each of them.                      *)
LEMMA SumNat ==
  ASSUME NEW f, NEW T, IsFiniteSet(T), \A x \in T : f[x] \in Nat
  PROVE  /\ SumFunctionOnSet(f, T) \in Nat
         /\ \A x \in T : f[x] <= SumFunctionOnSet(f, T)
<1> DEFINE Sf(U) == SumFunctionOnSet(f, U)
           P == {U \in SUBSET T : Sf(U) \in Nat}
<1>1. Summands(f, T)
  BY DEF Summands
<1>2. ASSUME NEW U \in SUBSET T, \A x \in U : U \ {x} \in P
      PROVE  U \in P
  <2>1. CASE U = {}
    BY <2>1, SumEmpty
  <2>2. CASE U # {}
    <3>1. PICK x \in U : Sf(U) = f[x] + Sf(U \ {x})
      BY <1>1, <2>2, SumStep
    <3>2. f[x] \in Nat /\ Sf(U \ {x}) \in Nat
      BY <1>2
    <3> HIDE DEF Sf
    <3>3. Sf(U) \in Nat
      BY <3>1, <3>2
    <3> QED
      BY <3>3
  <2> QED
    BY <2>1, <2>2
<1> HIDE DEF P
<1>3. \A U \in SUBSET T : U \in P
  BY <1>2, Growing
<1>4. \A U \in SUBSET T : Sf(U) \in Nat
  BY <1>3 DEF P
<1>5. ASSUME NEW x \in T
      PROVE  f[x] <= Sf(T)
  <2>1. Sf(T) = f[x] + Sf(T \ {x})
    BY <1>1, SumRemove
  <2>2. f[x] \in Nat /\ Sf(T \ {x}) \in Nat
    BY <1>4
  <2> HIDE DEF Sf
  <2> QED
    BY <2>1, <2>2
<1> QED
  BY <1>4, <1>5

(* The terms outside a set may as well be zero.                            *)
LEMMA SumFilter ==
  ASSUME NEW f, NEW g, NEW T, Summands(f, T), NEW K,
         \A x \in T : g[x] = IF x \in K THEN f[x] ELSE 0
  PROVE  SumFunctionOnSet(g, T) = SumFunctionOnSet(f, T \cap K)
<1> DEFINE Sf(U) == SumFunctionOnSet(f, U)
           Sg(U) == SumFunctionOnSet(g, U)
           P == {U \in SUBSET T : Sg(U) = Sf(U \cap K)}
<1>1. Summands(g, T)
  BY DEF Summands
<1>2. ASSUME NEW U \in SUBSET T, \A x \in U : U \ {x} \in P
      PROVE  U \in P
  <2>1. CASE U = {}
    <3>1. U \cap K = {}
      BY <2>1
    <3> QED
      BY <2>1, <3>1, SumEmpty
  <2>2. CASE U # {}
    <3>1. PICK x \in U : Sg(U \ {x}) \in Int /\ Sg(U) = g[x] + Sg(U \ {x})
      BY <1>1, <2>2, SumStep
    <3>2. Sg(U \ {x}) = Sf((U \ {x}) \cap K)
      BY <1>2
    <3>3. CASE x \in K
      <4>1. (U \ {x}) \cap K = (U \cap K) \ {x}
        OBVIOUS
      <4>2. Sf(U \cap K) = f[x] + Sf((U \cap K) \ {x})
        BY <3>3, SumRemove
      <4> QED
        BY <3>1, <3>2, <3>3, <4>1, <4>2
    <3>4. CASE x \notin K
      <4>1. (U \ {x}) \cap K = U \cap K
        BY <3>4
      <4> QED
        BY <3>1, <3>2, <3>4, <4>1
    <3> QED
      BY <3>3, <3>4
  <2> QED
    BY <2>1, <2>2
<1> HIDE DEF P
<1>3. \A U \in SUBSET T : U \in P
  BY <1>2, Growing DEF Summands
<1> QED
  BY <1>3 DEF P

LEMMA SumWhere ==
  ASSUME NEW f, NEW g, NEW T, Summands(f, T), NEW K \in SUBSET T,
         \A x \in T : g[x] = IF x \in K THEN f[x] ELSE 0
  PROVE  SumFunctionOnSet(g, T) = SumFunctionOnSet(f, K)
<1>1. SumFunctionOnSet(g, T) = SumFunctionOnSet(f, T \cap K)
  BY SumFilter
<1>2. T \cap K = K
  OBVIOUS
<1> QED
  BY <1>1, <1>2

(* The sum over two sets that share nothing.                               *)
LEMMA SumSplit ==
  ASSUME NEW f, NEW T, Summands(f, T), NEW A, NEW B, T = A \cup B, A \cap B = {}
  PROVE  SumFunctionOnSet(f, T) = SumFunctionOnSet(f, A) + SumFunctionOnSet(f, B)
<1> DEFINE fA == [x \in T |-> IF x \in A THEN f[x] ELSE 0]
           fB == [x \in T |-> IF x \in B THEN f[x] ELSE 0]
<1>1. SumFunctionOnSet(fA, T) = SumFunctionOnSet(f, T \cap A)
  BY SumFilter
<1>2. SumFunctionOnSet(fB, T) = SumFunctionOnSet(f, T \cap B)
  BY SumFilter
<1>3. Summands(fA, T) /\ Summands(fB, T) /\ \A x \in T : f[x] = fA[x] + fB[x]
  BY DEF Summands
<1> HIDE DEF fA, fB
<1>4. SumFunctionOnSet(f, T) = SumFunctionOnSet(fA, T) + SumFunctionOnSet(fB, T)
  BY <1>3, SumPlus
<1>5. T \cap A = A /\ T \cap B = B
  OBVIOUS
<1> QED
  BY <1>1, <1>2, <1>4, <1>5

(* A part of natural numbers adds up to no more than all of them.          *)
LEMMA SumPart ==
  ASSUME NEW f, NEW T, IsFiniteSet(T), \A x \in T : f[x] \in Nat, NEW U \in SUBSET T
  PROVE  SumFunctionOnSet(f, U) <= SumFunctionOnSet(f, T)
<1> DEFINE rest == T \ U
<1>1. Summands(f, T) /\ T = U \cup rest /\ U \cap rest = {}
  BY DEF Summands
<1>2. /\ IsFiniteSet(U) /\ IsFiniteSet(rest) /\ rest \in SUBSET T
  BY FS_Subset
<1> HIDE DEF rest
<1>3. SumFunctionOnSet(f, T) = SumFunctionOnSet(f, U) + SumFunctionOnSet(f, rest)
  BY <1>1, SumSplit
<1>4. SumFunctionOnSet(f, U) \in Nat
  BY <1>2, SumNat
<1>5. SumFunctionOnSet(f, rest) \in Nat
  BY <1>2, SumNat
<1> QED
  BY <1>3, <1>4, <1>5

(* A sum lies within as many times the bound on its terms as it has terms. *)
LEMMA SumBounded ==
  ASSUME NEW f, NEW T, Summands(f, T), NEW c \in Nat, \A x \in T : - c <= f[x] /\ f[x] <= c
  PROVE  /\ Cardinality(T) \in Nat /\ SumFunctionOnSet(f, T) \in Int
         /\ - (Cardinality(T) * c) <= SumFunctionOnSet(f, T)
         /\ SumFunctionOnSet(f, T) <= Cardinality(T) * c
<1> DEFINE Sf(U) == SumFunctionOnSet(f, U)
           Within(n, s) == - (n * c) <= s /\ s <= n * c
           P == {U \in SUBSET T : Within(Cardinality(U), Sf(U))}
<1>1. IsFiniteSet(T) /\ \A x \in T : f[x] \in Int
  BY DEF Summands
<1>2. ASSUME NEW U \in SUBSET T, \A x \in U : U \ {x} \in P
      PROVE  U \in P
  <2>1. CASE U = {}
    <3>1. Sf(U) = 0 /\ Cardinality(U) = 0
      BY <2>1, SumEmpty, FS_EmptySet
    <3> HIDE DEF Sf
    <3> QED
      BY <3>1
  <2>2. CASE U # {}
    <3>1. PICK x \in U : /\ f[x] \in Int /\ Sf(U \ {x}) \in Int
                         /\ Sf(U) = f[x] + Sf(U \ {x})
      BY <2>2, SumStep
    <3>2. IsFiniteSet(U)
      BY <1>1, FS_Subset
    <3>3. Cardinality(U) \in Nat /\ Cardinality(U \ {x}) = Cardinality(U) - 1
      BY <3>1, <3>2, FS_RemoveElement, FS_CardinalityType
    <3>4. Within(Cardinality(U \ {x}), Sf(U \ {x}))
      BY <1>2, <3>1
    <3>5. - c <= f[x] /\ f[x] <= c
      BY <3>1
    <3> HIDE DEF Sf
    <3>6. \A n \in Nat, a, s \in Int :
            - c <= a /\ a <= c /\ Within(n - 1, s) => Within(n, a + s)
      OBVIOUS
    <3>7. Within(Cardinality(U), Sf(U))
      <4> HIDE DEF Within
      <4> QED
        BY <3>1, <3>3, <3>4, <3>5, <3>6
    <3> QED
      BY <3>7
  <2> QED
    BY <2>1, <2>2
<1> HIDE DEF P
<1>3. \A U \in SUBSET T : U \in P
  BY <1>1, <1>2, Growing
<1>4. T \in P
  BY <1>3
<1> QED
  BY <1>1, <1>4, FS_CardinalityType, SumInt DEF P

(* One term of a sum changes.                                              *)
LEMMA SumChange ==
  ASSUME NEW f, NEW g, NEW T, Summands(f, T), NEW x \in T, g[x] \in Int,
         \A y \in T \ {x} : g[y] = f[y]
  PROVE  SumFunctionOnSet(g, T) = SumFunctionOnSet(f, T) + g[x] - f[x]
<1>1. Summands(g, T) /\ Summands(f, T \ {x})
  BY FS_Subset DEF Summands
<1>2. SumFunctionOnSet(f, T) = f[x] + SumFunctionOnSet(f, T \ {x})
  BY SumRemove
<1>3. SumFunctionOnSet(g, T) = g[x] + SumFunctionOnSet(g, T \ {x})
  BY <1>1, SumRemove
<1>4. SumFunctionOnSet(g, T \ {x}) = SumFunctionOnSet(f, T \ {x})
  BY <1>1, SumSame
<1>5. f[x] \in Int /\ SumFunctionOnSet(f, T \ {x}) \in Int
  BY SumInt DEF Summands
<1> QED
  BY <1>2, <1>3, <1>4, <1>5

(* A sum over positions does not depend on where they begin.               *)
LEMMA SumShift ==
  ASSUME NEW m \in Nat, NEW N \in Nat, NEW f, NEW g,
         \A k \in 1 .. N : f[k] \in Int /\ g[m + k] = f[k]
  PROVE  SumFunctionOnSet(g, (m + 1) .. (m + N)) = SumFunctionOnSet(f, 1 .. N)
<1> DEFINE Sf(n) == SumFunctionOnSet(f, 1 .. n)
           Sg(n) == SumFunctionOnSet(g, (m + 1) .. (m + n))
           P == {n \in 0 .. N : Sg(n) = Sf(n)}
<1>1. 0 \in P
  <2>1. 1 .. 0 = {} /\ (m + 1) .. (m + 0) = {}
    OBVIOUS
  <2>2. Sg(0) = 0 /\ Sf(0) = 0
    BY <2>1, SumOfNone
  <2> HIDE DEF Sf, Sg
  <2> QED
    BY <2>2
<1>2. ASSUME NEW n \in 0 .. N, n < N, n \in P
      PROVE  n + 1 \in P
  <2>1. Summands(f, 1 .. (n + 1))
    BY <1>2, FS_Interval DEF Summands
  <2>2. Summands(g, (m + 1) .. (m + (n + 1)))
    <3>1. ASSUME NEW k \in (m + 1) .. (m + (n + 1))
          PROVE  g[k] \in Int
      <4>1. k - m \in 1 .. N /\ m + (k - m) = k
        BY <1>2
      <4>2. f[k - m] \in Int /\ g[m + (k - m)] = f[k - m]
        BY <4>1
      <4> QED
        BY <4>1, <4>2
    <3>2. IsFiniteSet((m + 1) .. (m + (n + 1)))
      BY FS_Interval
    <3> QED
      BY <3>1, <3>2 DEF Summands
  <2>3. (1 .. (n + 1)) \ {n + 1} = 1 .. n /\ n + 1 \in 1 .. (n + 1)
    OBVIOUS
  <2>4. /\ ((m + 1) .. (m + (n + 1))) \ {m + (n + 1)} = (m + 1) .. (m + n)
        /\ m + (n + 1) \in (m + 1) .. (m + (n + 1))
    OBVIOUS
  <2>5. Sf(n + 1) = f[n + 1] + Sf(n)
    BY <2>1, <2>3, SumRemove
  <2>6. Sg(n + 1) = g[m + (n + 1)] + Sg(n)
    BY <2>2, <2>4, SumRemove
  <2>7. g[m + (n + 1)] = f[n + 1] /\ n + 1 \in 0 .. N
    BY <1>2
  <2>8. Sg(n) = Sf(n)
    BY <1>2
  <2> HIDE DEF Sf, Sg
  <2>9. Sg(n + 1) = Sf(n + 1)
    BY <2>5, <2>6, <2>7, <2>8
  <2> QED
    BY <2>7, <2>9
<1> HIDE DEF P
<1>3. \A n \in 0 .. N : n \in P
  BY <1>1, <1>2, CountingTo
<1> QED
  BY <1>3 DEF P
(* The same terms under other names.                                       *)
LEMMA SumRenamed ==
  ASSUME NEW f, NEW g, NEW h, NEW T, IsFiniteSet(T),
         \A x \in T : f[h[x]] \in Int /\ g[x] = f[h[x]],
         \A x, y \in T : h[x] = h[y] => x = y
  PROVE  SumFunctionOnSet(g, T) = SumFunctionOnSet(f, {h[x] : x \in T})
<1> DEFINE Names(U) == {h[x] : x \in U}
           Sf(U) == SumFunctionOnSet(f, Names(U))
           Sg(U) == SumFunctionOnSet(g, U)
           P == {U \in SUBSET T : IsFiniteSet(Names(U)) /\ Sg(U) = Sf(U)}
<1>1. Summands(g, T)
  BY DEF Summands
<1>2. ASSUME NEW U \in SUBSET T, \A x \in U : U \ {x} \in P
      PROVE  U \in P
  <2>1. CASE U = {}
    <3>1. Names(U) = {}
      BY <2>1
    <3>2. IsFiniteSet(Names(U)) /\ Sg(U) = 0 /\ Sf(U) = 0
      BY <2>1, <3>1, SumEmpty, FS_EmptySet
    <3> HIDE DEF Names, Sf, Sg
    <3> QED
      BY <3>2
  <2>2. CASE U # {}
    <3>1. PICK x \in U : Sg(U) = g[x] + Sg(U \ {x})
      BY <1>1, <2>2, SumStep
    <3>2. IsFiniteSet(Names(U \ {x})) /\ Sg(U \ {x}) = Sf(U \ {x})
      BY <1>2
    <3>3. Names(U) = Names(U \ {x}) \cup {h[x]}
      OBVIOUS
    <3>4. Names(U) \ {h[x]} = Names(U \ {x}) /\ h[x] \in Names(U)
      OBVIOUS
    <3>5. \A n \in Names(U) : f[n] \in Int
      OBVIOUS
    <3> HIDE DEF Names
    <3>6. IsFiniteSet(Names(U))
      <4>1. IsFiniteSet(Names(U \ {x}) \cup {h[x]})
        BY <3>2, FS_AddElement
      <4> QED
        BY <3>3, <4>1
    <3>7. Summands(f, Names(U))
      BY <3>5, <3>6 DEF Summands
    <3>8. Sf(U) = f[h[x]] + Sf(U \ {x})
      <4>1. SumFunctionOnSet(f, Names(U))
              = f[h[x]] + SumFunctionOnSet(f, Names(U) \ {h[x]})
        BY <3>4, <3>7, SumRemove
      <4> QED
        BY <3>4, <4>1
    <3>9. g[x] = f[h[x]]
      OBVIOUS
    <3> HIDE DEF Sf, Sg
    <3> QED
      BY <3>1, <3>2, <3>6, <3>8, <3>9
  <2> QED
    BY <2>1, <2>2
<1> HIDE DEF P
<1>3. \A U \in SUBSET T : U \in P
  BY <1>2, Growing
<1> QED
  BY <1>3 DEF P

(* All terms but one are zero.                                             *)
LEMMA SumSingle ==
  ASSUME NEW f, NEW T, IsFiniteSet(T), NEW x \in T, f[x] \in Int, \A y \in T \ {x} : f[y] = 0
  PROVE  SumFunctionOnSet(f, T) = f[x]
<1>1. Summands(f, T) /\ IsFiniteSet(T \ {x})
  BY FS_Subset DEF Summands
<1>2. SumFunctionOnSet(f, T) = f[x] + SumFunctionOnSet(f, T \ {x})
  BY <1>1, SumRemove
<1>3. SumFunctionOnSet(f, T \ {x}) = 0
  BY <1>1, SumZero
<1> QED
  BY <1>2, <1>3

(* A sum may be made class by class.                                       *)
LEMMA SumParts ==
  ASSUME NEW f, NEW T, Summands(f, T), NEW N \in Nat, NEW c, \A x \in T : c[x] \in 1 .. N
  PROVE  SumFunctionOnSet([i \in 1 .. N |-> SumFunctionOnSet(f, {x \in T : c[x] = i})], 1 .. N)
           = SumFunctionOnSet(f, T)
<1> DEFINE Class(i) == {x \in T : c[x] = i}
           First(n) == {x \in T : c[x] <= n}
           g == [i \in 1 .. N |-> SumFunctionOnSet(f, Class(i))]
           P == {n \in 0 .. N : SumFunctionOnSet(g, 1 .. n) = SumFunctionOnSet(f, First(n))}
<1>1. \A i \in 1 .. N : g[i] = SumFunctionOnSet(f, Class(i)) /\ g[i] \in Int
  <2> SUFFICES ASSUME NEW i \in 1 .. N
               PROVE  SumFunctionOnSet(f, Class(i)) \in Int
    OBVIOUS
  <2>1. Class(i) \in SUBSET T
    OBVIOUS
  <2> HIDE DEF Class
  <2> QED
    BY <2>1, SumInt
<1>2. 0 \in P
  <2>1. \A x \in First(0) : FALSE
    OBVIOUS
  <2>2. \A x \in 1 .. 0 : FALSE
    OBVIOUS
  <2> HIDE DEF First, g
  <2>3. SumFunctionOnSet(g, 1 .. 0) = 0 /\ SumFunctionOnSet(f, First(0)) = 0
    BY <2>1, <2>2, SumOfNone
  <2> QED
    BY <2>3
<1>3. ASSUME NEW n \in 0 .. N, n < N, n \in P
      PROVE  n + 1 \in P
  <2> DEFINE U == 1 .. (n + 1)
             A == First(n)
             B == Class(n + 1)
             C == First(n + 1)
  <2>1. n + 1 \in 1 .. N /\ n + 1 \in 0 .. N
    BY <1>3
  <2>2. C = A \cup B /\ A \cap B = {}
    <3>1. \A x \in T : c[x] \in Int
      OBVIOUS
    <3>2. \A x \in T : c[x] <= n + 1 <=> c[x] <= n \/ c[x] = n + 1
      BY <3>1, <2>1
    <3>3. \A x \in T : ~ (c[x] <= n /\ c[x] = n + 1)
      BY <3>1, <2>1
    <3> QED
      BY <3>2, <3>3
  <2>3. Summands(f, C)
    BY FS_Subset DEF Summands
  <2>4. U \ {n + 1} = 1 .. n /\ n + 1 \in U /\ IsFiniteSet(U) /\ U \subseteq 1 .. N
    <3>1. U \ {n + 1} = 1 .. n /\ n + 1 \in U
      OBVIOUS
    <3>2. U \subseteq 1 .. N
      BY <2>1
    <3>3. IsFiniteSet(U)
      BY <2>1, FS_Interval
    <3> QED
      BY <3>1, <3>2, <3>3
  <2>5. g[n + 1] = SumFunctionOnSet(f, B)
    BY <1>1, <2>1
  <2>6. SumFunctionOnSet(g, 1 .. n) = SumFunctionOnSet(f, A)
    BY <1>3
  <2>7. SumFunctionOnSet(f, A) \in Int /\ SumFunctionOnSet(f, B) \in Int
    <3>1. A \in SUBSET T /\ B \in SUBSET T
      OBVIOUS
    <3> HIDE DEF A, B
    <3> QED
      BY <3>1, SumInt
  <2> HIDE DEF U, A, B, C, g
  <2>8. SumFunctionOnSet(f, C) = SumFunctionOnSet(f, A) + SumFunctionOnSet(f, B)
    BY <2>2, <2>3, SumSplit
  <2>9. Summands(g, U)
    BY <1>1, <2>4 DEF Summands
  <2>10. SumFunctionOnSet(g, U) = g[n + 1] + SumFunctionOnSet(g, 1 .. n)
    <3>1. SumFunctionOnSet(g, U) = g[n + 1] + SumFunctionOnSet(g, U \ {n + 1})
      BY <2>4, <2>9, SumRemove
    <3> QED
      BY <2>4, <3>1
  <2>11. SumFunctionOnSet(g, U) = SumFunctionOnSet(f, C)
    BY <2>5, <2>6, <2>7, <2>8, <2>10
  <2> QED
    BY <2>1, <2>11 DEF U, C
<1>4. First(N) = T
  OBVIOUS
<1> HIDE DEF P, g
<1>5. \A n \in 0 .. N : n \in P
  BY <1>2, <1>3, CountingTo
<1> QED
  BY <1>4, <1>5 DEF P, g

-----------------------------------------------------------------------------
(* Sums of weights along a sequence.                                       *)
Weight(s, w) == SumFunctionOnSet([k \in DOMAIN s |-> w[s[k]]], DOMAIN s)

Weighing(S, w) == \A x \in S : w[x] \in Int

LEMMA WeightTerms ==
  ASSUME NEW S, NEW w, Weighing(S, w), NEW s \in Seq(S)
  PROVE  /\ DOMAIN s = 1 .. Len(s) /\ Len(s) \in Nat
         /\ Summands([k \in DOMAIN s |-> w[s[k]]], DOMAIN s)
<1>1. DOMAIN s = 1 .. Len(s) /\ Len(s) \in Nat /\ \A k \in 1 .. Len(s) : s[k] \in S
  OBVIOUS
<1>2. IsFiniteSet(1 .. Len(s))
  BY <1>1, FS_Interval
<1> QED
  BY <1>1, <1>2 DEF Summands, Weighing

LEMMA WeightInt ==
  ASSUME NEW S, NEW w, Weighing(S, w), NEW s \in Seq(S)
  PROVE  Weight(s, w) \in Int
BY WeightTerms, SumInt DEF Weight

LEMMA WeightEmpty ==
  ASSUME NEW w
  PROVE  Weight(<<>>, w) = 0
<1>1. \A k \in DOMAIN <<>> : FALSE
  OBVIOUS
<1> QED
  BY <1>1, SumOfNone DEF Weight

(* The weight of a concatenation, of a longer sequence, and of two         *)
(* weights at once.                                                        *)
LEMMA WeightConcat ==
  ASSUME NEW S, NEW w, Weighing(S, w), NEW s \in Seq(S), NEW t \in Seq(S)
  PROVE  Weight(s \o t, w) = Weight(s, w) + Weight(t, w)
<1> DEFINE m == Len(s)
           n == Len(t)
           f == [k \in DOMAIN s |-> w[s[k]]]
           g == [k \in DOMAIN t |-> w[t[k]]]
           h == [k \in DOMAIN (s \o t) |-> w[(s \o t)[k]]]
<1>1. /\ DOMAIN s = 1 .. m /\ DOMAIN t = 1 .. n /\ DOMAIN (s \o t) = 1 .. (m + n)
      /\ m \in Nat /\ n \in Nat /\ s \o t \in Seq(S)
  OBVIOUS
<1>2. /\ Summands(f, 1 .. m) /\ Summands(g, 1 .. n) /\ Summands(h, 1 .. (m + n))
  <2>1. Summands(f, 1 .. m)
    BY <1>1, WeightTerms
  <2>2. Summands(g, 1 .. n)
    BY <1>1, WeightTerms
  <2>3. Summands(h, DOMAIN (s \o t))
    BY <1>1, WeightTerms
  <2> QED
    BY <1>1, <2>1, <2>2, <2>3
<1>3. \A k \in 1 .. m : h[k] = f[k]
  BY <1>1
<1>4. ASSUME NEW k \in 1 .. n
      PROVE  g[k] \in Int /\ h[m + k] = g[k]
  <2>1. (s \o t)[m + k] = t[k] /\ m + k \in 1 .. (m + n)
    BY <1>1
  <2>2. t[k] \in S /\ k \in DOMAIN t
    BY <1>1
  <2> QED
    BY <1>1, <2>1, <2>2 DEF Weighing
<1>5. Weight(s, w) = SumFunctionOnSet(f, 1 .. m) /\ Weight(t, w) = SumFunctionOnSet(g, 1 .. n)
  BY <1>1 DEF Weight
<1>6. Weight(s \o t, w) = SumFunctionOnSet(h, 1 .. (m + n))
  BY <1>1 DEF Weight
<1> HIDE DEF f, g, h, m, n
<1>7. SumFunctionOnSet(h, 1 .. m) = SumFunctionOnSet(f, 1 .. m)
  BY <1>2, <1>3, SumSame
<1>8. SumFunctionOnSet(h, (m + 1) .. (m + n)) = SumFunctionOnSet(g, 1 .. n)
  BY <1>1, <1>4, SumShift
<1> DEFINE first == 1 .. m
           second == (m + 1) .. (m + n)
           both == 1 .. (m + n)
<1>9. both = first \cup second /\ first \cap second = {}
  BY <1>1
<1>10. Summands(h, both)
  BY <1>2
<1> HIDE DEF first, second, both
<1>11. SumFunctionOnSet(h, both) = SumFunctionOnSet(h, first) + SumFunctionOnSet(h, second)
  BY <1>9, <1>10, SumSplit
<1> QED
  BY <1>5, <1>6, <1>7, <1>8, <1>11 DEF first, second, both

LEMMA WeightAppend ==
  ASSUME NEW S, NEW w, Weighing(S, w), NEW s \in Seq(S), NEW x \in S
  PROVE  Weight(Append(s, x), w) = Weight(s, w) + w[x]
<1> DEFINE f == [k \in DOMAIN <<x>> |-> w[(<<x>>)[k]]]
<1>1. <<x>> \in Seq(S) /\ Append(s, x) = s \o <<x>>
  BY AppendIsConcat
<1>2. DOMAIN <<x>> = {1} /\ f[1] = w[x]
  OBVIOUS
<1>3. Summands(f, {1})
  <2>1. Summands(f, DOMAIN <<x>>)
    BY <1>1, WeightTerms
  <2> HIDE DEF f
  <2> QED
    BY <1>2, <2>1
<1>4. {1} \ {1} = {}
  OBVIOUS
<1>5. SumFunctionOnSet(f, {1}) = w[x] + 0
  <2>1. SumFunctionOnSet(f, {1}) = f[1] + SumFunctionOnSet(f, {1} \ {1})
    BY <1>3, SumRemove
  <2> QED
    BY <1>2, <1>4, <2>1, SumEmpty
<1>6. Weight(<<x>>, w) = w[x] + 0
  BY <1>2, <1>5 DEF Weight
<1>7. w[x] \in Int /\ Weight(s, w) \in Int
  BY WeightInt DEF Weighing
<1>8. Weight(s \o <<x>>, w) = Weight(s, w) + Weight(<<x>>, w)
  BY <1>1, WeightConcat
<1> QED
  BY <1>1, <1>6, <1>7, <1>8

LEMMA WeightPlus ==
  ASSUME NEW S, NEW u, NEW v, NEW w, Weighing(S, u), Weighing(S, v),
         \A x \in S : w[x] = u[x] + v[x], NEW s \in Seq(S)
  PROVE  Weight(s, w) = Weight(s, u) + Weight(s, v)
<1> DEFINE f == [k \in DOMAIN s |-> u[s[k]]]
           g == [k \in DOMAIN s |-> v[s[k]]]
           h == [k \in DOMAIN s |-> w[s[k]]]
<1>1. Summands(f, DOMAIN s) /\ Summands(g, DOMAIN s)
  BY WeightTerms
<1>2. \A k \in DOMAIN s : h[k] = f[k] + g[k]
  OBVIOUS
<1> HIDE DEF f, g, h
<1>3. SumFunctionOnSet(h, DOMAIN s) = SumFunctionOnSet(f, DOMAIN s) + SumFunctionOnSet(g, DOMAIN s)
  BY <1>1, <1>2, SumPlus
<1> QED
  BY <1>3 DEF Weight, f, g, h

(* Equal weights of the elements that occur give equal sums.               *)
LEMMA WeightSame ==
  ASSUME NEW S, NEW u, NEW w, Weighing(S, u), NEW s \in Seq(S),
         \A k \in 1 .. Len(s) : w[s[k]] = u[s[k]]
  PROVE  Weight(s, w) = Weight(s, u)
<1> DEFINE f == [k \in DOMAIN s |-> u[s[k]]]
           h == [k \in DOMAIN s |-> w[s[k]]]
<1>1. Summands(f, DOMAIN s) /\ DOMAIN s = 1 .. Len(s)
  BY WeightTerms
<1>2. \A k \in DOMAIN s : h[k] = f[k]
  BY <1>1
<1> HIDE DEF f, h
<1>3. SumFunctionOnSet(h, DOMAIN s) = SumFunctionOnSet(f, DOMAIN s)
  BY <1>1, <1>2, SumSame
<1> QED
  BY <1>3 DEF Weight, f, h
(* Two sequences whose elements weigh the same, place by place.            *)
LEMMA WeightMapped ==
  ASSUME NEW S, NEW u, Weighing(S, u), NEW s \in Seq(S), NEW t, DOMAIN t = DOMAIN s, NEW w,
         \A k \in DOMAIN s : w[t[k]] = u[s[k]]
  PROVE  Weight(t, w) = Weight(s, u)
<1> DEFINE f == [k \in DOMAIN s |-> u[s[k]]]
           h == [k \in DOMAIN t |-> w[t[k]]]
<1>1. Summands(f, DOMAIN s)
  BY WeightTerms
<1>2. \A k \in DOMAIN s : h[k] = f[k]
  OBVIOUS
<1> HIDE DEF f, h
<1>3. SumFunctionOnSet(h, DOMAIN s) = SumFunctionOnSet(f, DOMAIN s)
  BY <1>1, <1>2, SumSame
<1> QED
  BY <1>3 DEF Weight, f, h

-----------------------------------------------------------------------------
(* Subsequences.                                                           *)
IsTaken(s, K, N, g) ==
  g = [n \in 0 .. N |-> IF n = 0 THEN <<>>
                        ELSE IF n \in K THEN Append(g[n - 1], s[n]) ELSE g[n - 1]]

LEMMA TakenExists ==
  ASSUME NEW s, NEW K
  PROVE  \A N \in Nat : \E g : IsTaken(s, K, N, g)
<1> DEFINE P == {N \in Nat : \E g : IsTaken(s, K, N, g)}
<1>1. 0 \in P
  <2> DEFINE g == [n \in 0 .. 0 |-> <<>>]
  <2>1. IsTaken(s, K, 0, g)
    BY DEF IsTaken
  <2> QED
    BY <2>1
<1>2. ASSUME NEW N \in Nat, N \in P
      PROVE  N + 1 \in P
  <2>1. PICK g : IsTaken(s, K, N, g)
    BY <1>2
  <2> DEFINE Step(n) == IF n = 0 THEN <<>>
                        ELSE IF n \in K THEN Append(g[n - 1], s[n]) ELSE g[n - 1]
             h == [n \in 0 .. (N + 1) |-> Step(n)]
  <2>2. \A n \in 0 .. N : h[n] = g[n]
    <3>1. \A n \in 0 .. N : n \in 0 .. (N + 1)
      OBVIOUS
    <3>2. \A n \in 0 .. N : g[n] = Step(n)
      BY <2>1 DEF IsTaken
    <3> HIDE DEF Step
    <3> QED
      BY <3>1, <3>2
  <2>3. \A n \in 0 .. (N + 1) : n # 0 => n - 1 \in 0 .. N
    OBVIOUS
  <2>4. IsTaken(s, K, N + 1, h)
    BY <2>2, <2>3 DEF IsTaken
  <2> HIDE DEF h
  <2> QED
    BY <2>4
<1> HIDE DEF P
<1>3. \A N \in Nat : N \in P
  BY <1>1, <1>2, Counting
<1> QED
  BY <1>3 DEF P

LEMMA TakenSteps ==
  ASSUME NEW s, NEW K, Len(s) \in Nat
  PROVE  \E g : /\ Subsequence(s, K) = g[Len(s)]
                /\ g[0] = <<>>
                /\ \A n \in 1 .. Len(s) :
                     g[n] = IF n \in K THEN Append(g[n - 1], s[n]) ELSE g[n - 1]
<1> DEFINE g == CHOOSE g : IsTaken(s, K, Len(s), g)
<1>1. IsTaken(s, K, Len(s), g)
  BY TakenExists
<1>2. Subsequence(s, K) = g[Len(s)]
  BY DEF Subsequence, IsTaken
<1> HIDE DEF g
<1>3. \A n \in 0 .. Len(s) : g[n] = IF n = 0 THEN <<>>
                                     ELSE IF n \in K THEN Append(g[n - 1], s[n]) ELSE g[n - 1]
  BY <1>1 DEF IsTaken
<1> QED
  BY <1>2, <1>3

(* h says where in s the elements of t come from: from the positions in K, *)
(* all of them, in order.                                                  *)
Embeds(h, t, s, K) ==
  /\ h \in [1 .. Len(t) -> K]
  /\ \A i, j \in 1 .. Len(t) : i < j => h[i] < h[j]
  /\ \A k \in K : \E i \in 1 .. Len(t) : h[i] = k
  /\ \A i \in 1 .. Len(t) : t[i] = s[h[i]]

LEMMA EmbedsMore ==
  ASSUME NEW S, NEW s \in Seq(S), NEW t \in Seq(S), NEW n \in 1 .. Len(s),
         NEW K \in SUBSET (1 .. (n - 1)), NEW h, Embeds(h, t, s, K)
  PROVE  \E g : Embeds(g, Append(t, s[n]), s, K \cup {n})
<1> DEFINE u == Append(t, s[n])
           g == [i \in 1 .. Len(u) |-> IF i = Len(u) THEN n ELSE h[i]]
<1>1. /\ Len(t) \in Nat /\ Len(u) = Len(t) + 1 /\ u[Len(u)] = s[n]
      /\ \A i \in 1 .. Len(t) : u[i] = t[i]
  BY AppendProperties
<1> HIDE DEF u
<1>2. \A i \in 1 .. Len(u) : i # Len(u) => i \in 1 .. Len(t)
  BY <1>1
<1>3. /\ h \in [1 .. Len(t) -> K] /\ \A i, j \in 1 .. Len(t) : i < j => h[i] < h[j]
      /\ \A k \in K : \E i \in 1 .. Len(t) : h[i] = k
      /\ \A i \in 1 .. Len(t) : t[i] = s[h[i]]
  BY DEF Embeds
<1>4. g \in [1 .. Len(u) -> K \cup {n}]
  BY <1>2, <1>3
<1>5. ASSUME NEW i \in 1 .. Len(u), NEW j \in 1 .. Len(u), i < j
      PROVE  g[i] < g[j]
  <2>1. i \in 1 .. Len(t) /\ h[i] \in 1 .. (n - 1)
    <3>1. i # Len(u)
      BY <1>1, <1>5
    <3>2. i \in 1 .. Len(t)
      BY <1>2, <3>1
    <3>3. h[i] \in K
      BY <1>3, <3>2
    <3> QED
      BY <3>2, <3>3
  <2>2. CASE j = Len(u)
    BY <1>1, <1>5, <2>1, <2>2
  <2>3. CASE j # Len(u)
    BY <1>1, <1>2, <1>3, <1>5, <2>1, <2>3
  <2> QED
    BY <2>2, <2>3
<1>6. ASSUME NEW k \in K \cup {n}
      PROVE  \E i \in 1 .. Len(u) : g[i] = k
  <2>1. CASE k = n
    <3>1. Len(u) \in 1 .. Len(u)
      BY <1>1
    <3> QED
      BY <2>1, <3>1
  <2>2. CASE k \in K
    <3>1. PICK i \in 1 .. Len(t) : h[i] = k
      BY <1>3, <2>2
    <3>2. i \in 1 .. Len(u) /\ i # Len(u)
      BY <1>1
    <3> QED
      BY <3>1, <3>2
  <2> QED
    BY <2>1, <2>2
<1>7. \A i \in 1 .. Len(u) : u[i] = s[g[i]]
  BY <1>1, <1>2, <1>3
<1> HIDE DEF g
<1>8. Embeds(g, u, s, K \cup {n})
  BY <1>4, <1>5, <1>6, <1>7 DEF Embeds
<1> QED
  BY <1>8 DEF u

(* A subsequence visits each of its positions once, and no other.          *)
LEMMA SubsequenceEmbeds ==
  ASSUME NEW S, NEW s \in Seq(S), NEW K \in SUBSET (1 .. Len(s))
  PROVE  /\ Subsequence(s, K) \in Seq(S)
         /\ \E h : Embeds(h, Subsequence(s, K), s, K)
<1>1. PICK g : /\ Subsequence(s, K) = g[Len(s)]
               /\ g[0] = <<>>
               /\ \A n \in 1 .. Len(s) :
                    g[n] = IF n \in K THEN Append(g[n - 1], s[n]) ELSE g[n - 1]
  BY TakenSteps
<1> DEFINE Holds(n) == g[n] \in Seq(S) /\ \E h : Embeds(h, g[n], s, K \cap (1 .. n))
           P == {n \in 0 .. Len(s) : Holds(n)}
<1>2. 0 \in P
  <2> DEFINE h == [i \in 1 .. 0 |-> 0]
  <2>1. Embeds(h, <<>>, s, K \cap (1 .. 0))
    BY DEF Embeds
  <2> HIDE DEF h
  <2>2. \E e : Embeds(e, g[0], s, K \cap (1 .. 0))
    BY <1>1, <2>1
  <2>3. Len(s) \in Nat /\ g[0] \in Seq(S)
    BY <1>1
  <2> QED
    BY <2>2, <2>3
<1>3. ASSUME NEW m \in 0 .. Len(s), m < Len(s), m \in P
      PROVE  m + 1 \in P
  <2>1. Len(s) \in Nat /\ m + 1 \in 1 .. Len(s) /\ (m + 1) - 1 = m /\ s[m + 1] \in S
    BY <1>3
  <2>2. PICK h : g[m] \in Seq(S) /\ Embeds(h, g[m], s, K \cap (1 .. m))
    BY <1>3
  <2>3. CASE m + 1 \in K
    <3>1. g[m + 1] = Append(g[m], s[m + 1])
      BY <1>1, <2>1, <2>3
    <3>2. (K \cap (1 .. m)) \cup {m + 1} = K \cap (1 .. (m + 1))
      BY <2>1, <2>3
    <3>3. K \cap (1 .. m) \in SUBSET (1 .. ((m + 1) - 1))
      BY <2>1
    <3>4. \E e : Embeds(e, Append(g[m], s[m + 1]), s, (K \cap (1 .. m)) \cup {m + 1})
      BY <2>1, <2>2, <3>3, EmbedsMore
    <3>5. Append(g[m], s[m + 1]) \in Seq(S)
      BY <2>1, <2>2
    <3>6. Holds(m + 1)
      BY <3>1, <3>2, <3>4, <3>5
    <3> HIDE DEF Holds
    <3> QED
      BY <2>1, <3>6
  <2>4. CASE m + 1 \notin K
    <3>1. g[m + 1] = g[m]
      BY <1>1, <2>1, <2>4
    <3>2. K \cap (1 .. m) = K \cap (1 .. (m + 1))
      BY <2>1, <2>4
    <3>3. Holds(m + 1)
      BY <2>2, <3>1, <3>2
    <3> HIDE DEF Holds
    <3> QED
      BY <2>1, <3>3
  <2> QED
    BY <2>3, <2>4
<1> HIDE DEF P
<1>4. Len(s) \in Nat /\ Len(s) \in 0 .. Len(s)
  OBVIOUS
<1>5. Len(s) \in P
  BY <1>2, <1>3, <1>4, CountingTo
<1>6. K \cap (1 .. Len(s)) = K
  OBVIOUS
<1> QED
  BY <1>1, <1>5, <1>6 DEF P
LEMMA EmbedsInjective ==
  ASSUME NEW s, NEW t, Len(t) \in Nat, NEW K \in SUBSET Nat, NEW h, Embeds(h, t, s, K)
  PROVE  \A i, j \in 1 .. Len(t) : h[i] = h[j] => i = j
<1> SUFFICES ASSUME NEW i \in 1 .. Len(t), NEW j \in 1 .. Len(t), i # j
             PROVE  h[i] # h[j]
  OBVIOUS
<1>1. h[i] \in Nat /\ h[j] \in Nat
  BY DEF Embeds
<1>2. i < j \/ j < i
  OBVIOUS
<1>3. h[i] < h[j] \/ h[j] < h[i]
  BY <1>2 DEF Embeds
<1> QED
  BY <1>1, <1>3

(* Hence its weight, its length and its elements.                          *)
LEMMA SubsequenceWeight ==
  ASSUME NEW S, NEW w, Weighing(S, w), NEW s \in Seq(S), NEW K \in SUBSET (1 .. Len(s))
  PROVE  Weight(Subsequence(s, K), w) = SumFunctionOnSet([k \in DOMAIN s |-> w[s[k]]], K)
<1> DEFINE t == Subsequence(s, K)
           f == [k \in DOMAIN s |-> w[s[k]]]
           g == [i \in DOMAIN t |-> w[t[i]]]
<1>1. t \in Seq(S) /\ \E h : Embeds(h, t, s, K)
  BY SubsequenceEmbeds
<1> HIDE DEF t
<1>2. PICK h : Embeds(h, t, s, K)
  BY <1>1
<1>3. /\ DOMAIN t = 1 .. Len(t) /\ Len(t) \in Nat /\ DOMAIN s = 1 .. Len(s)
      /\ IsFiniteSet(1 .. Len(t))
  BY <1>1, FS_Interval
<1>4. \A i \in 1 .. Len(t) : h[i] \in K /\ t[i] = s[h[i]]
  BY <1>2 DEF Embeds
<1>5. \A k \in K : k \in 1 .. Len(s) /\ f[k] \in Int
  BY <1>3 DEF Weighing
<1>6. \A i \in 1 .. Len(t) : f[h[i]] \in Int /\ g[i] = f[h[i]]
  BY <1>3, <1>4, <1>5
<1>7. \A i, j \in 1 .. Len(t) : h[i] = h[j] => i = j
  BY <1>2, <1>3, EmbedsInjective
<1>8. {h[i] : i \in 1 .. Len(t)} = K
  BY <1>2, <1>4 DEF Embeds
<1> HIDE DEF f, g
<1>9. SumFunctionOnSet(g, 1 .. Len(t)) = SumFunctionOnSet(f, {h[i] : i \in 1 .. Len(t)})
  <2> DEFINE T == 1 .. Len(t)
  <2>1. /\ IsFiniteSet(T)
        /\ \A i \in T : f[h[i]] \in Int /\ g[i] = f[h[i]]
        /\ \A i, j \in T : h[i] = h[j] => i = j
    BY <1>3, <1>6, <1>7
  <2> HIDE DEF T
  <2>2. SumFunctionOnSet(g, T) = SumFunctionOnSet(f, {h[i] : i \in T})
    BY <2>1, SumRenamed
  <2> QED
    BY <2>2 DEF T
<1>10. Weight(t, w) = SumFunctionOnSet(g, 1 .. Len(t))
  BY <1>3 DEF Weight, g
<1> QED
  BY <1>8, <1>9, <1>10 DEF t, f

LEMMA SubsequenceLength ==
  ASSUME NEW S, NEW s \in Seq(S), NEW K \in SUBSET (1 .. Len(s))
  PROVE  Len(Subsequence(s, K)) = Cardinality(K)
<1> DEFINE t == Subsequence(s, K)
<1>1. t \in Seq(S) /\ \E h : Embeds(h, t, s, K)
  BY SubsequenceEmbeds
<1> HIDE DEF t
<1>2. PICK h : Embeds(h, t, s, K)
  BY <1>1
<1>3. Len(t) \in Nat /\ \A i, j \in 1 .. Len(t) : h[i] = h[j] => i = j
  <2>1. Len(t) \in Nat /\ K \in SUBSET Nat
    BY <1>1
  <2> QED
    BY <1>2, <2>1, EmbedsInjective
<1>4. h \in Bijection(1 .. Len(t), K)
  BY <1>2, <1>3 DEF Embeds, Bijection, Injection, Surjection, IsInjective
<1>5. ExistsBijection(1 .. Len(t), K)
  BY <1>4 DEF ExistsBijection
<1> QED
  BY <1>3, <1>5, FS_CountingElements DEF t

LEMMA SubsequenceElements ==
  ASSUME NEW S, NEW s \in Seq(S), NEW K \in SUBSET (1 .. Len(s))
  PROVE  /\ \A i \in 1 .. Len(Subsequence(s, K)) : \E k \in K : Subsequence(s, K)[i] = s[k]
         /\ \A k \in K : \E i \in 1 .. Len(Subsequence(s, K)) : Subsequence(s, K)[i] = s[k]
<1>1. PICK h : Embeds(h, Subsequence(s, K), s, K)
  BY SubsequenceEmbeds
<1> DEFINE t == Subsequence(s, K)
<1> HIDE DEF t
<1>2. Embeds(h, t, s, K)
  BY <1>1 DEF t
<1>3. /\ \A i \in 1 .. Len(t) : h[i] \in K /\ t[i] = s[h[i]]
      /\ \A k \in K : \E i \in 1 .. Len(t) : h[i] = k
  BY <1>2 DEF Embeds
<1>4. ASSUME NEW i \in 1 .. Len(t)
      PROVE  \E k \in K : t[i] = s[k]
  BY <1>3
<1>5. ASSUME NEW k \in K
      PROVE  \E i \in 1 .. Len(t) : t[i] = s[k]
  <2>1. PICK i \in 1 .. Len(t) : h[i] = k
    BY <1>3
  <2>2. t[i] = s[k]
    BY <1>3, <2>1
  <2> QED
    BY <2>2
<1> QED
  BY <1>4, <1>5 DEF t
(* Each element of a subsequence has a place of its own in the sequence.   *)
TakesFrom(t, s, K) ==
  \E h : /\ \A i \in 1 .. Len(t) : h[i] \in K /\ t[i] = s[h[i]]
         /\ \A i, j \in 1 .. Len(t) : h[i] = h[j] => i = j

LEMMA SubsequencePlaces ==
  ASSUME NEW S, NEW s \in Seq(S), NEW K \in SUBSET (1 .. Len(s))
  PROVE  TakesFrom(Subsequence(s, K), s, K)
<1> DEFINE t == Subsequence(s, K)
<1>1. t \in Seq(S) /\ \E h : Embeds(h, t, s, K)
  BY SubsequenceEmbeds
<1> HIDE DEF t
<1>2. PICK h : Embeds(h, t, s, K)
  BY <1>1
<1>3. K \in SUBSET Nat /\ Len(t) \in Nat
  BY <1>1
<1>4. \A i, j \in 1 .. Len(t) : h[i] = h[j] => i = j
  BY <1>2, <1>3, EmbedsInjective
<1>5. \A i \in 1 .. Len(t) : h[i] \in K /\ t[i] = s[h[i]]
  BY <1>2 DEF Embeds
<1> QED
  BY <1>4, <1>5 DEF t, TakesFrom

-----------------------------------------------------------------------------
(* Concatenations.                                                         *)
IsFlat(ss, N, g) == g = [i \in 1 .. N |-> IF i = 1 THEN ss[i] ELSE g[i - 1] \o ss[i]]

(* FlattenSeq joins the sequences one by one.                              *)
LEMMA FlatExists ==
  ASSUME NEW ss
  PROVE  \A N \in Nat : \E g : IsFlat(ss, N, g)
<1> DEFINE P == {N \in Nat : \E g : IsFlat(ss, N, g)}
<1>1. 0 \in P
  <2> DEFINE g == [i \in 1 .. 0 |-> <<>>]
  <2>1. IsFlat(ss, 0, g)
    BY DEF IsFlat
  <2> QED
    BY <2>1
<1>2. ASSUME NEW N \in Nat, N \in P
      PROVE  N + 1 \in P
  <2>1. PICK g : IsFlat(ss, N, g)
    BY <1>2
  <2> DEFINE Step(i) == IF i = 1 THEN ss[i] ELSE g[i - 1] \o ss[i]
             h == [i \in 1 .. (N + 1) |-> Step(i)]
  <2>2. \A i \in 1 .. N : h[i] = g[i]
    <3>1. \A i \in 1 .. N : i \in 1 .. (N + 1)
      OBVIOUS
    <3>2. \A i \in 1 .. N : g[i] = Step(i)
      BY <2>1 DEF IsFlat
    <3> HIDE DEF Step
    <3> QED
      BY <3>1, <3>2
  <2>3. \A i \in 1 .. (N + 1) : i # 1 => i - 1 \in 1 .. N
    OBVIOUS
  <2>4. IsFlat(ss, N + 1, h)
    BY <2>2, <2>3 DEF IsFlat
  <2> HIDE DEF h
  <2> QED
    BY <2>4
<1> HIDE DEF P
<1>3. \A N \in Nat : N \in P
  BY <1>1, <1>2, Counting
<1> QED
  BY <1>3 DEF P

(* The concatenations of the first parts, up to n of them.                 *)
IsFlattened(ss, g) == g[0] = <<>> /\ \A i \in 1 .. Len(ss) : g[i] = g[i - 1] \o ss[i]

LEMMA FlatSteps ==
  ASSUME NEW S, NEW ss \in Seq(Seq(S))
  PROVE  \E g : FlattenSeq(ss) = g[Len(ss)] /\ IsFlattened(ss, g)
<1>1. Len(ss) \in Nat /\ \A i \in 1 .. Len(ss) : ss[i] \in Seq(S)
  OBVIOUS
<1> DEFINE f == CHOOSE g : IsFlat(ss, Len(ss), g)
           g == [i \in 0 .. Len(ss) |-> IF i = 0 THEN <<>> ELSE f[i]]
<1>2. IsFlat(ss, Len(ss), f)
  BY <1>1, FlatExists
<1>3. FlattenSeq(ss) = IF Len(ss) = 0 THEN ss ELSE f[Len(ss)]
  BY DEF FlattenSeq, IsFlat
<1> HIDE DEF f
<1>4. \A i \in 1 .. Len(ss) : f[i] = IF i = 1 THEN ss[i] ELSE f[i - 1] \o ss[i]
  BY <1>2 DEF IsFlat
<1>5. g[0] = <<>> /\ \A i \in 1 .. Len(ss) : g[i] = f[i]
  BY <1>1
<1>6. FlattenSeq(ss) = g[Len(ss)]
  BY <1>1, <1>3, <1>5
<1> HIDE DEF g
<1>7. ASSUME NEW i \in 1 .. Len(ss)
      PROVE  g[i] = g[i - 1] \o ss[i]
  <2>1. CASE i = 1
    <3>1. <<>> \o ss[1] = ss[1] /\ i - 1 = 0
      BY <1>1, <2>1
    <3>2. f[i] = ss[1]
      BY <1>4, <2>1
    <3> QED
      BY <1>5, <2>1, <3>1, <3>2
  <2>2. CASE i # 1
    <3>1. i - 1 \in 1 .. Len(ss)
      BY <1>1, <2>2
    <3> QED
      BY <1>4, <1>5, <2>2, <3>1
  <2> QED
    BY <2>1, <2>2
<1> QED
  BY <1>5, <1>6, <1>7 DEF IsFlattened

(* The elements of a concatenation are those of its parts.                 *)
Occurs(x, s) == \E k \in 1 .. Len(s) : s[k] = x

(* After n sequences: what occurs in the first n of them.                  *)
JoinsFirst(S, ss, g) ==
  \A n \in 0 .. Len(ss) :
    /\ g[n] \in Seq(S)
    /\ \A x : Occurs(x, g[n]) <=> \E i \in 1 .. n : Occurs(x, ss[i])

LEMMA FlatElements ==
  ASSUME NEW S, NEW ss \in Seq(Seq(S)), NEW g, IsFlattened(ss, g)
  PROVE  JoinsFirst(S, ss, g)
<1>1. g[0] = <<>> /\ \A i \in 1 .. Len(ss) : g[i] = g[i - 1] \o ss[i]
  BY DEF IsFlattened
<1> DEFINE Parts(n, x) == \E i \in 1 .. n : Occurs(x, ss[i])
           Holds(n) == g[n] \in Seq(S) /\ \A x : Occurs(x, g[n]) <=> Parts(n, x)
           P == {n \in 0 .. Len(ss) : Holds(n)}
<1>2. 0 \in P
  <2>1. Len(ss) \in Nat /\ <<>> \in Seq(S)
    OBVIOUS
  <2>2. \A x : ~ Occurs(x, <<>>) /\ ~ Parts(0, x)
    BY DEF Occurs
  <2>3. Holds(0)
    BY <1>1, <2>1, <2>2
  <2> HIDE DEF Holds
  <2> QED
    BY <2>1, <2>3
<1>3. ASSUME NEW n \in 0 .. Len(ss), n < Len(ss), n \in P
      PROVE  n + 1 \in P
  <2>1. n + 1 \in 1 .. Len(ss) /\ n + 1 \in 0 .. Len(ss) /\ (n + 1) - 1 = n
    BY <1>3
  <2>2. ss[n + 1] \in Seq(S) /\ g[n] \in Seq(S) /\ g[n + 1] = g[n] \o ss[n + 1]
    <3>1. ss[n + 1] \in Seq(S)
      BY <2>1
    <3>2. g[n] \in Seq(S)
      BY <1>3
    <3>3. g[n + 1] = g[n] \o ss[n + 1]
      BY <1>1, <2>1
    <3> QED
      BY <3>1, <3>2, <3>3
  <2>3. ASSUME NEW x
        PROVE  Occurs(x, g[n + 1]) <=> Occurs(x, g[n]) \/ Occurs(x, ss[n + 1])
    <3> DEFINE s == g[n]
               t == ss[n + 1]
    <3> HIDE DEF s, t
    <3>1. s \in Seq(S) /\ t \in Seq(S)
      BY <2>2 DEF s, t
    <3>2. Occurs(x, s \o t) => Occurs(x, s) \/ Occurs(x, t)
      <4> SUFFICES ASSUME NEW k \in 1 .. Len(s \o t), (s \o t)[k] = x
                   PROVE  Occurs(x, s) \/ Occurs(x, t)
        BY DEF Occurs
      <4>1. \/ k \in 1 .. Len(s) /\ (s \o t)[k] = s[k]
            \/ k - Len(s) \in 1 .. Len(t) /\ (s \o t)[k] = t[k - Len(s)]
        BY <3>1
      <4> QED
        BY <4>1 DEF Occurs
    <3>3. Occurs(x, s) => Occurs(x, s \o t)
      BY <3>1 DEF Occurs
    <3>4. Occurs(x, t) => Occurs(x, s \o t)
      <4> SUFFICES ASSUME NEW k \in 1 .. Len(t), t[k] = x
                   PROVE  Occurs(x, s \o t)
        BY DEF Occurs
      <4>1. Len(s) + k \in 1 .. Len(s \o t) /\ (s \o t)[Len(s) + k] = t[k]
        BY <3>1
      <4> QED
        BY <4>1 DEF Occurs
    <3> QED
      BY <2>2, <3>2, <3>3, <3>4 DEF s, t
  <2>4. ASSUME NEW x
        PROVE  Parts(n + 1, x) <=> Parts(n, x) \/ Occurs(x, ss[n + 1])
    <3>1. \A i : i \in 1 .. (n + 1) <=> i \in 1 .. n \/ i = n + 1
      BY <2>1
    <3> QED
      BY <3>1
  <2>5. g[n + 1] \in Seq(S)
    BY <2>2
  <2>6. Holds(n + 1)
    <3>1. \A x : Occurs(x, g[n]) <=> Parts(n, x)
      BY <1>3
    <3> HIDE DEF Parts
    <3> QED
      BY <2>3, <2>4, <2>5, <3>1
  <2> HIDE DEF Holds
  <2> QED
    BY <2>1, <2>6
<1> HIDE DEF P
<1>4. Len(ss) \in Nat /\ Len(ss) \in 0 .. Len(ss)
  OBVIOUS
<1>5. \A n \in 0 .. Len(ss) : n \in P
  BY <1>2, <1>3, <1>4, CountingTo
<1> QED
  BY <1>5 DEF P, JoinsFirst

(* Hence its elements and its weight, and when nothing occurs twice in     *)
(* it.                                                                     *)
LEMMA FlattenElements ==
  ASSUME NEW S, NEW ss \in Seq(Seq(S))
  PROVE  /\ FlattenSeq(ss) \in Seq(S)
         /\ \A x : Occurs(x, FlattenSeq(ss)) <=> \E i \in 1 .. Len(ss) : Occurs(x, ss[i])
<1>1. PICK g : FlattenSeq(ss) = g[Len(ss)] /\ IsFlattened(ss, g)
  BY FlatSteps
<1>2. Len(ss) \in 0 .. Len(ss)
  OBVIOUS
<1>3. JoinsFirst(S, ss, g)
  BY <1>1, FlatElements
<1> QED
  BY <1>1, <1>2, <1>3 DEF JoinsFirst

LEMMA FlattenWeight ==
  ASSUME NEW S, NEW w, Weighing(S, w), NEW ss \in Seq(Seq(S))
  PROVE  Weight(FlattenSeq(ss), w)
           = SumFunctionOnSet([i \in 1 .. Len(ss) |-> Weight(ss[i], w)], 1 .. Len(ss))
<1>1. PICK g : FlattenSeq(ss) = g[Len(ss)] /\ IsFlattened(ss, g)
  BY FlatSteps
<1> DEFINE f == [i \in 1 .. Len(ss) |-> Weight(ss[i], w)]
           P == {n \in 0 .. Len(ss) : Weight(g[n], w) = SumFunctionOnSet(f, 1 .. n)}
<1>2. Len(ss) \in Nat
  OBVIOUS
<1>3. \A i \in 1 .. Len(ss) : f[i] = Weight(ss[i], w) /\ f[i] \in Int
  BY WeightInt
<1>4. 0 \in P
  <2>1. Weight(g[0], w) = 0
    BY <1>1, WeightEmpty DEF IsFlattened
  <2>2. \A x \in 1 .. 0 : FALSE
    OBVIOUS
  <2>3. SumFunctionOnSet(f, 1 .. 0) = 0
    BY <2>2, SumOfNone
  <2> QED
    BY <1>2, <2>1, <2>3
<1> HIDE DEF f
<1>5. ASSUME NEW n \in 0 .. Len(ss), n < Len(ss), n \in P
      PROVE  n + 1 \in P
  <2>1. n + 1 \in 1 .. Len(ss) /\ n + 1 \in 0 .. Len(ss) /\ (n + 1) - 1 = n
    BY <1>2, <1>5
  <2>2. ss[n + 1] \in Seq(S) /\ g[n] \in Seq(S) /\ g[n + 1] = g[n] \o ss[n + 1]
    <3>1. g[n] \in Seq(S)
      <4>1. JoinsFirst(S, ss, g)
        BY <1>1, FlatElements
      <4> QED
        BY <4>1 DEF JoinsFirst
    <3>2. ss[n + 1] \in Seq(S)
      BY <2>1
    <3>3. g[n + 1] = g[(n + 1) - 1] \o ss[n + 1]
      BY <1>1, <2>1 DEF IsFlattened
    <3> QED
      BY <2>1, <3>1, <3>2, <3>3
  <2>3. Weight(g[n + 1], w) = Weight(g[n], w) + f[n + 1]
    BY <1>3, <2>1, <2>2, WeightConcat
  <2>4. Summands(f, 1 .. (n + 1))
    BY <1>2, <1>3, <2>1, FS_Interval DEF Summands
  <2>5. (1 .. (n + 1)) \ {n + 1} = 1 .. n /\ n + 1 \in 1 .. (n + 1)
    BY <1>2
  <2>6. SumFunctionOnSet(f, 1 .. (n + 1)) = f[n + 1] + SumFunctionOnSet(f, 1 .. n)
    <3> DEFINE T == 1 .. (n + 1)
    <3> HIDE DEF T
    <3>1. Summands(f, T) /\ n + 1 \in T /\ T \ {n + 1} = 1 .. n
      BY <2>4, <2>5 DEF T
    <3>2. SumFunctionOnSet(f, T) = f[n + 1] + SumFunctionOnSet(f, T \ {n + 1})
      BY <3>1, SumRemove
    <3> QED
      BY <3>1, <3>2 DEF T
  <2>7. Weight(g[n], w) \in Int /\ f[n + 1] \in Int
    BY <1>3, <2>1, <2>2, WeightInt
  <2>8. Weight(g[n], w) = SumFunctionOnSet(f, 1 .. n)
    BY <1>5
  <2> QED
    BY <2>1, <2>3, <2>6, <2>7, <2>8
<1> HIDE DEF P
<1>6. \A n \in 0 .. Len(ss) : n \in P
  BY <1>2, <1>4, <1>5, CountingTo
<1>7. Len(ss) \in P
  BY <1>2, <1>6
<1> QED
  BY <1>1, <1>7 DEF P, f

(* No element occurs twice.                                                *)
Distinct(s) == \A i, j \in 1 .. Len(s) : s[i] = s[j] => i = j

LEMMA ConcatDistinct ==
  ASSUME NEW S, NEW s \in Seq(S), NEW t \in Seq(S), Distinct(s), Distinct(t),
         \A x : ~ (Occurs(x, s) /\ Occurs(x, t))
  PROVE  Distinct(s \o t)
<1> SUFFICES ASSUME NEW i \in 1 .. Len(s \o t), NEW j \in 1 .. Len(s \o t),
                    (s \o t)[i] = (s \o t)[j], i < j
             PROVE  FALSE
  <2>1. \A i, j \in 1 .. Len(s \o t) : i = j \/ i < j \/ j < i
    OBVIOUS
  <2> QED
    BY <2>1 DEF Distinct
<1>1. CASE j <= Len(s)
  <2>1. i \in 1 .. Len(s) /\ j \in 1 .. Len(s) /\ s[i] = s[j]
    BY <1>1
  <2> QED
    BY <2>1 DEF Distinct
<1>2. CASE i > Len(s)
  <2>1. /\ i - Len(s) \in 1 .. Len(t) /\ j - Len(s) \in 1 .. Len(t)
        /\ t[i - Len(s)] = t[j - Len(s)] /\ i - Len(s) # j - Len(s)
    BY <1>2
  <2> QED
    BY <2>1 DEF Distinct
<1>3. CASE i <= Len(s) /\ j > Len(s)
  <2>1. i \in 1 .. Len(s) /\ j - Len(s) \in 1 .. Len(t) /\ s[i] = t[j - Len(s)]
    BY <1>3
  <2> QED
    BY <2>1 DEF Occurs
<1>4. i \in Nat /\ j \in Nat /\ Len(s) \in Nat
  OBVIOUS
<1> QED
  BY <1>1, <1>2, <1>3, <1>4

LEMMA FlattenDistinct ==
  ASSUME NEW S, NEW ss \in Seq(Seq(S)), \A i \in 1 .. Len(ss) : Distinct(ss[i]),
         \A i, j \in 1 .. Len(ss) : \A x : Occurs(x, ss[i]) /\ Occurs(x, ss[j]) => i = j
  PROVE  Distinct(FlattenSeq(ss))
<1>1. PICK g : FlattenSeq(ss) = g[Len(ss)] /\ IsFlattened(ss, g)
  BY FlatSteps
<1> DEFINE P == {n \in 0 .. Len(ss) : Distinct(g[n])}
<1>2. 0 \in P
  BY <1>1 DEF IsFlattened, Distinct
<1>3. ASSUME NEW n \in 0 .. Len(ss), n < Len(ss), n \in P
      PROVE  n + 1 \in P
  <2>1. n + 1 \in 1 .. Len(ss) /\ n + 1 \in 0 .. Len(ss) /\ (n + 1) - 1 = n
    BY <1>3
  <2>2. /\ g[n] \in Seq(S)
        /\ \A x : Occurs(x, g[n]) <=> \E i \in 1 .. n : Occurs(x, ss[i])
    <3>1. JoinsFirst(S, ss, g)
      BY <1>1, FlatElements
    <3> QED
      BY <3>1 DEF JoinsFirst
  <2>3. g[n + 1] = g[n] \o ss[n + 1] /\ ss[n + 1] \in Seq(S)
    <3>1. ss[n + 1] \in Seq(S)
      BY <2>1
    <3>2. g[n + 1] = g[(n + 1) - 1] \o ss[n + 1]
      BY <1>1, <2>1 DEF IsFlattened
    <3> QED
      BY <2>1, <3>1, <3>2
  <2>4. \A x : ~ (Occurs(x, g[n]) /\ Occurs(x, ss[n + 1]))
    <3>1. \A i \in 1 .. n : i \in 1 .. Len(ss) /\ i # n + 1
      BY <2>1
    <3> QED
      BY <2>1, <2>2, <3>1
  <2>5. Distinct(g[n]) /\ Distinct(ss[n + 1])
    BY <1>3, <2>1
  <2>6. Distinct(g[n + 1])
    BY <2>2, <2>3, <2>4, <2>5, ConcatDistinct
  <2> QED
    BY <2>1, <2>6
<1> HIDE DEF P
<1>4. Len(ss) \in Nat /\ Len(ss) \in 0 .. Len(ss)
  OBVIOUS
<1>5. Len(ss) \in P
  BY <1>2, <1>3, <1>4, CountingTo
<1> QED
  BY <1>1, <1>5 DEF P
(* off says where in the concatenation the parts begin.                    *)
LaidOut(s, ss, n, off) ==
  /\ \A i \in 1 .. n : /\ off[i] \in Nat
                       /\ \A a \in 1 .. Len(ss[i]) : /\ off[i] + a \in 1 .. Len(s)
                                                     /\ s[off[i] + a] = ss[i][a]
  /\ \A k \in 1 .. Len(s) : \E i \in 1 .. n : \E a \in 1 .. Len(ss[i]) : k = off[i] + a

LEMMA LaidOutMore ==
  ASSUME NEW S, NEW ss \in Seq(Seq(S)), NEW s \in Seq(S), NEW n \in Nat,
         n + 1 \in 1 .. Len(ss), NEW off, LaidOut(s, ss, n, off)
  PROVE  \E more : LaidOut(s \o ss[n + 1], ss, n + 1, more)
<1> DEFINE t == ss[n + 1]
           more == [i \in 1 .. (n + 1) |-> IF i = n + 1 THEN Len(s) ELSE off[i]]
           all == s \o t
<1>1. t \in Seq(S)
  OBVIOUS
<1> HIDE DEF t
<1>2. /\ Len(s) \in Nat /\ Len(t) \in Nat /\ Len(all) = Len(s) + Len(t)
      /\ \A k \in 1 .. Len(s) : all[k] = s[k]
      /\ \A a \in 1 .. Len(t) : all[Len(s) + a] = t[a]
  BY <1>1
<1> HIDE DEF all
<1>3. more[n + 1] = Len(s) /\ \A i \in 1 .. n : more[i] = off[i] /\ i \in 1 .. (n + 1)
  OBVIOUS
<1>4. \A i \in 1 .. (n + 1) : i = n + 1 \/ i \in 1 .. n
  OBVIOUS
<1> HIDE DEF more
<1>5. \A k \in 1 .. Len(s) : k \in 1 .. Len(all)
  BY <1>2
<1>6. ASSUME NEW i \in 1 .. (n + 1)
      PROVE  /\ more[i] \in Nat
             /\ \A a \in 1 .. Len(ss[i]) : more[i] + a \in 1 .. Len(all) /\ all[more[i] + a] = ss[i][a]
  <2>1. CASE i = n + 1
    <3>1. \A a \in 1 .. Len(t) : Len(s) + a \in 1 .. Len(all)
      BY <1>2
    <3> QED
      BY <1>2, <1>3, <2>1, <3>1 DEF t
  <2>2. CASE i \in 1 .. n
    <3>1. /\ off[i] \in Nat
          /\ \A a \in 1 .. Len(ss[i]) : off[i] + a \in 1 .. Len(s) /\ s[off[i] + a] = ss[i][a]
      BY <2>2 DEF LaidOut
    <3> QED
      BY <1>2, <1>3, <1>5, <2>2, <3>1
  <2> QED
    BY <1>4, <2>1, <2>2
<1>7. ASSUME NEW k \in 1 .. Len(all)
      PROVE  \E i \in 1 .. (n + 1) : \E a \in 1 .. Len(ss[i]) : k = more[i] + a
  <2>1. CASE k \in 1 .. Len(s)
    <3>1. PICK i \in 1 .. n : \E a \in 1 .. Len(ss[i]) : k = off[i] + a
      BY <2>1 DEF LaidOut
    <3> QED
      BY <1>3, <3>1
  <2>2. CASE k \notin 1 .. Len(s)
    <3>1. k - Len(s) \in 1 .. Len(t) /\ k = Len(s) + (k - Len(s))
      BY <1>2, <2>2
    <3>2. n + 1 \in 1 .. (n + 1)
      OBVIOUS
    <3> QED
      BY <1>3, <3>1, <3>2 DEF t
  <2> QED
    BY <2>1, <2>2
<1>8. LaidOut(all, ss, n + 1, more)
  BY <1>6, <1>7 DEF LaidOut
<1> QED
  BY <1>8 DEF all, t

(* Every part lies somewhere in the concatenation, and nothing else does.  *)
LEMMA FlattenLaidOut ==
  ASSUME NEW S, NEW ss \in Seq(Seq(S))
  PROVE  \E off : LaidOut(FlattenSeq(ss), ss, Len(ss), off)
<1>1. PICK g : FlattenSeq(ss) = g[Len(ss)] /\ IsFlattened(ss, g)
  BY FlatSteps
<1> DEFINE P == {n \in 0 .. Len(ss) : \E off : LaidOut(g[n], ss, n, off)}
<1>2. 0 \in P
  <2>1. LaidOut(g[0], ss, 0, <<>>)
    BY <1>1 DEF IsFlattened, LaidOut
  <2> QED
    BY <2>1
<1>3. ASSUME NEW n \in 0 .. Len(ss), n < Len(ss), n \in P
      PROVE  n + 1 \in P
  <2>1. n \in Nat /\ n + 1 \in 1 .. Len(ss) /\ n + 1 \in 0 .. Len(ss) /\ (n + 1) - 1 = n
    BY <1>3
  <2>2. g[n] \in Seq(S)
    <3>1. JoinsFirst(S, ss, g)
      BY <1>1, FlatElements
    <3> QED
      BY <3>1 DEF JoinsFirst
  <2>3. g[n + 1] = g[n] \o ss[n + 1]
    <3>1. g[n + 1] = g[(n + 1) - 1] \o ss[n + 1]
      BY <1>1, <2>1 DEF IsFlattened
    <3> QED
      BY <2>1, <3>1
  <2>4. PICK off : LaidOut(g[n], ss, n, off)
    BY <1>3
  <2>5. \E more : LaidOut(g[n] \o ss[n + 1], ss, n + 1, more)
    BY <2>1, <2>2, <2>4, LaidOutMore
  <2> QED
    BY <2>1, <2>3, <2>5
<1> HIDE DEF P
<1>4. Len(ss) \in Nat /\ Len(ss) \in 0 .. Len(ss)
  OBVIOUS
<1>5. Len(ss) \in P
  BY <1>2, <1>3, <1>4, CountingTo
<1> QED
  BY <1>1, <1>5 DEF P
=============================================================================
