----------------------------- MODULE RuleProofs -----------------------------
(***************************************************************************)
(* Theorems about the rules of the tools, for any lists, headers,          *)
(* contracts, catalog entries, suites, programs and images: which files    *)
(* prepare collects and the fingerprint watches (RtlInputs), what a top    *)
(* module is accepted for (TopContract), what may be built from the        *)
(* catalog (CatalogRules) and how a run is judged (SimulationRules).       *)
(*                                                                         *)
(* The first two are made of folds over lists and functions that are       *)
(* recursive in the natural numbers.  What those compute is proved through *)
(* the states they go through, by induction in first-order form: Least,    *)
(* StepByStep, and Recursion, which says that such a function exists.      *)
(***************************************************************************)
EXTENDS CatalogRules, SimulationRules, FiniteSetTheorems, FunctionTheorems, SequenceTheorems,
        WellFoundedInduction, TLAPS

-----------------------------------------------------------------------------
(* Induction, in first-order form: what does not hold of all numbers fails  *)
(* at a first one.                                                         *)

LEMMA Least ==
    ASSUME NEW T \in SUBSET Nat, T # {}
    PROVE  \E x \in T : \A y \in T : x <= y
<1>1. \E x \in T : \A y \in T : <<y, x>> \notin OpToRel(<, Nat)
  BY NatLessThanWellFounded, WFMin
<1>2. PICK x \in T : \A y \in T : <<y, x>> \notin OpToRel(<, Nat)
  BY <1>1
<1>3. \A y \in T : ~(y < x)
  BY <1>2 DEF OpToRel
<1> QED BY <1>3

\* What holds at 0, and at each number up to n with the one before, holds up to n.
LEMMA StepByStep ==
    ASSUME NEW n \in Nat, NEW T, 0 \in T, \A i \in 1..n : i - 1 \in T => i \in T
    PROVE  0..n \subseteq T
<1> DEFINE bad == (0..n) \ T
<1> SUFFICES ASSUME bad # {} PROVE FALSE
  OBVIOUS
<1>0. bad \in SUBSET Nat
  OBVIOUS
<1>1. PICK x \in bad : \A y \in bad : x <= y
  <2> HIDE DEF bad
  <2> QED BY <1>0, Least
<1>2. x \in 1..n /\ x - 1 \in 0..n
  BY <1>1
<1>3. x - 1 \in T
  BY <1>1, <1>2
<1> QED BY <1>1, <1>2, <1>3

\* A function of the numbers up to n can be defined by recursion.
Recurs(g, n, X, x0, step) ==
    g \in [0..n -> X] /\ g[0] = x0 /\ \A i \in 1..n : g[i] = step[<<i, g[i - 1]>>]

LEMMA Recursion ==
    ASSUME NEW n \in Nat, NEW X, NEW x0 \in X, NEW step \in [(1..n) \X X -> X]
    PROVE  \E g : Recurs(g, n, X, x0, step)
<1> DEFINE Fits(k, g) == g[0] = x0 /\ \A i \in 1..k : g[i] = step[<<i, g[i - 1]>>]
           T == {k \in 0..n : \E g \in [0..k -> X] : Fits(k, g)}
<1>1. 0 \in T
  <2>1. [i \in 0..0 |-> x0] \in [0..0 -> X] /\ Fits(0, [i \in 0..0 |-> x0])
    OBVIOUS
  <2>2. \E g \in [0..0 -> X] : Fits(0, g)
    <3> HIDE DEF Fits
    <3> QED BY <2>1
  <2> QED BY <2>2
<1>2. ASSUME NEW k \in 1..n, k - 1 \in T PROVE k \in T
  <2>1. PICK g \in [0..k - 1 -> X] : Fits(k - 1, g)
    BY <1>2
  <2> DEFINE h == [i \in 0..k |-> IF i < k THEN g[i] ELSE step[<<k, g[k - 1]>>]]
  <2>2. h \in [0..k -> X]
    OBVIOUS
  <2>3. Fits(k, h)
    <3>1. h[0] = x0
      BY <2>1
    <3>2. ASSUME NEW i \in 1..k PROVE h[i] = step[<<i, h[i - 1]>>]
      <4>1. CASE i < k
        BY <2>1, <4>1
      <4>2. CASE i = k
        <5>1. h[k] = step[<<k, g[k - 1]>>] /\ h[k - 1] = g[k - 1]
          OBVIOUS
        <5> QED BY <4>2, <5>1
      <4> QED BY <4>1, <4>2
    <3> QED BY <3>1, <3>2
  <2>4. \E f \in [0..k -> X] : Fits(k, f)
    <3> HIDE DEF Fits, h
    <3> QED BY <2>2, <2>3
  <2> QED BY <2>4
<1> HIDE DEF T
<1>3. 0..n \subseteq T
  BY <1>1, <1>2, StepByStep
<1>4. n \in T
  BY <1>3
<1>5. PICK g \in [0..n -> X] : Fits(n, g)
  BY <1>4 DEF T
<1>6. Recurs(g, n, X, x0, step)
  BY <1>5 DEF Recurs
<1> QED BY <1>6

\* What is computed step by step stays where the steps lead.
LEMMA IsRecursion ==
    ASSUME NEW n \in Nat, NEW X, NEW x0 \in X, NEW step \in [(1..n) \X X -> X], NEW f,
           f = [i \in 0..n |-> f[i]], f[0] = x0,
           \A i \in 1..n : f[i - 1] \in X => f[i] = step[<<i, f[i - 1]>>]
    PROVE  Recurs(f, n, X, x0, step)
<1> DEFINE T == {i \in 0..n : f[i] \in X}
<1>1. 0 \in T
  OBVIOUS
<1>2. ASSUME NEW i \in 1..n, i - 1 \in T PROVE i \in T
  <2>1. f[i - 1] \in X /\ f[i] = step[<<i, f[i - 1]>>]
    BY <1>2
  <2> QED BY <2>1
<1> HIDE DEF T
<1>3. 0..n \subseteq T
  BY <1>1, <1>2, StepByStep
<1>4. \A i \in 0..n : f[i] \in X
  BY <1>3 DEF T
<1>5. f \in [0..n -> X]
  <2> DEFINE g == [i \in 0..n |-> f[i]]
  <2>1. g \in [0..n -> X]
    BY <1>4
  <2>2. f = g
    OBVIOUS
  <2> HIDE DEF g
  <2> QED BY <2>1, <2>2
<1>6. ASSUME NEW i \in 1..n PROVE f[i] = step[<<i, f[i - 1]>>]
  <2>1. f[i - 1] \in X
    <3>1. i - 1 \in 0..n
      OBVIOUS
    <3> QED BY <1>4, <3>1
  <2> QED BY <2>1
<1> QED BY <1>5, <1>6 DEF Recurs

\* A set of numbers up to n has a greatest one.
LEMMA MaxIs ==
    ASSUME NEW n \in Nat, NEW T \in SUBSET (1..n), T # {}
    PROVE  Max(T) \in T /\ \A y \in T : Max(T) >= y
<1> DEFINE U == {x \in Nat : \A y \in T : x >= y}
<1>1. n \in U
  OBVIOUS
<1>2. PICK x \in U : \A y \in U : x <= y
  <2>1. U \in SUBSET Nat
    OBVIOUS
  <2> HIDE DEF U
  <2> QED BY <1>1, <2>1, Least
<1>3. x \in Nat /\ \A y \in T : x >= y
  BY <1>2
<1>4. x \in T
  <2> SUFFICES ASSUME x \notin T PROVE FALSE
    OBVIOUS
  <2>1. ASSUME NEW y \in T PROVE y \in 1..n /\ x > y
    <3>1. y \in 1..n /\ x >= y /\ x # y
      BY <1>3
    <3> QED BY <1>3, <3>1
  <2>2. x > 0
    <3>1. PICK y \in T : TRUE
      OBVIOUS
    <3>2. y \in 1..n /\ x > y
      BY <2>1
    <3> QED BY <1>3, <3>2
  <2>3. x - 1 \in U
    <3>1. x - 1 \in Nat
      BY <1>3, <2>2
    <3>2. ASSUME NEW y \in T PROVE x - 1 >= y
      <4>1. y \in Nat /\ x > y
        BY <2>1
      <4> QED BY <1>3, <4>1
    <3> QED BY <3>1, <3>2
  <2> QED BY <1>2, <1>3, <2>3
<1>5. \E m \in T : \A y \in T : m >= y
  BY <1>3, <1>4
<1> QED BY <1>5 DEF Max

LEMMA MaxOfRange ==
    ASSUME NEW i \in Nat \ {0}
    PROVE  Max(1..i) = i /\ (1..i) \ {i} = 1..i - 1
<1>1. Max(1..i) \in 1..i /\ \A y \in 1..i : Max(1..i) >= y
  <2>1. i \in Nat /\ 1..i \in SUBSET (1..i) /\ i \in 1..i
    OBVIOUS
  <2>2. 1..i # {}
    BY <2>1
  <2> QED BY <2>1, <2>2, MaxIs
<1>2. i \in 1..i
  OBVIOUS
<1>3. Max(1..i) = i
  BY <1>1, <1>2
<1> QED BY <1>3

\* A fold over a list is defined: there is a function of the sets of places whose
\* value is that of the set without the last one, and one step more.
Folds(iter, n, X, base, step) ==
    /\ iter \in [SUBSET (1..n) -> X]
    /\ \A s \in SUBSET (1..n) :
          iter[s] = IF s = {} THEN base ELSE step[<<iter[s \ {Max(s)}], Max(s)>>]

LEMMA Fold ==
    ASSUME NEW n \in Nat, NEW X, NEW base \in X, NEW step \in [X \X (1..n) -> X]
    PROVE  \E iter : Folds(iter, n, X, base, step)
<1> DEFINE Fits(k, iter) == \A s \in SUBSET (1..k) :
                  iter[s] = IF s = {} THEN base ELSE step[<<iter[s \ {Max(s)}], Max(s)>>]
           T == {k \in 0..n : \E iter \in [SUBSET (1..k) -> X] : Fits(k, iter)}
<1>1. ASSUME NEW k \in 0..n, k = 0 PROVE k \in T
  <2>1. \A s \in SUBSET (1..k) : s = {}
    BY <1>1
  <2> DEFINE g == [s \in SUBSET (1..k) |-> base]
  <2>2. g \in [SUBSET (1..k) -> X] /\ Fits(k, g)
    BY <2>1
  <2>3. \E iter \in [SUBSET (1..k) -> X] : Fits(k, iter)
    <3> HIDE DEF Fits, g
    <3> QED BY <2>2
  <2> HIDE DEF Fits
  <2> QED BY <2>3
<1>2. ASSUME NEW k \in 1..n, k - 1 \in T PROVE k \in T
  <2>1. PICK g \in [SUBSET (1..k - 1) -> X] : Fits(k - 1, g)
    BY <1>2
  <2> DEFINE h == [s \in SUBSET (1..k) |-> IF k \in s THEN step[<<g[s \ {k}], k>>] ELSE g[s]]
  <2>2. \A s \in SUBSET (1..k) : s \ {k} \in SUBSET (1..k - 1) /\ (k \notin s => s \in SUBSET (1..k - 1))
    OBVIOUS
  <2>3. h \in [SUBSET (1..k) -> X]
    BY <2>2
  <2>4. ASSUME NEW s \in SUBSET (1..k)
        PROVE  h[s] = IF s = {} THEN base ELSE step[<<h[s \ {Max(s)}], Max(s)>>]
    <3>1. CASE k \in s
      <4>1. Max(s) = k
        <5>1. Max(s) \in s /\ \A y \in s : Max(s) >= y
          <6>1. k \in Nat /\ s # {}
            BY <3>1
          <6> QED BY <6>1, MaxIs
        <5>2. \A y \in s : y \in 1..k
          OBVIOUS
        <5>3. Max(s) <= k /\ Max(s) >= k /\ Max(s) \in 1..k
          <6>1. PICK m \in s : m = Max(s)
            BY <5>1
          <6>2. m \in 1..k /\ m >= k
            BY <3>1, <5>1, <5>2, <6>1
          <6> QED BY <6>1, <6>2
        <5> QED BY <5>3
      <4>2. h[s] = step[<<g[s \ {k}], k>>] /\ h[s \ {k}] = g[s \ {k}]
        BY <2>2, <3>1
      <4> HIDE DEF h
      <4> QED BY <3>1, <4>1, <4>2
    <3>2. CASE k \notin s
      <4>1. s \in SUBSET (1..k - 1)
        BY <2>2, <3>2
      <4>2. s \ {Max(s)} \in SUBSET (1..k) /\ k \notin s \ {Max(s)}
        BY <3>2
      <4>3. h[s] = g[s] /\ h[s \ {Max(s)}] = g[s \ {Max(s)}]
        BY <3>2, <4>2
      <4>4. g[s] = IF s = {} THEN base ELSE step[<<g[s \ {Max(s)}], Max(s)>>]
        BY <2>1, <4>1
      <4> HIDE DEF h
      <4> QED BY <4>3, <4>4
    <3> QED BY <3>1, <3>2
  <2>5. \E f \in [SUBSET (1..k) -> X] : Fits(k, f)
    <3>1. Fits(k, h)
      <4> HIDE DEF h
      <4> QED BY <2>4
    <3> HIDE DEF Fits, h
    <3> QED BY <2>3, <3>1
  <2> HIDE DEF Fits
  <2> QED BY <2>5
<1> HIDE DEF T
<1>3. 0..n \subseteq T
  BY <1>1, <1>2, StepByStep
<1>4. n \in T
  BY <1>3
<1>5. PICK iter \in [SUBSET (1..n) -> X] : Fits(n, iter)
  BY <1>4 DEF T
<1>6. Folds(iter, n, X, base, step)
  BY <1>5 DEF Folds
<1> QED BY <1>6

-----------------------------------------------------------------------------
(* Lists. *)

\* How many of the places are not after i.
Rank(places, i) == Cardinality({j \in places : j <= i})

LEMMA RankIs ==
    ASSUME NEW places \in SUBSET Nat, IsFiniteSet(places), NEW i \in places
    PROVE  /\ Rank(places, i) \in 1..Cardinality(places)
           /\ \A j \in places : j < i => Rank(places, j) < Rank(places, i)
<1>1. /\ IsFiniteSet({j \in places : j <= i}) /\ Rank(places, i) \in Nat
      /\ Rank(places, i) <= Cardinality(places) /\ Cardinality(places) \in Nat
  BY FS_Subset, FS_CardinalityType DEF Rank
<1>2. Rank(places, i) # 0
  <2>1. {j \in places : j <= i} # {}
    OBVIOUS
  <2> QED BY <1>1, <2>1, FS_EmptySet DEF Rank
<1>3. ASSUME NEW j \in places, j < i PROVE Rank(places, j) < Rank(places, i)
  <2> DEFINE A == {k \in places : k <= j}
             B == {k \in places : k <= i}
  <2>0. \A k \in places : k \in Nat
    OBVIOUS
  <2>a. A \in SUBSET B
    <3>1. ASSUME NEW k \in places, k <= j PROVE k <= i
      BY <1>3, <2>0, <3>1
    <3> QED BY <3>1
  <2>b. i \in B /\ i \notin A
    BY <1>3, <2>0
  <2>1. A \in SUBSET B /\ i \in B /\ i \notin A
    BY <2>a, <2>b
  <2>2. IsFiniteSet(B)
    BY <1>1
  <2> HIDE DEF A, B
  <2>3. Cardinality(A) <= Cardinality(B) /\ Cardinality(A) # Cardinality(B)
    BY <2>1, <2>2, FS_Subset
  <2>4. Cardinality(A) \in Nat /\ Cardinality(B) \in Nat
    BY <2>1, <2>2, FS_Subset, FS_CardinalityType
  <2> QED BY <2>3, <2>4 DEF A, B, Rank
<1> QED BY <1>1, <1>2, <1>3

LEMMA RankIsOnto ==
    ASSUME NEW places \in SUBSET Nat, IsFiniteSet(places), NEW k \in 1..Cardinality(places)
    PROVE  \E i \in places : Rank(places, i) = k
<1> DEFINE r == [i \in places |-> Rank(places, i)]
           R == {Rank(places, i) : i \in places}
           c == Cardinality(places)
<1>1. c \in Nat
  BY FS_CardinalityType
<1>2. \A i \in places : Rank(places, i) \in 1..c
  BY RankIs
<1>3. ASSUME NEW i \in places, NEW j \in places, Rank(places, i) = Rank(places, j) PROVE i = j
  <2>1. ~(i < j)
    BY <1>2, <1>3, RankIs
  <2>2. ~(j < i)
    BY <1>2, <1>3, RankIs
  <2> QED BY <2>1, <2>2
<1>4. r \in Bijection(places, R)
  <2>1. r \in [places -> R]
    OBVIOUS
  <2>2. \A i, j \in places : r[i] = r[j] => i = j
    BY <1>3
  <2>3. \A t \in R : \E s \in places : r[s] = t
    OBVIOUS
  <2> HIDE DEF r, R
  <2> QED BY <2>1, <2>2, <2>3, Fun_IsBij
<1>5. IsFiniteSet(R) /\ Cardinality(R) = c
  <2>1. ExistsBijection(places, R)
    BY <1>4, Fun_ExistsBij
  <2> HIDE DEF R
  <2> QED BY <2>1, FS_Bijection
<1>6. IsFiniteSet(1..c) /\ Cardinality(1..c) = c
  BY <1>1, FS_Interval
<1>7. R \in SUBSET (1..c)
  BY <1>2
<1> HIDE DEF R
<1>8. R = 1..c
  BY <1>5, <1>6, <1>7, FS_Subset
<1> QED BY <1>8 DEF R

\* The place from which the k-th element is picked.
Place(places, k) == CHOOSE i \in places : Rank(places, i) = k

LEMMA PlaceIs ==
    ASSUME NEW places \in SUBSET Nat, IsFiniteSet(places)
    PROVE  /\ Cardinality(places) \in Nat
           /\ \A k \in 1..Cardinality(places) :
                 Place(places, k) \in places /\ Rank(places, Place(places, k)) = k
           /\ \A i \in places : Rank(places, i) \in 1..Cardinality(places)
                                 /\ Place(places, Rank(places, i)) = i
           /\ \A k, l \in 1..Cardinality(places) : k < l => Place(places, k) < Place(places, l)
<1> DEFINE c == Cardinality(places)
<1>1. c \in Nat
  BY FS_CardinalityType
<1>2. \A k \in 1..c : Place(places, k) \in places /\ Rank(places, Place(places, k)) = k
  BY RankIsOnto DEF Place
<1>3. ASSUME NEW i \in places
      PROVE  Rank(places, i) \in 1..c /\ Place(places, Rank(places, i)) = i
  <2>1. Rank(places, i) \in 1..c
    BY RankIs
  <2> DEFINE p == Place(places, Rank(places, i))
  <2>2. p \in places /\ Rank(places, p) = Rank(places, i)
    BY <2>1, <1>2
  <2>3. \A a, b \in places : a < b => Rank(places, a) < Rank(places, b)
    BY RankIs
  <2> HIDE DEF p
  <2>4. ~(i < p) /\ ~(p < i)
    BY <2>1, <2>2, <2>3
  <2>5. i \in Nat /\ p \in Nat
    BY <2>2
  <2> QED BY <2>1, <2>4, <2>5 DEF p
<1>4. ASSUME NEW k \in 1..c, NEW l \in 1..c, k < l PROVE Place(places, k) < Place(places, l)
  <2>1. Place(places, k) \in places /\ Place(places, l) \in places
        /\ Rank(places, Place(places, k)) = k /\ Rank(places, Place(places, l)) = l
    BY <1>2
  <2>2. \A a, b \in places : a < b => Rank(places, a) < Rank(places, b)
    BY RankIs
  <2>3. PICK a \in places, b \in places : a = Place(places, k) /\ b = Place(places, l)
    BY <2>1
  <2>4. Rank(places, a) = k /\ Rank(places, b) = l /\ a \in Nat /\ b \in Nat
    BY <2>1, <2>3
  <2>5. ~(b < a) /\ a # b
    BY <1>4, <2>2, <2>4
  <2> QED BY <2>3, <2>4, <2>5
<1> QED BY <1>1, <1>2, <1>3, <1>4

LEMMA PickedIs ==
    ASSUME NEW seq, NEW places
    PROVE  Picked(seq, places) = [k \in 1..Cardinality(places) |-> seq[Place(places, k)]]
BY DEF Picked, Place, Rank

LEMMA PickedSeq ==
    ASSUME NEW X, NEW seq \in Seq(X), NEW places \in SUBSET DOMAIN seq
    PROVE  /\ Picked(seq, places) \in Seq(X) /\ Len(Picked(seq, places)) = Cardinality(places)
           /\ places \in SUBSET Nat /\ IsFiniteSet(places)
           /\ Elements(Picked(seq, places)) = {seq[i] : i \in places}
<1>1. DOMAIN seq = 1..Len(seq) /\ Len(seq) \in Nat
  BY LenProperties
<1>2. places \in SUBSET Nat /\ IsFiniteSet(places)
  <2>1. IsFiniteSet(1..Len(seq))
    BY <1>1, FS_Interval
  <2> QED BY <1>1, <2>1, FS_Subset
<1> DEFINE c == Cardinality(places)
           r == Picked(seq, places)
<1>3. c \in Nat /\ r = [k \in 1..c |-> seq[Place(places, k)]]
      /\ (\A k \in 1..c : Place(places, k) \in places)
      /\ \A i \in places : Rank(places, i) \in 1..c /\ Place(places, Rank(places, i)) = i
  BY <1>2, PlaceIs, PickedIs
<1> HIDE DEF c, r
<1>4. \A k \in 1..c : seq[Place(places, k)] \in X
  BY <1>1, <1>3, ElementOfSeq
<1>5. r \in [1..c -> X]
  BY <1>3, <1>4
<1>6. r \in Seq(X) /\ Len(r) = c /\ DOMAIN r = 1..c
  BY <1>3, <1>5, SeqDef
<1>7. Elements(r) = {seq[i] : i \in places}
  <2>1. ASSUME NEW k \in 1..c PROVE r[k] \in {seq[i] : i \in places}
    BY <1>3
  <2>2. ASSUME NEW i \in places PROVE seq[i] \in {r[k] : k \in 1..c}
    BY <1>3
  <2> QED BY <1>6, <2>1, <2>2 DEF Elements
<1> QED BY <1>2, <1>6, <1>7 DEF c, r

-----------------------------------------------------------------------------
(* The contract of a top module. *)

\* As far as it says which ports there are, a list of ports is a finite function.
LEMMA ByNameIs ==
    ASSUME NEW X, NEW ports \in Seq(X)
    PROVE  /\ IsFiniteSet(DOMAIN ByName(ports))
           /\ ByName(ports) = [n \in DOMAIN ByName(ports) |-> ByName(ports)[n]]
<1> DEFINE names == {ports[i].name : i \in DOMAIN ports}
           f == [i \in DOMAIN ports |-> ports[i].name]
<1>1. DOMAIN ByName(ports) = names
  BY DEF ByName
<1>2. ByName(ports) = [n \in DOMAIN ByName(ports) |-> ByName(ports)[n]]
  BY DEF ByName
<1>3. IsFiniteSet(DOMAIN ports)
  BY LenProperties, FS_Interval
<1>4. f \in Surjection(DOMAIN ports, names)
  <2>1. f \in [DOMAIN ports -> names] /\ \A t \in names : \E s \in DOMAIN ports : f[s] = t
    OBVIOUS
  <2> HIDE DEF f, names
  <2> QED BY <2>1, Fun_IsSurj
<1> HIDE DEF names, f
<1> QED BY <1>1, <1>2, <1>3, <1>4, FS_Surjection

\* Nothing is missing, additional or different exactly if the ports are the same;
\* what is can be counted.
LEMMA CompareIs ==
    ASSUME NEW X, NEW expected \in Seq(X), NEW actual \in Seq(X)
    PROVE  LET d == Compare(expected, actual) IN
           /\ ~Differs(d) <=> ByName(expected) = ByName(actual)
           /\ IsFiniteSet(d.missing) /\ IsFiniteSet(d.extra) /\ IsFiniteSet(d.mismatches)
<1> DEFINE d == Compare(expected, actual)
<1> USE DEF Compare
<1>1. PICK e, a : e = ByName(expected) /\ a = ByName(actual)
  OBVIOUS
<1>2. e = [n \in DOMAIN e |-> e[n]] /\ a = [n \in DOMAIN a |-> a[n]]
      /\ IsFiniteSet(DOMAIN e) /\ IsFiniteSet(DOMAIN a)
  BY <1>1, ByNameIs
<1>3. /\ d.missing = DOMAIN e \ DOMAIN a /\ d.extra = DOMAIN a \ DOMAIN e
      /\ d.mismatches = {n \in DOMAIN e \cap DOMAIN a : e[n] # a[n]}
  BY <1>1
<1> HIDE DEF d
<1>4. d.missing \in SUBSET DOMAIN e /\ d.extra \in SUBSET DOMAIN a /\ d.mismatches \in SUBSET DOMAIN e
  BY <1>3
<1>5. IsFiniteSet(d.missing) /\ IsFiniteSet(d.extra) /\ IsFiniteSet(d.mismatches)
  BY <1>2, <1>4, FS_Subset
<1>6. ASSUME ~Differs(d) PROVE e = a
  <2>1. DOMAIN e = DOMAIN a /\ \A n \in DOMAIN e : e[n] = a[n]
    BY <1>3, <1>6 DEF Differs
  <2> QED BY <1>2, <2>1
<1>7. ASSUME e = a PROVE ~Differs(d)
  BY <1>3, <1>7 DEF Differs
<1> QED BY <1>1, <1>5, <1>6, <1>7 DEF d

LEMMA Counts ==
    ASSUME NEW A, IsFiniteSet(A)
    PROVE  Cardinality(A) \in Nat /\ (Cardinality(A) = 0 <=> A = {})
BY FS_CardinalityType, FS_EmptySet

\* A top passes exactly if it is defined once and its interface, as a set of ports,
\* is what the contract asks for, and the counts that are reported say so, for any
\* contract and interface (_validate_frontend_cpu_top, _validate_generic_design_top,
\* _build_readiness_facts).
THEOREM TopsAreAccepted ==
    ASSUME NEW X, NEW w, w.contract \in Seq(X), w.actual \in Seq(X),
           w.required \in BOOLEAN, w.identifier \in BOOLEAN
    PROVE  PassMeansSameInterface(w)
<1> DEFINE e == Expected(w.contract)
           d == Compare(e, w.actual)
           r == Readiness(w)
           none == Compare(<<>>, <<>>)
<1>1. e \in Seq(X) /\ Len(e) \in Nat /\ (e = <<>> <=> Len(e) = 0)
  <2> DEFINE places == {i \in DOMAIN w.contract :
                  w.contract[i].direction \in {"input", "output", "inout"} /\ w.contract[i].width > 0}
  <2>1. e = Picked(w.contract, places) /\ places \in SUBSET DOMAIN w.contract
    BY DEF Expected
  <2>2. e \in Seq(X)
    <3> HIDE DEF e, places
    <3> QED BY <2>1, PickedSeq
  <2> HIDE DEF e
  <2> QED BY <2>2, EmptySeq, LenProperties
<1> HIDE DEF e
<1>2. /\ ~Differs(d) <=> ByName(e) = ByName(w.actual)
      /\ IsFiniteSet(d.missing) /\ IsFiniteSet(d.extra) /\ IsFiniteSet(d.mismatches)
  BY <1>1, CompareIs
<1>3. none.missing = {} /\ none.extra = {} /\ none.mismatches = {}
  BY DEF Compare, ByName
<1>4. Cardinality({}) = 0
  BY FS_EmptySet
<1> HIDE DEF d, none
<1>5. /\ Cardinality(d.missing) \in Nat /\ (Cardinality(d.missing) = 0 <=> d.missing = {})
      /\ Cardinality(d.extra) \in Nat /\ (Cardinality(d.extra) = 0 <=> d.extra = {})
      /\ Cardinality(d.mismatches) \in Nat /\ (Cardinality(d.mismatches) = 0 <=> d.mismatches = {})
  BY <1>2, Counts
<1> DEFINE compared == w.kind = "cpu_core" /\ w.required /\ w.identifier /\ w.definitions = 1
<1>6. CASE compared /\ e # <<>>
  <2>1. Verdict(w) = IF Differs(d) THEN "failed" ELSE "pass"
    BY <1>6 DEF Verdict, d, e
  <2>2. /\ r.expected = Len(e) /\ r.missing = Cardinality(d.missing)
        /\ r.extra = Cardinality(d.extra) /\ r.mismatched = Cardinality(d.mismatches)
        /\ r.matched = IF Len(e) < Cardinality(d.missing) + Cardinality(d.mismatches) THEN 0
                       ELSE Len(e) - (Cardinality(d.missing) + Cardinality(d.mismatches))
    BY <1>6 DEF Readiness, d, e
  <2> HIDE DEF r
  <2>3. Differs(d) <=> \/ Cardinality(d.missing) # 0 \/ Cardinality(d.extra) # 0
                       \/ Cardinality(d.mismatches) # 0
    BY <1>5 DEF Differs
  <2>4. Len(e) > 0 /\ w.definitions = 1 /\ w.identifier
    BY <1>1, <1>6
  <2>5. Verdict(w) = "pass" => ByName(e) = ByName(w.actual) /\ r.matched = r.expected /\ r.expected > 0
    <3> SUFFICES ASSUME Verdict(w) = "pass"
                 PROVE  ByName(e) = ByName(w.actual) /\ r.matched = r.expected /\ r.expected > 0
      OBVIOUS
    <3>1. ~Differs(d)
      BY <2>1
    <3>2. Cardinality(d.missing) = 0 /\ Cardinality(d.mismatches) = 0
      BY <2>3, <3>1
    <3>3. r.matched = r.expected
      BY <1>1, <2>2, <3>2
    <3> QED BY <1>2, <2>2, <2>4, <3>1, <3>3
  <2>6. Verdict(w) = "failed" =>
           r.missing + r.extra + r.mismatched > 0 /\ ByName(e) # ByName(w.actual)
    BY <1>2, <1>5, <2>1, <2>2, <2>3
  <2>7. r.extra > 0 => Verdict(w) = "failed"
    BY <1>5, <2>1, <2>2, <2>3
  <2> QED BY <2>4, <2>5, <2>6, <2>7 DEF PassMeansSameInterface, r, e
<1>7. CASE ~(compared /\ e # <<>>)
  <2>1. Verdict(w) # "pass"
    BY <1>7 DEF Verdict, e
  <2>2. r.expected = 0 /\ r.extra = 0
    <3>1. r.expected = Len(IF compared THEN e ELSE <<>>)
          /\ r.extra = Cardinality(IF (IF compared THEN e ELSE <<>>) = <<>> THEN none.extra ELSE d.extra)
      BY DEF Readiness, d, e, none
    <3>2. (IF compared THEN e ELSE <<>>) = <<>>
      BY <1>7
    <3> HIDE DEF compared, r
    <3> QED BY <1>3, <1>4, <3>1, <3>2, EmptySeq
  <2> HIDE DEF r
  <2> QED BY <2>1, <2>2 DEF PassMeansSameInterface, r
<1> QED BY <1>6, <1>7

\* The ports of a header, before any is looked up in the body.
Blank == [direction |-> "", width |-> 1]

Carried(before, entry) ==
    [name |-> entry.name,
     direction |-> IF entry.direction = Omitted THEN before.direction ELSE entry.direction,
     width |-> IF entry.direction = Omitted THEN before.width ELSE entry.width]

Carry(ports, entry) == Append(ports, Carried(IF ports = <<>> THEN Blank ELSE Last(ports), entry))

LookedUp(body, port) ==
    LET found == Declared(body, port.name)
        last == CHOOSE i \in found : \A j \in found : j <= i
    IN IF found = {} THEN port
       ELSE [name |-> port.name, direction |-> body[last].direction, width |-> body[last].width]

LEMMA PortContractIs ==
    ASSUME NEW header, NEW body
    PROVE  LET ports == FoldLeft(Carry, <<>>, header) IN
           PortContract(header, body) =
              IF \E i \in DOMAIN ports : ports[i].direction = ""
              THEN [i \in DOMAIN ports |-> LookedUp(body, ports[i])] ELSE ports
BY DEF PortContract, Carry, Carried, Blank, LookedUp

LEMMA LastIs ==
    ASSUME NEW X, NEW s \in Seq(X), NEW x \in X
    PROVE  Last(Append(s, x)) = x /\ Append(s, x) # <<>> /\ Len(Append(s, x)) = Len(s) + 1
           /\ Append(s, x) \in Seq(X) /\ Append(s, x)[Len(s) + 1] = x
           /\ \A i \in 1..Len(s) : Append(s, x)[i] = s[i]
BY DEF Last

\* The fold over a header: each entry is completed by the port before it.
LEMMA CarryIs ==
    ASSUME NEW P, NEW header \in Seq(P), NEW X,
           \A e \in P : Carried(Blank, e) \in X,
           \A e \in P, x \in X : Carried(x, e) \in X
    PROVE  LET ports == FoldLeft(Carry, <<>>, header) IN
           /\ ports \in Seq(X) /\ Len(ports) = Len(header)
           /\ \A i \in 1..Len(header) :
                 ports[i] = Carried(IF i = 1 THEN Blank ELSE ports[i - 1], header[i])
<1> DEFINE n == Len(header)
           Y == Seq(X)
           step == [p \in Y \X (1..n) |-> Carry(p[1], header[p[2]])]
           It == CHOOSE iter : iter = [s \in SUBSET DOMAIN header |->
                     IF s = {} THEN <<>> ELSE Carry(iter[s \ {Max(s)}], header[Max(s)])]
<1>1. n \in Nat /\ DOMAIN header = 1..n /\ \A i \in 1..n : header[i] \in P
  BY LenProperties, ElementOfSeq
<1>2. FoldLeft(Carry, <<>>, header) = It[DOMAIN header]
  BY DEF FoldLeft, MapThenFoldSet
<1> HIDE DEF n, It
<1>3. \A ports \in Y, e \in P : Carry(ports, e) \in Y
  <2> SUFFICES ASSUME NEW ports \in Y, NEW e \in P PROVE Carry(ports, e) \in Y
    OBVIOUS
  <2>1. ports # <<>> => Last(ports) \in X
    BY DEF Last
  <2> QED BY <2>1, AppendProperties DEF Carry
<1>4. PICK iter : Folds(iter, n, Y, <<>>, step)
  <2>1. step \in [Y \X (1..n) -> Y] /\ <<>> \in Y
    BY <1>1, <1>3
  <2> HIDE DEF step, Y
  <2> QED BY <1>1, <2>1, Fold
<1>5. iter = [s \in SUBSET DOMAIN header |->
                IF s = {} THEN <<>> ELSE Carry(iter[s \ {Max(s)}], header[Max(s)])]
  <2>1. ASSUME NEW s \in SUBSET (1..n), s # {}
        PROVE  iter[s] = Carry(iter[s \ {Max(s)}], header[Max(s)])
    <3>1. Max(s) \in 1..n
      BY <1>1, <2>1, MaxIs
    <3>2. iter[s \ {Max(s)}] \in Y
      BY <1>4 DEF Folds
    <3> HIDE DEF Y
    <3> QED BY <1>4, <2>1, <3>1, <3>2 DEF Folds
  <2> HIDE DEF step, Y
  <2> QED BY <1>1, <1>4, <2>1 DEF Folds
<1>6. It = [s \in SUBSET DOMAIN header |->
                IF s = {} THEN <<>> ELSE Carry(It[s \ {Max(s)}], header[Max(s)])]
  BY <1>5 DEF It
<1>7. It[1..0] = <<>> /\ \A i \in 1..n : It[1..i] = Carry(It[1..i - 1], header[i])
  <2>1. It[1..0] = <<>>
    <3>1. 1..0 = {} /\ 1..0 \in SUBSET DOMAIN header
      OBVIOUS
    <3> QED BY <1>6, <3>1
  <2>2. ASSUME NEW i \in 1..n PROVE It[1..i] = Carry(It[1..i - 1], header[i])
    <3>1. 1..i \in SUBSET DOMAIN header /\ 1..i # {} /\ Max(1..i) = i /\ (1..i) \ {i} = 1..i - 1
      <4>1. i \in 1..i /\ 1..i \in SUBSET DOMAIN header /\ i \in Nat \ {0}
        BY <1>1
      <4> QED BY <4>1, MaxOfRange
    <3> QED BY <1>6, <3>1
  <2> QED BY <2>1, <2>2
<1> HIDE DEF It
<1> DEFINE Good(p, i) == /\ p \in Seq(X) /\ Len(p) = i
                         /\ \A j \in 1..i : p[j] = Carried(IF j = 1 THEN Blank ELSE p[j - 1], header[j])
           T == {i \in 0..n : Good(It[1..i], i)}
<1>8. 0 \in T
  <2>1. Good(<<>>, 0)
    BY EmptySeq
  <2>2. Good(It[1..0], 0)
    <3> HIDE DEF Good
    <3> QED BY <1>7, <2>1
  <2> HIDE DEF Good
  <2> QED BY <1>1, <2>2
<1>9. ASSUME NEW i \in 1..n, i - 1 \in T PROVE i \in T
  <2>1. PICK p \in Seq(X) : p = It[1..i - 1]
    BY <1>9
  <2>2. Good(p, i - 1)
    BY <1>9, <2>1
  <2> DEFINE x == Carried(IF p = <<>> THEN Blank ELSE Last(p), header[i])
  <2>3. It[1..i] = Append(p, x)
    BY <1>7, <2>1 DEF Carry
  <2>4. p = <<>> <=> i = 1
    BY <2>2
  <2>5. i # 1 => Last(p) = p[i - 1] /\ Last(p) \in X
    BY <2>2, <2>4, ElementOfSeq DEF Last
  <2>6. x \in X
    BY <1>1, <2>4, <2>5
  <2>7. x = Carried(IF i = 1 THEN Blank ELSE p[i - 1], header[i])
    BY <2>4, <2>5
  <2> HIDE DEF x
  <2> DEFINE q == Append(p, x)
  <2>8. q \in Seq(X) /\ Len(q) = i /\ q[i] = x /\ \A j \in 1..i - 1 : q[j] = p[j]
    BY <2>2, <2>6, AppendProperties
  <2> HIDE DEF q
  <2>9. ASSUME NEW j \in 1..i PROVE q[j] = Carried(IF j = 1 THEN Blank ELSE q[j - 1], header[j])
    <3>1. CASE j = i
      <4>1. i # 1 => q[i - 1] = p[i - 1]
        BY <2>8
      <4> QED BY <2>7, <2>8, <3>1, <4>1
    <3>2. CASE j # i
      <4>1. j \in 1..i - 1 /\ (j # 1 => j - 1 \in 1..i - 1)
        BY <3>2
      <4> QED BY <2>2, <2>8, <4>1
    <3> QED BY <3>1, <3>2
  <2>10. Good(q, i)
    BY <2>8, <2>9
  <2> HIDE DEF Good
  <2>11. Good(It[1..i], i) /\ i \in 0..n
    BY <2>3, <2>10 DEF q
  <2> QED BY <2>11
<1> HIDE DEF Good
<1>10. n \in T
  <2> HIDE DEF T
  <2>1. 0..n \subseteq T
    BY <1>1, <1>8, <1>9, StepByStep
  <2> QED BY <1>1, <2>1
<1>11. Good(It[1..n], n)
  BY <1>10
<1> QED BY <1>1, <1>2, <1>11 DEF Good, n

Directions == {"input", "output", "inout"}

\* A port that is complete, and what may stand in a header for one.
PortsOf(N) == [name : N, direction : Directions \cup {""}, width : Nat]
EntriesOf(N) == [name : N, direction : Directions \cup {Omitted}, width : Nat]

\* The ports of a header, completed, and what becomes of them.
Completed(q, N, header, body) ==
    /\ q \in Seq(PortsOf(N)) /\ Len(q) = Len(header)
    /\ \A i \in 1..Len(header) : q[i] = Carried(IF i = 1 THEN Blank ELSE q[i - 1], header[i])
    /\ PortContract(header, body) =
          IF \E i \in DOMAIN q : q[i].direction = ""
          THEN [i \in DOMAIN q |-> LookedUp(body, q[i])] ELSE q

LEMMA HeaderIs ==
    ASSUME NEW N, NEW header \in Seq(EntriesOf(N)), NEW body
    PROVE  \E q : Completed(q, N, header, body)
<1>1. \A e \in EntriesOf(N) : Carried(Blank, e) \in PortsOf(N)
  BY DEF EntriesOf, PortsOf, Carried, Blank, Directions
<1>2. \A e \in EntriesOf(N), x \in PortsOf(N) : Carried(x, e) \in PortsOf(N)
  BY DEF EntriesOf, PortsOf, Carried, Directions
<1> DEFINE q == FoldLeft(Carry, <<>>, header)
<1>3. /\ q \in Seq(PortsOf(N)) /\ Len(q) = Len(header)
      /\ \A i \in 1..Len(header) : q[i] = Carried(IF i = 1 THEN Blank ELSE q[i - 1], header[i])
  BY <1>1, <1>2, CarryIs
<1>4. PortContract(header, body) = IF \E i \in DOMAIN q : q[i].direction = ""
                                   THEN [i \in DOMAIN q |-> LookedUp(body, q[i])] ELSE q
  BY PortContractIs
<1> HIDE DEF q
<1> QED BY <1>3, <1>4 DEF Completed

\* However an interface is written down, its contract is the same: each port with its
\* direction, neither direction nor range where both repeat, or a list of names that the
\* body declares, for any ports with names of their own; but a range that comes with no
\* direction is lost, so that with directions alone left out the contract is right
\* exactly if none that repeats has a new range (module_port_contract).
THEOREM StylesAreRead ==
    ASSUME NEW N, NEW ports \in Seq([name : N, direction : Directions, width : Nat]),
           \A i, j \in DOMAIN ports : ports[i].name = ports[j].name => i = j
    PROVE  StyleDoesNotMatter(ports)
<1> DEFINE n == Len(ports)
           repeats(i) == i > 1 /\ ports[i].direction = ports[i - 1].direction
                               /\ ports[i].width = ports[i - 1].width
           grouped == [i \in DOMAIN ports |->
                          IF repeats(i) THEN [ports[i] EXCEPT !.direction = Omitted, !.width = 1]
                          ELSE ports[i]]
           names == [i \in DOMAIN ports |->
                        [name |-> ports[i].name, direction |-> Omitted, width |-> 1]]
           body == [i \in DOMAIN ports |-> [direction |-> ports[i].direction,
                                            width |-> ports[i].width, names |-> {ports[i].name}]]
<1>1. n \in Nat /\ DOMAIN ports = 1..n
  BY LenProperties
<1>2. \A i \in 1..n : ports[i] \in [name : N, direction : Directions, width : Nat]
  BY <1>1, ElementOfSeq
<1>3. ports \in Seq(PortsOf(N))
  <2>1. [name : N, direction : Directions, width : Nat] \subseteq PortsOf(N)
    BY DEF PortsOf
  <2> QED BY <2>1, SeqMonotonic
<1>4. \A i \in 1..n : ports[i].direction \notin {"", Omitted}
  BY <1>2 DEF Directions, Omitted
<1>5. ASSUME NEW h \in Seq(EntriesOf(N)), Len(h) = n,
             NEW q \in Seq(PortsOf(N)), Len(q) = n, \A i \in 1..n : q[i] = ports[i]
      PROVE  q = ports /\ ~\E i \in DOMAIN q : q[i].direction = ""
  <2>1. q = ports
    BY <1>1, <1>3, <1>5, SeqEqual
  <2> QED BY <1>1, <1>4, <2>1
<1>6. PortContract(ports, <<>>) = ports
  <2>1. ports \in Seq(EntriesOf(N))
    <3>1. [name : N, direction : Directions, width : Nat] \subseteq EntriesOf(N)
      BY DEF EntriesOf
    <3> QED BY <3>1, SeqMonotonic
  <2>2. PICK q : Completed(q, N, ports, <<>>)
    BY <2>1, HeaderIs
  <2>a. /\ q \in Seq(PortsOf(N)) /\ Len(q) = n
        /\ \A i \in 1..n : q[i] = Carried(IF i = 1 THEN Blank ELSE q[i - 1], ports[i])
    BY <2>2 DEF Completed
  <2>3. ASSUME NEW i \in 1..n PROVE q[i] = ports[i]
    <3>1. q[i] = [name |-> ports[i].name, direction |-> ports[i].direction, width |-> ports[i].width]
      BY <1>4, <2>a DEF Carried
    <3> QED BY <1>2, <3>1
  <2> QED BY <1>5, <2>1, <2>2, <2>3, <2>a DEF Completed
<1>7. PortContract(grouped, <<>>) = ports
  <2>1. grouped \in Seq(EntriesOf(N)) /\ Len(grouped) = n
    <3>1. \A i \in 1..n : grouped[i] \in EntriesOf(N)
      BY <1>1, <1>2 DEF EntriesOf
    <3>2. grouped \in [1..n -> EntriesOf(N)]
      <4>1. DOMAIN grouped = 1..n /\ grouped = [i \in DOMAIN grouped |-> grouped[i]]
        BY <1>1
      <4> HIDE DEF grouped
      <4> QED BY <3>1, <4>1
    <3> HIDE DEF grouped
    <3> QED BY <1>1, <3>2, SeqDef
  <2>2. PICK q : Completed(q, N, grouped, <<>>)
    <3> HIDE DEF grouped, n
    <3> QED BY <2>1, HeaderIs
  <2>a. /\ q \in Seq(PortsOf(N)) /\ Len(q) = n
        /\ \A i \in 1..n : q[i] = Carried(IF i = 1 THEN Blank ELSE q[i - 1], grouped[i])
    <3> HIDE DEF grouped
    <3> QED BY <2>1, <2>2 DEF Completed
  <2> DEFINE T == {i \in 0..n : i > 0 => q[i] = ports[i]}
  <2>3. 0 \in T
    BY <1>1
  <2>4. ASSUME NEW i \in 1..n, i - 1 \in T PROVE i \in T
    <3>1. ports[i] = [name |-> ports[i].name, direction |-> ports[i].direction, width |-> ports[i].width]
      BY <1>2
    <3>2. CASE repeats(i)
      <4>1. i > 1 /\ q[i - 1] = ports[i - 1]
        BY <1>1, <2>4, <3>2
      <4>0. q[i] = Carried(q[i - 1], grouped[i])
        <5> HIDE DEF grouped
        <5> QED BY <2>a, <4>1
      <4>2. grouped[i].name = ports[i].name /\ grouped[i].direction = Omitted
        BY <1>1, <1>2, <3>2
      <4> HIDE DEF grouped
      <4>3. q[i] = [name |-> ports[i].name, direction |-> ports[i - 1].direction,
                    width |-> ports[i - 1].width]
        BY <2>a, <4>0, <4>1, <4>2 DEF Carried
      <4> QED BY <3>1, <3>2, <4>3
    <3>3. CASE ~repeats(i)
      <4>1. grouped[i] = ports[i]
        BY <1>1, <3>3
      <4> HIDE DEF grouped
      <4>2. q[i] = [name |-> ports[i].name, direction |-> ports[i].direction, width |-> ports[i].width]
        BY <1>4, <2>a, <4>1 DEF Carried
      <4> QED BY <3>1, <4>2
    <3> QED BY <3>2, <3>3
  <2>5. \A i \in 1..n : q[i] = ports[i]
    <3> HIDE DEF T
    <3>1. 0..n \subseteq T
      BY <1>1, <2>3, <2>4, StepByStep
    <3>2. \A i \in 1..n : i \in T
      BY <1>1, <3>1
    <3> QED BY <1>1, <3>2 DEF T
  <2> HIDE DEF grouped
  <2> QED BY <1>5, <2>1, <2>2, <2>5, <2>a DEF Completed
<1>8. PortContract(names, body) = ports
  <2>1. names \in Seq(EntriesOf(N)) /\ Len(names) = n
    <3>1. \A i \in 1..n : names[i] \in EntriesOf(N)
      BY <1>1, <1>2 DEF EntriesOf
    <3>2. names \in [1..n -> EntriesOf(N)]
      <4>1. DOMAIN names = 1..n /\ names = [i \in DOMAIN names |-> names[i]]
        BY <1>1
      <4> HIDE DEF names
      <4> QED BY <3>1, <4>1
    <3> HIDE DEF names
    <3> QED BY <1>1, <3>2, SeqDef
  <2>2. PICK q : Completed(q, N, names, body)
    <3> HIDE DEF names, body, n
    <3> QED BY <2>1, HeaderIs
  <2>a. /\ q \in Seq(PortsOf(N)) /\ Len(q) = n
        /\ \A i \in 1..n : q[i] = Carried(IF i = 1 THEN Blank ELSE q[i - 1], names[i])
    <3> HIDE DEF names, body
    <3> QED BY <2>1, <2>2 DEF Completed
  <2>b. \A i \in 1..n : names[i].name = ports[i].name /\ names[i].direction = Omitted
    BY <1>1
  <2>3. \A i \in 1..n : q[i].name = ports[i].name
    <3> HIDE DEF names
    <3> SUFFICES ASSUME NEW i \in 1..n PROVE q[i].name = ports[i].name
      OBVIOUS
    <3>1. PICK x : q[i] = Carried(x, names[i])
      BY <2>a
    <3> QED BY <2>b, <3>1 DEF Carried
  <2>4. n > 0 => q[1].direction = ""
    <3> HIDE DEF names
    <3> SUFFICES ASSUME n > 0 PROVE q[1].direction = ""
      OBVIOUS
    <3>1. 1 \in 1..n
      BY <1>1
    <3>2. q[1] = Carried(Blank, names[1])
      BY <2>a, <3>1
    <3>3. names[1].direction = Omitted
      BY <2>b, <3>1
    <3>4. Carried(Blank, names[1]).direction = Blank.direction
      BY <3>3 DEF Carried
    <3>5. Blank.direction = ""
      BY DEF Blank
    <3> QED BY <3>2, <3>4, <3>5
  <2>5. DOMAIN q = 1..n
    BY <2>a, LenProperties
  <2>6. ASSUME NEW i \in 1..n PROVE LookedUp(body, q[i]) = ports[i]
    <3>1. Declared(body, q[i].name) = {i}
      BY <1>1, <2>3 DEF Declared
    <3>2. LookedUp(body, q[i]) =
            [name |-> ports[i].name, direction |-> body[i].direction, width |-> body[i].width]
      <4>1. (CHOOSE j \in {i} : \A k \in {i} : k <= j) = i
        OBVIOUS
      <4> HIDE DEF body
      <4> QED BY <2>3, <3>1, <4>1 DEF LookedUp
    <3>3. body[i].direction = ports[i].direction /\ body[i].width = ports[i].width
      BY <1>1
    <3> QED BY <1>2, <3>2, <3>3
  <2> HIDE DEF names, body
  <2>7. CASE n = 0
    <3>1. q = <<>> /\ ports = <<>>
      BY <1>1, <2>a, <2>7, EmptySeq
    <3>2. ~\E i \in DOMAIN q : q[i].direction = ""
      BY <2>5, <2>7
    <3> QED BY <2>2, <3>1, <3>2 DEF Completed
  <2>8. CASE n > 0
    <3>1. PortContract(names, body) = [i \in 1..n |-> LookedUp(body, q[i])]
      <4>1. 1 \in DOMAIN q /\ q[1].direction = ""
        <5> HIDE DEF n
        <5>1. 1 \in 1..n
          BY <1>1, <2>8
        <5> QED BY <2>4, <2>5, <2>8, <5>1
      <4> QED BY <2>2, <2>5, <4>1 DEF Completed
    <3>2. ports = [i \in 1..n |-> ports[i]]
      BY <1>1, LenProperties
    <3> QED BY <2>6, <3>1, <3>2
  <2> QED BY <1>1, <2>7, <2>8
<1> DEFINE inherits(i) == i > 1 /\ ports[i].direction = ports[i - 1].direction
           ranged == [i \in DOMAIN ports |->
                         IF inherits(i) THEN [ports[i] EXCEPT !.direction = Omitted] ELSE ports[i]]
<1>9. PortContract(ranged, <<>>) = ports <=> \A i \in DOMAIN ports : inherits(i) => repeats(i)
  <2>1. ranged \in Seq(EntriesOf(N)) /\ Len(ranged) = n
    <3>1. \A i \in 1..n : ranged[i] \in EntriesOf(N)
      BY <1>1, <1>2 DEF EntriesOf
    <3>2. ranged \in [1..n -> EntriesOf(N)]
      <4>1. DOMAIN ranged = 1..n /\ ranged = [i \in DOMAIN ranged |-> ranged[i]]
        BY <1>1
      <4> HIDE DEF ranged
      <4> QED BY <3>1, <4>1
    <3> HIDE DEF ranged
    <3> QED BY <1>1, <3>2, SeqDef
  <2>2. PICK q : Completed(q, N, ranged, <<>>)
    <3> HIDE DEF ranged, n
    <3> QED BY <2>1, HeaderIs
  <2>3. /\ q \in Seq(PortsOf(N)) /\ Len(q) = n
        /\ \A i \in 1..n : q[i] = Carried(IF i = 1 THEN Blank ELSE q[i - 1], ranged[i])
    <3> HIDE DEF ranged
    <3> QED BY <2>1, <2>2 DEF Completed
  <2>4. ASSUME NEW i \in 1..n
        PROVE  /\ inherits(i) => i - 1 \in 1..n /\ ranged[i].name = ports[i].name
                                 /\ ranged[i].direction = Omitted
               /\ ~inherits(i) => ranged[i] = ports[i]
    BY <1>1, <1>2
  <2>5. ASSUME NEW i \in 1..n, inherits(i)
        PROVE  q[i] = [name |-> ports[i].name, direction |-> q[i - 1].direction, width |-> q[i - 1].width]
    <3>1. i # 1 /\ q[i] = Carried(q[i - 1], ranged[i])
      <4> HIDE DEF ranged
      <4> QED BY <2>3, <2>5
    <3> HIDE DEF ranged
    <3> QED BY <2>4, <2>5, <3>1 DEF Carried
  <2>6. ASSUME NEW i \in 1..n, ~inherits(i) PROVE q[i] = ports[i]
    <3>1. ranged[i] = ports[i]
      BY <2>4, <2>6
    <3> HIDE DEF ranged, inherits
    <3>2. q[i] = [name |-> ports[i].name, direction |-> ports[i].direction, width |-> ports[i].width]
      BY <1>4, <2>3, <3>1 DEF Carried
    <3> QED BY <1>2, <3>2
  <2> HIDE DEF ranged
  <2> DEFINE T == {i \in 0..n : i > 0 => q[i].direction = ports[i].direction}
  <2>7. 0 \in T
    BY <1>1
  <2>8. ASSUME NEW i \in 1..n, i - 1 \in T PROVE i \in T
    <3>1. CASE inherits(i)
      <4>1. i - 1 > 0 /\ ports[i].direction = ports[i - 1].direction
        BY <1>1, <3>1
      <4>2. q[i] = [name |-> ports[i].name, direction |-> q[i - 1].direction, width |-> q[i - 1].width]
        BY <2>5, <3>1
      <4> HIDE DEF inherits
      <4>3. q[i - 1].direction = ports[i - 1].direction
        BY <2>8, <4>1
      <4>4. i \in 0..n
        BY <1>1
      <4>5. q[i].direction = ports[i].direction
        BY <4>1, <4>2, <4>3
      <4> QED BY <4>4, <4>5
    <3>2. CASE ~inherits(i)
      <4> HIDE DEF inherits
      <4> QED BY <1>1, <2>6, <3>2
    <3> QED BY <3>1, <3>2
  <2>9. \A i \in 1..n : q[i].direction = ports[i].direction
    <3> HIDE DEF T
    <3>1. 0..n \subseteq T
      BY <1>1, <2>7, <2>8, StepByStep
    <3>2. \A i \in 1..n : i \in T
      BY <1>1, <3>1
    <3> QED BY <1>1, <3>2 DEF T
  <2>10. PortContract(ranged, <<>>) = q
    <3>1. DOMAIN q = 1..n
      BY <2>3, LenProperties
    <3>2. ~\E i \in DOMAIN q : q[i].direction = ""
      BY <1>4, <2>9, <3>1
    <3> QED BY <2>2, <3>2 DEF Completed
  <2>11. ASSUME q = ports, NEW i \in 1..n, inherits(i) PROVE repeats(i)
    <3>1. i - 1 \in 1..n
      BY <1>1, <2>11
    <3>2. q[i].width = q[i - 1].width
      <4>1. q[i] = [name |-> ports[i].name, direction |-> q[i - 1].direction, width |-> q[i - 1].width]
        BY <2>5, <2>11
      <4> QED BY <4>1
    <3>3. ports[i].width = ports[i - 1].width
      <4> HIDE DEF inherits, repeats
      <4> QED BY <2>11, <3>2
    <3>4. i > 1 /\ ports[i].direction = ports[i - 1].direction
      BY <2>11
    <3> HIDE DEF inherits
    <3> QED BY <3>3, <3>4
  <2>12. ASSUME \A i \in 1..n : inherits(i) => repeats(i) PROVE q = ports
    <3> DEFINE U == {i \in 0..n : i > 0 => q[i] = ports[i]}
    <3>1. 0 \in U
      BY <1>1
    <3>2. ASSUME NEW i \in 1..n, i - 1 \in U PROVE i \in U
      <4>1. CASE inherits(i)
        <5>1. q[i] = [name |-> ports[i].name, direction |-> q[i - 1].direction, width |-> q[i - 1].width]
          BY <2>5, <4>1
        <5>2. i - 1 > 0 /\ q[i - 1] = ports[i - 1]
          BY <3>2, <4>1
        <5>3. repeats(i)
          BY <2>12, <4>1
        <5>4. ports[i] = [name |-> ports[i].name, direction |-> ports[i].direction, width |-> ports[i].width]
          BY <1>2
        <5> QED BY <1>1, <5>1, <5>2, <5>3, <5>4
      <4>2. CASE ~inherits(i)
        <5> HIDE DEF inherits
        <5> QED BY <1>1, <2>6, <4>2
      <4> QED BY <4>1, <4>2
    <3>3. \A i \in 1..n : q[i] = ports[i]
      <4> HIDE DEF U
      <4>1. 0..n \subseteq U
        BY <1>1, <3>1, <3>2, StepByStep
      <4>2. \A i \in 1..n : i \in U
        BY <1>1, <4>1
      <4> QED BY <1>1, <4>2 DEF U
    <3> QED BY <1>1, <1>3, <2>3, <3>3, SeqEqual
  <2> QED BY <1>1, <2>10, <2>11, <2>12
<1> HIDE DEF n
<1> QED BY <1>6, <1>7, <1>8, <1>9 DEF StyleDoesNotMatter

-----------------------------------------------------------------------------
(* What can be reached. *)

\* next[v] are the successors of v.
Closed(next, A) == \A v \in A : next[v] \subseteq A

\* The least closed set that has the roots.
IsReach(G, next, roots, C) ==
    /\ C \in SUBSET G /\ roots \subseteq C /\ Closed(next, C)
    /\ \A A \in SUBSET G : roots \subseteq A /\ Closed(next, A) => C \subseteq A

\* Adding the successors as often as there are nodes is enough: as long as the set is
\* not closed it grows.
LEMMA ReachIs ==
    ASSUME NEW G, IsFiniteSet(G), NEW next \in [G -> SUBSET G], NEW roots \in SUBSET G,
           NEW g, NEW step \in [(1..Cardinality(G)) \X SUBSET G -> SUBSET G],
           \A i \in 1..Cardinality(G), A \in SUBSET G :
              step[<<i, A>>] = A \cup UNION {next[v] : v \in A},
           Recurs(g, Cardinality(G), SUBSET G, roots, step)
    PROVE  IsReach(G, next, roots, g[Cardinality(G)])
<1> DEFINE c == Cardinality(G)
<1>1. c \in Nat
  BY FS_CardinalityType
<1> HIDE DEF c
<1>2. /\ g \in [0..c -> SUBSET G] /\ g[0] = roots
      /\ \A i \in 1..c : g[i] = g[i - 1] \cup UNION {next[v] : v \in g[i - 1]}
  <2>1. g \in [0..c -> SUBSET G] /\ g[0] = roots /\ \A i \in 1..c : g[i] = step[<<i, g[i - 1]>>]
    BY DEF Recurs, c
  <2>2. ASSUME NEW i \in 1..c PROVE g[i] = g[i - 1] \cup UNION {next[v] : v \in g[i - 1]}
    <3>1. i - 1 \in 0..c
      BY <1>1
    <3>2. PICK A \in SUBSET G : A = g[i - 1]
      BY <2>1, <3>1
    <3>3. step[<<i, A>>] = A \cup UNION {next[v] : v \in A}
      BY DEF c
    <3> QED BY <2>1, <3>2, <3>3
  <2> QED BY <2>1, <2>2
<1>3. \A i \in 0..c : IsFiniteSet(g[i]) /\ Cardinality(g[i]) \in Nat /\ g[i] \in SUBSET G
  BY <1>2, FS_Subset, FS_CardinalityType
<1> DEFINE T == {i \in 0..c : /\ roots \subseteq g[i]
                              /\ Closed(next, g[i]) \/ Cardinality(g[i]) >= i
                              /\ \A A \in SUBSET G : roots \subseteq A /\ Closed(next, A) => g[i] \subseteq A}
<1>4. 0 \in T
  BY <1>1, <1>2, <1>3
<1>5. ASSUME NEW i \in 1..c, i - 1 \in T PROVE i \in T
  <2>1. PICK a, b : a = g[i - 1] /\ b = g[i]
    OBVIOUS
  <2>2. i - 1 \in 0..c /\ i \in 0..c
    BY <1>1
  <2>3. /\ roots \subseteq a /\ (Closed(next, a) \/ Cardinality(a) >= i - 1)
        /\ \A A \in SUBSET G : roots \subseteq A /\ Closed(next, A) => a \subseteq A
    BY <1>5, <2>1
  <2>4. b = a \cup UNION {next[v] : v \in a} /\ a \in SUBSET G /\ b \in SUBSET G
    BY <1>2, <1>3, <2>1, <2>2
  <2>5. Closed(next, b) \/ Cardinality(b) >= i
    <3>1. CASE Closed(next, a)
      <4>1. b = a
        BY <2>4, <3>1 DEF Closed
      <4> QED BY <3>1, <4>1
    <3>2. CASE ~Closed(next, a)
      <4>1. a \in SUBSET b /\ a # b
        BY <2>4, <3>2 DEF Closed
      <4>2. IsFiniteSet(b) /\ Cardinality(a) \in Nat /\ Cardinality(b) \in Nat
        BY <1>3, <2>1, <2>2
      <4>3. Cardinality(a) <= Cardinality(b) /\ Cardinality(a) # Cardinality(b)
        BY <4>1, <4>2, FS_Subset
      <4> QED BY <1>1, <2>3, <3>2, <4>2, <4>3
    <3> QED BY <3>1, <3>2
  <2>6. ASSUME NEW A \in SUBSET G, roots \subseteq A, Closed(next, A) PROVE b \subseteq A
    <3>1. a \subseteq A
      BY <2>3, <2>6
    <3> QED BY <2>4, <2>6, <3>1 DEF Closed
  <2>7. roots \subseteq b
    BY <2>3, <2>4
  <2> QED BY <2>1, <2>2, <2>5, <2>6, <2>7
<1>6. c \in T
  <2> HIDE DEF T
  <2>1. 0..c \subseteq T
    BY <1>1, <1>4, <1>5, StepByStep
  <2> QED BY <1>1, <2>1
<1>7. Closed(next, g[c])
  <2>1. CASE Cardinality(g[c]) >= c
    <3>1. Cardinality(g[c]) <= c /\ (Cardinality(g[c]) = c => g[c] = G) /\ Cardinality(g[c]) \in Nat
      BY <1>1, <1>3, FS_Subset DEF c
    <3>2. g[c] = G
      BY <1>1, <2>1, <3>1
    <3> QED BY <3>2 DEF Closed
  <2> QED BY <1>6, <2>1
<1> QED BY <1>1, <1>3, <1>6, <1>7 DEF IsReach, c

-----------------------------------------------------------------------------
(* The two walks over the filelists of a project. *)

\* A line that names a file names one of the project's.
LinesOf(A) == [kind : {"list", "glued", "rtl"}, arg : Files]
              \cup [kind : {"incdir", "define", "option"}, arg : A]

Given(root) == {root} \ {NoFile}

\* A project is a record of at least these fields.
HasFields(p) ==
    {"cpu", "soc", "input", "verilog", "generic", "at", "copy", "entries"} \subseteq DOMAIN p

IsProject(p, A) ==
    /\ HasFields(p) /\ p.entries \in [Files -> Seq(LinesOf(A))]
    /\ p.at \in [Files -> {"here", "moved", "absent"}] /\ p.copy \in [Files -> Files]
    /\ \A root \in {p.cpu, p.soc, p.input, p.verilog} : root \in Files \cup {NoFile}

ListLine(f) == [kind |-> "list", arg |-> f]
RtlLine(f) == [kind |-> "rtl", arg |-> f]

\* The lists that a list names.
NamedBy(p) == [g \in Files |-> {f \in Files : \E i \in DOMAIN p.entries[g] : p.entries[g][i] = ListLine(f)}]

LEMMA ReachableFromIs ==
    ASSUME NEW p, NEW A, IsProject(p, A), IsFiniteSet(Files), NEW roots \in SUBSET Files
    PROVE  IsReach(Files, NamedBy(p), roots, ReachableFrom(p, roots))
<1> DEFINE c == Cardinality(Files)
           more(B) == B \cup {f \in Files : \E g \in B : \E i \in DOMAIN p.entries[g] :
                               p.entries[g][i] = ListLine(f)}
           step == [q \in (1..c) \X SUBSET Files |-> more(q[2])]
           It == CHOOSE reach : reach = [n \in 0..c |-> IF n = 0 THEN roots ELSE more(reach[n - 1])]
<1>1. c \in Nat
  BY FS_CardinalityType
<1>2. ReachableFrom(p, roots) = It[c]
  BY DEF ReachableFrom, ListLine
<1> HIDE DEF c, It
<1>3. step \in [(1..c) \X SUBSET Files -> SUBSET Files]
  OBVIOUS
<1>4. roots \in SUBSET Files
  OBVIOUS
<1>5. \A i \in 1..c, B \in SUBSET Files : step[<<i, B>>] = more(B)
  OBVIOUS
<1>6. \A B \in SUBSET Files : more(B) = B \cup UNION {NamedBy(p)[v] : v \in B}
  <2> SUFFICES ASSUME NEW B \in SUBSET Files PROVE more(B) = B \cup UNION {NamedBy(p)[v] : v \in B}
    OBVIOUS
  <2>1. \A v \in B : NamedBy(p)[v] =
           {f \in Files : \E i \in DOMAIN p.entries[v] : p.entries[v][i] = ListLine(f)}
    BY DEF NamedBy
  <2> QED BY <2>1
<1>7. NamedBy(p) \in [Files -> SUBSET Files]
  BY DEF NamedBy
<1> HIDE DEF more, step
<1>8. PICK g : Recurs(g, c, SUBSET Files, roots, step)
  BY <1>1, <1>3, <1>4, Recursion
<1>9. g = [n \in 0..c |-> IF n = 0 THEN roots ELSE more(g[n - 1])]
  <2>1. ASSUME NEW i \in 1..c PROVE g[i] = more(g[i - 1])
    <3>1. g[i - 1] \in SUBSET Files /\ g[i] = step[<<i, g[i - 1]>>]
      BY <1>1, <1>8 DEF Recurs
    <3> QED BY <1>5, <3>1
  <2>2. g[0] = roots /\ g = [n \in 0..c |-> g[n]]
    BY <1>8 DEF Recurs
  <2>3. \A n \in 0..c : n # 0 => n \in 1..c
    BY <1>1
  <2> QED BY <1>1, <2>1, <2>2, <2>3
<1>10. It = [n \in 0..c |-> IF n = 0 THEN roots ELSE more(It[n - 1])]
  BY <1>9 DEF It
<1>11. Recurs(It, c, SUBSET Files, roots, step)
  <2>1. It = [n \in 0..c |-> It[n]] /\ It[0] = roots /\ \A i \in 1..c : It[i] = more(It[i - 1])
    BY <1>1, <1>10
  <2>2. ASSUME NEW i \in 1..c, It[i - 1] \in SUBSET Files PROVE It[i] = step[<<i, It[i - 1]>>]
    BY <1>5, <2>1, <2>2
  <2> QED BY <1>1, <1>3, <1>4, <2>1, <2>2, IsRecursion
<1>12. IsReach(Files, NamedBy(p), roots, It[c])
  <2>1. \A i \in 1..c, B \in SUBSET Files : step[<<i, B>>] = B \cup UNION {NamedBy(p)[v] : v \in B}
    BY <1>5, <1>6
  <2> QED BY <1>3, <1>4, <1>7, <1>11, <2>1, ReachIs DEF c
<1> QED BY <1>2, <1>12

LEMMA RootsAre ==
    ASSUME NEW p, NEW A, IsProject(p, A)
    PROVE  /\ FirstList(p) \in Files \cup {NoFile} /\ FirstList(p) \in {p.cpu, p.input}
           /\ Roots(p) = Given(FirstList(p)) \cup Given(p.soc)
           /\ Roots(p) \in SUBSET Files /\ WatchedRoots(p) \in SUBSET Files
<1>1. FirstList(p) \in {p.cpu, p.input}
  BY DEF FirstList
<1>2. \A root \in {p.cpu, p.soc, p.input, p.verilog} : root \in Files \cup {NoFile}
  BY DEF IsProject
<1>3. FirstList(p) \in Files \cup {NoFile}
  BY <1>1, <1>2
<1>4. Roots(p) = Given(FirstList(p)) \cup Given(p.soc)
  BY DEF Roots, Given
<1>5. Roots(p) \in SUBSET Files
  BY <1>2, <1>3, <1>4 DEF Given
<1>6. WatchedRoots(p) \in SUBSET Files
  BY <1>2 DEF WatchedRoots
<1> QED BY <1>1, <1>3, <1>4, <1>5, <1>6

LEMMA ReachableIs ==
    ASSUME NEW p, NEW A, IsProject(p, A), IsFiniteSet(Files)
    PROVE  IsReach(Files, NamedBy(p), Roots(p), Reachable(p))
BY RootsAre, ReachableFromIs DEF Reachable

\* What resolve_thirdparty_path makes of a line, and of the lines of all lists.
Redirected(p, l) ==
    IF l.kind \in {"list", "glued", "rtl"} THEN [kind |-> l.kind, arg |-> Resolved(p, l.arg)] ELSE l

AllRedirected(p) == [f \in Files |-> [i \in DOMAIN p.entries[f] |-> Redirected(p, p.entries[f][i])]]

LEMMA FieldsStay ==
    ASSUME NEW p, HasFields(p), NEW e, NEW q, q = [p EXCEPT !.entries = e]
    PROVE  /\ q.entries = e /\ q.at = p.at /\ q.copy = p.copy /\ q.cpu = p.cpu /\ q.soc = p.soc
           /\ q.input = p.input /\ q.verilog = p.verilog /\ q.generic = p.generic /\ HasFields(q)
BY DEF HasFields

LEMMA RedirectedIs ==
    ASSUME NEW p, NEW A, IsProject(p, A), NEW l \in LinesOf(A)
    PROVE  /\ Redirected(p, l) \in LinesOf(A) /\ Redirected(p, l).kind = l.kind
           /\ l.kind \in {"list", "glued", "rtl"} => l.arg \in Files /\ Redirected(p, l).arg = Resolved(p, l.arg)
<1>1. CASE l.kind \in {"list", "glued", "rtl"}
  <2>1. l.arg \in Files
    BY <1>1 DEF LinesOf
  <2>2. Resolved(p, l.arg) \in Files
    BY <2>1 DEF IsProject, Resolved
  <2>3. Redirected(p, l) = [kind |-> l.kind, arg |-> Resolved(p, l.arg)]
    BY <1>1 DEF Redirected
  <2> QED BY <1>1, <2>1, <2>2, <2>3 DEF LinesOf
<1>2. CASE l.kind \notin {"list", "glued", "rtl"}
  BY <1>2 DEF Redirected
<1> QED BY <1>1, <1>2

LEMMA RelocatedIs ==
    ASSUME NEW p, NEW A, IsProject(p, A)
    PROVE  /\ IsProject(Relocated(p), A) /\ Relocated(p).entries = AllRedirected(p)
           /\ Relocated(p).at = p.at /\ Relocated(p).cpu = p.cpu /\ Relocated(p).soc = p.soc
           /\ Relocated(p).input = p.input /\ Relocated(p).verilog = p.verilog
<1>1. PICK q, e : q = Relocated(p) /\ e = AllRedirected(p)
  OBVIOUS
<1>2. q = [p EXCEPT !.entries = e]
  BY <1>1 DEF Relocated, AllRedirected, Redirected
<1>3. HasFields(p)
  BY DEF IsProject
<1>4. /\ q.entries = e /\ q.at = p.at /\ q.copy = p.copy /\ q.cpu = p.cpu /\ q.soc = p.soc
      /\ q.input = p.input /\ q.verilog = p.verilog /\ HasFields(q)
  BY <1>2, <1>3, FieldsStay
<1>5. e \in [Files -> Seq(LinesOf(A))]
  <2> SUFFICES ASSUME NEW f \in Files
               PROVE  [i \in DOMAIN p.entries[f] |-> Redirected(p, p.entries[f][i])] \in Seq(LinesOf(A))
    BY <1>1 DEF AllRedirected
  <2>1. PICK s \in Seq(LinesOf(A)) : s = p.entries[f]
    BY DEF IsProject
  <2>2. \A i \in 1..Len(s) : Redirected(p, s[i]) \in LinesOf(A)
    BY RedirectedIs
  <2>3. [i \in 1..Len(s) |-> Redirected(p, s[i])] \in Seq(LinesOf(A))
    BY <2>2
  <2> QED BY <2>1, <2>3
<1>6. IsProject(q, A)
  BY <1>4, <1>5 DEF IsProject
<1> QED BY <1>1, <1>4, <1>6

-----------------------------------------------------------------------------
(* Walks over lists of lines, of which some open another list: the lines of *)
(* a list are read in the place of the line that opens it, once.           *)

LEMMA ElementsAre ==
    ASSUME NEW L, NEW s \in Seq(L)
    PROVE  /\ Elements(s) \in SUBSET L
           /\ \A t \in Seq(L) : Elements(s \o t) = Elements(s) \cup Elements(t)
           /\ s # <<>> => Head(s) \in L /\ Tail(s) \in Seq(L) /\ Len(Tail(s)) = Len(s) - 1
                          /\ Elements(s) = {Head(s)} \cup Elements(Tail(s))
           /\ \A x \in L : Elements(Append(s, x)) = Elements(s) \cup {x}
           /\ Elements(<<>>) = {}
<1>1. Len(s) \in Nat /\ DOMAIN s = 1..Len(s) /\ \A i \in 1..Len(s) : s[i] \in L
  BY LenProperties, ElementOfSeq
<1>2. ASSUME NEW t \in Seq(L) PROVE Elements(s \o t) = Elements(s) \cup Elements(t)
  <2>1. Len(t) \in Nat /\ DOMAIN t = 1..Len(t)
    BY LenProperties
  <2>2. /\ s \o t \in Seq(L) /\ Len(s \o t) = Len(s) + Len(t)
        /\ \A i \in 1..Len(s) + Len(t) : (s \o t)[i] = IF i <= Len(s) THEN s[i] ELSE t[i - Len(s)]
    BY ConcatProperties
  <2> DEFINE c == s \o t
  <2>3. DOMAIN c = 1..Len(s) + Len(t)
    BY <2>2, LenProperties
  <2>4. \A i \in 1..Len(s) + Len(t) : c[i] = IF i <= Len(s) THEN s[i] ELSE t[i - Len(s)]
    BY <2>2
  <2> HIDE DEF c
  <2>5. ASSUME NEW i \in DOMAIN c PROVE c[i] \in Elements(s) \cup Elements(t)
    <3>1. i \in 1..Len(s) \/ i - Len(s) \in 1..Len(t)
      BY <1>1, <2>1, <2>3
    <3> QED BY <1>1, <2>1, <2>3, <2>4, <3>1 DEF Elements
  <2>6. ASSUME NEW i \in DOMAIN s PROVE s[i] \in Elements(c)
    <3>1. i \in DOMAIN c /\ c[i] = s[i]
      BY <1>1, <2>1, <2>3, <2>4
    <3> QED BY <3>1 DEF Elements
  <2>7. ASSUME NEW i \in DOMAIN t PROVE t[i] \in Elements(c)
    <3>1. i + Len(s) \in 1..Len(s) + Len(t) /\ ~(i + Len(s) <= Len(s)) /\ (i + Len(s)) - Len(s) = i
      BY <1>1, <2>1
    <3>2. i + Len(s) \in DOMAIN c /\ c[i + Len(s)] = t[i]
      BY <2>3, <2>4, <3>1
    <3> QED BY <3>2 DEF Elements
  <2>8. Elements(c) = Elements(s) \cup Elements(t)
    BY <2>5, <2>6, <2>7 DEF Elements
  <2> QED BY <2>8 DEF c
<1>3. ASSUME s # <<>>
      PROVE  Head(s) \in L /\ Tail(s) \in Seq(L) /\ Len(Tail(s)) = Len(s) - 1
             /\ Elements(s) = {Head(s)} \cup Elements(Tail(s))
  <2>1. /\ Head(s) \in L /\ Tail(s) \in Seq(L) /\ Len(Tail(s)) = Len(s) - 1
        /\ \A i \in 1..Len(Tail(s)) : Tail(s)[i] = s[i + 1]
    BY <1>3, HeadTailProperties
  <2>2. Head(s) = s[1] /\ Len(s) \in Nat \ {0}
    BY <1>1, <1>3, EmptySeq
  <2> DEFINE t == Tail(s)
  <2>3. DOMAIN t = 1..Len(s) - 1 /\ \A i \in 1..Len(s) - 1 : t[i] = s[i + 1]
    BY <2>1, LenProperties
  <2> HIDE DEF t
  <2>4. ASSUME NEW i \in DOMAIN s PROVE s[i] \in {s[1]} \cup Elements(t)
    <3>1. i = 1 \/ (i - 1 \in 1..Len(s) - 1 /\ (i - 1) + 1 = i)
      BY <1>1
    <3> QED BY <2>3, <3>1 DEF Elements
  <2>5. ASSUME NEW i \in DOMAIN t PROVE t[i] \in Elements(s)
    <3>1. i + 1 \in DOMAIN s /\ t[i] = s[i + 1]
      BY <1>1, <2>2, <2>3
    <3> QED BY <3>1 DEF Elements
  <2>6. s[1] \in Elements(s)
    BY <1>1, <2>2 DEF Elements
  <2>7. Elements(s) = {s[1]} \cup Elements(t)
    BY <2>4, <2>5, <2>6 DEF Elements
  <2> QED BY <2>1, <2>2, <2>7 DEF t
<1>4. ASSUME NEW x \in L PROVE Elements(Append(s, x)) = Elements(s) \cup {x}
  <2>1. Append(s, x) \in Seq(L) /\ Len(Append(s, x)) = Len(s) + 1
        /\ (\A i \in 1..Len(s) : Append(s, x)[i] = s[i]) /\ Append(s, x)[Len(s) + 1] = x
    BY AppendProperties
  <2>2. PICK a \in Seq(L) : a = Append(s, x)
    BY <2>1
  <2>3. DOMAIN a = 1..Len(s) + 1 /\ (\A i \in 1..Len(s) : a[i] = s[i]) /\ a[Len(s) + 1] = x
    BY <2>1, <2>2, LenProperties
  <2>4. \A i \in 1..Len(s) + 1 : i \in 1..Len(s) \/ i = Len(s) + 1
    BY <1>1
  <2>5. (\A i \in 1..Len(s) : i \in 1..Len(s) + 1) /\ Len(s) + 1 \in 1..Len(s) + 1
    BY <1>1
  <2>6. Elements(a) \subseteq Elements(s) \cup {x}
    BY <1>1, <2>3, <2>4 DEF Elements
  <2>7. Elements(s) \cup {x} \subseteq Elements(a)
    BY <1>1, <2>3, <2>5 DEF Elements
  <2> QED BY <2>2, <2>6, <2>7
<1>5. Elements(<<>>) = {}
  BY DEF Elements
<1>6. Elements(s) \in SUBSET L
  BY <1>1 DEF Elements
<1> QED BY <1>2, <1>3, <1>4, <1>5, <1>6

\* The places of the lists that were not opened.
Unopened(G, body, opened) == UNION {{v} \X DOMAIN body[v] : v \in G \ opened}

\* To open a list takes its places away.
Takes(G, body, opened, v) ==
    Cardinality(Unopened(G, body, opened)) = Len(body[v]) + Cardinality(Unopened(G, body, opened \cup {v}))

LEMMA UnopenedIs ==
    ASSUME NEW G, IsFiniteSet(G), NEW L, NEW body \in [G -> Seq(L)], NEW opened \in SUBSET G
    PROVE  /\ Cardinality(Unopened(G, body, opened)) \in Nat
           /\ \A v \in G \ opened : Takes(G, body, opened, v)
<1>1. \A v \in G : DOMAIN body[v] = 1..Len(body[v]) /\ Len(body[v]) \in Nat
  BY LenProperties
<1>2. ASSUME NEW v \in G
      PROVE  IsFiniteSet({v} \X DOMAIN body[v]) /\ Cardinality({v} \X DOMAIN body[v]) = Len(body[v])
  <2>1. IsFiniteSet(DOMAIN body[v]) /\ Cardinality(DOMAIN body[v]) = Len(body[v])
    BY <1>1, FS_Interval, SMTT(60)
  <2>2. IsFiniteSet({v}) /\ Cardinality({v}) = 1
    BY FS_Singleton
  <2>3. IsFiniteSet({v} \X DOMAIN body[v])
        /\ Cardinality({v} \X DOMAIN body[v]) = Cardinality({v}) * Cardinality(DOMAIN body[v])
    BY <2>1, <2>2, FS_Product
  <2>4. 1 * Len(body[v]) = Len(body[v])
    BY <1>1
  <2> QED BY <2>1, <2>2, <2>3, <2>4
<1>3. ASSUME NEW A \in SUBSET G PROVE IsFiniteSet(Unopened(G, body, A))
  <2> DEFINE D == G \ A
             parts == {{v} \X DOMAIN body[v] : v \in D}
             f == [v \in D |-> {v} \X DOMAIN body[v]]
  <2>1. IsFiniteSet(D)
    BY FS_Difference
  <2>2. f \in Surjection(D, parts)
    <3>1. f \in [D -> parts] /\ \A t \in parts : \E s \in D : f[s] = t
      OBVIOUS
    <3> HIDE DEF f, parts, D
    <3> QED BY <3>1, Fun_IsSurj
  <2>3. \A T \in parts : IsFiniteSet(T)
    BY <1>2
  <2>4. Unopened(G, body, A) = UNION parts
    BY DEF Unopened
  <2> HIDE DEF f, parts, D
  <2>5. IsFiniteSet(parts)
    BY <2>1, <2>2, FS_Surjection
  <2> QED BY <2>3, <2>4, <2>5, FS_UNION
<1>4. ASSUME NEW v \in G \ opened
      PROVE  Takes(G, body, opened, v)
  <2> DEFINE A == Unopened(G, body, opened \cup {v})
             B == {v} \X DOMAIN body[v]
  <2>1. Unopened(G, body, opened) = A \cup B /\ A \cap B = {}
    BY DEF Unopened
  <2>2. IsFiniteSet(A) /\ IsFiniteSet(B) /\ Cardinality(B) = Len(body[v])
    BY <1>2, <1>3
  <2> HIDE DEF A, B
  <2>3. Cardinality(A \cup B) = Cardinality(A) + Cardinality(B) - Cardinality({})
    BY <2>1, <2>2, FS_Union
  <2>4. Cardinality({}) = 0 /\ Cardinality(A) \in Nat /\ Cardinality(B) \in Nat
    BY <2>2, FS_EmptySet, FS_CardinalityType
  <2> QED BY <1>1, <2>1, <2>2, <2>3, <2>4 DEF A, Takes
<1> QED BY <1>3, <1>4, FS_CardinalityType

\* What the lines of each list open.
Opening(G, body, opens) == [v \in G |-> UNION {opens[l] : l \in Elements(body[v])}]

\* Lists were opened and lines read, and todo is to be read: nothing was left out,
\* and nothing but what the line at the root leads to was opened.
Walked(todo, opened, read, G, L, body, opens, root) ==
    /\ todo \in Seq(L) /\ opened \in SUBSET G /\ read \in SUBSET L
    /\ \A l \in Elements(todo) \cup read : l = root \/ \E v \in opened : l \in Elements(body[v])
    /\ root \in Elements(todo) \cup read
    /\ \A v \in opened : Elements(body[v]) \subseteq Elements(todo) \cup read
    /\ \A l \in read : opens[l] \subseteq opened
    /\ \A C \in SUBSET G : opens[root] \subseteq C /\ Closed(Opening(G, body, opens), C) => opened \subseteq C

\* How many lines there are to read at most.
ToRead(todo, opened, G, body) == Len(todo) + Cardinality(Unopened(G, body, opened))

\* A line was read.
OneLess(todo, opened, rest, now, G, body) == ToRead(rest, now, G, body) = ToRead(todo, opened, G, body) - 1

LEMMA OneLessIs ==
    ASSUME NEW G, IsFiniteSet(G), NEW L, NEW body \in [G -> Seq(L)], NEW opened \in SUBSET G,
           NEW todo \in Seq(L), todo # <<>>, NEW t, t = Tail(todo)
    PROVE  /\ OneLess(todo, opened, t, opened, G, body)
           /\ \A v \in G : \A u, now : v \notin opened /\ u = body[v] \o t /\ now = opened \cup {v} =>
                 OneLess(todo, opened, u, now, G, body)
<1>1. t \in Seq(L) /\ Len(t) = Len(todo) - 1
  BY HeadTailProperties
<1>2. OneLess(todo, opened, t, opened, G, body)
  <2>1. Len(t) \in Nat /\ Len(todo) \in Nat /\ Cardinality(Unopened(G, body, opened)) \in Nat
    BY <1>1, UnopenedIs, LenProperties
  <2> QED BY <1>1, <2>1 DEF ToRead, OneLess
<1>3. ASSUME NEW v \in G, NEW u, NEW now, v \notin opened, u = body[v] \o t, now = opened \cup {v}
      PROVE  OneLess(todo, opened, u, now, G, body)
  <2>1. PICK b, x, y : b = body[v] /\ x = Cardinality(Unopened(G, body, opened))
                       /\ y = Cardinality(Unopened(G, body, now))
    OBVIOUS
  <2>2. Takes(G, body, opened, v)
    BY <1>3, UnopenedIs
  <2>3. x = Len(b) + y
    BY <1>3, <2>1, <2>2 DEF Takes
  <2>4. x \in Nat /\ y \in Nat
    <3>1. now \in SUBSET G
      BY <1>3
    <3> QED BY <2>1, <3>1, UnopenedIs
  <2>5. b \in Seq(L) /\ u = b \o t
    BY <1>3, <2>1
  <2>6. Len(t) \in Nat /\ Len(todo) \in Nat /\ Len(b) \in Nat /\ Len(u) = Len(b) + Len(t)
    BY <1>1, <2>5, LenProperties, ConcatProperties
  <2>7. PICK i, j, k, l : i = Len(t) /\ j = Len(todo) /\ k = Len(b) /\ l = Len(u)
    OBVIOUS
  <2>8. i \in Nat /\ j \in Nat /\ k \in Nat /\ i = j - 1 /\ l = k + i /\ x = k + y
    BY <1>1, <2>3, <2>6, <2>7
  <2>9. l + y = (j + x) - 1
    BY <2>4, <2>8
  <2> QED BY <2>1, <2>7, <2>9, Zenon DEF OneLess, ToRead
<1> QED BY <1>2, <1>3

LEMMA WalkSkips ==
    ASSUME NEW G, IsFiniteSet(G), NEW L, NEW body \in [G -> Seq(L)], NEW opens \in [L -> SUBSET G],
           NEW root \in L, NEW todo, NEW opened, NEW read,
           Walked(todo, opened, read, G, L, body, opens, root), todo # <<>>,
           NEW h, h = Head(todo), NEW t, t = Tail(todo), NEW more, more = read \cup {h},
           opens[h] \subseteq opened
    PROVE  Walked(t, opened, more, G, L, body, opens, root)
<1>1. todo \in Seq(L) /\ opened \in SUBSET G /\ read \in SUBSET L
  BY DEF Walked
<1>2. h = Head(todo) /\ t = Tail(todo)
  OBVIOUS
<1>3. h \in L /\ t \in Seq(L) /\ Len(t) = Len(todo) - 1 /\ Elements(todo) = {h} \cup Elements(t)
  BY <1>1, <1>2, ElementsAre
<1>4. Walked(t, opened, read \cup {h}, G, L, body, opens, root)
  <2>1. Elements(t) \cup (read \cup {h}) = Elements(todo) \cup read
    BY <1>3
  <2>2. \A l \in read \cup {h} : opens[l] \subseteq opened
    BY <1>2 DEF Walked
  <2> QED BY <1>1, <1>3, <2>1, <2>2 DEF Walked
<1> QED BY <1>2, <1>4

LEMMA WalkOpens ==
    ASSUME NEW G, IsFiniteSet(G), NEW L, NEW body \in [G -> Seq(L)], NEW opens \in [L -> SUBSET G],
           NEW root \in L, NEW todo, NEW opened, NEW read,
           Walked(todo, opened, read, G, L, body, opens, root), todo # <<>>,
           NEW h, h = Head(todo), NEW v \in G, v \notin opened, opens[h] = {v},
           NEW u, u = body[v] \o Tail(todo), NEW now, now = opened \cup {v},
           NEW more, more = read \cup {h}
    PROVE  Walked(u, now, more, G, L, body, opens, root)
<1>1. todo \in Seq(L) /\ opened \in SUBSET G /\ read \in SUBSET L
  BY DEF Walked
<1>2. PICK t, b : h = Head(todo) /\ t = Tail(todo) /\ b = body[v] /\ u = b \o t
  OBVIOUS
<1>3. h \in L /\ t \in Seq(L) /\ Len(t) = Len(todo) - 1 /\ Elements(todo) = {h} \cup Elements(t)
  BY <1>1, <1>2, ElementsAre
<1>4. b \in Seq(L)
  BY <1>2
<1>5. u \in Seq(L) /\ Len(u) = Len(b) + Len(t) /\ Elements(u) = Elements(b) \cup Elements(t)
  <2>1. \A x \in Seq(L) : Elements(b \o x) = Elements(b) \cup Elements(x)
    BY <1>4, ElementsAre
  <2>2. b \o t \in Seq(L) /\ Len(b \o t) = Len(b) + Len(t)
    BY <1>3, <1>4, ConcatProperties
  <2> QED BY <1>2, <1>3, <2>1, <2>2
<1>6. Walked(u, opened \cup {v}, read \cup {h}, G, L, body, opens, root)
  <2>1. Elements(u) \cup (read \cup {h}) = (Elements(todo) \cup read) \cup Elements(b)
    BY <1>3, <1>5
  <2>2. \A l \in Elements(u) \cup (read \cup {h}) :
            l = root \/ \E w \in opened \cup {v} : l \in Elements(body[w])
    <3>1. \A l \in Elements(todo) \cup read : l = root \/ \E w \in opened : l \in Elements(body[w])
      BY DEF Walked
    <3>2. \A l \in Elements(b) : l \in Elements(body[v])
      BY <1>2
    <3> QED BY <2>1, <3>1, <3>2
  <2>3. \A w \in opened \cup {v} : Elements(body[w]) \subseteq Elements(u) \cup (read \cup {h})
    <3>1. \A w \in opened : Elements(body[w]) \subseteq Elements(todo) \cup read
      BY DEF Walked
    <3> QED BY <1>2, <2>1, <3>1
  <2>4. \A l \in read \cup {h} : opens[l] \subseteq opened \cup {v}
    BY <1>2 DEF Walked
  <2>5. ASSUME NEW C \in SUBSET G, opens[root] \subseteq C, Closed(Opening(G, body, opens), C)
        PROVE  opened \cup {v} \subseteq C
    <3>1. opened \subseteq C
      BY <2>5 DEF Walked
    <3>2. h = root \/ \E w \in opened : h \in Elements(body[w])
      BY <1>3 DEF Walked
    <3>3. CASE h = root
      BY <1>2, <2>5, <3>1, <3>3
    <3>4. ASSUME NEW w \in opened, h \in Elements(body[w]) PROVE v \in C
      <4>1. opens[h] \subseteq Opening(G, body, opens)[w]
        BY <1>1, <3>4 DEF Opening
      <4>2. Opening(G, body, opens)[w] \subseteq C
        BY <2>5, <3>1, <3>4 DEF Closed
      <4> QED BY <1>2, <4>1, <4>2
    <3> QED BY <3>1, <3>2, <3>3, <3>4
  <2>6. root \in Elements(u) \cup (read \cup {h})
    <3>1. root \in Elements(todo) \cup read
      BY DEF Walked
    <3> QED BY <2>1, <3>1
  <2>7. opened \cup {v} \in SUBSET G /\ read \cup {h} \in SUBSET L
    BY <1>1, <1>3
  <2> QED BY <1>5, <2>2, <2>3, <2>4, <2>5, <2>6, <2>7 DEF Walked
<1> QED BY <1>2, <1>6

\* A walk that has nothing left to read has opened whatever can be reached.
LEMMA WalkEnds ==
    ASSUME NEW G, NEW L, NEW body \in [G -> Seq(L)], NEW opens \in [L -> SUBSET G],
           NEW root \in L, NEW opened, NEW read,
           Walked(<<>>, opened, read, G, L, body, opens, root)
    PROVE  /\ IsReach(G, Opening(G, body, opens), opens[root], opened)
           /\ read = {root} \cup UNION {Elements(body[v]) : v \in opened}
<1>1. Elements(<<>>) = {}
  BY DEF Elements
<1>2. opened \in SUBSET G /\ read \in SUBSET L /\ root \in read
      /\ (\A v \in opened : Elements(body[v]) \subseteq read)
      /\ (\A l \in read : l = root \/ \E v \in opened : l \in Elements(body[v]))
      /\ (\A l \in read : opens[l] \subseteq opened)
  BY <1>1 DEF Walked
<1>3. read = {root} \cup UNION {Elements(body[v]) : v \in opened}
  BY <1>2
<1>4. Closed(Opening(G, body, opens), opened)
  <2> SUFFICES ASSUME NEW v \in opened PROVE Opening(G, body, opens)[v] \subseteq opened
    BY DEF Closed
  <2> QED BY <1>2 DEF Opening
<1> QED BY <1>2, <1>3, <1>4 DEF IsReach, Walked

-----------------------------------------------------------------------------
(* _parse_sv_filelist. *)

StateOf(A) == [todo : Seq(LinesOf(A)), visited : SUBSET Files, rtl : Seq(Files),
               incdirs : Seq(A), defines : Seq(A), failed : BOOLEAN]

\* What a line does.
Reads(p, st, r) ==
    LET line == Head(st.todo) IN
    \/ /\ line.kind \in {"list", "rtl"} /\ ~Found(p, line.arg)
       /\ r.failed /\ r.todo = <<>> /\ r.visited = st.visited
    \/ /\ line.kind = "list" /\ Found(p, line.arg) /\ line.arg \notin st.visited
       /\ r.todo = p.entries[line.arg] \o Tail(st.todo) /\ r.visited = st.visited \cup {line.arg}
       /\ r.rtl = st.rtl /\ r.failed = st.failed
    \/ /\ line.kind = "rtl" /\ Found(p, line.arg)
       /\ r.todo = Tail(st.todo) /\ r.visited = st.visited
       /\ r.rtl = Append(st.rtl, line.arg) /\ r.failed = st.failed
    \/ /\ line.kind # "rtl"
       /\ line.kind = "list" => Found(p, line.arg) /\ line.arg \in st.visited
       /\ r.todo = Tail(st.todo) /\ r.visited = st.visited /\ r.rtl = st.rtl /\ r.failed = st.failed

\* What the updates of a state's record are.
St(todo, visited, rtl, incdirs, defines, failed) ==
    [todo |-> todo, visited |-> visited, rtl |-> rtl, incdirs |-> incdirs,
     defines |-> defines, failed |-> failed]

LEMMA ReadLineIs ==
    ASSUME NEW p, NEW A, IsProject(p, A), NEW st \in StateOf(A), st.todo # <<>>
    PROVE  ReadLine(p, st) \in StateOf(A) /\ Reads(p, st, ReadLine(p, st))
<1>1. PICK a \in Seq(LinesOf(A)), b \in SUBSET Files, c \in Seq(Files), d \in Seq(A), e \in Seq(A),
           f \in BOOLEAN : st = St(a, b, c, d, e, f)
  BY DEF StateOf, St
<1>2. \A u \in Seq(LinesOf(A)), v \in SUBSET Files, w \in Seq(Files), x \in Seq(A), y \in Seq(A),
         z \in BOOLEAN : St(u, v, w, x, y, z) \in StateOf(A)
  BY DEF StateOf, St
<1>3. st.todo = a /\ st.visited = b /\ st.rtl = c /\ st.incdirs = d /\ st.defines = e /\ st.failed = f
  BY <1>1 DEF St
<1>4. PICK line, t : line = Head(st.todo) /\ t = Tail(st.todo)
  OBVIOUS
<1>5. line \in LinesOf(A) /\ t \in Seq(LinesOf(A))
  BY <1>3, <1>4, HeadTailProperties
<1>6. PICK rest : rest = [st EXCEPT !.todo = t]
  OBVIOUS
<1>7. rest = St(t, b, c, d, e, f)
  BY <1>1, <1>6 DEF St
<1>8. /\ line.kind \in {"list", "glued", "rtl"} => line.arg \in Files
      /\ line.kind \in {"incdir", "define", "option"} => line.arg \in A
      /\ line.kind \in {"list", "glued", "rtl", "incdir", "define", "option"}
  BY <1>5 DEF LinesOf
<1>9. /\ rest.todo = t /\ rest.visited = b /\ rest.rtl = c /\ rest.incdirs = d
      /\ rest.defines = e
  BY <1>7 DEF St
<1>10. ReadLine(p, st) =
          CASE line.kind \in {"list", "rtl"} /\ ~Found(p, line.arg) ->
                    [rest EXCEPT !.failed = TRUE, !.todo = <<>>]
            [] line.kind = "list" /\ Found(p, line.arg) /\ line.arg \notin st.visited ->
                    [rest EXCEPT !.visited = rest.visited \cup {line.arg},
                                 !.todo = p.entries[line.arg] \o rest.todo]
            [] line.kind = "rtl" /\ Found(p, line.arg) ->
                    [rest EXCEPT !.rtl = Append(rest.rtl, line.arg)]
            [] line.kind = "incdir" -> [rest EXCEPT !.incdirs = Append(rest.incdirs, line.arg)]
            [] line.kind = "define" -> [rest EXCEPT !.defines = Append(rest.defines, line.arg)]
            [] OTHER -> rest
  BY ONLY <1>4, <1>6, Zenon DEF ReadLine
<1>11. CASE line.kind \in {"list", "rtl"} /\ ~Found(p, line.arg)
  <2>1. PICK yes, nil : yes = TRUE /\ nil = <<>>
    OBVIOUS
  <2>2. ReadLine(p, st) = [rest EXCEPT !.failed = yes, !.todo = nil]
    BY <1>8, <1>10, <1>11, <2>1, Zenon
  <2>3. ReadLine(p, st) = St(nil, b, c, d, e, yes)
    BY <1>7, <2>2 DEF St
  <2>4. nil \in Seq(LinesOf(A)) /\ yes \in BOOLEAN
    BY <2>1, EmptySeq
  <2>5. ReadLine(p, st) \in StateOf(A)
    BY <1>2, <2>3, <2>4
  <2>6. PICK r : r = ReadLine(p, st)
    OBVIOUS
  <2>7. r.failed = yes /\ r.todo = nil /\ r.visited = b
    BY <2>3, <2>6 DEF St
  <2>8. Reads(p, st, r)
    BY <1>3, <1>4, <1>11, <2>1, <2>7 DEF Reads
  <2> QED BY <2>5, <2>6, <2>8
<1>12. CASE line.kind = "list" /\ Found(p, line.arg) /\ line.arg \notin st.visited
  <2>1. PICK v, u : v = b \cup {line.arg} /\ u = p.entries[line.arg] \o t
    OBVIOUS
  <2>2. ReadLine(p, st) = [rest EXCEPT !.visited = v, !.todo = u]
    BY <1>9, <1>10, <1>12, <2>1, Zenon
  <2>3. ReadLine(p, st) = St(u, v, c, d, e, f)
    BY <1>7, <2>2 DEF St
  <2>4. u \in Seq(LinesOf(A)) /\ v \in SUBSET Files
    <3>1. p.entries[line.arg] \in Seq(LinesOf(A))
      BY <1>8, <1>12 DEF IsProject
    <3>2. u \in Seq(LinesOf(A))
      BY <1>5, <2>1, <3>1, ConcatProperties
    <3> QED BY <1>8, <1>12, <2>1, <3>2
  <2>5. ReadLine(p, st) \in StateOf(A)
    BY <1>2, <2>3, <2>4
  <2>6. PICK r : r = ReadLine(p, st)
    OBVIOUS
  <2>7. r.failed = f /\ r.todo = u /\ r.visited = v /\ r.rtl = c
    BY <2>3, <2>6 DEF St
  <2>8. Reads(p, st, r)
    BY <1>3, <1>4, <1>12, <2>1, <2>7 DEF Reads
  <2> QED BY <2>5, <2>6, <2>8
<1>13. CASE line.kind = "rtl" /\ Found(p, line.arg)
  <2>1. PICK x : x = Append(c, line.arg)
    OBVIOUS
  <2>2. ReadLine(p, st) = [rest EXCEPT !.rtl = x]
    BY <1>9, <1>10, <1>13, <2>1, Zenon
  <2>3. ReadLine(p, st) = St(t, b, x, d, e, f)
    BY <1>7, <2>2 DEF St
  <2>4. x \in Seq(Files)
    BY <1>8, <1>13, <2>1, AppendProperties
  <2>5. ReadLine(p, st) \in StateOf(A)
    BY <1>2, <1>5, <2>3, <2>4
  <2>6. PICK r : r = ReadLine(p, st)
    OBVIOUS
  <2>7. r.failed = f /\ r.todo = t /\ r.visited = b /\ r.rtl = x
    BY <2>3, <2>6 DEF St
  <2>8. Reads(p, st, r)
    BY <1>3, <1>4, <1>13, <2>1, <2>7 DEF Reads
  <2> QED BY <2>5, <2>6, <2>8
<1>14. CASE /\ line.kind # "rtl"
            /\ line.kind = "list" => Found(p, line.arg) /\ line.arg \in st.visited
  <2>1. PICK x, y : x = Append(d, line.arg) /\ y = Append(e, line.arg)
    OBVIOUS
  <2>2. ReadLine(p, st) = CASE line.kind = "incdir" -> [rest EXCEPT !.incdirs = x]
                            [] line.kind = "define" -> [rest EXCEPT !.defines = y]
                            [] OTHER -> rest
    BY <1>9, <1>10, <1>14, <2>1, Zenon
  <2>3. \/ line.kind = "incdir" /\ ReadLine(p, st) = St(t, b, c, x, e, f)
        \/ line.kind = "define" /\ ReadLine(p, st) = St(t, b, c, d, y, f)
        \/ ReadLine(p, st) = St(t, b, c, d, e, f)
    BY <1>7, <2>2 DEF St
  <2>4. (line.kind = "incdir" => x \in Seq(A)) /\ (line.kind = "define" => y \in Seq(A))
    BY <1>8, <2>1, AppendProperties
  <2>5. ReadLine(p, st) \in StateOf(A)
    BY <1>2, <1>5, <2>3, <2>4
  <2>6. PICK r : r = ReadLine(p, st)
    OBVIOUS
  <2>7. r.failed = f /\ r.todo = t /\ r.visited = b /\ r.rtl = c
    BY <2>3, <2>6 DEF St
  <2>8. Reads(p, st, r)
    BY <1>3, <1>4, <1>14, <2>7 DEF Reads
  <2> QED BY <2>5, <2>6, <2>8
<1> QED BY <1>11, <1>12, <1>13, <1>14

\* The states of the parser, a line at a time.
Start(root) == [Nothing EXCEPT !.todo = <<ListLine(root)>>]

Runs(run, p, A, root) ==
    /\ run \in [0..Fuel(p) -> StateOf(A)] /\ run[0] = Start(root)
    /\ \A i \in 1..Fuel(p) : run[i] = IF run[i - 1].todo = <<>> THEN run[i - 1]
                                      ELSE ReadLine(p, run[i - 1])
    /\ Parse(p, root) = run[Fuel(p)]

LEMMA FuelIs ==
    ASSUME NEW p, NEW A, IsProject(p, A), IsFiniteSet(Files)
    PROVE  Fuel(p) = 1 + Cardinality(Unopened(Files, p.entries, {})) /\ Fuel(p) \in Nat
<1>1. Unopened(Files, p.entries, {}) = UNION {{f} \X DOMAIN p.entries[f] : f \in Files}
  BY DEF Unopened
<1>2. p.entries \in [Files -> Seq(LinesOf(A))] /\ {} \in SUBSET Files
  BY DEF IsProject
<1>3. Cardinality(Unopened(Files, p.entries, {})) \in Nat
  BY <1>2, UnopenedIs
<1> QED BY <1>1, <1>3 DEF Fuel

LEMMA ParseRuns ==
    ASSUME NEW p, NEW A, IsProject(p, A), IsFiniteSet(Files), NEW root \in Files
    PROVE  \E run : Runs(run, p, A, root)
<1> DEFINE c == Fuel(p)
           X == StateOf(A)
           next(st) == IF st.todo = <<>> THEN st ELSE ReadLine(p, st)
           step == [q \in (1..c) \X X |-> next(q[2])]
           It == CHOOSE run : run = [n \in 0..c |->
                    IF n = 0 THEN Start(root)
                    ELSE IF run[n - 1].todo = <<>> THEN run[n - 1] ELSE ReadLine(p, run[n - 1])]
<1>1. c \in Nat
  BY FuelIs
<1>2. Parse(p, root) = It[c]
  BY DEF Parse, Start, ListLine
<1>3. Start(root) \in X
  <2>1. ListLine(root) \in LinesOf(A)
    BY DEF ListLine, LinesOf
  <2>2. /\ <<>> \in Seq(Files) /\ <<>> \in Seq(A) /\ {} \in SUBSET Files
        /\ <<ListLine(root)>> \in Seq(LinesOf(A))
    BY <2>1, EmptySeq
  <2>3. Start(root) = [todo |-> <<ListLine(root)>>, visited |-> {}, rtl |-> <<>>, incdirs |-> <<>>,
                       defines |-> <<>>, failed |-> FALSE]
    <3>1. PICK nil, no, none, todo : nil = <<>> /\ no = FALSE /\ none = {} /\ todo = <<ListLine(root)>>
      OBVIOUS
    <3>2. Nothing = St(nil, none, nil, nil, nil, no)
      BY <3>1, Zenon DEF Nothing, St
    <3>3. [Nothing EXCEPT !.todo = todo] = St(todo, none, nil, nil, nil, no)
      BY <3>2 DEF St
    <3> QED BY <3>1, <3>3, Zenon DEF Start, St
  <2> QED BY <2>2, <2>3 DEF StateOf
<1> HIDE DEF c, It
<1>4. \A st \in X : next(st) \in X
  <2> SUFFICES ASSUME NEW st \in X PROVE next(st) \in X
    OBVIOUS
  <2> QED BY ReadLineIs
<1> HIDE DEF X
<1>5. step \in [(1..c) \X X -> X] /\ \A i \in 1..c, st \in X : step[<<i, st>>] = next(st)
  BY <1>4
<1> HIDE DEF step
<1>6. PICK g : Recurs(g, c, X, Start(root), step)
  BY <1>1, <1>3, <1>5, Recursion
<1>7. g = [n \in 0..c |-> IF n = 0 THEN Start(root) ELSE next(g[n - 1])]
  <2>1. ASSUME NEW i \in 1..c PROVE g[i] = next(g[i - 1])
    <3>1. g[i - 1] \in X /\ g[i] = step[<<i, g[i - 1]>>]
      BY <1>1, <1>6 DEF Recurs
    <3> QED BY <1>5, <3>1
  <2>2. g[0] = Start(root) /\ g = [n \in 0..c |-> g[n]]
    BY <1>6 DEF Recurs
  <2>3. \A n \in 0..c : n # 0 => n \in 1..c
    BY <1>1, SMTT(60)
  <2> HIDE DEF next
  <2> QED BY <1>1, <2>1, <2>2, <2>3
<1>8. It = [n \in 0..c |-> IF n = 0 THEN Start(root) ELSE next(It[n - 1])]
  BY <1>7 DEF It
<1>9. It[0] = Start(root) /\ It = [n \in 0..c |-> It[n]] /\ \A i \in 1..c : It[i] = next(It[i - 1])
  <2> HIDE DEF next
  <2> QED BY <1>1, <1>8, SMTT(60)
<1>10. Recurs(It, c, X, Start(root), step)
  <2>1. ASSUME NEW i \in 1..c, It[i - 1] \in X PROVE It[i] = step[<<i, It[i - 1]>>]
    BY <1>5, <1>9, <2>1
  <2> QED BY <1>1, <1>3, <1>5, <1>9, <2>1, IsRecursion
<1>11. Runs(It, p, A, root)
  BY <1>2, <1>9, <1>10 DEF Recurs, Runs, X, c
<1> QED BY <1>11

\* The lists that a line opens, if all goes well.
ListOf(A) == [l \in LinesOf(A) |-> IF l.kind = "list" THEN {l.arg} ELSE {}]

LEMMA ListOfIs ==
    ASSUME NEW p, NEW A, IsProject(p, A)
    PROVE  /\ ListOf(A) \in [LinesOf(A) -> SUBSET Files] /\ p.entries \in [Files -> Seq(LinesOf(A))]
           /\ \A f \in Files : ListLine(f) \in LinesOf(A) /\ RtlLine(f) \in LinesOf(A)
                               /\ ListOf(A)[ListLine(f)] = {f}
           /\ \A l \in LinesOf(A) : /\ l.kind = "list" => l = ListLine(l.arg) /\ l.arg \in Files
                                    /\ l.kind = "rtl" => l = RtlLine(l.arg) /\ l.arg \in Files
           /\ Opening(Files, p.entries, ListOf(A)) = NamedBy(p)
<1>1. \A l \in LinesOf(A) : l.kind \in {"list", "rtl"} => l.arg \in Files /\ l = [kind |-> l.kind, arg |-> l.arg]
  BY DEF LinesOf
<1>2. ListOf(A) \in [LinesOf(A) -> SUBSET Files]
  BY <1>1 DEF ListOf
<1>3. \A f \in Files : ListLine(f) \in LinesOf(A) /\ RtlLine(f) \in LinesOf(A)
  BY DEF ListLine, RtlLine, LinesOf
<1>4. \A f \in Files : ListOf(A)[ListLine(f)] = {f}
  <2> SUFFICES ASSUME NEW f \in Files PROVE ListOf(A)[ListLine(f)] = {f}
    OBVIOUS
  <2>1. ListLine(f).kind = "list" /\ ListLine(f).arg = f
    BY DEF ListLine
  <2> QED BY <1>3, <2>1 DEF ListOf
<1>5. \A l \in LinesOf(A) : /\ l.kind = "list" => l = ListLine(l.arg) /\ l.arg \in Files
                            /\ l.kind = "rtl" => l = RtlLine(l.arg) /\ l.arg \in Files
  BY <1>1 DEF ListLine, RtlLine
<1>6. p.entries \in [Files -> Seq(LinesOf(A))]
  BY DEF IsProject
<1>7. ASSUME NEW g \in Files
      PROVE  UNION {ListOf(A)[l] : l \in Elements(p.entries[g])} =
             {f \in Files : \E i \in DOMAIN p.entries[g] : p.entries[g][i] = ListLine(f)}
  <2>1. PICK s \in Seq(LinesOf(A)) : s = p.entries[g]
    BY <1>6
  <2>2. Elements(s) \in SUBSET LinesOf(A)
    BY ElementsAre
  <2>3. \A l \in LinesOf(A) : ListOf(A)[l] = IF l.kind = "list" THEN {l.arg} ELSE {}
    BY DEF ListOf
  <2>4. ASSUME NEW f \in Files, NEW i \in DOMAIN s, s[i] = ListLine(f)
        PROVE  f \in UNION {ListOf(A)[l] : l \in Elements(s)}
    <3>1. ListLine(f) \in Elements(s)
      BY <2>4 DEF Elements
    <3>2. f \in ListOf(A)[ListLine(f)]
      BY <1>4
    <3> QED BY <3>1, <3>2
  <2>5. ASSUME NEW l \in Elements(s), NEW f \in ListOf(A)[l]
        PROVE  f \in Files /\ \E i \in DOMAIN s : s[i] = ListLine(f)
    <3>1. l.kind = "list" /\ f = l.arg
      BY <2>2, <2>3
    <3>2. l = ListLine(f) /\ f \in Files
      BY <1>5, <2>2, <3>1
    <3> QED BY <3>2 DEF Elements
  <2> QED BY <2>1, <2>4, <2>5
<1>8. Opening(Files, p.entries, ListOf(A)) = NamedBy(p)
  BY <1>7 DEF Opening, NamedBy
<1> QED BY <1>2, <1>3, <1>4, <1>5, <1>6, <1>8

\* A state of the parser after n lines: as long as nothing was missing it has walked
\* the lists and kept the RTL files; else some file that can be reached is missing.
Parsing(st, n, p, A, root) ==
    /\ st \in StateOf(A)
    /\ st.failed => st.todo = <<>>
    /\ st.failed => \A C : IsReach(Files, NamedBy(p), {root}, C) =>
                        \E f \in C \cup RtlIn(p, C) : ~Found(p, f)
    /\ ~st.failed => \E read :
          /\ Walked(st.todo, st.visited, read, Files, LinesOf(A), p.entries, ListOf(A), ListLine(root))
          /\ \A l \in read : l.kind \in {"list", "rtl"} => Found(p, l.arg)
          /\ Elements(st.rtl) = {f \in Files : RtlLine(f) \in read}
          /\ st.todo = <<>> \/ ToRead(st.todo, st.visited, Files, p.entries) + n <= Fuel(p)

LEMMA ParsingStarts ==
    ASSUME NEW p, NEW A, IsProject(p, A), IsFiniteSet(Files), NEW root \in Files, Start(root) \in StateOf(A)
    PROVE  Parsing(Start(root), 0, p, A, root)
<1>1. PICK st : st = Start(root)
  OBVIOUS
<1>2. PICK nil, no, none, todo : nil = <<>> /\ no = FALSE /\ none = {} /\ todo = <<ListLine(root)>>
  OBVIOUS
<1>3. st = St(todo, none, nil, nil, nil, no)
  <2>1. Nothing = St(nil, none, nil, nil, nil, no)
    BY <1>2, Zenon DEF Nothing, St
  <2>2. st = [Nothing EXCEPT !.todo = todo]
    BY <1>1, <1>2, Zenon DEF Start
  <2> QED BY <2>1, <2>2 DEF St
<1>4. st.todo = todo /\ st.visited = {} /\ st.rtl = nil /\ st.failed = no
  BY <1>2, <1>3 DEF St
<1>5. ListLine(root) \in LinesOf(A) /\ p.entries \in [Files -> Seq(LinesOf(A))]
  BY ListOfIs
<1>6. todo \in Seq(LinesOf(A)) /\ Len(todo) = 1 /\ Elements(todo) = {ListLine(root)}
  BY <1>2, <1>5 DEF Elements
<1>7. Walked(st.todo, st.visited, {}, Files, LinesOf(A), p.entries, ListOf(A), ListLine(root))
  BY <1>4, <1>6 DEF Walked
<1>8. Elements(st.rtl) = {}
  BY <1>2, <1>4 DEF Elements
<1>9. ToRead(st.todo, st.visited, Files, p.entries) + 0 <= Fuel(p)
  <2>1. Fuel(p) = 1 + Cardinality(Unopened(Files, p.entries, {})) /\ Fuel(p) \in Nat
    BY FuelIs
  <2> QED BY <1>4, <1>6, <2>1 DEF ToRead
<1>10. ~st.failed
  BY <1>2, <1>4
<1>11. \E read :
          /\ Walked(st.todo, st.visited, read, Files, LinesOf(A), p.entries, ListOf(A), ListLine(root))
          /\ \A l \in read : l.kind \in {"list", "rtl"} => Found(p, l.arg)
          /\ Elements(st.rtl) = {f \in Files : RtlLine(f) \in read}
          /\ st.todo = <<>> \/ ToRead(st.todo, st.visited, Files, p.entries) + 0 <= Fuel(p)
  BY <1>7, <1>8, <1>9
<1> QED BY <1>1, <1>10, <1>11 DEF Parsing

LEMMA ParsingReads ==
    ASSUME NEW p, NEW A, IsProject(p, A), IsFiniteSet(Files), NEW root \in Files,
           NEW st, NEW n \in 1..Fuel(p), Parsing(st, n - 1, p, A, root), st.todo # <<>>
    PROVE  Parsing(ReadLine(p, st), n, p, A, root)
<1>1. PICK r : r = ReadLine(p, st)
  OBVIOUS
<1>2. r \in StateOf(A) /\ Reads(p, st, r) /\ st \in StateOf(A)
  BY <1>1, ReadLineIs DEF Parsing
<1>3. st.todo \in Seq(LinesOf(A)) /\ st.visited \in SUBSET Files /\ st.rtl \in Seq(Files) /\ st.failed \in BOOLEAN
      /\ r.failed \in BOOLEAN
  BY <1>2 DEF StateOf
<1>4. ~st.failed
  BY DEF Parsing
<1>5. PICK read :
          /\ Walked(st.todo, st.visited, read, Files, LinesOf(A), p.entries, ListOf(A), ListLine(root))
          /\ \A l \in read : l.kind \in {"list", "rtl"} => Found(p, l.arg)
          /\ Elements(st.rtl) = {f \in Files : RtlLine(f) \in read}
          /\ ToRead(st.todo, st.visited, Files, p.entries) + (n - 1) <= Fuel(p)
  BY <1>4 DEF Parsing
<1>6. PICK line : line = Head(st.todo)
  OBVIOUS
<1>7. line \in LinesOf(A) /\ line \in Elements(st.todo)
  BY <1>3, <1>6, ElementsAre
<1>8. /\ ListOf(A) \in [LinesOf(A) -> SUBSET Files] /\ p.entries \in [Files -> Seq(LinesOf(A))]
      /\ ListLine(root) \in LinesOf(A) /\ ListOf(A)[ListLine(root)] = {root}
      /\ Opening(Files, p.entries, ListOf(A)) = NamedBy(p)
      /\ line.kind = "list" => line = ListLine(line.arg) /\ line.arg \in Files
      /\ line.kind = "rtl" => line = RtlLine(line.arg) /\ line.arg \in Files
      /\ ListOf(A)[line] = IF line.kind = "list" THEN {line.arg} ELSE {}
  BY <1>7, ListOfIs DEF ListOf
<1>9. read \in SUBSET LinesOf(A)
  BY <1>5 DEF Walked
<1>10. ToRead(st.todo, st.visited, Files, p.entries) \in Nat /\ Fuel(p) \in Nat
  <2>1. Len(st.todo) \in Nat /\ Cardinality(Unopened(Files, p.entries, st.visited)) \in Nat
    BY <1>3, <1>8, UnopenedIs, LenProperties
  <2> QED BY <2>1, FuelIs DEF ToRead
<1>11. CASE line.kind \in {"list", "rtl"} /\ ~Found(p, line.arg)
  <2>1. r.failed /\ r.todo = <<>>
    BY <1>2, <1>6, <1>11, Zenon DEF Reads
  <2>2. ASSUME NEW C, IsReach(Files, NamedBy(p), {root}, C)
        PROVE  \E f \in C \cup RtlIn(p, C) : ~Found(p, f)
    <3>1. C \in SUBSET Files /\ root \in C /\ Closed(NamedBy(p), C)
      BY <2>2 DEF IsReach
    <3>2. st.visited \subseteq C
      BY <1>5, <1>8, <3>1, ZenonT(60) DEF Walked
    <3>3. line = ListLine(root) \/ \E g \in st.visited : line \in Elements(p.entries[g])
      BY <1>5, <1>7 DEF Walked
    <3>4. CASE line = ListLine(root)
      <4>1. line.arg = root
        BY <3>4 DEF ListLine
      <4> QED BY <1>11, <3>1, <4>1
    <3>5. ASSUME NEW g \in st.visited, line \in Elements(p.entries[g])
          PROVE  line.arg \in C \cup RtlIn(p, C)
      <4>1. PICK i \in DOMAIN p.entries[g] : p.entries[g][i] = line
        BY <3>5 DEF Elements
      <4>2. g \in C /\ g \in Files
        BY <1>3, <3>2
      <4>3. CASE line.kind = "list"
        <5>1. line.arg \in NamedBy(p)[g]
          BY <1>8, <4>1, <4>2, <4>3 DEF NamedBy
        <5> QED BY <3>1, <4>2, <5>1 DEF Closed
      <4>4. CASE line.kind = "rtl"
        BY <1>8, <4>1, <4>2, <4>4 DEF RtlIn, RtlLine
      <4> QED BY <1>11, <4>3, <4>4
    <3> QED BY <1>11, <3>3, <3>4, <3>5
  <2> QED BY <1>1, <1>2, <2>1, <2>2, Zenon DEF Parsing
<1>12. CASE line.kind = "list" /\ Found(p, line.arg) /\ line.arg \notin st.visited
  <2>1. /\ r.todo = p.entries[line.arg] \o Tail(st.todo) /\ r.visited = st.visited \cup {line.arg}
        /\ r.rtl = st.rtl /\ r.failed = st.failed
    BY <1>2, <1>6, <1>12, Zenon DEF Reads
  <2>2. /\ Walked(r.todo, r.visited, read \cup {line}, Files, LinesOf(A), p.entries, ListOf(A), ListLine(root))
        /\ OneLess(st.todo, st.visited, r.todo, r.visited, Files, p.entries)
    <3>1. line.arg \in Files \ st.visited /\ ListOf(A)[line] = {line.arg}
      BY <1>8, <1>12
    <3>2. PICK L, body, opens, first, todo, opened, f :
             /\ L = LinesOf(A) /\ body = p.entries /\ opens = ListOf(A) /\ first = ListLine(root)
             /\ todo = st.todo /\ opened = st.visited /\ f = line.arg
      OBVIOUS
    <3>3. /\ Walked(todo, opened, read, Files, L, body, opens, first) /\ todo # <<>> /\ f \in Files \ opened
          /\ body \in [Files -> Seq(L)] /\ opens \in [L -> SUBSET Files] /\ first \in L
          /\ opens[line] = {f}
      BY <1>5, <1>6, <1>8, <3>1, <3>2
    <3>5. PICK u, now, more : u = r.todo /\ now = r.visited /\ more = read \cup {line}
      OBVIOUS
    <3>6. line = Head(todo) /\ u = body[f] \o Tail(todo) /\ now = opened \cup {f}
      BY <1>6, <2>1, <3>2, <3>5
    <3>4. /\ Walked(u, now, more, Files, L, body, opens, first)
          /\ OneLess(todo, opened, u, now, Files, body)
      <4>1. todo # <<>> /\ f \in Files /\ f \notin opened
        BY <3>3
      <4>2. Walked(u, now, more, Files, L, body, opens, first)
        BY <3>3, <3>5, <3>6, <4>1, WalkOpens
      <4>3. OneLess(todo, opened, u, now, Files, body)
        BY <1>3, <3>2, <3>3, <3>6, <4>1, OneLessIs
      <4> QED BY <4>2, <4>3
    <3> QED BY <3>2, <3>4, <3>5
  <2>3. \A l \in read \cup {line} : l.kind \in {"list", "rtl"} => Found(p, l.arg)
    BY <1>5, <1>12
  <2>4. Elements(r.rtl) = {f \in Files : RtlLine(f) \in read \cup {line}}
    <3>1. \A f \in Files : RtlLine(f) # line
      BY <1>12 DEF RtlLine
    <3> QED BY <1>5, <2>1, <3>1
  <2>5. ToRead(r.todo, r.visited, Files, p.entries) + n <= Fuel(p)
    BY <1>5, <1>10, <2>2 DEF OneLess
  <2>6. ~r.failed
    BY <1>4, <2>1, Zenon
  <2> QED BY <1>1, <1>2, <2>2, <2>3, <2>4, <2>5, <2>6, Zenon DEF Parsing
<1>13. CASE line.kind = "rtl" /\ Found(p, line.arg)
  <2>1. /\ r.todo = Tail(st.todo) /\ r.visited = st.visited
        /\ r.rtl = Append(st.rtl, line.arg) /\ r.failed = st.failed
    BY <1>2, <1>6, <1>13, Zenon DEF Reads
  <2>2. /\ Walked(r.todo, r.visited, read \cup {line}, Files, LinesOf(A), p.entries, ListOf(A), ListLine(root))
        /\ OneLess(st.todo, st.visited, r.todo, r.visited, Files, p.entries)
    <3>1. ListOf(A)[line] \subseteq st.visited
      BY <1>8, <1>13
    <3>2. PICK L, body, opens, first, todo, opened :
             /\ L = LinesOf(A) /\ body = p.entries /\ opens = ListOf(A) /\ first = ListLine(root)
             /\ todo = st.todo /\ opened = st.visited
      OBVIOUS
    <3>3. /\ Walked(todo, opened, read, Files, L, body, opens, first) /\ todo # <<>>
          /\ body \in [Files -> Seq(L)] /\ opens \in [L -> SUBSET Files] /\ first \in L
          /\ opens[line] \subseteq opened
      BY <1>5, <1>6, <1>8, <3>1, <3>2
    <3>5. PICK t, more : t = r.todo /\ more = read \cup {line}
      OBVIOUS
    <3>6. line = Head(todo) /\ t = Tail(todo)
      BY <1>6, <2>1, <3>2, <3>5
    <3>4. /\ Walked(t, opened, more, Files, L, body, opens, first)
          /\ OneLess(todo, opened, t, opened, Files, body)
      <4>2. Walked(t, opened, more, Files, L, body, opens, first)
        BY <3>3, <3>5, <3>6, WalkSkips
      <4>3. OneLess(todo, opened, t, opened, Files, body)
        BY <1>3, <3>2, <3>3, <3>6, OneLessIs
      <4> QED BY <4>2, <4>3
    <3> QED BY <2>1, <3>2, <3>4, <3>5
  <2>3. \A l \in read \cup {line} : l.kind \in {"list", "rtl"} => Found(p, l.arg)
    BY <1>5, <1>13
  <2>4. Elements(r.rtl) = {f \in Files : RtlLine(f) \in read \cup {line}}
    <3>1. \A f \in Files : RtlLine(f) = line <=> f = line.arg
      BY <1>8, <1>13 DEF RtlLine
    <3>2. Elements(r.rtl) = Elements(st.rtl) \cup {line.arg}
      BY <1>3, <1>8, <1>13, <2>1, ElementsAre
    <3> QED BY <1>5, <1>8, <1>13, <3>1, <3>2
  <2>5. ToRead(r.todo, r.visited, Files, p.entries) + n <= Fuel(p)
    BY <1>5, <1>10, <2>2 DEF OneLess
  <2>6. ~r.failed
    BY <1>4, <2>1, Zenon
  <2> QED BY <1>1, <1>2, <2>2, <2>3, <2>4, <2>5, <2>6 DEF Parsing
<1>14. CASE /\ line.kind # "rtl"
            /\ line.kind = "list" => Found(p, line.arg) /\ line.arg \in st.visited
  <2>1. r.todo = Tail(st.todo) /\ r.visited = st.visited /\ r.rtl = st.rtl /\ r.failed = st.failed
    BY <1>2, <1>6, <1>14, Zenon DEF Reads
  <2>2. /\ Walked(r.todo, r.visited, read \cup {line}, Files, LinesOf(A), p.entries, ListOf(A), ListLine(root))
        /\ OneLess(st.todo, st.visited, r.todo, r.visited, Files, p.entries)
    <3>1. ListOf(A)[line] \subseteq st.visited
      BY <1>8, <1>14
    <3>2. PICK L, body, opens, first, todo, opened :
             /\ L = LinesOf(A) /\ body = p.entries /\ opens = ListOf(A) /\ first = ListLine(root)
             /\ todo = st.todo /\ opened = st.visited
      OBVIOUS
    <3>3. /\ Walked(todo, opened, read, Files, L, body, opens, first) /\ todo # <<>>
          /\ body \in [Files -> Seq(L)] /\ opens \in [L -> SUBSET Files] /\ first \in L
          /\ opens[line] \subseteq opened
      BY <1>5, <1>6, <1>8, <3>1, <3>2
    <3>5. PICK t, more : t = r.todo /\ more = read \cup {line}
      OBVIOUS
    <3>6. line = Head(todo) /\ t = Tail(todo)
      BY <1>6, <2>1, <3>2, <3>5
    <3>4. /\ Walked(t, opened, more, Files, L, body, opens, first)
          /\ OneLess(todo, opened, t, opened, Files, body)
      <4>2. Walked(t, opened, more, Files, L, body, opens, first)
        BY <3>3, <3>5, <3>6, WalkSkips
      <4>3. OneLess(todo, opened, t, opened, Files, body)
        BY <1>3, <3>2, <3>3, <3>6, OneLessIs
      <4> QED BY <4>2, <4>3
    <3> QED BY <2>1, <3>2, <3>4, <3>5
  <2>3. \A l \in read \cup {line} : l.kind \in {"list", "rtl"} => Found(p, l.arg)
    BY <1>5, <1>14
  <2>4. Elements(r.rtl) = {f \in Files : RtlLine(f) \in read \cup {line}}
    <3>1. \A f \in Files : RtlLine(f) # line
      BY <1>14 DEF RtlLine
    <3> QED BY <1>5, <2>1, <3>1
  <2>5. ToRead(r.todo, r.visited, Files, p.entries) + n <= Fuel(p)
    BY <1>5, <1>10, <2>2 DEF OneLess
  <2>6. ~r.failed
    BY <1>4, <2>1
  <2> QED BY <1>1, <1>2, <2>2, <2>3, <2>4, <2>5, <2>6 DEF Parsing
<1> QED BY <1>8, <1>11, <1>12, <1>13, <1>14

\* What the parser returns for its root, if it has one.
ParsedAs(st, p, A, roots) ==
    /\ st.visited \in SUBSET Files /\ st.rtl \in Seq(Files) /\ st.failed \in BOOLEAN
    /\ st.incdirs \in Seq(A) /\ st.defines \in Seq(A)
    /\ st.failed => \A C : IsReach(Files, NamedBy(p), roots, C) =>
                        \E f \in C \cup RtlIn(p, C) : ~Found(p, f)
    /\ ~st.failed => /\ IsReach(Files, NamedBy(p), roots, st.visited)
                     /\ Elements(st.rtl) = RtlIn(p, st.visited)
                     /\ \A f \in st.visited \cup RtlIn(p, st.visited) : Found(p, f)

LEMMA ParseIs ==
    ASSUME NEW p, NEW A, IsProject(p, A), IsFiniteSet(Files), NEW root \in Files
    PROVE  ParsedAs(Parse(p, root), p, A, {root})
<1>1. PICK run : Runs(run, p, A, root)
  BY ParseRuns
<1> DEFINE c == Fuel(p)
           T == {n \in 0..c : Parsing(run[n], n, p, A, root)}
<1>2. c \in Nat
  BY FuelIs
<1> HIDE DEF c
<1>3. /\ \A n \in 0..c : run[n] \in StateOf(A)
      /\ run[0] = Start(root) /\ Parse(p, root) = run[c]
      /\ \A i \in 1..c : run[i] = IF run[i - 1].todo = <<>> THEN run[i - 1] ELSE ReadLine(p, run[i - 1])
  BY <1>1 DEF Runs, c
<1>4. 0 \in T
  <2>1. run[0] \in StateOf(A) /\ 0 \in 0..c
    BY <1>2, <1>3
  <2>2. Parsing(run[0], 0, p, A, root)
    BY <1>3, <2>1, ParsingStarts
  <2> QED BY <2>1, <2>2
<1>5. ASSUME NEW i \in 1..c, i - 1 \in T PROVE i \in T
  <2>1. PICK st, r : st = run[i - 1] /\ r = run[i]
    OBVIOUS
  <2>2. Parsing(st, i - 1, p, A, root) /\ i \in 0..c
    BY <1>2, <1>5, <2>1
  <2>3. r = IF st.todo = <<>> THEN st ELSE ReadLine(p, st)
    BY <1>3, <2>1
  <2>4. CASE st.todo = <<>>
    <3>1. Parsing(st, i, p, A, root)
      BY <2>2, <2>4 DEF Parsing
    <3> QED BY <2>1, <2>2, <2>3, <2>4, <3>1
  <2>5. CASE st.todo # <<>>
    <3>1. Parsing(r, i, p, A, root)
      BY <2>2, <2>3, <2>5, ParsingReads DEF c
    <3> QED BY <2>1, <2>2, <3>1
  <2> QED BY <2>4, <2>5
<1>6. c \in T
  <2> HIDE DEF T
  <2>1. 0..c \subseteq T
    BY <1>2, <1>4, <1>5, StepByStep
  <2> QED BY <1>2, <2>1
<1>7. PICK st : st = Parse(p, root)
  OBVIOUS
<1>8. Parsing(st, c, p, A, root)
  BY <1>3, <1>6, <1>7
<1>9. /\ st \in StateOf(A) /\ st.visited \in SUBSET Files /\ st.rtl \in Seq(Files) /\ st.failed \in BOOLEAN
      /\ st.incdirs \in Seq(A) /\ st.defines \in Seq(A) /\ st.todo \in Seq(LinesOf(A))
  BY <1>8 DEF Parsing, StateOf
<1>10. ASSUME ~st.failed
       PROVE  /\ IsReach(Files, NamedBy(p), {root}, st.visited)
              /\ Elements(st.rtl) = RtlIn(p, st.visited)
              /\ \A f \in st.visited \cup RtlIn(p, st.visited) : Found(p, f)
  <2>1. PICK read :
          /\ Walked(st.todo, st.visited, read, Files, LinesOf(A), p.entries, ListOf(A), ListLine(root))
          /\ \A l \in read : l.kind \in {"list", "rtl"} => Found(p, l.arg)
          /\ Elements(st.rtl) = {f \in Files : RtlLine(f) \in read}
          /\ st.todo = <<>> \/ ToRead(st.todo, st.visited, Files, p.entries) + c <= c
    BY <1>8, <1>10 DEF Parsing, c
  <2>2. st.todo = <<>>
    <3> SUFFICES ASSUME st.todo # <<>> PROVE FALSE
      OBVIOUS
    <3>1. Len(st.todo) \in Nat \ {0}
      BY <1>9, EmptySeq
    <3>2. Cardinality(Unopened(Files, p.entries, st.visited)) \in Nat
      BY <1>9, ListOfIs, UnopenedIs
    <3>3. ToRead(st.todo, st.visited, Files, p.entries) \in Nat \ {0}
      BY <3>1, <3>2 DEF ToRead
    <3> QED BY <1>2, <2>1, <3>3
  <2>3. /\ ListOf(A) \in [LinesOf(A) -> SUBSET Files] /\ p.entries \in [Files -> Seq(LinesOf(A))]
        /\ ListLine(root) \in LinesOf(A) /\ ListOf(A)[ListLine(root)] = {root}
        /\ Opening(Files, p.entries, ListOf(A)) = NamedBy(p)
    BY ListOfIs
  <2>4. Walked(<<>>, st.visited, read, Files, LinesOf(A), p.entries, ListOf(A), ListLine(root))
    BY <2>1, <2>2
  <2>5. /\ IsReach(Files, NamedBy(p), {root}, st.visited)
        /\ read = {ListLine(root)} \cup UNION {Elements(p.entries[v]) : v \in st.visited}
    <3>1. PICK L, body, opens, first, opened :
             /\ L = LinesOf(A) /\ body = p.entries /\ opens = ListOf(A) /\ first = ListLine(root)
             /\ opened = st.visited
      OBVIOUS
    <3>2. /\ Walked(<<>>, opened, read, Files, L, body, opens, first)
          /\ body \in [Files -> Seq(L)] /\ opens \in [L -> SUBSET Files] /\ first \in L
      BY <2>3, <2>4, <3>1
    <3>3. /\ IsReach(Files, Opening(Files, body, opens), opens[first], opened)
          /\ read = {first} \cup UNION {Elements(body[v]) : v \in opened}
      BY <3>2, WalkEnds
    <3> QED BY <2>3, <3>1, <3>3
  <2>6. \A f \in Files : RtlLine(f) # ListLine(root)
    BY DEF RtlLine, ListLine
  <2>7. Elements(st.rtl) = RtlIn(p, st.visited)
    BY <2>1, <2>5, <2>6 DEF RtlIn, RtlLine, Elements
  <2>8. \A f \in RtlIn(p, st.visited) : Found(p, f)
    <3> SUFFICES ASSUME NEW f \in RtlIn(p, st.visited) PROVE Found(p, f)
      OBVIOUS
    <3>1. RtlLine(f) \in read
      BY <2>1, <2>7
    <3>2. RtlLine(f).kind = "rtl" /\ RtlLine(f).arg = f
      BY DEF RtlLine
    <3> QED BY <2>1, <3>1, <3>2
  <2>9. \A f \in st.visited : Found(p, f)
    <3> DEFINE M == {f \in st.visited : Found(p, f)}
    <3>a. \A f \in Files : ListLine(f) \in read => Found(p, f)
      <4>1. \A f \in Files : ListLine(f).kind = "list" /\ ListLine(f).arg = f
        BY DEF ListLine
      <4> QED BY <2>1, <4>1
    <3>1. root \in M
      BY <2>5, <3>a DEF IsReach
    <3>2. Closed(NamedBy(p), M)
      <4> SUFFICES ASSUME NEW v \in M, NEW f \in NamedBy(p)[v] PROVE f \in M
        BY DEF Closed
      <4>1. v \in Files /\ f \in Files /\ f \in st.visited
        BY <1>9, <2>5 DEF IsReach, Closed, NamedBy
      <4>2. \E i \in DOMAIN p.entries[v] : p.entries[v][i] = ListLine(f)
        BY <4>1 DEF NamedBy
      <4>3. ListLine(f) \in read
        BY <2>5, <4>2 DEF Elements
      <4> QED BY <3>a, <4>1, <4>3
    <3>3. M \in SUBSET Files
      BY <1>9
    <3> HIDE DEF M
    <3>4. st.visited \subseteq M
      BY <2>5, <3>1, <3>2, <3>3 DEF IsReach
    <3> QED BY <3>4 DEF M
  <2> QED BY <2>5, <2>7, <2>8, <2>9
<1>11. st.failed => \A C : IsReach(Files, NamedBy(p), {root}, C) =>
                        \E f \in C \cup RtlIn(p, C) : ~Found(p, f)
  BY <1>8 DEF Parsing
<1> QED BY <1>7, <1>9, <1>10, <1>11 DEF ParsedAs

LEMMA UniqueIs ==
    ASSUME NEW X, NEW s \in Seq(X)
    PROVE  /\ Unique(s) \in Seq(X) /\ Elements(Unique(s)) = Elements(s)
           /\ IsFiniteSet(Elements(s)) /\ Len(Unique(s)) = Cardinality(Elements(s))
           /\ Unique(s) = <<>> <=> Elements(s) = {}
<1> DEFINE P == {i \in DOMAIN s : \A j \in 1..i - 1 : s[j] # s[i]}
<1>1. DOMAIN s = 1..Len(s) /\ Len(s) \in Nat
  BY LenProperties
<1>2. P \in SUBSET DOMAIN s /\ Unique(s) = Picked(s, P)
  BY DEF Unique
<1>3. ASSUME NEW i \in DOMAIN s PROVE \E j \in P : s[j] = s[i]
  <2> DEFINE Same == {j \in DOMAIN s : s[j] = s[i]}
  <2>1. Same \in SUBSET Nat /\ i \in Same
    BY <1>1
  <2> HIDE DEF Same
  <2>2. PICK j \in Same : \A k \in Same : j <= k
    BY <2>1, Least
  <2>3. j \in DOMAIN s /\ s[j] = s[i] /\ \A k \in DOMAIN s : s[k] = s[i] => j <= k
    BY <2>2 DEF Same
  <2>4. j \in P
    <3> SUFFICES ASSUME NEW k \in 1..j - 1, s[k] = s[j] PROVE FALSE
      BY <2>3
    <3>1. k \in DOMAIN s
      BY <1>1, <2>3
    <3>2. j <= k
      BY <2>3, <3>1
    <3> QED BY <1>1, <2>3, <3>2
  <2> HIDE DEF P
  <2> QED BY <2>3, <2>4
<1>4. \A i, j \in P : s[i] = s[j] => i = j
  <2> SUFFICES ASSUME NEW i \in P, NEW j \in P, s[i] = s[j] PROVE i = j
    OBVIOUS
  <2>1. i \in Nat /\ j \in Nat /\ i >= 1 /\ j >= 1
    BY <1>1
  <2>2. ~(i < j)
    <3> SUFFICES ASSUME i < j PROVE FALSE
      OBVIOUS
    <3>1. i \in 1..j - 1
      BY <2>1
    <3> QED BY <3>1
  <2>3. ~(j < i)
    <3> SUFFICES ASSUME j < i PROVE FALSE
      OBVIOUS
    <3>1. j \in 1..i - 1
      BY <2>1
    <3> QED BY <3>1
  <2> QED BY <2>1, <2>2, <2>3
<1> HIDE DEF P
<1>5. /\ Picked(s, P) \in Seq(X) /\ Len(Picked(s, P)) = Cardinality(P) /\ IsFiniteSet(P)
      /\ Elements(Picked(s, P)) = {s[i] : i \in P}
  BY <1>2, PickedSeq
<1>6. {s[i] : i \in P} = Elements(s)
  BY <1>2, <1>3 DEF Elements
<1>7. IsFiniteSet(Elements(s)) /\ Cardinality(Elements(s)) = Cardinality(P)
  <2> DEFINE f == [i \in P |-> s[i]]
  <2>1. f \in [P -> Elements(s)] /\ (\A i, j \in P : f[i] = f[j] => i = j)
        /\ \A x \in Elements(s) : \E i \in P : f[i] = x
    BY <1>4, <1>6
  <2> HIDE DEF f
  <2>2. f \in Bijection(P, Elements(s))
    BY <2>1, Fun_IsBij
  <2>3. ExistsBijection(P, Elements(s))
    BY <2>2, Fun_ExistsBij
  <2> QED BY <1>5, <2>3, FS_Bijection
<1>8. Unique(s) = <<>> <=> Elements(s) = {}
  <2>1. PICK u \in Seq(X) : u = Unique(s)
    BY <1>2, <1>5
  <2>2. Elements(u) = Elements(s) /\ Len(u) = Cardinality(Elements(s))
    BY <1>2, <1>5, <1>6, <1>7, <2>1
  <2>3. u = <<>> => Elements(s) = {}
    BY <2>2, ElementsAre
  <2>4. Elements(s) = {} => Len(u) = 0
    BY <2>2, FS_EmptySet
  <2>5. Len(u) = 0 => u = <<>>
    BY <2>1, EmptySeq
  <2> QED BY <2>1, <2>3, <2>4, <2>5
<1> QED BY <1>2, <1>5, <1>6, <1>7, <1>8

LEMMA ReachExists ==
    ASSUME NEW G, NEW next \in [G -> SUBSET G], NEW roots \in SUBSET G
    PROVE  \E C : IsReach(G, next, roots, C)
<1> DEFINE C == {v \in G : \A A \in SUBSET G : roots \subseteq A /\ Closed(next, A) => v \in A}
<1>1. Closed(next, C)
  <2> SUFFICES ASSUME NEW v \in C, NEW w \in next[v], NEW A \in SUBSET G, roots \subseteq A, Closed(next, A)
               PROVE  w \in G /\ w \in A
    BY DEF Closed
  <2>1. v \in A
    OBVIOUS
  <2> QED BY <2>1 DEF Closed
<1>2. C \in SUBSET G /\ roots \subseteq C
  OBVIOUS
<1>3. \A A \in SUBSET G : roots \subseteq A /\ Closed(next, A) => C \subseteq A
  OBVIOUS
<1> HIDE DEF C
<1>4. IsReach(G, next, roots, C)
  BY <1>1, <1>2, <1>3 DEF IsReach
<1> QED BY <1>4

\* What is reached from two roots is what is reached from the one or the other.
LEMMA ReachOfBoth ==
    ASSUME NEW G, NEW next \in [G -> SUBSET G], NEW a \in SUBSET G, NEW b \in SUBSET G, NEW both, both = a \cup b,
           NEW A, IsReach(G, next, a, A), NEW B, IsReach(G, next, b, B),
           NEW C, IsReach(G, next, both, C)
    PROVE  C = A \cup B
<1>1. A \subseteq C /\ B \subseteq C
  BY DEF IsReach
<1>2. Closed(next, A \cup B) /\ both \subseteq A \cup B /\ A \cup B \in SUBSET G
  BY DEF IsReach, Closed
<1>3. C \subseteq A \cup B
  BY <1>2 DEF IsReach
<1> QED BY <1>1, <1>3

LEMMA ParsedIs ==
    ASSUME NEW p, NEW A, IsProject(p, A), IsFiniteSet(Files), NEW root \in Files \cup {NoFile}
    PROVE  ParsedAs(Parsed(p, root), p, A, Given(root)) /\ Given(root) \in SUBSET Files
<1>1. CASE root \in Files
  <2>1. Given(root) = {root} /\ Parsed(p, root) = Parse(p, root)
    BY <1>1, NoFileAssumption DEF Given, Parsed
  <2> QED BY <1>1, <2>1, ParseIs
<1>2. CASE root = NoFile
  <2>1. PICK st, nil, no, none : st = Parsed(p, root) /\ nil = <<>> /\ no = FALSE /\ none = {}
    OBVIOUS
  <2>2. st = St(nil, none, nil, nil, nil, no)
    BY <1>2, <2>1, Zenon DEF Parsed, Nothing, St
  <2>3. st.visited = none /\ st.rtl = nil /\ st.incdirs = nil /\ st.defines = nil /\ st.failed = no
    BY <2>2 DEF St
  <2>4. nil \in Seq(Files) /\ nil \in Seq(A) /\ Elements(nil) = {}
    BY <2>1 DEF Elements
  <2>5. RtlIn(p, {}) = {}
    BY DEF RtlIn
  <2>6. IsReach(Files, NamedBy(p), {}, {})
    BY DEF IsReach, Closed
  <2>7. Given(root) = {}
    BY <1>2 DEF Given
  <2>8. ParsedAs(st, p, A, {})
    BY <2>1, <2>3, <2>4, <2>5, <2>6 DEF ParsedAs
  <2> QED BY <2>1, <2>7, <2>8
<1> QED BY <1>1, <1>2

\* What the lists of a project lead to is what prepare collects, unless a file is missing.
CollectedAs(c, p, A) ==
    /\ c.failed <=> Named(p) = {} \/ \E f \in Named(p) \cup Reachable(p) : ~Found(p, f)
    /\ c.rtl \in Seq(Files)
    /\ ~c.failed => /\ Elements(c.rtl) = Named(p) /\ Len(c.rtl) = Cardinality(Named(p))
                    /\ c.lists = Reachable(p)

LEMMA CollectIs ==
    ASSUME NEW p, NEW A, IsProject(p, A), IsFiniteSet(Files)
    PROVE  CollectedAs(Collect(p), p, A)
<1>1. PICK cpu, soc : cpu = Parsed(p, FirstList(p)) /\ soc = Parsed(p, p.soc)
  OBVIOUS
<1>2. PICK a, b : a = Given(FirstList(p)) /\ b = Given(p.soc)
  OBVIOUS
<1>3. ParsedAs(cpu, p, A, a) /\ ParsedAs(soc, p, A, b) /\ a \in SUBSET Files /\ b \in SUBSET Files
  <2>1. FirstList(p) \in Files \cup {NoFile} /\ p.soc \in Files \cup {NoFile}
    BY RootsAre DEF IsProject
  <2> QED BY <1>1, <1>2, <2>1, ParsedIs
<1>4. Roots(p) = a \cup b
  BY <1>2, RootsAre
<1>5. NamedBy(p) \in [Files -> SUBSET Files]
  BY DEF NamedBy
<1>6. PICK R : R = Reachable(p)
  OBVIOUS
<1>7. IsReach(Files, NamedBy(p), Roots(p), R)
  BY <1>6, ReachableIs
<1>8. PICK Ra : IsReach(Files, NamedBy(p), a, Ra)
  BY <1>3, <1>5, ReachExists
<1>9. PICK Rb : IsReach(Files, NamedBy(p), b, Rb)
  BY <1>3, <1>5, ReachExists
<1>10. R = Ra \cup Rb
  BY <1>3, <1>4, <1>5, <1>7, <1>8, <1>9, ReachOfBoth
<1>11. RtlIn(p, R) = RtlIn(p, Ra) \cup RtlIn(p, Rb)
  BY <1>10 DEF RtlIn
<1>12. cpu.rtl \in Seq(Files) /\ soc.rtl \in Seq(Files) /\ cpu.failed \in BOOLEAN /\ soc.failed \in BOOLEAN
  BY <1>3 DEF ParsedAs
<1>13. PICK all : all = IF Single(p) THEN <<p.verilog>> ELSE cpu.rtl \o soc.rtl
  OBVIOUS
<1>14. PICK named : named = Named(p)
  OBVIOUS
<1>15. all \in Seq(Files)
       /\ Elements(all) = IF Single(p) THEN named ELSE Elements(cpu.rtl) \cup Elements(soc.rtl)
  <2>1. PICK x \in Seq(Files), y \in Seq(Files) : x = cpu.rtl /\ y = soc.rtl
    BY <1>12
  <2>2. x \o y \in Seq(Files) /\ Elements(x \o y) = Elements(x) \cup Elements(y)
    BY ConcatProperties, ElementsAre
  <2>3. CASE Single(p)
    <3>1. PICK v \in Files : v = p.verilog
      BY <2>3 DEF Single, IsProject
    <3>2. <<v>> \in Seq(Files) /\ Elements(<<v>>) = {v}
      BY DEF Elements
    <3>3. named = {v}
      BY <1>14, <2>3, <3>1 DEF Named
    <3> QED BY <1>13, <2>3, <3>1, <3>2, <3>3
  <2> QED BY <1>13, <2>1, <2>2, <2>3
<1>16. PICK rtl : rtl = IF Single(p) THEN <<p.verilog>> ELSE Unique(all)
  OBVIOUS
<1>17. /\ rtl \in Seq(Files) /\ Elements(rtl) = Elements(all) /\ Len(rtl) = Cardinality(Elements(all))
       /\ rtl = <<>> <=> Elements(all) = {}
  <2>1. CASE Single(p)
    <3>1. PICK v : v = p.verilog
      OBVIOUS
    <3>2. rtl = <<v>> /\ all = <<v>> /\ Len(<<v>>) = 1 /\ <<v>> # <<>> /\ Elements(<<v>>) = {v}
      BY <1>13, <1>16, <2>1, <3>1 DEF Elements
    <3>3. Cardinality({v}) = 1
      BY FS_Singleton
    <3> QED BY <1>15, <3>2, <3>3
  <2>2. CASE ~Single(p)
    BY <1>15, <1>16, <2>2, UniqueIs
  <2> QED BY <2>1, <2>2
<1>18. PICK c : c = Collect(p)
  OBVIOUS
<1>19. /\ c.rtl = rtl /\ c.lists = cpu.visited \cup soc.visited
       /\ c.failed = (cpu.failed \/ soc.failed \/ rtl = <<>>)
  BY <1>1, <1>13, <1>16, <1>18 DEF Collect
<1>20. /\ Single(p) => Roots(p) = {} /\ named = {p.verilog} /\ Found(p, p.verilog)
       /\ ~Single(p) => named = RtlIn(p, R)
  BY <1>6, <1>14 DEF Single, Named
<1>21. cpu.failed \/ soc.failed => ~Single(p) /\ \E f \in named \cup R : ~Found(p, f)
  <2>1. cpu.failed => \E f \in Ra \cup RtlIn(p, Ra) : ~Found(p, f)
    BY <1>3, <1>8 DEF ParsedAs
  <2>2. soc.failed => \E f \in Rb \cup RtlIn(p, Rb) : ~Found(p, f)
    BY <1>3, <1>9 DEF ParsedAs
  <2>3. cpu.failed \/ soc.failed => \E f \in RtlIn(p, R) \cup R : ~Found(p, f)
    BY <1>10, <1>11, <2>1, <2>2
  <2>4. Single(p) => R = {} /\ RtlIn(p, R) = {}
    <3>1. Closed(NamedBy(p), {})
      BY DEF Closed
    <3>2. Single(p) => R = {}
      BY <1>7, <1>20, <3>1 DEF IsReach
    <3> QED BY <3>2 DEF RtlIn
  <2> QED BY <1>20, <2>3, <2>4
<1>22. ASSUME ~cpu.failed, ~soc.failed
       PROVE  c.lists = R /\ Elements(all) = named /\ \A f \in named \cup R : Found(p, f)
  <2>1. IsReach(Files, NamedBy(p), a, cpu.visited) /\ IsReach(Files, NamedBy(p), b, soc.visited)
        /\ Elements(cpu.rtl) = RtlIn(p, cpu.visited) /\ Elements(soc.rtl) = RtlIn(p, soc.visited)
        /\ (\A f \in cpu.visited \cup RtlIn(p, cpu.visited) : Found(p, f))
        /\ (\A f \in soc.visited \cup RtlIn(p, soc.visited) : Found(p, f))
    BY <1>3, <1>22 DEF ParsedAs
  <2>2. cpu.visited = Ra /\ soc.visited = Rb
    BY <1>8, <1>9, <2>1 DEF IsReach
  <2>3. c.lists = R
    BY <1>10, <1>19, <2>2
  <2>4. \A f \in RtlIn(p, R) \cup R : Found(p, f)
    BY <1>10, <1>11, <2>1, <2>2, ZenonT(60)
  <2>5. Elements(cpu.rtl) \cup Elements(soc.rtl) = RtlIn(p, R)
    BY <1>11, <2>1, <2>2
  <2>6. Elements(all) = named
    BY <1>15, <1>20, <2>5
  <2>7. \A f \in named \cup R : Found(p, f)
    BY <1>20, <2>4
  <2> QED BY <2>3, <2>6, <2>7
<1>23. c.failed <=> named = {} \/ \E f \in named \cup R : ~Found(p, f)
  <2>1. CASE cpu.failed \/ soc.failed
    BY <1>19, <1>21, <2>1
  <2>2. CASE ~cpu.failed /\ ~soc.failed
    BY <1>17, <1>19, <1>22, <2>2
  <2> QED BY <2>1, <2>2
<1>24. ~c.failed => Elements(c.rtl) = named /\ Len(c.rtl) = Cardinality(named) /\ c.lists = R
  BY <1>17, <1>19, <1>22
<1> QED BY <1>6, <1>14, <1>17, <1>18, <1>19, <1>23, <1>24 DEF CollectedAs

\* Lists that name each other, name a list again, name what has moved into a bundle
\* or what is missing: prepare fails exactly if a file is missing, in the bundles too,
\* or nothing is named, and else collects every file that can be reached, once
\* (_collect_inputs, resolve_thirdparty_path).
THEOREM ListsAreCollected ==
    ASSUME NEW p, NEW A, IsProject(p, A), IsFiniteSet(Files)
    PROVE  CollectsWhatIsNamed(p)
<1>1. PICK q : q = Relocated(p)
  OBVIOUS
<1>2. CollectedAs(Collect(q), q, A)
  BY <1>1, RelocatedIs, CollectIs
<1>3. Collected(p) = Collect(q)
  BY <1>1 DEF Collected
<1> QED BY <1>1, <1>2, <1>3 DEF CollectsWhatIsNamed, CollectedAs

FollowedBy(p) ==
    [g \in Files |-> {f \in Files : p.at[g] = "here" /\ \E i \in DOMAIN p.entries[g] :
                          Follows(p.entries[g][i]) /\ p.entries[g][i].arg = f}]

LEMMA ListsWatchedIs ==
    ASSUME NEW p, NEW A, IsProject(p, A), IsFiniteSet(Files)
    PROVE  IsReach(Files, FollowedBy(p), WatchedRoots(p), ListsWatched(p))
<1> DEFINE c == Cardinality(Files)
           more(B) == B \cup {f \in Files : \E g \in B : p.at[g] = "here" /\
                          \E i \in DOMAIN p.entries[g] :
                              Follows(p.entries[g][i]) /\ p.entries[g][i].arg = f}
           step == [q \in (1..c) \X SUBSET Files |-> more(q[2])]
           It == CHOOSE reach : reach = [n \in 0..c |-> IF n = 0 THEN WatchedRoots(p) ELSE more(reach[n - 1])]
<1>1. c \in Nat
  BY FS_CardinalityType
<1>2. ListsWatched(p) = It[c]
  BY DEF ListsWatched
<1> HIDE DEF c, It
<1>3. step \in [(1..c) \X SUBSET Files -> SUBSET Files]
  OBVIOUS
<1>4. WatchedRoots(p) \in SUBSET Files
  BY RootsAre
<1>5. \A i \in 1..c, B \in SUBSET Files : step[<<i, B>>] = more(B)
  OBVIOUS
<1>6. \A B \in SUBSET Files : more(B) = B \cup UNION {FollowedBy(p)[v] : v \in B}
  <2> SUFFICES ASSUME NEW B \in SUBSET Files PROVE more(B) = B \cup UNION {FollowedBy(p)[v] : v \in B}
    OBVIOUS
  <2>1. \A v \in B : FollowedBy(p)[v] =
           {f \in Files : p.at[v] = "here" /\ \E i \in DOMAIN p.entries[v] :
                              Follows(p.entries[v][i]) /\ p.entries[v][i].arg = f}
    BY DEF FollowedBy
  <2> QED BY <2>1
<1>7. FollowedBy(p) \in [Files -> SUBSET Files]
  BY DEF FollowedBy
<1> HIDE DEF more, step
<1>8. PICK g : Recurs(g, c, SUBSET Files, WatchedRoots(p), step)
  BY <1>1, <1>3, <1>4, Recursion
<1>9. g = [n \in 0..c |-> IF n = 0 THEN WatchedRoots(p) ELSE more(g[n - 1])]
  <2>1. ASSUME NEW i \in 1..c PROVE g[i] = more(g[i - 1])
    <3>1. g[i - 1] \in SUBSET Files /\ g[i] = step[<<i, g[i - 1]>>]
      BY <1>1, <1>8 DEF Recurs
    <3> QED BY <1>5, <3>1
  <2>2. g[0] = WatchedRoots(p) /\ g = [n \in 0..c |-> g[n]]
    BY <1>8 DEF Recurs
  <2>3. \A n \in 0..c : n # 0 => n \in 1..c
    BY <1>1
  <2> QED BY <1>1, <2>1, <2>2, <2>3
<1>10. It = [n \in 0..c |-> IF n = 0 THEN WatchedRoots(p) ELSE more(It[n - 1])]
  BY <1>9 DEF It
<1>11. Recurs(It, c, SUBSET Files, WatchedRoots(p), step)
  <2>1. It = [n \in 0..c |-> It[n]] /\ It[0] = WatchedRoots(p) /\ \A i \in 1..c : It[i] = more(It[i - 1])
    BY <1>1, <1>10
  <2>2. ASSUME NEW i \in 1..c, It[i - 1] \in SUBSET Files PROVE It[i] = step[<<i, It[i - 1]>>]
    BY <1>5, <2>1, <2>2
  <2> QED BY <1>1, <1>3, <1>4, <2>1, <2>2, IsRecursion
<1>12. IsReach(Files, FollowedBy(p), WatchedRoots(p), It[c])
  <2>1. \A i \in 1..c, B \in SUBSET Files : step[<<i, B>>] = B \cup UNION {FollowedBy(p)[v] : v \in B}
    BY <1>5, <1>6
  <2> QED BY <1>3, <1>4, <1>7, <1>11, <2>1, ReachIs DEF c
<1> QED BY <1>2, <1>12

\* List v has a line of that kind for a file that is read as f.
Names(p, v, kind, f) ==
    \E g \in Files : /\ \E i \in DOMAIN p.entries[v] : p.entries[v][i] = [kind |-> kind, arg |-> g]
                     /\ f = Resolved(p, g)

LEMMA OriginalIs ==
    ASSUME NEW p, NEW A, IsProject(p, A), NEW q, q.entries = AllRedirected(p), NEW v \in Files, NEW f \in Files,
           NEW kind \in {"list", "rtl"}, \E i \in DOMAIN q.entries[v] : q.entries[v][i] = [kind |-> kind, arg |-> f]
    PROVE  Names(p, v, kind, f)
<1>1. PICK s \in Seq(LinesOf(A)) : s = p.entries[v]
  BY DEF IsProject
<1>2. q.entries[v] = [i \in DOMAIN s |-> Redirected(p, s[i])]
  BY <1>1 DEF AllRedirected
<1>3. PICK i \in DOMAIN s : Redirected(p, s[i]) = [kind |-> kind, arg |-> f]
  BY <1>2
<1>4. PICK l \in LinesOf(A) : l = s[i]
  BY <1>3
<1>5. PICK r : r = [kind |-> kind, arg |-> f]
  OBVIOUS
<1>6. r.kind = kind /\ r.arg = f
  BY <1>5
<1>7. l.kind = kind /\ l.arg \in Files /\ f = Resolved(p, l.arg)
  BY <1>3, <1>4, <1>5, <1>6, RedirectedIs
<1>8. l = [kind |-> kind, arg |-> l.arg]
  BY <1>7 DEF LinesOf
<1> QED BY <1>1, <1>3, <1>4, <1>7, <1>8 DEF Names

\* Every list and every RTL file that prepare has read is in the fingerprint by which
\* its manifest becomes stale (_filelist_tree_sha256), although the two walks are
\* written apart from each other: all but what a bundle provides in the place of a
\* file that has moved, and what the copy names in its turn.  The input list of a CPU
\* workspace, which the fingerprint leaves out, is excluded.
THEOREM ReadFilesAreWatched ==
    ASSUME NEW p, NEW A, IsProject(p, A), IsFiniteSet(Files)
    PROVE  WatchesWhatItReads(p)
<1>1. PICK q, c, R, F : q = Relocated(p) /\ c = Collected(p) /\ R = Reachable(q) /\ F = ListsWatched(p)
  OBVIOUS
<1> SUFFICES ASSUME ~c.failed, p.generic \/ FirstList(p) = p.cpu
             PROVE  c.lists \cup Elements(c.rtl) \subseteq Watched(p) \cup Copied(p)
  BY <1>1 DEF WatchesWhatItReads
<1>2. /\ IsProject(q, A) /\ q.entries = AllRedirected(p) /\ q.at = p.at /\ q.cpu = p.cpu /\ q.soc = p.soc
      /\ q.input = p.input /\ q.verilog = p.verilog
  BY <1>1, RelocatedIs
<1>3. /\ \A f : Found(q, f) <=> p.at[f] = "here"
      /\ FirstList(q) = FirstList(p) /\ Roots(q) = Roots(p)
  BY <1>2 DEF Found, FirstList, Roots
<1>4. c.lists = R /\ Elements(c.rtl) = Named(q) /\ \A f \in Named(q) \cup R : p.at[f] = "here"
  <2>1. CollectedAs(c, q, A)
    BY <1>1, <1>2, CollectIs DEF Collected
  <2> QED BY <1>1, <1>3, <2>1 DEF CollectedAs
<1>5. IsReach(Files, NamedBy(q), Roots(q), R) /\ IsReach(Files, FollowedBy(p), WatchedRoots(p), F)
  BY <1>1, <1>2, ReachableIs, ListsWatchedIs
<1>6. R \in SUBSET Files /\ F \in SUBSET Files
  BY <1>5 DEF IsReach
<1>7. PICK moved : moved = {f \in F \cup Listed(p, F) : p.at[f] = "moved"}
  OBVIOUS
<1>8. PICK copies : copies = {p.copy[f] : f \in moved}
  OBVIOUS
<1>9. copies \in SUBSET Files
  BY <1>6, <1>7, <1>8 DEF Listed, IsProject
<1>10. PICK K : K = ReachableFrom(q, copies)
  OBVIOUS
<1>11. IsReach(Files, NamedBy(q), copies, K) /\ Copied(p) = K \cup RtlIn(q, K)
  BY <1>1, <1>2, <1>7, <1>8, <1>9, <1>10, ReachableFromIs DEF Copied
<1>12. \A f \in F \cup Listed(p, F) : \/ p.at[f] = "moved" /\ Resolved(p, f) \in K
                                      \/ p.at[f] # "moved" /\ Resolved(p, f) = f
  <2> SUFFICES ASSUME NEW f \in F \cup Listed(p, F), p.at[f] = "moved" PROVE Resolved(p, f) \in K
    BY DEF Resolved
  <2>1. Resolved(p, f) \in copies
    BY <1>7, <1>8 DEF Resolved
  <2> QED BY <1>11, <2>1 DEF IsReach
<1>13. Roots(q) \subseteq F
  <2>1. Roots(p) \subseteq WatchedRoots(p)
    <3>1. Roots(p) = {FirstList(p), p.soc} \ {NoFile} /\ FirstList(p) \in {p.cpu, p.input}
      BY RootsAre DEF Roots
    <3>2. p.generic => WatchedRoots(p) = {p.cpu, p.soc, p.input} \ {NoFile}
      BY DEF WatchedRoots
    <3>3. {p.cpu, p.soc} \ {NoFile} \subseteq WatchedRoots(p)
      BY DEF WatchedRoots
    <3> QED BY <3>1, <3>2, <3>3
  <2> QED BY <1>3, <1>5, <2>1 DEF IsReach
<1>14. R \subseteq F \cup K
  <2> DEFINE M == R \cap (F \cup K)
  <2>1. Roots(q) \subseteq M /\ M \in SUBSET Files
    BY <1>5, <1>6, <1>13 DEF IsReach
  <2>2. Closed(NamedBy(q), M)
    <3> SUFFICES ASSUME NEW v \in M, NEW f \in NamedBy(q)[v] PROVE f \in M
      BY DEF Closed
    <3>1. v \in Files /\ v \in R /\ v \in F \cup K /\ p.at[v] = "here"
      BY <1>4, <1>6
    <3>2. f \in R
      BY <1>5, <3>1 DEF IsReach, Closed
    <3>3. f \in Files /\ \E i \in DOMAIN q.entries[v] : q.entries[v][i] = [kind |-> "list", arg |-> f]
      BY <3>1 DEF NamedBy, ListLine
    <3>4. CASE v \in K
      BY <1>11, <3>2, <3>4 DEF IsReach, Closed
    <3>5. CASE v \in F
      <4>1. Names(p, v, "list", f)
        BY <1>2, <3>1, <3>3, OriginalIs
      <4>2. PICK g \in Files : /\ \E i \in DOMAIN p.entries[v] : p.entries[v][i] = ListLine(g)
                               /\ f = Resolved(p, g)
        BY <4>1 DEF Names, ListLine
      <4>3. ListLine(g).arg = g /\ Follows(ListLine(g))
        BY DEF ListLine, Follows
      <4>4. g \in FollowedBy(p)[v]
        BY <3>1, <4>2, <4>3 DEF FollowedBy
      <4>5. g \in F
        BY <1>5, <3>5, <4>4 DEF IsReach, Closed
      <4> QED BY <1>12, <3>2, <4>2, <4>5
    <3> QED BY <3>1, <3>4, <3>5
  <2> HIDE DEF M
  <2>3. R \subseteq M
    BY <1>5, <2>1, <2>2 DEF IsReach
  <2> QED BY <2>3 DEF M
<1>15. ASSUME NEW f \in RtlIn(q, R) PROVE f \in Listed(p, F) \cup Copied(p)
  <2>1. PICK v \in R : \E i \in DOMAIN q.entries[v] : q.entries[v][i] = [kind |-> "rtl", arg |-> f]
    BY DEF RtlIn
  <2>2. f \in Files /\ v \in Files /\ p.at[v] = "here"
    BY <1>4, <1>6, <2>1 DEF RtlIn
  <2>3. CASE v \in K
    <3>1. f \in RtlIn(q, K)
      BY <2>1, <2>2, <2>3 DEF RtlIn
    <3> QED BY <1>11, <3>1
  <2>4. CASE v \in F
    <3>1. Names(p, v, "rtl", f)
      BY <1>2, <2>1, <2>2, OriginalIs
    <3>2. PICK g \in Files : /\ \E i \in DOMAIN p.entries[v] : p.entries[v][i] = [kind |-> "rtl", arg |-> g]
                             /\ f = Resolved(p, g)
      BY <3>1 DEF Names
    <3>3. g \in Listed(p, F)
      BY <2>2, <2>4, <3>2 DEF Listed
    <3> QED BY <1>11, <1>12, <3>2, <3>3
  <2> QED BY <1>14, <2>1, <2>3, <2>4
<1>16. ASSUME NEW f \in F \cup Listed(p, F) \cup ({p.verilog} \ {NoFile}), p.at[f] = "here" PROVE f \in Watched(p)
  BY <1>1, <1>16 DEF Watched, Found
<1>17. ASSUME NEW f \in Named(q) PROVE f \in Watched(p) \cup Copied(p)
  <2>1. CASE Single(q)
    <3>1. f = p.verilog /\ f \in {p.verilog} \ {NoFile}
      BY <1>2, <2>1 DEF Named, Single
    <3> QED BY <1>4, <1>16, <3>1
  <2>2. CASE ~Single(q)
    <3>1. f \in RtlIn(q, R)
      BY <1>1, <2>2 DEF Named
    <3> QED BY <1>4, <1>15, <1>16, <3>1
  <2> QED BY <2>1, <2>2
<1>18. ASSUME NEW f \in R PROVE f \in Watched(p) \cup Copied(p)
  BY <1>4, <1>11, <1>14, <1>16
<1> QED BY <1>4, <1>17, <1>18

-----------------------------------------------------------------------------
(* The conditionals of a text, and how deep a line is within them. *)

Opens(lines, i) == lines[i].kind \in {"ifdef", "ifndef"}
Closes(lines, i) == lines[i].kind = "endif"
Branches(lines, i) == lines[i].kind \in {"elsif", "else"}

\* How many more are opened than closed from line k to line i.
Depth(lines, k, i) == Cardinality({j \in k..i : Opens(lines, j)})
                      - Cardinality({j \in k..i : lines[j].kind = "endif"})

\* One line more.
Deeper(lines, i) == IF Opens(lines, i) THEN 1 ELSE IF Closes(lines, i) THEN -1 ELSE 0

LEMMA CountIs ==
    ASSUME NEW P, NEW k \in Nat, NEW i \in Nat
    PROVE  LET C(n) == Cardinality({j \in k..n : j \in P}) IN
           /\ C(i) \in Nat /\ (i < k => C(i) = 0)
           /\ k <= i + 1 => C(i + 1) = C(i) + (IF i + 1 \in P THEN 1 ELSE 0)
<1> DEFINE Upto(n) == {j \in k..n : j \in P}
<1>1. IsFiniteSet(Upto(i)) /\ Cardinality(Upto(i)) \in Nat
  <2>1. IsFiniteSet(k..i)
    BY FS_Interval
  <2>2. Upto(i) \in SUBSET (k..i)
    OBVIOUS
  <2> HIDE DEF Upto
  <2> QED BY <2>1, <2>2, FS_Subset, FS_CardinalityType
<1>2. i < k => Cardinality(Upto(i)) = 0
  <2>1. i < k => Upto(i) = {}
    OBVIOUS
  <2> HIDE DEF Upto
  <2> QED BY <2>1, FS_EmptySet
<1>3. ASSUME k <= i + 1, i + 1 \in P PROVE Cardinality(Upto(i + 1)) = Cardinality(Upto(i)) + 1
  <2>1. Upto(i + 1) = Upto(i) \cup {i + 1} /\ i + 1 \notin Upto(i)
    BY <1>3
  <2> HIDE DEF Upto
  <2> QED BY <1>1, <2>1, FS_AddElement
<1>4. ASSUME k <= i + 1, i + 1 \notin P PROVE Cardinality(Upto(i + 1)) = Cardinality(Upto(i)) + 0
  <2>1. Upto(i + 1) = Upto(i)
    BY <1>4
  <2> HIDE DEF Upto
  <2> QED BY <1>1, <2>1
<1> QED BY <1>1, <1>2, <1>3, <1>4

\* Depth is what the lines from k on add up to.
LEMMA DepthIs ==
    ASSUME NEW lines, NEW k \in Nat \ {0}, NEW i \in Nat
    PROVE  /\ Depth(lines, k, i) \in Int /\ Depth(lines, k, k) = Deeper(lines, k)
           /\ k <= i => Depth(lines, k, i + 1) = Depth(lines, k, i) + Deeper(lines, i + 1)
<1> DEFINE P == {j \in Nat : Opens(lines, j)}
           O == {j \in Nat : Closes(lines, j)}
           A(n) == Cardinality({j \in k..n : j \in P})
           B(n) == Cardinality({j \in k..n : j \in O})
<1>1. ASSUME NEW n \in Nat PROVE Depth(lines, k, n) = A(n) - B(n)
  <2>1. \A j \in k..n : j \in Nat
    OBVIOUS
  <2>2. {j \in k..n : Opens(lines, j)} = {j \in k..n : j \in P}
        /\ {j \in k..n : lines[j].kind = "endif"} = {j \in k..n : j \in O}
    BY <2>1 DEF Closes
  <2> QED BY <2>2 DEF Depth
<1>2. \A n \in Nat : /\ A(n) \in Nat /\ (n < k => A(n) = 0)
                     /\ k <= n + 1 => A(n + 1) = A(n) + (IF n + 1 \in P THEN 1 ELSE 0)
  <2> HIDE DEF P
  <2> QED BY CountIs
<1>3. \A n \in Nat : /\ B(n) \in Nat /\ (n < k => B(n) = 0)
                     /\ k <= n + 1 => B(n + 1) = B(n) + (IF n + 1 \in O THEN 1 ELSE 0)
  <2> HIDE DEF O
  <2> QED BY CountIs
<1>4. \A n \in Nat : (IF n \in P THEN 1 ELSE 0) - (IF n \in O THEN 1 ELSE 0) = Deeper(lines, n)
  BY DEF Deeper, Opens, Closes
<1> HIDE DEF A, B, P, O
<1>5. A(k) - B(k) = Deeper(lines, k)
  <2>1. PICK m \in Nat : m < k /\ m + 1 = k
    <3>1. k - 1 \in Nat /\ k - 1 < k /\ (k - 1) + 1 = k
      OBVIOUS
    <3> QED BY <3>1
  <2>2. A(m) = 0 /\ B(m) = 0
    BY <1>2, <1>3, <2>1
  <2>3. A(m + 1) = A(m) + (IF m + 1 \in P THEN 1 ELSE 0) /\ B(m + 1) = B(m) + (IF m + 1 \in O THEN 1 ELSE 0)
    BY <1>2, <1>3, <2>1
  <2>4. A(k) = (IF k \in P THEN 1 ELSE 0) /\ B(k) = (IF k \in O THEN 1 ELSE 0)
    BY <2>1, <2>2, <2>3
  <2> QED BY <1>4, <2>4
<1>6. k <= i => A(i + 1) - B(i + 1) = (A(i) - B(i)) + Deeper(lines, i + 1)
  <2>1. Deeper(lines, i + 1) = (IF i + 1 \in P THEN 1 ELSE 0) - (IF i + 1 \in O THEN 1 ELSE 0)
    BY <1>4
  <2>2. k <= i => A(i + 1) = A(i) + (IF i + 1 \in P THEN 1 ELSE 0)
                  /\ B(i + 1) = B(i) + (IF i + 1 \in O THEN 1 ELSE 0)
    BY <1>2, <1>3
  <2>3. A(i) \in Nat /\ B(i) \in Nat
    BY <1>2, <1>3
  <2> QED BY <2>1, <2>2, <2>3
<1> QED BY <1>1, <1>2, <1>3, <1>5, <1>6

\* The conditionals that are open after line i, from the outside in: each is deeper
\* by those within it, and no other has been open all along.
Nested(s, i, n, lines) ==
    /\ s \in Seq(1..n)
    /\ \A m \in 1..Len(s) : /\ s[m] <= i /\ Opens(lines, s[m]) /\ Depth(lines, s[m], i) = Len(s) - m + 1
                            /\ \A j \in s[m]..i : Depth(lines, s[m], j) > 0
    /\ \A k \in 1..i : Opens(lines, k) /\ (\A j \in k..i : Depth(lines, k, j) > 0) =>
                          \E m \in 1..Len(s) : s[m] = k

LEMMA FrontIs ==
    ASSUME NEW X, NEW s \in Seq(X), s # <<>>
    PROVE  /\ Front(s) \in Seq(X) /\ Len(Front(s)) = Len(s) - 1 /\ Len(s) \in Nat \ {0}
           /\ \A m \in 1..Len(s) - 1 : Front(s)[m] = s[m]
           /\ Last(s) = s[Len(s)] /\ Last(s) \in X
<1>1. Len(s) \in Nat \ {0} /\ \A m \in 1..Len(s) : s[m] \in X
  BY ElementOfSeq, EmptySeq
<1>2. Front(s) = [m \in 1..Len(s) - 1 |-> s[m]]
  BY <1>1 DEF Front
<1>3. Len(s) - 1 \in Nat /\ \A m \in 1..Len(s) - 1 : s[m] \in X
  BY <1>1
<1>4. Front(s) \in Seq(X) /\ Len(Front(s)) = Len(s) - 1
  BY <1>2, <1>3, IsASeq
<1> QED BY <1>1, <1>2, <1>4 DEF Last

\* What one line does to them.
Nest(s, lines, i) ==
    IF Opens(lines, i) THEN Append(s, i) ELSE IF Closes(lines, i) /\ s # <<>> THEN Front(s) ELSE s

LEMMA NestedStarts ==
    ASSUME NEW n \in Nat, NEW lines
    PROVE  Nested(<<>>, 0, n, lines)
BY EmptySeq DEF Nested

LEMMA NestedStep ==
    ASSUME NEW n \in Nat, NEW lines, NEW i \in 0..n - 1, NEW s, Nested(s, i, n, lines)
    PROVE  Nested(Nest(s, lines, i + 1), i + 1, n, lines)
<1>1. s \in Seq(1..n) /\ Len(s) \in Nat /\ \A m \in 1..Len(s) : s[m] \in 1..n
  BY ElementOfSeq, LenProperties DEF Nested
<1>2. ASSUME NEW m \in 1..Len(s)
      PROVE  /\ s[m] \in Nat \ {0} /\ s[m] <= i /\ Opens(lines, s[m])
             /\ Depth(lines, s[m], i) = Len(s) - m + 1
             /\ \A j \in s[m]..i : Depth(lines, s[m], j) > 0
             /\ Depth(lines, s[m], i + 1) = Len(s) - m + 1 + Deeper(lines, i + 1)
  <2>1. s[m] \in Nat \ {0} /\ s[m] <= i /\ Opens(lines, s[m]) /\ Depth(lines, s[m], i) = Len(s) - m + 1
        /\ \A j \in s[m]..i : Depth(lines, s[m], j) > 0
    BY <1>1 DEF Nested
  <2>2. Depth(lines, s[m], i + 1) = Depth(lines, s[m], i) + Deeper(lines, i + 1)
    <3>1. PICK k \in Nat \ {0} : k = s[m] /\ k <= i
      BY <2>1
    <3>2. i \in Nat
      OBVIOUS
    <3>3. Depth(lines, k, i + 1) = Depth(lines, k, i) + Deeper(lines, i + 1)
      BY <3>1, <3>2, DepthIs, Zenon
    <3> QED BY <3>1, <3>3
  <2> QED BY <2>1, <2>2
<1>3. ASSUME NEW k \in 1..i + 1, Opens(lines, k), \A j \in k..i + 1 : Depth(lines, k, j) > 0
      PROVE  k = i + 1 \/ \E m \in 1..Len(s) : s[m] = k
  <2>1. k # i + 1 => k \in 1..i /\ \A j \in k..i : Depth(lines, k, j) > 0
    BY <1>3
  <2> QED BY <1>3, <2>1 DEF Nested
<1>4. ASSUME NEW t \in Seq(1..n), Len(t) \in Nat, Len(t) = Len(s) + Deeper(lines, i + 1),
             \A m \in 1..Len(t) : IF m \in 1..Len(s) THEN t[m] = s[m]
                                  ELSE t[m] = i + 1 /\ m = Len(t) /\ Opens(lines, i + 1),
             Opens(lines, i + 1) => Len(t) \notin 1..Len(s) /\ Len(t) > 0
      PROVE  Nested(t, i + 1, n, lines)
  <2>1. ASSUME NEW m \in 1..Len(t)
        PROVE  /\ t[m] <= i + 1 /\ Opens(lines, t[m]) /\ Depth(lines, t[m], i + 1) = Len(t) - m + 1
               /\ \A j \in t[m]..i + 1 : Depth(lines, t[m], j) > 0
    <3>1. CASE m \in 1..Len(s)
      <4>1. t[m] = s[m] /\ s[m] \in Nat \ {0} /\ s[m] <= i /\ Opens(lines, s[m])
        BY <1>2, <1>4, <3>1
      <4>2. Deeper(lines, i + 1) \in Int
        BY DEF Deeper
      <4>3. Depth(lines, s[m], i + 1) = Len(t) - m + 1
        BY <1>1, <1>2, <1>4, <3>1, <4>2
      <4>4. \A j \in s[m]..i + 1 : j \in s[m]..i \/ j = i + 1
        BY <4>1
      <4>5. Len(t) - m + 1 > 0
        BY <1>4
      <4> QED BY <1>2, <3>1, <4>1, <4>3, <4>4, <4>5, SMTT(60)
    <3>2. CASE m \notin 1..Len(s)
      <4>1. t[m] = i + 1 /\ m = Len(t) /\ Opens(lines, i + 1)
        BY <1>4, <3>2
      <4>2. i + 1 \in Nat \ {0} /\ Depth(lines, i + 1, i + 1) = 1
        <5>1. i + 1 \in Nat \ {0} /\ i + 1 \in Nat
          OBVIOUS
        <5>2. Deeper(lines, i + 1) = 1
          BY <4>1 DEF Deeper
        <5> QED BY <5>1, <5>2, DepthIs
      <4>3. Len(t) - m + 1 = 1
        BY <1>4, <4>1
      <4>4. \A j \in i + 1..i + 1 : j = i + 1
        OBVIOUS
      <4> QED BY <4>1, <4>2, <4>3, <4>4
    <3> QED BY <3>1, <3>2
  <2>2. ASSUME NEW k \in 1..i + 1, Opens(lines, k), \A j \in k..i + 1 : Depth(lines, k, j) > 0
        PROVE  \E m \in 1..Len(t) : t[m] = k
    <3>1. CASE k = i + 1
      <4>1. Len(t) \in 1..Len(t) /\ Len(t) \notin 1..Len(s)
        BY <1>4, <2>2, <3>1
      <4> QED BY <1>4, <3>1, <4>1
    <3>2. CASE k # i + 1
      <4>1. PICK m \in 1..Len(s) : s[m] = k
        BY <1>3, <2>2, <3>2
      <4>2. Depth(lines, k, i + 1) = Len(s) - m + 1 + Deeper(lines, i + 1) /\ Depth(lines, k, i + 1) > 0
        BY <1>2, <2>2, <4>1
      <4>3. Deeper(lines, i + 1) \in {-1, 0, 1}
        BY DEF Deeper
      <4>4. m \in 1..Len(t)
        <5>1. Len(t) = Len(s) + Deeper(lines, i + 1) /\ Len(t) \in Nat
          BY <1>4
        <5>2. m \in Nat /\ m > 0
          OBVIOUS
        <5> QED BY <1>1, <4>2, <4>3, <5>1, <5>2, SMTT(60)
      <4> QED BY <1>4, <4>1, <4>4
    <3> QED BY <3>1, <3>2
  <2> QED BY <1>4, <2>1, <2>2 DEF Nested
<1>5. CASE Opens(lines, i + 1)
  <2>1. i + 1 \in 1..n
    OBVIOUS
  <2> DEFINE t == Append(s, i + 1)
  <2>2. t \in Seq(1..n) /\ Len(t) = Len(s) + 1 /\ t[Len(s) + 1] = i + 1 /\ \A m \in 1..Len(s) : t[m] = s[m]
    BY <1>1, <2>1, AppendProperties
  <2>3. Deeper(lines, i + 1) = 1 /\ Nest(s, lines, i + 1) = t
    BY <1>5 DEF Deeper, Nest
  <2> HIDE DEF t
  <2>4. \A m \in 1..Len(t) : IF m \in 1..Len(s) THEN t[m] = s[m]
                             ELSE t[m] = i + 1 /\ m = Len(t) /\ Opens(lines, i + 1)
    BY <1>1, <1>5, <2>2
  <2>5. Len(t) \in Nat /\ Len(t) \notin 1..Len(s) /\ Len(t) > 0
    BY <1>1, <2>2
  <2> QED BY <1>4, <2>2, <2>3, <2>4, <2>5
<1>6. CASE ~Opens(lines, i + 1) /\ Closes(lines, i + 1) /\ s # <<>>
  <2> DEFINE t == Front(s)
  <2>1. t \in Seq(1..n) /\ Len(t) = Len(s) - 1 /\ Len(s) \in Nat \ {0} /\ \A m \in 1..Len(s) - 1 : t[m] = s[m]
    BY <1>1, <1>6, FrontIs
  <2>2. Deeper(lines, i + 1) = -1 /\ Nest(s, lines, i + 1) = t
    BY <1>6 DEF Deeper, Nest
  <2> HIDE DEF t
  <2>3. \A m \in 1..Len(t) : m \in 1..Len(s) /\ t[m] = s[m]
    BY <2>1
  <2>4. Len(t) \in Nat /\ Len(t) = Len(s) + (-1)
    BY <2>1
  <2> QED BY <1>4, <1>6, <2>1, <2>2, <2>3, <2>4
<1>7. CASE ~Opens(lines, i + 1) /\ Closes(lines, i + 1) /\ s = <<>>
  <2>1. Nest(s, lines, i + 1) = <<>> /\ Len(s) = 0
    BY <1>7 DEF Nest
  <2>2. ASSUME NEW k \in 1..i + 1, Opens(lines, k), \A j \in k..i + 1 : Depth(lines, k, j) > 0 PROVE FALSE
    BY <1>3, <1>7, <2>1, <2>2
  <2>3. <<>> \in Seq(1..n) /\ Len(<<>>) = 0
    BY EmptySeq
  <2>4. Nested(<<>>, i + 1, n, lines)
    BY <2>2, <2>3 DEF Nested
  <2> QED BY <2>1, <2>4
<1>8. CASE ~Opens(lines, i + 1) /\ ~Closes(lines, i + 1)
  <2>1. Deeper(lines, i + 1) = 0 /\ Nest(s, lines, i + 1) = s
    BY <1>8 DEF Deeper, Nest
  <2>2. Len(s) = Len(s) + 0
    BY <1>1
  <2> QED BY <1>1, <1>4, <1>8, <2>1, <2>2
<1> QED BY <1>5, <1>6, <1>7, <1>8

\* The conditionals around line i, and the branches of conditional k before it.
Around(lines, i) == {k \in 1..i - 1 : Opens(lines, k) /\ \A j \in k..i - 1 : Depth(lines, k, j) > 0}

Heads(lines, k, i) ==
    {k} \cup {j \in k + 1..i - 1 : Branches(lines, j) /\
                 \A m \in k..j : Depth(lines, k, m) > 0 /\ Depth(lines, k, j) = 1}

LEMMA AroundIs ==
    ASSUME NEW n \in Nat, NEW lines, NEW i \in 0..n, NEW s, Nested(s, i, n, lines)
    PROVE  Around(lines, i + 1) = Elements(s)
<1>1. s \in Seq(1..n) /\ DOMAIN s = 1..Len(s) /\ \A m \in 1..Len(s) : s[m] \in 1..n
  BY ElementOfSeq, LenProperties DEF Nested
<1>2. (i + 1) - 1 = i
  OBVIOUS
<1>3. Around(lines, i + 1) = {k \in 1..i : Opens(lines, k) /\ \A j \in k..i : Depth(lines, k, j) > 0}
  BY <1>2 DEF Around
<1>4. ASSUME NEW k \in Around(lines, i + 1) PROVE k \in Elements(s)
  BY <1>1, <1>3 DEF Nested, Elements
<1>5. ASSUME NEW m \in 1..Len(s) PROVE s[m] \in Around(lines, i + 1)
  <2>1. s[m] \in 1..i
    BY <1>1 DEF Nested
  <2> QED BY <1>3, <2>1 DEF Nested
<1> QED BY <1>1, <1>4, <1>5 DEF Elements

\* A line that begins a branch begins one of the innermost conditional.
LEMMA HeadsAre ==
    ASSUME NEW n \in Nat, NEW lines, NEW i \in 0..n - 1, NEW s, Nested(s, i, n, lines),
           NEW m \in 1..Len(s), NEW k, k = s[m], NEW j, j = i + 1
    PROVE  /\ k \in Heads(lines, k, j) /\ Heads(lines, k, j) \subseteq 1..i
           /\ Branches(lines, j) /\ m = Len(s) => Heads(lines, k, j + 1) = Heads(lines, k, j) \cup {j}
           /\ ~(Branches(lines, j) /\ m = Len(s)) => Heads(lines, k, j + 1) = Heads(lines, k, j)
<1>1. s \in Seq(1..n) /\ Len(s) \in Nat /\ k \in 1..n /\ k <= i
  BY ElementOfSeq, LenProperties DEF Nested
<1>2. Depth(lines, k, i) = Len(s) - m + 1 /\ \A l \in k..i : Depth(lines, k, l) > 0
  BY DEF Nested
<1>3. Branches(lines, j) => Depth(lines, k, j) = Len(s) - m + 1
  <2>1. Branches(lines, j) => Deeper(lines, j) = 0
    BY DEF Branches, Deeper, Opens, Closes
  <2>2. i \in Nat /\ k \in Nat \ {0}
    BY <1>1
  <2>3. Depth(lines, k, j) = Depth(lines, k, i) + Deeper(lines, j)
    BY <1>1, <2>2, DepthIs, Zenon
  <2> QED BY <1>1, <1>2, <2>1, <2>3
<1>4. j - 1 = i /\ (j + 1) - 1 = j
  OBVIOUS
<1> DEFINE Begins(l) == Branches(lines, l) /\ \A o \in k..l : Depth(lines, k, o) > 0 /\ Depth(lines, k, l) = 1
<1>5. Heads(lines, k, j) = {k} \cup {l \in k + 1..i : Begins(l)}
  BY <1>4 DEF Heads
<1>6. Heads(lines, k, j + 1) = {k} \cup {l \in k + 1..j : Begins(l)}
  BY <1>4 DEF Heads
<1>7. Begins(j) <=> Branches(lines, j) /\ m = Len(s)
  <2>1. j \in k..j /\ \A o \in k..j : o \in k..i \/ o = j
    BY <1>1
  <2>2. Branches(lines, j) => (Depth(lines, k, j) = 1 <=> m = Len(s))
    BY <1>1, <1>3
  <2> QED BY <1>2, <2>1, <2>2
<1> HIDE DEF Begins
<1>8. \A l \in k + 1..j : l \in k + 1..i \/ l = j
  BY <1>1
<1>9. j \in k + 1..j
  BY <1>1
<1>10. Begins(j) => {l \in k + 1..j : Begins(l)} = {l \in k + 1..i : Begins(l)} \cup {j}
  BY <1>8, <1>9
<1>11. ~Begins(j) => {l \in k + 1..j : Begins(l)} = {l \in k + 1..i : Begins(l)}
  BY <1>8
<1>12. Heads(lines, k, j) \subseteq 1..i /\ k \in Heads(lines, k, j)
  <2>1. k \in 1..i /\ \A l \in k + 1..i : l \in 1..i
    BY <1>1
  <2> QED BY <1>5, <2>1
<1> DEFINE P == {l \in k + 1..i : Begins(l)}
           O == {l \in k + 1..j : Begins(l)}
<1>13. Heads(lines, k, j) = {k} \cup P /\ Heads(lines, k, j + 1) = {k} \cup O
  BY <1>5, <1>6
<1>14. IF Branches(lines, j) /\ m = Len(s) THEN O = P \cup {j} ELSE O = P
  BY <1>7, <1>10, <1>11
<1> HIDE DEF P, O
<1> QED BY <1>12, <1>13, <1>14

LEMMA FirstHead ==
    ASSUME NEW lines, NEW j \in Nat
    PROVE  Heads(lines, j, j + 1) = {j}
BY DEF Heads

\* Does the condition of a branch hold, with these macros before each line, and
\* is the last of some branches the first whose condition does?
True(lines, mac, h) ==
    CASE lines[h].kind \in {"ifdef", "elsif"} -> lines[h].name \in mac[h]
      [] lines[h].kind = "ifndef" -> lines[h].name \notin mac[h]
      [] OTHER -> TRUE

Chosen(lines, mac, heads) ==
    LET now == CHOOSE h \in heads : \A g \in heads : g <= h
    IN True(lines, mac, now) /\ \A g \in heads \ {now} : ~True(lines, mac, g)

LEMMA ChosenIs ==
    ASSUME NEW lines, NEW mac, NEW heads \in SUBSET Nat, NEW h \in heads, \A g \in heads : g <= h
    PROVE  Chosen(lines, mac, heads) <=> True(lines, mac, h) /\ \A g \in heads \ {h} : ~True(lines, mac, g)
<1> DEFINE now == CHOOSE x \in heads : \A g \in heads : g <= x
<1>1. now \in heads /\ \A g \in heads : g <= now
  OBVIOUS
<1> HIDE DEF now
<1>2. now = h
  BY <1>1
<1> QED BY <1>2 DEF Chosen, now

LEMMA TrueIs ==
    ASSUME NEW lines, NEW mac, NEW h
    PROVE  True(lines, mac, h) <=> /\ lines[h].kind \in {"ifdef", "elsif"} => lines[h].name \in mac[h]
                                   /\ lines[h].kind = "ifndef" => lines[h].name \notin mac[h]
BY DEF True

\* A branch of conditional k before line i was taken; the last of them is.
TakenAt(lines, mac, k, i) == \E h \in Heads(lines, k, i) : True(lines, mac, h)
ChosenAt(lines, mac, k, i) == Chosen(lines, mac, Heads(lines, k, i))

\* What line j = i + 1 changes: the branches of the innermost conditional, if it begins one.
LEMMA BranchesAre ==
    ASSUME NEW n \in Nat, NEW lines, NEW mac, NEW i \in 0..n - 1, NEW s, Nested(s, i, n, lines),
           NEW m \in 1..Len(s), NEW k, k = s[m], NEW j, j = i + 1
    PROVE  IF Branches(lines, j) /\ m = Len(s)
           THEN /\ TakenAt(lines, mac, k, j + 1) <=> TakenAt(lines, mac, k, j) \/ True(lines, mac, j)
                /\ ChosenAt(lines, mac, k, j + 1) <=> ~TakenAt(lines, mac, k, j) /\ True(lines, mac, j)
           ELSE /\ TakenAt(lines, mac, k, j + 1) <=> TakenAt(lines, mac, k, j)
                /\ ChosenAt(lines, mac, k, j + 1) <=> ChosenAt(lines, mac, k, j)
<1> DEFINE before == Heads(lines, k, j)
           after == Heads(lines, k, j + 1)
<1>1. before \subseteq 1..i
  BY HeadsAre, ZenonT(60)
<1>2. Branches(lines, j) /\ m = Len(s) => after = before \cup {j}
  BY HeadsAre, SMTT(60)
<1>3. ~(Branches(lines, j) /\ m = Len(s)) => after = before
  BY HeadsAre
<1> HIDE DEF before, after
<1>4. ASSUME after = before \cup {j}
      PROVE  Chosen(lines, mac, after) <=> True(lines, mac, j) /\ \A g \in before : ~True(lines, mac, g)
  <2>1. after \in SUBSET Nat /\ j \in after /\ (\A g \in after : g <= j) /\ after \ {j} = before
    BY <1>1, <1>4
  <2>2. Chosen(lines, mac, after) <=> True(lines, mac, j) /\ \A g \in after \ {j} : ~True(lines, mac, g)
    BY <2>1, ChosenIs
  <2> QED BY <2>1, <2>2
<1>5. CASE Branches(lines, j) /\ m = Len(s)
  BY <1>2, <1>4, <1>5 DEF TakenAt, ChosenAt, before, after
<1>6. CASE ~(Branches(lines, j) /\ m = Len(s))
  BY <1>3, <1>6 DEF TakenAt, ChosenAt, before, after
<1> QED BY <1>5, <1>6

LEMMA FirstBranch ==
    ASSUME NEW lines, NEW mac, NEW j \in Nat
    PROVE  /\ TakenAt(lines, mac, j, j + 1) <=> True(lines, mac, j)
           /\ ChosenAt(lines, mac, j, j + 1) <=> True(lines, mac, j)
<1>1. Heads(lines, j, j + 1) = {j}
  BY FirstHead
<1>2. Chosen(lines, mac, {j}) <=> True(lines, mac, j)
  <2>1. {j} \in SUBSET Nat /\ j \in {j} /\ (\A g \in {j} : g <= j) /\ {j} \ {j} = {}
    OBVIOUS
  <2> QED BY <2>1, ChosenIs
<1> QED BY <1>1, <1>2 DEF TakenAt, ChosenAt

\* The stack of frames after line i, for the conditionals that are open there.
Frames == [parent : BOOLEAN, taken : BOOLEAN, active : BOOLEAN]

FrameOf(frame, s, m, i, lines, mac) ==
    /\ frame \in Frames
    /\ frame.taken <=> TakenAt(lines, mac, s[m], i + 1)
    /\ frame.active <=> \A l \in 1..m : ChosenAt(lines, mac, s[l], i + 1)
    /\ frame.parent <=> \A l \in 1..m - 1 : ChosenAt(lines, mac, s[l], i + 1)

Framed(q, s, i, lines, mac) ==
    /\ q \in Seq(Frames) /\ Len(q) = Len(s)
    /\ \A m \in 1..Len(s) : FrameOf(q[m], s, m, i, lines, mac)

\* A frame stays, unless it is the innermost and line i + 1 begins a branch.
LEMMA FrameStays ==
    ASSUME NEW n \in Nat, NEW lines, NEW mac, NEW i \in 0..n - 1, NEW s, Nested(s, i, n, lines),
           NEW q, Framed(q, s, i, lines, mac), NEW m \in 1..Len(s), ~(Branches(lines, i + 1) /\ m = Len(s)),
           NEW t, \A l \in 1..m : t[l] = s[l]
    PROVE  FrameOf(q[m], t, m, i + 1, lines, mac)
<1>1. FrameOf(q[m], s, m, i, lines, mac)
  BY DEF Framed
<1>2. Len(s) \in Nat
  BY LenProperties DEF Nested
<1> DEFINE j == i + 1
<1>3. \A l \in 1..m : l \in 1..Len(s) /\ ~(Branches(lines, j) /\ l = Len(s))
  BY <1>2
<1>4. \A l \in 1..m : /\ ChosenAt(lines, mac, s[l], j + 1) <=> ChosenAt(lines, mac, s[l], j)
                      /\ TakenAt(lines, mac, s[l], j + 1) <=> TakenAt(lines, mac, s[l], j)
  <2> TAKE l \in 1..m
  <2>1. PICK k : k = s[l]
    OBVIOUS
  <2>2. l \in 1..Len(s) /\ ~(Branches(lines, j) /\ l = Len(s))
    BY <1>3
  <2> QED BY <2>1, <2>2, BranchesAre
<1>5. m \in 1..m /\ \A l \in 1..m - 1 : l \in 1..m
  OBVIOUS
<1> QED BY <1>1, <1>4, <1>5 DEF FrameOf

LEMMA AllStay ==
    ASSUME NEW n \in Nat, NEW lines, NEW mac, NEW i \in 0..n - 1, NEW s, Nested(s, i, n, lines),
           NEW q, Framed(q, s, i, lines, mac), ~Branches(lines, i + 1) \/ s = <<>>
    PROVE  Framed(q, s, i + 1, lines, mac)
<1>1. q \in Seq(Frames) /\ Len(q) = Len(s)
  BY DEF Framed
<1>2. ASSUME NEW m \in 1..Len(s) PROVE FrameOf(q[m], s, m, i + 1, lines, mac)
  <2>1. ~(Branches(lines, i + 1) /\ m = Len(s))
    BY <1>2
  <2>2. \A l \in 1..m : s[l] = s[l]
    OBVIOUS
  <2> QED BY <2>1, <2>2, FrameStays
<1> QED BY <1>1, <1>2 DEF Framed

LEMMA FramePops ==
    ASSUME NEW n \in Nat, NEW lines, NEW mac, NEW i \in 0..n - 1, NEW s, Nested(s, i, n, lines),
           NEW q, Framed(q, s, i, lines, mac), Closes(lines, i + 1), s # <<>>
    PROVE  Framed(Front(q), Front(s), i + 1, lines, mac)
<1>1. s \in Seq(1..n) /\ q \in Seq(Frames) /\ Len(q) = Len(s)
  BY DEF Framed, Nested
<1>2. q # <<>>
  BY <1>1
<1> DEFINE r == Front(q)
           t == Front(s)
<1>3. t \in Seq(1..n) /\ Len(t) = Len(s) - 1 /\ Len(s) \in Nat \ {0} /\ \A m \in 1..Len(s) - 1 : t[m] = s[m]
  BY <1>1, FrontIs
<1>4. r \in Seq(Frames) /\ Len(r) = Len(q) - 1 /\ \A m \in 1..Len(q) - 1 : r[m] = q[m]
  BY <1>1, <1>2, FrontIs
<1> HIDE DEF r, t
<1>5. ~Branches(lines, i + 1)
  BY DEF Branches, Closes
<1>6. ASSUME NEW m \in 1..Len(t) PROVE FrameOf(r[m], t, m, i + 1, lines, mac)
  <2>1. m \in 1..Len(s) /\ r[m] = q[m] /\ \A l \in 1..m : t[l] = s[l]
    BY <1>1, <1>3, <1>4
  <2>2. FrameOf(q[m], t, m, i + 1, lines, mac)
    BY <1>5, <2>1, FrameStays
  <2> QED BY <2>1, <2>2
<1>7. Framed(r, t, i + 1, lines, mac)
  BY <1>1, <1>3, <1>4, <1>6 DEF Framed
<1> QED BY <1>7 DEF r, t

LEMMA FramePushes ==
    ASSUME NEW n \in Nat, NEW lines, NEW mac, NEW i \in 0..n - 1, NEW s, Nested(s, i, n, lines),
           NEW q, Framed(q, s, i, lines, mac), Opens(lines, i + 1), NEW frame \in Frames,
           frame.parent <=> \A l \in 1..Len(s) : ChosenAt(lines, mac, s[l], i + 1),
           frame.taken <=> True(lines, mac, i + 1), frame.active <=> frame.parent /\ frame.taken
    PROVE  Framed(Append(q, frame), Append(s, i + 1), i + 1, lines, mac)
<1> DEFINE j == i + 1
<1>1. s \in Seq(1..n) /\ q \in Seq(Frames) /\ Len(q) = Len(s) /\ Len(s) \in Nat /\ j \in 1..n
  BY LenProperties DEF Framed, Nested
<1> DEFINE r == Append(q, frame)
           t == Append(s, j)
<1>2. t \in Seq(1..n) /\ Len(t) = Len(s) + 1 /\ t[Len(s) + 1] = j /\ \A m \in 1..Len(s) : t[m] = s[m]
  <2> HIDE DEF j
  <2> QED BY <1>1, AppendProperties
<1>3. r \in Seq(Frames) /\ Len(r) = Len(s) + 1 /\ r[Len(s) + 1] = frame /\ \A m \in 1..Len(s) : r[m] = q[m]
  BY <1>1, AppendProperties
<1> HIDE DEF r, t
<1>4. ~Branches(lines, j)
  BY DEF Branches, Opens
<1>5. ASSUME NEW m \in 1..Len(t) PROVE FrameOf(r[m], t, m, j, lines, mac)
  <2>1. CASE m \in 1..Len(s)
    <3>1. r[m] = q[m] /\ \A l \in 1..m : t[l] = s[l]
      BY <1>1, <1>2, <1>3, <2>1, SMTT(60)
    <3>2. FrameOf(q[m], t, m, j, lines, mac)
      BY <1>4, <2>1, <3>1, FrameStays
    <3> QED BY <3>1, <3>2
  <2>2. CASE m \notin 1..Len(s)
    <3>1. m = Len(s) + 1 /\ m - 1 = Len(s) /\ t[m] = j /\ r[m] = frame
      BY <1>1, <1>2, <1>3, <2>2
    <3>2. /\ TakenAt(lines, mac, j, j + 1) <=> True(lines, mac, j)
          /\ ChosenAt(lines, mac, j, j + 1) <=> True(lines, mac, j)
      <4>1. j \in Nat
        OBVIOUS
      <4> HIDE DEF j
      <4> QED BY <4>1, FirstBranch
    <3>3. ASSUME NEW l \in 1..Len(s)
          PROVE  t[l] = s[l] /\ (ChosenAt(lines, mac, t[l], j + 1) <=> ChosenAt(lines, mac, s[l], j))
      <4>1. PICK k : k = s[l]
        OBVIOUS
      <4>2. ChosenAt(lines, mac, k, j + 1) <=> ChosenAt(lines, mac, k, j)
        BY <1>4, <4>1, BranchesAre
      <4> QED BY <1>2, <4>1, <4>2
    <3>4. frame.parent <=> \A l \in 1..m - 1 : ChosenAt(lines, mac, t[l], j + 1)
      BY <3>1, <3>3
    <3>5. frame.active <=> \A l \in 1..m : ChosenAt(lines, mac, t[l], j + 1)
      <4>1. \A l \in 1..m : l \in 1..m - 1 \/ l = m
        OBVIOUS
      <4>2. m \in 1..m /\ \A l \in 1..m - 1 : l \in 1..m
        OBVIOUS
      <4> QED BY <3>1, <3>2, <3>4, <4>1, <4>2
    <3> QED BY <3>1, <3>2, <3>4, <3>5 DEF FrameOf
  <2> QED BY <2>1, <2>2
<1>6. Framed(r, t, j, lines, mac)
  BY <1>2, <1>3, <1>5 DEF Framed
<1> QED BY <1>6 DEF r, t

LEMMA FrameBranches ==
    ASSUME NEW n \in Nat, NEW lines, NEW mac, NEW i \in 0..n - 1, NEW s, Nested(s, i, n, lines), s # <<>>,
           NEW q, Framed(q, s, i, lines, mac), Branches(lines, i + 1), NEW frame \in Frames,
           NEW matched \in BOOLEAN, matched <=> ~Last(q).taken /\ True(lines, mac, i + 1),
           frame.parent <=> Last(q).parent, frame.taken <=> Last(q).taken \/ matched,
           frame.active <=> Last(q).parent /\ matched
    PROVE  Framed(Append(Front(q), frame), s, i + 1, lines, mac)
<1> DEFINE j == i + 1
           c == Len(s)
<1>1. s \in Seq(1..n) /\ q \in Seq(Frames) /\ Len(q) = c /\ c \in Nat \ {0}
  BY EmptySeq, LenProperties DEF Framed, Nested
<1>2. q # <<>>
  BY <1>1
<1>3. /\ Front(q) \in Seq(Frames) /\ Len(Front(q)) = c - 1 /\ (\A m \in 1..c - 1 : Front(q)[m] = q[m])
      /\ Last(q) = q[c]
  BY <1>1, <1>2, FrontIs
<1> DEFINE r == Append(Front(q), frame)
<1>4. r \in Seq(Frames) /\ Len(r) = c /\ r[c] = frame /\ \A m \in 1..c - 1 : r[m] = q[m]
  <2>1. PICK f : f = Front(q)
    OBVIOUS
  <2>2. Append(f, frame) \in Seq(Frames) /\ Len(Append(f, frame)) = c /\ Append(f, frame)[c] = frame
        /\ \A m \in 1..c - 1 : Append(f, frame)[m] = f[m]
    BY <1>1, <1>3, <2>1, AppendProperties
  <2> QED BY <1>3, <2>1, <2>2
<1> HIDE DEF r
<1>5. FrameOf(q[c], s, c, i, lines, mac) /\ c \in 1..Len(s)
  BY <1>1 DEF Framed
<1>6. ASSUME NEW m \in 1..c PROVE FrameOf(r[m], s, m, j, lines, mac)
  <2>1. CASE m # c
    <3>1. r[m] = q[m] /\ \A l \in 1..m : s[l] = s[l]
      BY <1>1, <1>4, <2>1
    <3>2. FrameOf(q[m], s, m, j, lines, mac)
      BY <2>1, <3>1, FrameStays
    <3> QED BY <3>1, <3>2
  <2>2. CASE m = c
    <3>1. /\ TakenAt(lines, mac, s[c], j + 1) <=> TakenAt(lines, mac, s[c], j) \/ True(lines, mac, j)
          /\ ChosenAt(lines, mac, s[c], j + 1) <=> ~TakenAt(lines, mac, s[c], j) /\ True(lines, mac, j)
      <4>1. PICK k : k = s[c]
        OBVIOUS
      <4> QED BY <1>5, <4>1, BranchesAre
    <3>2. ASSUME NEW l \in 1..c - 1
          PROVE  ChosenAt(lines, mac, s[l], j + 1) <=> ChosenAt(lines, mac, s[l], j)
      <4>1. PICK k : k = s[l]
        OBVIOUS
      <4>2. l \in 1..Len(s) /\ l # Len(s)
        BY <1>1
      <4> QED BY <4>1, <4>2, BranchesAre
    <3>3. frame.parent <=> \A l \in 1..c - 1 : ChosenAt(lines, mac, s[l], j + 1)
      BY <1>3, <1>5, <3>2 DEF FrameOf
    <3>0. Last(q).taken <=> TakenAt(lines, mac, s[c], j)
      BY <1>3, <1>5 DEF FrameOf
    <3>7. matched <=> ~TakenAt(lines, mac, s[c], j) /\ True(lines, mac, j)
      BY <3>0
    <3>4. frame.taken <=> TakenAt(lines, mac, s[c], j + 1)
      <4>1. frame.taken <=> TakenAt(lines, mac, s[c], j) \/ matched
        BY <3>0
      <4> QED BY <3>1, <3>7, <4>1
    <3>5. frame.active <=> frame.parent /\ ChosenAt(lines, mac, s[c], j + 1)
      <4>1. frame.active <=> frame.parent /\ matched
        OBVIOUS
      <4> QED BY <3>1, <3>7, <4>1
    <3>6. frame.active <=> \A l \in 1..c : ChosenAt(lines, mac, s[l], j + 1)
      <4>1. \A l \in 1..c : l \in 1..c - 1 \/ l = c
        BY <1>1
      <4>2. c \in 1..c /\ \A l \in 1..c - 1 : l \in 1..c
        BY <1>1
      <4> QED BY <3>3, <3>5, <4>1, <4>2
    <3> QED BY <1>4, <2>2, <3>3, <3>4, <3>6 DEF FrameOf
  <2> QED BY <2>1, <2>2
<1>7. Framed(r, s, j, lines, mac)
  BY <1>4, <1>6 DEF Framed
<1> QED BY <1>7 DEF r

\* A line is active exactly if every conditional around it has chosen its branch.
LEMMA ActiveIs ==
    ASSUME NEW n \in Nat, NEW lines, NEW mac, NEW i \in 0..n, NEW s, Nested(s, i, n, lines),
           NEW st, Framed(st.stack, s, i, lines, mac)
    PROVE  Active(st) <=> \A k \in Around(lines, i + 1) : ChosenAt(lines, mac, k, i + 1)
<1> DEFINE q == st.stack
           c == Len(s)
<1>1. s \in Seq(1..n) /\ q \in Seq(Frames) /\ Len(q) = c /\ c \in Nat /\ DOMAIN s = 1..c
  BY LenProperties DEF Framed, Nested
<1>2. (\A k \in Around(lines, i + 1) : ChosenAt(lines, mac, k, i + 1))
        <=> \A l \in 1..c : ChosenAt(lines, mac, s[l], i + 1)
  <2>1. Around(lines, i + 1) = {s[l] : l \in 1..c}
    <3>1. Around(lines, i + 1) = Elements(s)
      BY AroundIs
    <3> QED BY <1>1, <3>1 DEF Elements
  <2> QED BY <2>1
<1>3. CASE q = <<>>
  <2>1. c = 0 /\ Active(st)
    BY <1>1, <1>3, EmptySeq DEF Active
  <2> QED BY <1>2, <2>1
<1>4. CASE q # <<>>
  <2>1. c \in 1..c /\ Last(q) = q[c]
    BY <1>1, <1>4, EmptySeq DEF Last
  <2>2. q[c].active <=> \A l \in 1..c : ChosenAt(lines, mac, s[l], i + 1)
    BY <1>1, <2>1 DEF Framed, FrameOf
  <2>3. Active(st) <=> q[c].active
    BY <1>4, <2>1 DEF Active
  <2> QED BY <1>2, <2>2, <2>3
<1> QED BY <1>3, <1>4

\* A state of the pass over the lines, and what the updates of it are.
PassState(N, n) == [macros : SUBSET N, stack : Seq(Frames), kept : SUBSET (1..n)]
St3(macros, stack, kept) == [macros |-> macros, stack |-> stack, kept |-> kept]

Pushed(stack, r, above, matched) ==
    \E frame \in Frames : /\ r = Append(stack, frame)
                          /\ frame.parent <=> above
                          /\ frame.taken <=> matched
                          /\ frame.active <=> frame.parent /\ frame.taken

Branched(stack, r, condition) ==
    \E frame \in Frames, matched \in BOOLEAN :
        /\ r = Append(Front(stack), frame)
        /\ matched <=> ~Last(stack).taken /\ condition
        /\ frame.parent <=> Last(stack).parent
        /\ frame.taken <=> Last(stack).taken \/ matched
        /\ frame.active <=> Last(stack).parent /\ matched

LEMMA PushIs ==
    ASSUME NEW N, NEW n, NEW st \in PassState(N, n), NEW matched \in BOOLEAN, NEW r, r = Push(st, matched)
    PROVE  /\ r \in PassState(N, n) /\ r.macros = st.macros /\ r.kept = st.kept
           /\ Pushed(st.stack, r.stack, Active(st), matched)
<1>1. PICK ma, q, ke : st = St3(ma, q, ke) /\ ma \in SUBSET N /\ q \in Seq(Frames) /\ ke \in SUBSET (1..n)
  BY DEF PassState, St3
<1>2. st.macros = ma /\ st.stack = q /\ st.kept = ke
  BY <1>1 DEF St3
<1>3. PICK a, c : a = Active(st) /\ c = (Active(st) /\ matched)
  OBVIOUS
<1>31. a \in BOOLEAN /\ c \in BOOLEAN /\ (a <=> Active(st)) /\ (c <=> a /\ matched)
  <2>1. a \in BOOLEAN
    BY <1>3 DEF Active
  <2>2. c \in BOOLEAN
    BY <1>3
  <2> QED BY <1>3, <2>1, <2>2
<1>4. PICK frame : frame = [parent |-> a, taken |-> matched, active |-> c]
  OBVIOUS
<1>5. /\ frame \in Frames
      /\ frame.parent <=> Active(st)
      /\ frame.taken <=> matched
      /\ frame.active <=> frame.parent /\ frame.taken
  BY <1>31, <1>4 DEF Frames
<1>6. PICK x : x = Append(q, frame)
  OBVIOUS
<1>7. x \in Seq(Frames)
  BY <1>1, <1>5, <1>6
<1>8. r = [st EXCEPT !.stack = x]
  BY <1>2, <1>3, <1>4, <1>6, Zenon DEF Push
<1>9. r = St3(ma, x, ke)
  BY <1>1, <1>8 DEF St3
<1>10. r \in PassState(N, n) /\ r.macros = ma /\ r.stack = x /\ r.kept = ke
  BY <1>1, <1>7, <1>9 DEF PassState, St3
<1>11. Pushed(q, x, Active(st), matched)
  BY <1>5, <1>6 DEF Pushed
<1> QED BY <1>2, <1>10, <1>11

LEMMA BranchIs ==
    ASSUME NEW N, NEW n, NEW st \in PassState(N, n), st.stack # <<>>, NEW condition \in BOOLEAN, NEW r,
           r = Branch(st, ~Last(st.stack).taken /\ condition)
    PROVE  /\ r \in PassState(N, n) /\ r.macros = st.macros /\ r.kept = st.kept
           /\ Branched(st.stack, r.stack, condition)
<1>1. PICK ma, q, ke : st = St3(ma, q, ke) /\ ma \in SUBSET N /\ q \in Seq(Frames) /\ ke \in SUBSET (1..n)
  BY DEF PassState, St3
<1>2. st.macros = ma /\ st.stack = q /\ st.kept = ke
  BY <1>1 DEF St3
<1>3. Front(q) \in Seq(Frames) /\ Last(q) \in Frames
  BY <1>1, <1>2, FrontIs
<1>4. PICK matched : matched = (~Last(q).taken /\ condition)
  OBVIOUS
<1>5. matched \in BOOLEAN /\ (matched <=> ~Last(q).taken /\ condition)
  BY <1>4
<1>6. PICK p, t, a : Last(q) = [parent |-> p, taken |-> t, active |-> a] /\ p \in BOOLEAN /\ t \in BOOLEAN
  BY <1>3 DEF Frames
<1>7. PICK u, b : u = (t \/ matched) /\ b = (p /\ matched)
  OBVIOUS
<1>8. u \in BOOLEAN /\ b \in BOOLEAN /\ (u <=> t \/ matched) /\ (b <=> p /\ matched)
  BY <1>7
<1>9. PICK last, frame : last = Last(q) /\ frame = [last EXCEPT !.taken = u, !.active = b]
  OBVIOUS
<1>10. frame = [parent |-> p, taken |-> u, active |-> b] /\ last.parent = p /\ last.taken = t
  <2>1. PICK w : w = [parent |-> p, taken |-> t, active |-> a]
    OBVIOUS
  <2>2. last = w
    BY <1>6, <1>9, <2>1, Zenon
  <2>3. frame = [w EXCEPT !.taken = u, !.active = b]
    BY <1>9, <2>2, Zenon
  <2>4. frame = [parent |-> p, taken |-> u, active |-> b]
    BY <2>1, <2>3
  <2>5. w.parent = p /\ w.taken = t
    BY <2>1
  <2> QED BY <2>2, <2>4, <2>5, Zenon
<1>11. frame \in Frames
  BY <1>6, <1>8, <1>10 DEF Frames
<1>12. PICK x : x = Append(Front(q), frame)
  OBVIOUS
<1>13. x \in Seq(Frames)
  BY <1>3, <1>11, <1>12
<1>14. frame = [last EXCEPT !.taken = last.taken \/ matched, !.active = last.parent /\ matched]
  BY <1>7, <1>9, <1>10, Zenon
<1>15. r = [st EXCEPT !.stack = x]
  BY <1>2, <1>4, <1>9, <1>12, <1>14, Zenon DEF Branch
<1>16. r = St3(ma, x, ke)
  BY <1>1, <1>15 DEF St3
<1>17. r \in PassState(N, n) /\ r.macros = ma /\ r.stack = x /\ r.kept = ke
  BY <1>1, <1>13, <1>16 DEF PassState, St3
<1>18. /\ frame.parent <=> Last(q).parent
       /\ frame.taken <=> Last(q).taken \/ matched
       /\ frame.active <=> Last(q).parent /\ matched
  BY <1>8, <1>9, <1>10
<1>19. Branched(q, x, condition)
  BY <1>5, <1>11, <1>12, <1>18 DEF Branched
<1> QED BY <1>2, <1>17, <1>19

LinesIn(K, N) == [kind : K, name : N]

\* One line of the pass.
Pass(lines, st, i) ==
    IF lines[i].kind = "text" /\ Active(st) THEN [st EXCEPT !.kept = @ \cup {i}]
    ELSE Directive(st, lines[i])

Condition(macros, line) ==
    /\ line.kind \in {"ifdef", "elsif"} => line.name \in macros
    /\ line.kind = "ifndef" => line.name \notin macros

Passed(st, r, lines, i) ==
    /\ r.macros = IF Active(st) /\ lines[i].kind = "define" THEN st.macros \cup {lines[i].name}
                  ELSE IF Active(st) /\ lines[i].kind = "undef" THEN st.macros \ {lines[i].name}
                  ELSE st.macros
    /\ r.kept = IF Active(st) /\ lines[i].kind = "text" THEN st.kept \cup {i} ELSE st.kept
    /\ Opens(lines, i) => Pushed(st.stack, r.stack, Active(st), Condition(st.macros, lines[i]))
    /\ Branches(lines, i) /\ st.stack # <<>> => Branched(st.stack, r.stack, Condition(st.macros, lines[i]))
    /\ Closes(lines, i) /\ st.stack # <<>> => r.stack = Front(st.stack)
    /\ ~Opens(lines, i) /\ ~((Branches(lines, i) \/ Closes(lines, i)) /\ st.stack # <<>>) => r.stack = st.stack

LEMMA DirectiveIs ==
    ASSUME NEW st, NEW line
    PROVE  LET r == Directive(st, line)
               k == line.kind IN
           /\ k = "ifdef" => r = Push(st, line.name \in st.macros)
           /\ k = "ifndef" => r = Push(st, line.name \notin st.macros)
           /\ k = "elsif" /\ st.stack # <<>> => r = Branch(st, ~Last(st.stack).taken /\ line.name \in st.macros)
           /\ k = "else" /\ st.stack # <<>> => r = Branch(st, ~Last(st.stack).taken)
           /\ k = "endif" /\ st.stack # <<>> => r = [st EXCEPT !.stack = Front(st.stack)]
           /\ k = "define" /\ Active(st) => r = [st EXCEPT !.macros = st.macros \cup {line.name}]
           /\ k = "undef" /\ Active(st) => r = [st EXCEPT !.macros = st.macros \ {line.name}]
           /\ (/\ k \notin {"ifdef", "ifndef"} /\ ~(k \in {"elsif", "else", "endif"} /\ st.stack # <<>>)
               /\ ~(k \in {"define", "undef"} /\ Active(st))) => r = st
<1> DEFINE r == Directive(st, line)
           k == line.kind
<1>1. k = "ifdef" => r = Push(st, line.name \in st.macros)
  BY DEF Directive
<1>2. k = "ifndef" => r = Push(st, line.name \notin st.macros)
  BY DEF Directive
<1>3. k = "elsif" /\ st.stack # <<>> => r = Branch(st, ~Last(st.stack).taken /\ line.name \in st.macros)
  BY DEF Directive
<1>4. k = "else" /\ st.stack # <<>> => r = Branch(st, ~Last(st.stack).taken)
  BY DEF Directive
<1>5. k = "endif" /\ st.stack # <<>> => r = [st EXCEPT !.stack = Front(st.stack)]
  BY DEF Directive
<1>6. k = "define" /\ Active(st) => r = [st EXCEPT !.macros = st.macros \cup {line.name}]
  BY DEF Directive
<1>7. k = "undef" /\ Active(st) => r = [st EXCEPT !.macros = st.macros \ {line.name}]
  BY DEF Directive
<1>8. (/\ k \notin {"ifdef", "ifndef"} /\ ~(k \in {"elsif", "else", "endif"} /\ st.stack # <<>>)
       /\ ~(k \in {"define", "undef"} /\ Active(st))) => r = st
  <2> SUFFICES ASSUME k # "ifdef", k # "ifndef", ~(k = "elsif" /\ st.stack # <<>>),
                      ~(k = "else" /\ st.stack # <<>>), ~(k = "endif" /\ st.stack # <<>>),
                      ~(k = "define" /\ Active(st)), ~(k = "undef" /\ Active(st))
               PROVE  r = st
    <3> HIDE DEF r
    <3> QED OBVIOUS
  <2> QED BY DEF Directive
<1> QED BY <1>1, <1>2, <1>3, <1>4, <1>5, <1>6, <1>7, <1>8

LEMMA StackSets ==
    ASSUME NEW N, NEW n, NEW st \in PassState(N, n), NEW q \in Seq(Frames), NEW r, r = [st EXCEPT !.stack = q]
    PROVE  r \in PassState(N, n) /\ r.stack = q /\ r.macros = st.macros /\ r.kept = st.kept
BY DEF PassState

LEMMA PassIs ==
    ASSUME NEW K, NEW N, NEW lines \in Seq(LinesIn(K, N)), NEW n, n = Len(lines), NEW i \in 1..n,
           NEW st \in PassState(N, n), NEW r, r = Pass(lines, st, i)
    PROVE  r \in PassState(N, n) /\ Passed(st, r, lines, i)
<1>1. PICK line : line = lines[i]
  OBVIOUS
<1>2. line.name \in N
  <2>1. lines[i] \in LinesIn(K, N)
    <3>1. \A l \in 1..Len(lines) : lines[l] \in LinesIn(K, N)
      BY ElementOfSeq
    <3> QED BY <3>1
  <2> QED BY <1>1, <2>1 DEF LinesIn
<1>3. st.macros \in SUBSET N /\ st.stack \in Seq(Frames) /\ st.kept \in SUBSET (1..n)
  BY DEF PassState
<1>4. PICK k : k = line.kind
  OBVIOUS
<1>5. /\ Opens(lines, i) <=> k \in {"ifdef", "ifndef"}
      /\ Closes(lines, i) <=> k = "endif"
      /\ Branches(lines, i) <=> k \in {"elsif", "else"}
  BY <1>1, <1>4 DEF Opens, Closes, Branches
<1>6. CASE k = "text" /\ Active(st)
  <2>1. PICK x : x = st.kept \cup {i}
    OBVIOUS
  <2>2. r = [st EXCEPT !.kept = x]
    BY <1>1, <1>4, <1>6, <2>1, Zenon DEF Pass
  <2>3. x \in SUBSET (1..n)
    BY <1>3, <2>1
  <2>4. r \in PassState(N, n) /\ r.stack = st.stack /\ r.macros = st.macros /\ r.kept = x
    BY <2>2, <2>3 DEF PassState
  <2> QED BY <1>1, <1>4, <1>5, <1>6, <2>1, <2>4 DEF Passed
<1>7. ~(k = "text" /\ Active(st)) => r = Directive(st, line)
  BY <1>1, <1>4 DEF Pass
<1>8. CASE k \in {"ifdef", "ifndef"}
  <2>1. PICK x, y : x = (line.name \in st.macros) /\ y = (line.name \notin st.macros)
    OBVIOUS
  <2>2. PICK b \in BOOLEAN : r = Push(st, b) /\ b = IF k = "ifdef" THEN x ELSE y
    <3>1. x \in BOOLEAN /\ y \in BOOLEAN
      BY <2>1
    <3>2. k = "ifdef" => r = Push(st, x)
      BY <1>4, <1>7, <2>1, DirectiveIs
    <3>3. k = "ifndef" => r = Push(st, y)
      BY <1>4, <1>7, <2>1, DirectiveIs
    <3> QED BY <1>8, <3>1, <3>2, <3>3
  <2>3. b <=> Condition(st.macros, line)
    BY <1>4, <1>8, <2>1, <2>2 DEF Condition
  <2>4. r \in PassState(N, n) /\ r.macros = st.macros /\ r.kept = st.kept /\ Pushed(st.stack, r.stack, Active(st), b)
    BY <2>2, PushIs
  <2>5. Pushed(st.stack, r.stack, Active(st), Condition(st.macros, line))
    BY <2>3, <2>4 DEF Pushed
  <2> QED BY <1>1, <1>4, <1>5, <1>8, <2>4, <2>5 DEF Passed
<1>9. CASE k \in {"elsif", "else"} /\ st.stack # <<>>
  <2>1. PICK q, x, y, z : q = st.stack /\ z = Last(q).taken /\ x = (line.name \in st.macros) /\ y = TRUE
    OBVIOUS
  <2>0. z \in BOOLEAN
    <3>1. q \in Seq(Frames) /\ q # <<>>
      BY <1>3, <1>9, <2>1
    <3>2. Last(q) \in Frames
      BY <3>1, FrontIs
    <3> QED BY <2>1, <3>2 DEF Frames
  <2>2. PICK b \in BOOLEAN : r = Branch(st, ~Last(st.stack).taken /\ b) /\ b = IF k = "elsif" THEN x ELSE y
    <3>1. x \in BOOLEAN /\ y \in BOOLEAN
      BY <2>1
    <3>2. k = "elsif" => r = Branch(st, ~Last(st.stack).taken /\ x)
      BY <1>4, <1>7, <1>9, <2>1, DirectiveIs
    <3>3. k = "else" => r = Branch(st, ~Last(st.stack).taken /\ y)
      <4>1. (~z) = (~z /\ y)
        BY <2>0, <2>1
      <4>2. k = "else" => r = Branch(st, ~z)
        BY <1>4, <1>7, <1>9, <2>1, DirectiveIs
      <4> QED BY <2>1, <4>1, <4>2
    <3> QED BY <1>9, <3>1, <3>2, <3>3
  <2>3. b <=> Condition(st.macros, line)
    BY <1>4, <1>9, <2>1, <2>2 DEF Condition
  <2>4. r \in PassState(N, n) /\ r.macros = st.macros /\ r.kept = st.kept /\ Branched(st.stack, r.stack, b)
    BY <1>9, <2>2, BranchIs
  <2>5. Branched(st.stack, r.stack, Condition(st.macros, line))
    BY <2>3, <2>4 DEF Branched
  <2> QED BY <1>1, <1>4, <1>5, <1>9, <2>4, <2>5 DEF Passed
<1>10. CASE k = "endif" /\ st.stack # <<>>
  <2>1. PICK q : q = Front(st.stack)
    OBVIOUS
  <2>2. r = [st EXCEPT !.stack = q]
    BY <1>4, <1>7, <1>10, <2>1, DirectiveIs, ZenonT(60)
  <2>3. q \in Seq(Frames)
    BY <1>3, <1>10, <2>1, FrontIs
  <2>4. r \in PassState(N, n) /\ r.stack = q /\ r.macros = st.macros /\ r.kept = st.kept
    BY <2>2, <2>3, StackSets
  <2> QED BY <1>1, <1>4, <1>5, <1>10, <2>1, <2>4 DEF Passed
<1>11. CASE k = "define" /\ Active(st)
  <2>1. PICK m : m = st.macros \cup {line.name}
    OBVIOUS
  <2>2. r = [st EXCEPT !.macros = m]
    <3>1. Directive(st, line) = [st EXCEPT !.macros = st.macros \cup {line.name}]
      <4>1. line.kind = "define" /\ Active(st)
        BY <1>4, <1>11
      <4> QED BY <4>1, DirectiveIs, Zenon
    <3>2. r = Directive(st, line)
      BY <1>7, <1>11
    <3> QED BY <2>1, <3>1, <3>2, Zenon
  <2>3. m \in SUBSET N
    BY <1>2, <1>3, <2>1
  <2>4. r \in PassState(N, n) /\ r.stack = st.stack /\ r.macros = m /\ r.kept = st.kept
    BY <2>2, <2>3 DEF PassState
  <2> QED BY <1>1, <1>4, <1>5, <1>11, <2>1, <2>4 DEF Passed
<1>12. CASE k = "undef" /\ Active(st)
  <2>1. PICK m : m = st.macros \ {line.name}
    OBVIOUS
  <2>2. r = [st EXCEPT !.macros = m]
    <3>1. Directive(st, line) = [st EXCEPT !.macros = st.macros \ {line.name}]
      BY <1>4, <1>12 DEF Directive
    <3>2. r = Directive(st, line)
      BY <1>7, <1>12
    <3> QED BY <2>1, <3>1, <3>2, Zenon
  <2>3. m \in SUBSET N
    BY <1>2, <1>3, <2>1
  <2>4. r \in PassState(N, n) /\ r.stack = st.stack /\ r.macros = m /\ r.kept = st.kept
    BY <2>2, <2>3 DEF PassState
  <2> QED BY <1>1, <1>4, <1>5, <1>12, <2>1, <2>4 DEF Passed
<1>13. CASE /\ k \notin {"ifdef", "ifndef"} /\ ~(k \in {"elsif", "else", "endif"} /\ st.stack # <<>>)
            /\ ~(k \in {"define", "undef"} /\ Active(st)) /\ ~(k = "text" /\ Active(st))
  <2>1. r = st
    BY <1>4, <1>7, <1>13, DirectiveIs
  <2> QED BY <1>1, <1>4, <1>5, <1>13, <2>1 DEF Passed
<1> QED BY <1>6, <1>8, <1>9, <1>10, <1>11, <1>12, <1>13

\* The states of the pass, a line at a time.
Passes(run, lines, macros, N) ==
    /\ run \in [0..Len(lines) -> PassState(N, Len(lines))]
    /\ run[0] = St3(macros, <<>>, {})
    /\ \A i \in 1..Len(lines) : run[i] = Pass(lines, run[i - 1], i)
    /\ Selected(lines, macros) = run[Len(lines)].kept

LEMMA SelectedIs ==
    ASSUME NEW K, NEW N, NEW lines \in Seq(LinesIn(K, N)), NEW macros \in SUBSET N
    PROVE  \E run : Passes(run, lines, macros, N)
<1> DEFINE n == Len(lines)
           Y == PassState(N, n)
           D == [i \in DOMAIN lines |-> i]
           start == St3(macros, <<>>, {})
           step == [p \in Y \X (1..n) |-> Pass(lines, p[1], p[2])]
           It == CHOOSE iter : iter = [s \in SUBSET DOMAIN D |->
                     IF s = {} THEN start ELSE Pass(lines, iter[s \ {Max(s)}], D[Max(s)])]
<1>1. n \in Nat /\ DOMAIN lines = 1..n /\ DOMAIN D = 1..n /\ \A i \in 1..n : D[i] = i
  BY LenProperties
<1>2. Selected(lines, macros) = It[DOMAIN D].kept
  BY Zenon DEF Selected, FoldLeftDomain, FoldLeft, MapThenFoldSet, Pass, St3
<1> HIDE DEF n, It, D
<1>3. start \in Y
  BY EmptySeq DEF PassState, St3
<1>4. \A st \in Y, i \in 1..n : Pass(lines, st, i) \in Y
  <2> SUFFICES ASSUME NEW st \in Y, NEW i \in 1..n PROVE Pass(lines, st, i) \in Y
    OBVIOUS
  <2>1. PICK r : r = Pass(lines, st, i)
    OBVIOUS
  <2>2. r \in PassState(N, n)
    <3>1. n = Len(lines)
      BY DEF n
    <3> QED BY <2>1, <3>1, PassIs
  <2> QED BY <2>1, <2>2
<1> HIDE DEF Y, start
<1>5. PICK iter : Folds(iter, n, Y, start, step)
  <2>1. step \in [Y \X (1..n) -> Y]
    BY <1>4
  <2> HIDE DEF step
  <2> QED BY <1>1, <1>3, <2>1, Fold
<1>6. iter = [s \in SUBSET DOMAIN D |->
                IF s = {} THEN start ELSE Pass(lines, iter[s \ {Max(s)}], D[Max(s)])]
  <2>1. ASSUME NEW s \in SUBSET (1..n), s # {}
        PROVE  iter[s] = Pass(lines, iter[s \ {Max(s)}], D[Max(s)])
    <3>1. Max(s) \in 1..n /\ D[Max(s)] = Max(s)
      BY <1>1, <2>1, MaxIs
    <3>2. iter[s \ {Max(s)}] \in Y
      BY <1>5 DEF Folds
    <3> QED BY <1>5, <2>1, <3>1, <3>2 DEF Folds
  <2> HIDE DEF step
  <2> QED BY <1>1, <1>5, <2>1 DEF Folds
<1>7. It = [s \in SUBSET DOMAIN D |->
                IF s = {} THEN start ELSE Pass(lines, It[s \ {Max(s)}], D[Max(s)])]
  BY <1>6 DEF It
<1>8. It[1..0] = start /\ \A i \in 1..n : It[1..i] = Pass(lines, It[1..i - 1], i)
  <2>1. It[1..0] = start
    <3>1. 1..0 = {} /\ 1..0 \in SUBSET DOMAIN D
      OBVIOUS
    <3> QED BY <1>7, <3>1
  <2>2. ASSUME NEW i \in 1..n PROVE It[1..i] = Pass(lines, It[1..i - 1], i)
    <3>1. 1..i \in SUBSET DOMAIN D /\ 1..i # {} /\ Max(1..i) = i /\ (1..i) \ {i} = 1..i - 1 /\ D[i] = i
      <4>1. i \in 1..i /\ 1..i \in SUBSET DOMAIN D /\ i \in Nat \ {0}
        BY <1>1
      <4> QED BY <1>1, <4>1, MaxOfRange
    <3> QED BY <1>7, <3>1
  <2> QED BY <2>1, <2>2
<1> HIDE DEF It
<1> DEFINE run == [i \in 0..n |-> It[1..i]]
           T == {i \in 0..n : run[i] \in Y}
<1>9. run[0] = start /\ \A i \in 1..n : run[i] = Pass(lines, run[i - 1], i)
  BY <1>1, <1>8
<1>10. run = [i \in 0..n |-> run[i]] /\ run[n] = It[DOMAIN D]
  BY <1>1
<1> HIDE DEF run
<1>11. 0..n \subseteq T
  <2>1. 0 \in T
    BY <1>1, <1>3, <1>9
  <2>2. ASSUME NEW i \in 1..n, i - 1 \in T PROVE i \in T
    BY <1>4, <1>9, <2>2
  <2> HIDE DEF T
  <2> QED BY <1>1, <2>1, <2>2, StepByStep
<1>12. run \in [0..n -> Y]
  <2>1. \A i \in 0..n : run[i] \in Y
    BY <1>11
  <2> DEFINE g == [i \in 0..n |-> run[i]]
  <2>2. g \in [0..n -> Y]
    BY <2>1
  <2>3. run = g
    BY <1>10
  <2> HIDE DEF g
  <2> QED BY <2>2, <2>3
<1>13. Passes(run, lines, macros, N)
  BY <1>2, <1>9, <1>10, <1>12 DEF Passes, Y, start, n
<1> QED BY <1>13

\* What is known of the lines before i becomes known of line i, too.
Shown(lines, before, i) == \A k \in Around(lines, i) : Chosen(lines, before.macros, Heads(lines, k, i))

Redefined(lines, macros, active, i) ==
    CASE active /\ lines[i].kind = "define" -> macros \cup {lines[i].name}
      [] active /\ lines[i].kind = "undef" -> macros \ {lines[i].name}
      [] OTHER -> macros

Known(lines, before, i) ==
    [active |-> IF Shown(lines, before, i) THEN before.active \cup {i} ELSE before.active,
     macros |-> Append(before.macros, Redefined(lines, before.macros[i], Shown(lines, before, i), i))]

KnownState(N, n) == [active : SUBSET (1..n), macros : Seq(SUBSET N)]

KnownOf(r, before, lines, i) ==
    /\ Len(r.macros) = i + 1
    /\ \A h \in 1..i : r.macros[h] = before.macros[h]
    /\ r.macros[i + 1] = IF Shown(lines, before, i) /\ lines[i].kind = "define"
                         THEN before.macros[i] \cup {lines[i].name}
                         ELSE IF Shown(lines, before, i) /\ lines[i].kind = "undef"
                         THEN before.macros[i] \ {lines[i].name} ELSE before.macros[i]
    /\ r.active = IF Shown(lines, before, i) THEN before.active \cup {i} ELSE before.active

LEMMA KnownIs ==
    ASSUME NEW K, NEW N, NEW lines \in Seq(LinesIn(K, N)), NEW n, n = Len(lines), NEW i \in 1..n,
           NEW before \in KnownState(N, n), Len(before.macros) = i, NEW r, r = Known(lines, before, i)
    PROVE  r \in KnownState(N, n) /\ KnownOf(r, before, lines, i)
<1>1. PICK line, shown : line = lines[i] /\ shown = Shown(lines, before, i)
  OBVIOUS
<1>2. line.name \in N
  <2>1. lines[i] \in LinesIn(K, N)
    <3>1. \A l \in 1..Len(lines) : lines[l] \in LinesIn(K, N)
      BY ElementOfSeq
    <3> QED BY <3>1
  <2> QED BY <1>1, <2>1 DEF LinesIn
<1>3. PICK ms, a : ms = before.macros /\ a = before.active
  OBVIOUS
<1>4. ms \in Seq(SUBSET N) /\ a \in SUBSET (1..n) /\ Len(ms) = i /\ ms[i] \in SUBSET N
  <2>1. ms \in Seq(SUBSET N) /\ a \in SUBSET (1..n) /\ Len(ms) = i
    BY <1>3 DEF KnownState
  <2>2. \A l \in 1..Len(ms) : ms[l] \in SUBSET N
    BY <2>1, ElementOfSeq
  <2>3. i \in 1..Len(ms)
    BY <2>1
  <2> QED BY <2>1, <2>2, <2>3
<1>5. PICK m : m = Redefined(lines, ms[i], Shown(lines, before, i), i)
  OBVIOUS
<1>6. m = IF Shown(lines, before, i) /\ line.kind = "define" THEN ms[i] \cup {line.name}
          ELSE IF Shown(lines, before, i) /\ line.kind = "undef" THEN ms[i] \ {line.name} ELSE ms[i]
  <2>1. CASE Shown(lines, before, i) /\ line.kind = "define"
    BY <1>1, <1>5, <2>1 DEF Redefined
  <2>2. CASE Shown(lines, before, i) /\ line.kind = "undef"
    BY <1>1, <1>5, <2>2 DEF Redefined
  <2>3. CASE ~(Shown(lines, before, i) /\ line.kind = "define") /\ ~(Shown(lines, before, i) /\ line.kind = "undef")
    BY <1>1, <1>5, <2>3 DEF Redefined
  <2> QED BY <2>1, <2>2, <2>3
<1>7. m \in SUBSET N
  BY <1>2, <1>4, <1>6
<1>8. PICK q, b : q = Append(ms, m) /\ b = IF Shown(lines, before, i) THEN a \cup {i} ELSE a
  OBVIOUS
<1>9. q \in Seq(SUBSET N) /\ Len(q) = i + 1 /\ q[i + 1] = m /\ \A h \in 1..i : q[h] = ms[h]
  <2>1. PICK F : F = SUBSET N
    OBVIOUS
  <2>2. ms \in Seq(F) /\ m \in F
    BY <1>4, <1>7, <2>1
  <2>3. Append(ms, m) \in Seq(F) /\ Len(Append(ms, m)) = Len(ms) + 1 /\ Append(ms, m)[Len(ms) + 1] = m
        /\ \A h \in 1..Len(ms) : Append(ms, m)[h] = ms[h]
    BY <2>2, AppendProperties
  <2> QED BY <1>4, <1>8, <2>1, <2>3
<1>10. b \in SUBSET (1..n)
  BY <1>4, <1>8
<1>11. r = [active |-> b, macros |-> q]
  BY <1>3, <1>5, <1>8, Zenon DEF Known
<1>12. r \in KnownState(N, n) /\ r.active = b /\ r.macros = q
  BY <1>9, <1>10, <1>11 DEF KnownState
<1>13. Len(r.macros) = i + 1 /\ \A h \in 1..i : r.macros[h] = before.macros[h]
  BY <1>3, <1>9, <1>12
<1>14. r.macros[i + 1] = m /\ r.active = b
  BY <1>9, <1>12
<1> QED BY <1>1, <1>3, <1>6, <1>8, <1>12, <1>13, <1>14, Zenon DEF KnownOf

\* The states of the meaning, a line at a time.
Means(upTo, lines, macros, N) ==
    /\ upTo \in [0..Len(lines) -> KnownState(N, Len(lines))]
    /\ upTo[0].active = {} /\ upTo[0].macros = <<macros>>
    /\ \A i \in 1..Len(lines) : Len(upTo[i - 1].macros) = i /\ KnownOf(upTo[i], upTo[i - 1], lines, i)
    /\ Meaning(lines, macros) = {i \in upTo[Len(lines)].active : lines[i].kind = "text"}

LEMMA MeaningIs ==
    ASSUME NEW K, NEW N, NEW lines \in Seq(LinesIn(K, N)), NEW macros \in SUBSET N
    PROVE  \E upTo : Means(upTo, lines, macros, N)
<1> DEFINE n == Len(lines)
           Z == KnownState(N, n)
           start == [active |-> {}, macros |-> <<macros>>]
           step == [p \in (1..n) \X Z |-> IF Len(p[2].macros) = p[1] THEN Known(lines, p[2], p[1]) ELSE p[2]]
           It == CHOOSE upTo : upTo = [i \in 0..n |-> IF i = 0 THEN start ELSE Known(lines, upTo[i - 1], i)]
<1>1. n \in Nat
  BY LenProperties
<1>2. Meaning(lines, macros) = {i \in It[n].active : lines[i].kind = "text"}
  BY Zenon DEF Meaning, Known, Shown, Redefined, Chosen, True, Heads, Around, Depth, Opens, Branches
<1>3. start \in Z /\ Len(start.macros) = 1
  <2>1. PICK F : F = SUBSET N
    OBVIOUS
  <2>2. <<macros>> \in Seq(F) /\ Len(<<macros>>) = 1
    BY <2>1
  <2>3. PICK q : q = <<macros>>
    OBVIOUS
  <2>4. start = [active |-> {}, macros |-> q] /\ q \in Seq(SUBSET N) /\ Len(q) = 1
    BY <2>1, <2>2, <2>3
  <2> HIDE DEF start
  <2> QED BY <2>4 DEF KnownState
<1>4. ASSUME NEW i \in 1..n, NEW z \in Z, Len(z.macros) = i
      PROVE  Known(lines, z, i) \in Z /\ KnownOf(Known(lines, z, i), z, lines, i)
  <2>1. PICK r : r = Known(lines, z, i)
    OBVIOUS
  <2>2. PICK c : c = n
    OBVIOUS
  <2>3. r \in KnownState(N, c) /\ KnownOf(r, z, lines, i)
    BY <1>4, <2>1, <2>2, KnownIs
  <2> QED BY <2>1, <2>2, <2>3
<1> HIDE DEF n, Z, start, It
<1>5. step \in [(1..n) \X Z -> Z] /\ \A i \in 1..n, z \in Z : Len(z.macros) = i => step[<<i, z>>] = Known(lines, z, i)
  BY <1>4
<1> HIDE DEF step
<1>6. PICK g : Recurs(g, n, Z, start, step)
  BY <1>1, <1>3, <1>5, Recursion
<1>7. ASSUME NEW f, f[0] = start,
             \A i \in 1..n : f[i - 1] \in Z /\ Len(f[i - 1].macros) = i => f[i] = Known(lines, f[i - 1], i)
      PROVE  \A i \in 0..n : f[i] \in Z /\ Len(f[i].macros) = i + 1
  <2> DEFINE T == {i \in 0..n : f[i] \in Z /\ Len(f[i].macros) = i + 1}
  <2>1. 0 \in T
    BY <1>1, <1>3, <1>7
  <2>2. ASSUME NEW i \in 1..n, i - 1 \in T PROVE i \in T
    <3>1. PICK z : z = f[i - 1]
      OBVIOUS
    <3>2. z \in Z /\ Len(z.macros) = i
      BY <2>2, <3>1
    <3>3. f[i] = Known(lines, z, i)
      BY <1>7, <3>1, <3>2
    <3>4. f[i] \in Z /\ Len(f[i].macros) = i + 1
      <4>1. PICK r : r = Known(lines, z, i)
        OBVIOUS
      <4>2. r \in Z /\ KnownOf(r, z, lines, i)
        BY <1>4, <3>2, <4>1
      <4>3. Len(r.macros) = i + 1
        BY <4>2 DEF KnownOf
      <4> QED BY <3>3, <4>1, <4>2, <4>3
    <3> QED BY <3>4
  <2> HIDE DEF T
  <2>3. 0..n \subseteq T
    BY <1>1, <2>1, <2>2, StepByStep
  <2> QED BY <2>3 DEF T
<1>8. g[0] = start /\ g = [i \in 0..n |-> g[i]] /\ \A i \in 1..n : g[i] = step[<<i, g[i - 1]>>]
  BY <1>6 DEF Recurs
<1>9. \A i \in 0..n : g[i] \in Z /\ Len(g[i].macros) = i + 1
  <2>1. \A i \in 1..n : g[i - 1] \in Z /\ Len(g[i - 1].macros) = i => g[i] = Known(lines, g[i - 1], i)
    BY <1>5, <1>8
  <2> QED BY <1>7, <1>8, <2>1
<1>10. g = [i \in 0..n |-> IF i = 0 THEN start ELSE Known(lines, g[i - 1], i)]
  <2>1. ASSUME NEW i \in 0..n, i # 0 PROVE g[i] = Known(lines, g[i - 1], i)
    <3>1. PICK z : z = g[i - 1]
      OBVIOUS
    <3>2. i \in 1..n /\ i - 1 \in 0..n
      BY <1>1, <2>1
    <3>3. z \in Z /\ Len(z.macros) = i
      <4>1. Len(g[i - 1].macros) = (i - 1) + 1 /\ g[i - 1] \in Z
        BY <1>9, <3>2
      <4> QED BY <3>1, <4>1
    <3> QED BY <1>5, <1>8, <3>1, <3>2, <3>3
  <2> QED BY <1>8, <2>1
<1>11. It = [i \in 0..n |-> IF i = 0 THEN start ELSE Known(lines, It[i - 1], i)]
  BY <1>10 DEF It
<1>12. It[0] = start /\ It = [i \in 0..n |-> It[i]] /\ \A i \in 1..n : It[i] = Known(lines, It[i - 1], i)
  BY <1>1, <1>11
<1>13. \A i \in 0..n : It[i] \in Z /\ Len(It[i].macros) = i + 1
  BY <1>7, <1>12
<1>14. ASSUME NEW i \in 1..n PROVE Len(It[i - 1].macros) = i /\ KnownOf(It[i], It[i - 1], lines, i)
  <2>1. PICK z : z = It[i - 1]
    OBVIOUS
  <2>2. z \in Z /\ Len(z.macros) = i
    <3>1. i - 1 \in 0..n /\ (i - 1) + 1 = i
      BY <1>1
    <3> QED BY <1>13, <2>1, <3>1
  <2>3. KnownOf(It[i], z, lines, i)
    BY <1>4, <1>12, <2>1, <2>2
  <2> QED BY <2>1, <2>2, <2>3
<1>15. It \in [0..n -> Z]
  <2> DEFINE h == [i \in 0..n |-> It[i]]
  <2>1. h \in [0..n -> Z] /\ It = h
    BY <1>12, <1>13
  <2> HIDE DEF h
  <2> QED BY <2>1
<1>16. It[0].active = {} /\ It[0].macros = <<macros>>
  BY <1>12 DEF start
<1>17. Means(It, lines, macros, N)
  BY <1>2, <1>14, <1>15, <1>16 DEF Means, n, Z
<1> QED BY <1>17

LEMMA ChosenAlike ==
    ASSUME NEW n \in Nat, NEW lines, NEW a, NEW b, NEW heads \in SUBSET (1..n), heads # {},
           \A h \in heads : a[h] = b[h]
    PROVE  Chosen(lines, a, heads) <=> Chosen(lines, b, heads)
<1>1. PICK m \in heads : \A g \in heads : g <= m
  <2>1. Max(heads) \in heads /\ \A g \in heads : Max(heads) >= g
    BY MaxIs
  <2>2. PICK m \in heads : \A g \in heads : m >= g
    BY <2>1
  <2>3. \A g \in heads : g \in Nat
    OBVIOUS
  <2> QED BY <2>2, <2>3
<1>2. \A h \in heads : True(lines, a, h) <=> True(lines, b, h)
  BY TrueIs
<1>3. heads \in SUBSET Nat
  OBVIOUS
<1>4. Chosen(lines, a, heads) <=> True(lines, a, m) /\ \A g \in heads \ {m} : ~True(lines, a, g)
  BY <1>1, <1>3, ChosenIs
<1>5. Chosen(lines, b, heads) <=> True(lines, b, m) /\ \A g \in heads \ {m} : ~True(lines, b, g)
  BY <1>1, <1>3, ChosenIs
<1> QED BY <1>2, <1>4, <1>5

\* The stack of a state after line i is that of the conditionals that are open there.
Fits(st, i, n, lines, mac) == \E s : Nested(s, i, n, lines) /\ Framed(st.stack, s, i, lines, mac)

\* As long as the macros are those of the meaning, a line is active if it is meant.
LEMMA ActiveIsShown ==
    ASSUME NEW n \in Nat, NEW lines, NEW mac, NEW i \in 0..n - 1, NEW st, Fits(st, i, n, lines, mac),
           NEW before, \A h \in 1..i : before.macros[h] = mac[h]
    PROVE  Active(st) <=> Shown(lines, before, i + 1)
<1>1. PICK s : Nested(s, i, n, lines) /\ Framed(st.stack, s, i, lines, mac)
  BY DEF Fits
<1>2. i \in 0..n /\ s \in Seq(1..n) /\ DOMAIN s = 1..Len(s)
  BY <1>1, LenProperties DEF Nested
<1>3. Active(st) <=> \A k \in Around(lines, i + 1) : ChosenAt(lines, mac, k, i + 1)
  BY <1>1, <1>2, ActiveIs
<1>4. ASSUME NEW k \in Around(lines, i + 1)
      PROVE  ChosenAt(lines, mac, k, i + 1) <=> Chosen(lines, before.macros, Heads(lines, k, i + 1))
  <2>1. PICK m \in 1..Len(s) : k = s[m]
    <3>1. Around(lines, i + 1) = Elements(s)
      BY <1>1, <1>2, AroundIs
    <3> QED BY <1>2, <1>4, <3>1 DEF Elements
  <2>2. PICK j, heads, a : j = i + 1 /\ heads = Heads(lines, k, j) /\ a = before.macros
    OBVIOUS
  <2>3. k \in heads /\ heads \subseteq 1..i
    BY <1>1, <2>1, <2>2, HeadsAre, ZenonT(60)
  <2>4. heads \in SUBSET (1..n) /\ heads # {} /\ \A h \in heads : mac[h] = a[h]
    BY <2>2, <2>3
  <2>5. Chosen(lines, mac, heads) <=> Chosen(lines, a, heads)
    BY <2>4, ChosenAlike
  <2> QED BY <2>2, <2>5 DEF ChosenAt
<1> QED BY <1>3, <1>4 DEF Shown

\* One line keeps the stack what it is.
LEMMA PassFits ==
    ASSUME NEW n \in Nat, NEW lines, NEW mac, NEW i \in 0..n - 1, NEW N, NEW st \in PassState(N, n),
           Fits(st, i, n, lines, mac), st.macros = mac[i + 1],
           NEW r \in PassState(N, n), Passed(st, r, lines, i + 1)
    PROVE  Fits(r, i + 1, n, lines, mac)
<1> DEFINE j == i + 1
<1>1. PICK s : Nested(s, i, n, lines) /\ Framed(st.stack, s, i, lines, mac)
  BY DEF Fits
<1>2. PICK q : q = st.stack
  OBVIOUS
<1>3. s \in Seq(1..n) /\ DOMAIN s = 1..Len(s) /\ q \in Seq(Frames) /\ Len(q) = Len(s) /\ i \in 0..n
  BY <1>1, <1>2, LenProperties DEF Nested, Framed
<1>4. q = <<>> <=> s = <<>>
  BY <1>3, EmptySeq
<1>5. Nested(Nest(s, lines, j), j, n, lines)
  BY <1>1, NestedStep
<1>6. Condition(st.macros, lines[j]) <=> True(lines, mac, j)
  BY TrueIs DEF Condition
<1>7. SUFFICES Framed(r.stack, Nest(s, lines, j), j, lines, mac)
  BY <1>5 DEF Fits
<1>8. CASE Opens(lines, j)
  <2>1. Pushed(q, r.stack, Active(st), Condition(st.macros, lines[j]))
    BY <1>2, <1>8 DEF Passed
  <2>2. PICK frame \in Frames : /\ r.stack = Append(q, frame)
                                /\ frame.parent <=> Active(st)
                                /\ frame.taken <=> Condition(st.macros, lines[j])
                                /\ frame.active <=> frame.parent /\ frame.taken
    BY <2>1 DEF Pushed
  <2>3. Active(st) <=> \A l \in 1..Len(s) : ChosenAt(lines, mac, s[l], j)
    <3>1. Active(st) <=> \A k \in Around(lines, j) : ChosenAt(lines, mac, k, j)
      BY <1>1, <1>3, ActiveIs
    <3>2. Around(lines, j) = {s[l] : l \in 1..Len(s)}
      <4>1. Around(lines, j) = Elements(s)
        BY <1>1, <1>3, AroundIs
      <4> QED BY <1>3, <4>1 DEF Elements
    <3> QED BY <3>1, <3>2
  <2>4. /\ frame.parent <=> \A l \in 1..Len(s) : ChosenAt(lines, mac, s[l], j)
        /\ frame.taken <=> True(lines, mac, j)
    BY <1>6, <2>2, <2>3
  <2>5. Framed(Append(q, frame), Append(s, j), j, lines, mac)
    BY <1>1, <1>2, <1>8, <2>2, <2>4, FramePushes
  <2>6. Nest(s, lines, j) = Append(s, j)
    BY <1>8 DEF Nest
  <2> QED BY <2>2, <2>5, <2>6
<1>9. CASE Branches(lines, j) /\ s # <<>>
  <2>1. Branched(q, r.stack, Condition(st.macros, lines[j]))
    BY <1>2, <1>4, <1>9 DEF Passed
  <2>2. PICK frame \in Frames, matched \in BOOLEAN :
            /\ r.stack = Append(Front(q), frame)
            /\ matched <=> ~Last(q).taken /\ Condition(st.macros, lines[j])
            /\ frame.parent <=> Last(q).parent
            /\ frame.taken <=> Last(q).taken \/ matched
            /\ frame.active <=> Last(q).parent /\ matched
    BY <2>1 DEF Branched
  <2>3. matched <=> ~Last(q).taken /\ True(lines, mac, j)
    BY <1>6, <2>2
  <2>4. Framed(Append(Front(q), frame), s, j, lines, mac)
    BY <1>1, <1>2, <1>9, <2>2, <2>3, FrameBranches
  <2>5. Nest(s, lines, j) = s
    BY <1>9 DEF Nest, Opens, Closes, Branches
  <2> QED BY <2>2, <2>4, <2>5
<1>10. CASE Closes(lines, j) /\ s # <<>>
  <2>1. r.stack = Front(q)
    BY <1>2, <1>4, <1>10 DEF Passed
  <2>2. Framed(Front(q), Front(s), j, lines, mac)
    BY <1>1, <1>2, <1>10, FramePops
  <2>3. Nest(s, lines, j) = Front(s)
    BY <1>10 DEF Nest, Opens, Closes
  <2> QED BY <2>1, <2>2, <2>3
<1>11. CASE ~Opens(lines, j) /\ ~((Branches(lines, j) \/ Closes(lines, j)) /\ s # <<>>)
  <2>1. r.stack = q
    BY <1>2, <1>4, <1>11 DEF Passed
  <2>2. ~Branches(lines, j) \/ s = <<>>
    BY <1>11
  <2>3. Framed(q, s, j, lines, mac)
    BY <1>1, <1>2, <2>2, AllStay
  <2>4. Nest(s, lines, j) = s
    BY <1>11 DEF Nest
  <2> QED BY <2>1, <2>3, <2>4
<1> QED BY <1>8, <1>9, <1>10, <1>11

\* The macros that hold before a line, once they are known.
MacrosOf(u, n) == [h \in 1..n |-> u[h - 1].macros[h]]

LEMMA MacrosStay ==
    ASSUME NEW K, NEW N, NEW lines \in Seq(LinesIn(K, N)), NEW macros, NEW u, Means(u, lines, macros, N),
           NEW n, n = Len(lines)
    PROVE  \A i \in 0..n - 1 : \A h \in 1..i + 1 : u[i].macros[h] = MacrosOf(u, n)[h]
<1>1. n \in Nat
  BY LenProperties
<1>2. \A i \in 1..n : KnownOf(u[i], u[i - 1], lines, i)
  BY DEF Means
<1> DEFINE mac == MacrosOf(u, n)
<1>3. \A h \in 1..n : mac[h] = u[h - 1].macros[h]
  BY DEF MacrosOf
<1> HIDE DEF mac
<1> DEFINE T == {i \in 0..n : i < n => \A h \in 1..i + 1 : u[i].macros[h] = mac[h]}
<1>4. 0 \in T
  BY <1>1, <1>3
<1>5. ASSUME NEW i \in 1..n, i - 1 \in T PROVE i \in T
  <2>1. ASSUME i < n, NEW h \in 1..i + 1 PROVE u[i].macros[h] = mac[h]
    <3>1. CASE h \in 1..i
      <4>1. u[i].macros[h] = u[i - 1].macros[h]
        BY <1>2, <3>1 DEF KnownOf
      <4>2. u[i - 1].macros[h] = mac[h]
        BY <1>1, <1>5, <2>1, <3>1
      <4> QED BY <4>1, <4>2
    <3>2. CASE h = i + 1
      <4>1. h \in 1..n /\ h - 1 = i
        BY <1>1, <2>1, <3>2
      <4> QED BY <1>3, <4>1
    <3> QED BY <1>1, <2>1, <3>1, <3>2
  <2> QED BY <2>1
<1> HIDE DEF T
<1>6. 0..n \subseteq T
  BY <1>1, <1>4, <1>5, StepByStep
<1>7. \A i \in 0..n - 1 : i \in 0..n /\ i < n
  BY <1>1
<1> QED BY <1>6, <1>7 DEF T, mac

\* One line: the pass keeps in step with the meaning.
InStep(st, before, i, n, lines, mac) ==
    /\ Fits(st, i, n, lines, mac)
    /\ i < n => st.macros = mac[i + 1]
    /\ st.kept = {l \in before.active : lines[l].kind = "text"}

LEMMA KeepsInStep ==
    ASSUME NEW n \in Nat, NEW lines, NEW mac, NEW i \in 1..n, NEW N,
           NEW st \in PassState(N, n), NEW r \in PassState(N, n), Passed(st, r, lines, i),
           NEW before, NEW after, KnownOf(after, before, lines, i),
           \A h \in 1..i : before.macros[h] = mac[h], i < n => after.macros[i + 1] = mac[i + 1],
           InStep(st, before, i - 1, n, lines, mac)
    PROVE  InStep(r, after, i, n, lines, mac)
<1>1. PICK c : c = i - 1
  OBVIOUS
<1>2. c \in 0..n - 1 /\ c + 1 = i /\ c < n
  BY <1>1
<1>3. Fits(st, c, n, lines, mac) /\ st.macros = mac[c + 1]
      /\ st.kept = {l \in before.active : lines[l].kind = "text"}
  BY <1>1, <1>2 DEF InStep
<1>4. Active(st) <=> Shown(lines, before, i)
  <2>1. \A h \in 1..c : before.macros[h] = mac[h]
    BY <1>2
  <2>2. Active(st) <=> Shown(lines, before, c + 1)
    BY <1>2, <1>3, <2>1, ActiveIsShown
  <2> QED BY <1>2, <2>2
<1>5. Fits(r, i, n, lines, mac)
  <2>1. Passed(st, r, lines, c + 1)
    BY <1>2
  <2>2. Fits(r, c + 1, n, lines, mac)
    BY <1>2, <1>3, <2>1, PassFits
  <2> QED BY <1>2, <2>2
<1>6. r.macros = after.macros[i + 1]
  <2>1. before.macros[i] = st.macros
    BY <1>2, <1>3
  <2> QED BY <1>4, <2>1 DEF Passed, KnownOf
<1>7. r.kept = {l \in after.active : lines[l].kind = "text"}
  <2>1. after.active = IF Active(st) THEN before.active \cup {i} ELSE before.active
    BY <1>4 DEF KnownOf
  <2>2. r.kept = IF Active(st) /\ lines[i].kind = "text" THEN st.kept \cup {i} ELSE st.kept
    BY DEF Passed
  <2>3. PICK x, y : x = after.active /\ y = r.kept
    OBVIOUS
  <2> QED BY <1>3, <2>1, <2>2
<1> QED BY <1>5, <1>6, <1>7 DEF InStep

\* sv_module.py:139.  For every list of lines, with whatever names and nesting:
\* one pass with a stack keeps exactly the lines that the text means to keep.
THEOREM ConditionalsAreMeant ==
    ASSUME NEW K, NEW N, NEW lines \in Seq(LinesIn(K, N)), NEW macros \in SUBSET N
    PROVE  ConditionalsAreResolved(lines, macros)
<1>1. PICK n : n = Len(lines)
  OBVIOUS
<1>2. n \in Nat
  BY <1>1, LenProperties
<1>3. PICK run : Passes(run, lines, macros, N)
  BY SelectedIs
<1>4. PICK u : Means(u, lines, macros, N)
  BY MeaningIs
<1>5. PICK mac : mac = MacrosOf(u, n)
  OBVIOUS
<1>6. \A i \in 0..n - 1 : \A h \in 1..i + 1 : u[i].macros[h] = mac[h]
  BY <1>1, <1>4, <1>5, MacrosStay
<1>7. /\ \A i \in 0..n : run[i] \in PassState(N, n)
      /\ run[0] = St3(macros, <<>>, {})
      /\ \A i \in 1..n : run[i] = Pass(lines, run[i - 1], i)
      /\ Selected(lines, macros) = run[n].kept
  BY <1>1, <1>3 DEF Passes
<1>8. /\ u[0].active = {} /\ u[0].macros = <<macros>>
      /\ \A i \in 1..n : KnownOf(u[i], u[i - 1], lines, i)
      /\ Meaning(lines, macros) = {i \in u[n].active : lines[i].kind = "text"}
  BY <1>1, <1>4 DEF Means
<1> DEFINE T == {i \in 0..n : InStep(run[i], u[i], i, n, lines, mac)}
<1>9. 0 \in T
  <2>1. run[0].stack = <<>> /\ run[0].macros = macros /\ run[0].kept = {}
    BY <1>7 DEF St3
  <2>2. Framed(<<>>, <<>>, 0, lines, mac)
    BY DEF Framed
  <2>3. Nested(<<>>, 0, n, lines)
    BY <1>2, NestedStarts
  <2>4. Fits(run[0], 0, n, lines, mac)
    BY <2>1, <2>2, <2>3 DEF Fits
  <2>5. 0 < n => macros = mac[0 + 1]
    <3>1. ASSUME 0 < n PROVE u[0].macros[1] = mac[1]
      BY <1>2, <1>6, <3>1
    <3>2. <<macros>>[1] = macros
      OBVIOUS
    <3> QED BY <1>8, <3>1, <3>2
  <2>6. InStep(run[0], u[0], 0, n, lines, mac)
    BY <1>8, <2>1, <2>4, <2>5 DEF InStep
  <2> QED BY <1>2, <2>6
<1>10. ASSUME NEW i \in 1..n, i - 1 \in T PROVE i \in T
  <2>1. PICK st, r, before, after : st = run[i - 1] /\ r = run[i] /\ before = u[i - 1] /\ after = u[i]
    OBVIOUS
  <2>2. i - 1 \in 0..n - 1 /\ i \in 0..n /\ i - 1 \in 0..n
    BY <1>2
  <2>3. st \in PassState(N, n) /\ r \in PassState(N, n) /\ r = Pass(lines, st, i)
    BY <1>7, <2>1, <2>2
  <2>4. Passed(st, r, lines, i)
    BY <1>1, <2>3, PassIs
  <2>5. KnownOf(after, before, lines, i)
    BY <1>8, <2>1
  <2>6. \A h \in 1..i : before.macros[h] = mac[h]
    <3>1. (i - 1) + 1 = i
      OBVIOUS
    <3> QED BY <1>6, <2>1, <2>2, <3>1
  <2>7. i < n => after.macros[i + 1] = mac[i + 1]
    BY <1>2, <1>6, <2>1
  <2>8. InStep(st, before, i - 1, n, lines, mac)
    BY <1>10, <2>1
  <2>9. InStep(r, after, i, n, lines, mac)
    BY <1>2, <2>3, <2>4, <2>5, <2>6, <2>7, <2>8, KeepsInStep
  <2> QED BY <2>1, <2>2, <2>9
<1> HIDE DEF T
<1>11. n \in T
  <2>1. 0..n \subseteq T
    BY <1>2, <1>9, <1>10, StepByStep
  <2> QED BY <1>2, <2>1
<1>12. run[n].kept = {l \in u[n].active : lines[l].kind = "text"}
  BY <1>11 DEF T, InStep
<1>13. Selected(lines, macros) = Meaning(lines, macros)
  BY <1>7, <1>8, <1>12
<1> QED BY <1>13 DEF ConditionalsAreResolved

Created == INSTANCE WorkspaceSetup

-----------------------------------------------------------------------------
(* A pair of a core and a SoC. *)

\* What is wrong with the two entries themselves.
Hard(core, soc) ==
    Code("isa", core.isa # {} /\ soc.isa # {} /\ Expanded(core.isa) \cap Expanded(soc.isa) = {})
    \cup Code("socket", ~Agree(core.socket, soc.socket))
    \cup Code("reset", ~Agree(core.reset, soc.reset))
    \cup Code("core_sim", ~SimReady(core)) \cup Code("soc_sim", ~SimReady(soc))

\* Whatever a rule is called, it is broken or it is not.
LEMMA CodeSays ==
    ASSUME NEW c, NEW holds \in BOOLEAN
    PROVE  Code(c, holds) \subseteq {c} /\ (c \in Code(c, holds) <=> holds)
BY SMTT(60) DEF Code

\* The fields of compatibility_for_pair's answer.
LEMMA PairIs ==
    ASSUME NEW core, NEW soc, NEW suites
    PROVE  LET p == Pair(core, soc, suites) IN
           /\ p.suites = IF Hard(core, soc) = {} THEN Offered(core, suites) \cap Offered(soc, suites)
                         ELSE {}
           /\ p.issues = Hard(core, soc)
                 \cup Code("no_suite", SimReady(core) /\ SimReady(soc) /\ p.suites = {})
           /\ p.creatable = (p.issues = {})
           /\ p.support = "supported" <=>
                 p.creatable /\ core.status = "stable" /\ soc.status = "stable"
           /\ p.creatable => p.status \in {"requires_filelist", "ready", "experimental"}
<1> QED BY DEF Pair, Hard

\* A pair that can be created has two entries that are ready, and a common suite.
LEMMA CreatablePair ==
    ASSUME NEW core, NEW soc, NEW suites, Pair(core, soc, suites).creatable
    PROVE  /\ SimReady(core) /\ SimReady(soc) /\ Hard(core, soc) = {}
           /\ Pair(core, soc, suites).suites # {}
           /\ Pair(core, soc, suites).suites = Offered(core, suites) \cap Offered(soc, suites)
           /\ Pair(core, soc, suites).status \notin {"planned", "needs_cpu_adapter"}
<1> DEFINE p == Pair(core, soc, suites)
<1>1. p.issues = {} /\ Hard(core, soc) = {}
  BY PairIs, ZenonT(60)
<1>2. ~~SimReady(core) /\ ~~SimReady(soc)
  BY <1>1 DEF Hard, Code, SimReady
<1>3. ~(SimReady(core) /\ SimReady(soc) /\ p.suites = {})
  <2>1. p.issues = Hard(core, soc) \cup Code("no_suite", SimReady(core) /\ SimReady(soc) /\ p.suites = {})
    BY PairIs, ZenonT(60)
  <2>2. Code("no_suite", SimReady(core) /\ SimReady(soc) /\ p.suites = {}) = {}
    BY <1>1, <2>1
  <2> QED BY <2>2 DEF Code
<1>4. p.suites = Offered(core, suites) \cap Offered(soc, suites)
  BY <1>1, PairIs
<1>5. p.status \in {"requires_filelist", "ready", "experimental"}
  BY PairIs
<1>6. p.status \notin {"planned", "needs_cpu_adapter"}
  BY <1>5
<1> QED BY <1>1, <1>2, <1>3, <1>4, <1>6 DEF SimReady

-----------------------------------------------------------------------------
(* The matrix and the validation. *)

\* The suites of a catalog have distinct ids.
Indexed(suites) == \A s, t \in suites : s.id = t.id => s = t

\* An entry offers suites that it declares, if it declares any, and none that is planned.
LEMMA OfferedIs ==
    ASSUME NEW e, NEW suites, NEW s \in suites, Indexed(suites), s.id \in Offered(e, suites)
    PROVE  s.status # "planned" /\ (e.suites # {} => s.id \in e.suites)
<1>1. s.id \in {t.id : t \in {t \in suites : t.status # "planned"}}
  BY DEF Offered
<1>2. PICK t \in suites : t.status # "planned" /\ t.id = s.id
  BY <1>1
<1>3. s.status # "planned"
  BY <1>2 DEF Indexed
<1>4. e.suites # {} => s.id \in e.suites
  BY DEF Offered
<1> QED BY <1>3, <1>4

\* Of four entries that fit the matrix nothing is wrong: the rules that the
\* validation has in addition follow from those of the pair.
LEMMA ChoiceFits ==
    ASSUME NEW c, NEW suites, Indexed(suites), c.suite \in suites
    PROVE  ChoiceIssues(c, suites) = {} <=>
              /\ Common({c.core, c.soc, c.toolchain, c.suite})
              /\ Pair(c.core, c.soc, suites).creatable
              /\ c.suite.id \in Pair(c.core, c.soc, suites).suites
<1> DEFINE pair == Pair(c.core, c.soc, suites)
           common == Common({c.core, c.soc, c.toolchain, c.suite})
<1>c. common \in BOOLEAN
  BY DEF Common
<1> HIDE DEF common
<1>1. pair.creatable <=> pair.issues = {}
  BY PairIs, ZenonT(60)
<1>2. ASSUME ChoiceIssues(c, suites) = {} PROVE common /\ pair.issues = {} /\ c.suite.id \in pair.suites
  BY <1>c, <1>2 DEF ChoiceIssues, Code, common
<1>3. ASSUME common, pair.issues = {}, c.suite.id \in pair.suites
      PROVE  ChoiceIssues(c, suites) = {}
  <2>1. c.suite.id \in Offered(c.core, suites) /\ c.suite.id \in Offered(c.soc, suites)
    BY <1>1, <1>3, CreatablePair
  <2>2. c.suite.status # "planned" /\ (c.soc.suites # {} => c.suite.id \in c.soc.suites)
        /\ (c.core.suites # {} => c.suite.id \in c.core.suites)
    BY <2>1, OfferedIs
  <2>3. c.soc.suites # {} => Harness(c.suite, c.soc)
    BY <2>2 DEF Harness
  <2> QED BY <1>c, <1>3, <2>2, <2>3 DEF ChoiceIssues, Code, common
<1> QED BY <1>1, <1>2, <1>3 DEF common

\* The matrix that the desktop offers and the validation of create accept the same
\* (compatibility_for_pair, validate_frontend_config): for any catalog whose suites
\* have ids of their own, whatever the list of the user is like.
THEOREM MatrixIsTheValidation ==
    ASSUME NEW c, NEW suites, NEW p, Indexed(suites), c.suite \in suites \cup {NoEntry}
    PROVE  MatrixMeansCreatable(c, suites, p)
<1> SUFFICES ASSUME NoEntry \notin {c.core, c.soc, c.toolchain, c.suite}
             PROVE  MatrixMeansCreatable(c, suites, p)
  BY DEF MatrixMeansCreatable
<1>s. c.suite \in suites
  OBVIOUS
<1> DEFINE v == Validate(c, suites, p)
           pair == Pair(c.core, c.soc, suites)
<1>1. v.ok <=> v.errors = {}
  BY DEF Validate
<1>2. v.errors = {} <=> /\ ChoiceIssues(c, suites) = {} /\ ListIssues(c, p) = {}
                        /\ ~(c.top /\ c.core.id # "custom-filelist")
                        /\ ~(c.top /\ ~c.identifier)
  BY DEF Validate, Code
<1>3. v.support = "supported" => pair.support = "supported"
  BY DEF Validate
<1>4. pair.creatable => pair.suites # {} /\ pair.status \notin {"planned", "needs_cpu_adapter"}
  BY CreatablePair
<1> QED BY <1>s, <1>1, <1>2, <1>3, <1>4, ChoiceFits DEF MatrixMeansCreatable

-----------------------------------------------------------------------------
(* The check of the catalog. *)

\* No file has the empty path, which stands for a field that is not filled in.
EmptyIsNoFile(soc) == "" \notin Present(soc)

\* Of two entries that the check of the catalog passes, only the choice of ISA,
\* reset vector or suites can be wrong; and of the files that the options of a SoC name
\* only those can be missing that are in a bundle, where the check finds them and the
\* options do not look, and default drivers of a manifest that lists no sources
\* (check_catalog_contracts, compatibility_for_pair, runtime_options).
THEOREM CheckedCatalogsFit ==
    ASSUME NEW core, NEW soc, NEW suites, EmptyIsNoFile(soc),
           DOMAIN soc.sources \subseteq {1}, soc.sources # <<>> => 1 \in DOMAIN soc.sources
    PROVE  CheckedEntriesFit(core, soc, suites)
<1>1. CheckPair(Pair(core, soc, suites)) = {}
  <2>1. ~(Pair(core, soc, suites).creatable /\ Pair(core, soc, suites).suites = {})
    BY CreatablePair
  <2> QED BY <2>1 DEF CheckPair, Code
<1>2. ASSUME SimReady(core), SimReady(soc), CheckCpu(core) = {}, CheckSoc(soc) = {}
      PROVE  Pair(core, soc, suites).issues \subseteq {"isa", "reset", "no_suite"}
  <2>1. core.socket = "s1" /\ soc.socket = "s1"
    BY <1>2 DEF CheckCpu, CheckSoc, Code
  <2>2. Hard(core, soc) \subseteq {"isa", "reset"}
    BY <1>2, <2>1 DEF Hard, Code, Agree, SimReady
  <2>3. Pair(core, soc, suites).issues = Hard(core, soc)
           \cup Code("no_suite", SimReady(core) /\ SimReady(soc) /\ Pair(core, soc, suites).suites = {})
    BY PairIs, ZenonT(60)
  <2> QED BY <2>2, <2>3 DEF Code
<1>3. ASSUME SimReady(soc), CheckSoc(soc) = {}, NEW options, options = SocOptions(soc)
      PROVE  /\ soc.manifestReady => DOMAIN options.paths = ManifestFields
             /\ \A f \in DOMAIN options.paths : options.paths[f] \in Present(soc)
             /\ soc.sources # <<>> => options.sources \subseteq Present(soc)
             /\ options.sources \subseteq Present(soc) \cup soc.drivers
  <2>1. /\ soc.hasManifest /\ \A f \in ManifestFields : soc.manifest[f] \in Present(soc)
        /\ \A i \in DOMAIN soc.sources : soc.sources[i] \subseteq Present(soc)
    BY <1>3 DEF CheckSoc, Code
  <2>2. \A f \in ManifestFields : soc.manifest[f] # ""
    BY <2>1, Zenon DEF EmptyIsNoFile
  <2>3. CASE soc.manifestReady
    <3>1. /\ options.paths = [f \in ManifestFields |-> soc.manifest[f]]
          /\ options.sources = IF soc.sources # <<>> THEN soc.sources[1] ELSE soc.drivers
      BY <1>3, <2>1, <2>2, <2>3 DEF SocOptions
    <3> QED BY <2>1, <3>1
  <2>4. CASE ~soc.manifestReady
    <3>1. options.paths = [f \in {} |-> ""] /\ options.sources = {}
      BY <1>3, <2>1, <2>4 DEF SocOptions
    <3> QED BY <2>4, <3>1
  <2> QED BY <2>3, <2>4
<1>4. ASSUME SimReady(soc), CheckSoc(soc) = {}, NEW options, options = SocOptions(soc)
      PROVE  /\ soc.manifestReady => DOMAIN options.paths = ManifestFields
             /\ ({options.paths[f] : f \in DOMAIN options.paths} \cup options.sources) \ soc.there
                   \subseteq soc.bundled \cup (IF soc.sources = <<>> THEN soc.drivers ELSE {})
  BY <1>3, <1>4 DEF Present
<1> QED BY <1>1, <1>2, <1>4 DEF CheckedEntriesFit

-----------------------------------------------------------------------------
(* The suites of a workspace. *)

\* A suite is let through only by both the core and the SoC of the workspace, as far
\* as its fields or, for one that is not there, the table of known ids say anything
\* (_workspace_test_suite_contract).
THEOREM SuitesAreNarrowed ==
    ASSUME NEW w, w.hasCore \in BOOLEAN, w.hasSoc \in BOOLEAN,
           w.core # {} => w.hasCore, w.soc # {} => w.hasSoc
    PROVE  Created!SuitesNeverWiden(w)
<1> DEFINE c == Created!SuiteContract(w)
           core == Created!CoreFallback(w.coreId)
           soc == Created!SocFallback(w.socId)
<1>1. CASE w.hasCore /\ w.hasSoc
  BY <1>1 DEF Created!SuiteContract, Created!SuitesNeverWiden
<1>2. CASE w.hasCore /\ ~w.hasSoc
  BY <1>2 DEF Created!SuiteContract, Created!SuitesNeverWiden
<1>3. CASE ~w.hasCore /\ w.hasSoc
  BY <1>3 DEF Created!SuiteContract, Created!SuitesNeverWiden
<1>4. CASE ~w.hasCore /\ ~w.hasSoc
  <2>1. core.known \in BOOLEAN /\ (core.suites # {} => core.known)
    BY DEF Created!CoreFallback
  <2>2. soc.known \in BOOLEAN /\ (soc.known <=> soc.suites # {})
    BY DEF Created!SocFallback, Created!AllSuites
  <2>3. w.core = {} /\ w.soc = {}
    BY <1>4
  <2>4. CASE core.suites # {} /\ soc.suites # {}
    BY <1>4, <2>1, <2>2, <2>3, <2>4 DEF Created!SuiteContract, Created!SuitesNeverWiden
  <2>5. CASE core.suites # {} /\ soc.suites = {}
    <3>1. c = core
      BY <1>4, <2>3, <2>5 DEF Created!SuiteContract
    <3> QED BY <1>4, <2>1, <2>2, <2>5, <3>1 DEF Created!SuitesNeverWiden
  <2>6. CASE core.suites = {} /\ soc.suites # {}
    BY <1>4, <2>1, <2>2, <2>3, <2>6 DEF Created!SuiteContract, Created!SuitesNeverWiden
  <2>7. CASE core.suites = {} /\ soc.suites = {}
    BY <1>4, <2>1, <2>2, <2>3, <2>7 DEF Created!SuiteContract, Created!SuitesNeverWiden
  <2> QED BY <2>4, <2>5, <2>6, <2>7
<1> QED BY <1>1, <1>2, <1>3, <1>4

-----------------------------------------------------------------------------
(* One case. *)

\* What a program may print itself, and how a simulation of the repository's SoC
\* ends: a mismatch makes the DPI call fail, which ends it before CoreMark validates.
MayRun(run) ==
    /\ run.ending \in {"good", "bad", "limit", "finish"}
    /\ run.compared \in BOOLEAN /\ run.mismatch \in BOOLEAN
    /\ run.prints \subseteq {"validated", "errors", "FAILED", "%Error"}
    /\ run.mismatch => run.ending = "finish" /\ "validated" \notin run.prints

\* What a simulator that returns 0 has printed.
LEMMA Printed ==
    ASSUME NEW args, NEW run, MayRun(run)
    PROVE  LET out == Simulator(args, run)
               diff == "--diff" \in args IN
           /\ "good" \in out.text <=> run.ending = "good" /\ (diff => run.compared)
           /\ "bad" \in out.text <=> run.ending = "bad"
           /\ "limit" \in out.text <=> run.ending = "limit"
           /\ "enabled" \in out.text <=> diff
           /\ "mismatch" \in out.text <=> diff /\ run.mismatch
           /\ "passed" \in out.text <=> diff /\ run.ending \in {"good", "finish"} /\ run.compared
           /\ \A m \in {"validated", "errors", "FAILED", "%Error"} :
                  m \in out.text <=> m \in run.prints
           /\ out.rc = 0 <=> \/ run.ending = "limit" /\ "--timeout-ok" \in args
                             \/ run.ending \in {"good", "finish"} /\ (diff => run.compared)
<1>1. run.ending \in {"good", "bad", "limit", "finish"}
  BY DEF MayRun
<1>2. CASE run.ending = "good"
  BY <1>2 DEF Simulator, MayRun
<1>3. CASE run.ending = "bad"
  BY <1>3 DEF Simulator, MayRun
<1>4. CASE run.ending = "limit"
  BY <1>4 DEF Simulator, MayRun
<1>5. CASE run.ending = "finish"
  BY <1>5 DEF Simulator, MayRun
<1> QED BY <1>1, <1>2, <1>3, <1>4, <1>5

\* The verdict on a case and what is said of how it ended do not contradict one
\* another, for every output of the simulator (_case_output_ok, _sim_case_metrics,
\* _simulation_failure).
THEOREM VerdictsFit ==
    ASSUME NEW coremark \in BOOLEAN, NEW args, NEW run, MayRun(run)
    PROVE  VerdictFitsTermination(coremark, args, Simulator(args, run))
<1> QED BY Printed DEF VerdictFitsTermination, CaseOk, OutputOk, Metrics, FailureKind, MayRun

-----------------------------------------------------------------------------
(* The cases of a step. *)

\* What the later judgements take from a case of cases.json.
JudgedCase(c) ==
    /\ c.ok \in BOOLEAN /\ c.log = TRUE
    /\ c.ok /\ c.enabled => c.difftest = "passed"

\* Every case report of the step has it.
LEMMA ReportJudged ==
    ASSUME NEW coremark \in BOOLEAN, NEW args, NEW run, MayRun(run), NEW case,
           DOMAIN case \cap {"ok", "log", "enabled", "difftest"} = {}
    PROVE  JudgedCase(CaseReport(coremark, args, Simulator(args, run), case))
<1> DEFINE out == Simulator(args, run)
           ok == CaseOk(coremark, args, out)
           m == Metrics(args, out, ok)
           c == CaseReport(coremark, args, out, case)
<1>1. ok \in BOOLEAN
  BY DEF CaseOk, OutputOk
<1>2. ok /\ m.enabled => m.difftest = "passed"
  BY Printed DEF CaseOk, OutputOk, Metrics, MayRun
<1>3. c.ok = ok /\ c.log = TRUE /\ c.enabled = m.enabled /\ c.difftest = m.difftest
  BY DEF CaseReport
<1> HIDE DEF out, ok, m, c
<1>4. JudgedCase(c)
  BY <1>1, <1>2, <1>3 DEF JudgedCase
<1> QED BY <1>4 DEF c, out

\* The flow, the report, the sub-step and the gates of a step come to one verdict,
\* whatever was compiled, built or removed (check_result, _write_report, run,
\* _sim_qor).
THEOREM StepsAreJudgedAlike ==
    ASSUME NEW w, NEW cases, \A i \in DOMAIN cases : JudgedCase(cases[i])
    PROVE  RunIsJudgedAlike(w, cases)
<1> DEFINE reported == Reported(w, cases)
           good == reported # <<>> /\ \A i \in DOMAIN reported : reported[i].ok
<1>1. (reported = cases /\ Compiled(w)) \/ reported = <<>>
  BY DEF Reported
<1>2. \A i \in DOMAIN reported : reported[i].ok \in BOOLEAN /\ reported[i].log = TRUE
         /\ (reported[i].ok /\ reported[i].enabled => reported[i].difftest = "passed")
  BY <1>1 DEF JudgedCase
<1> HIDE DEF reported
<1>3. ReportSaysPass(w, cases) = good
  BY <1>1 DEF ReportSaysPass, reported
<1>4. SimulateSubstep(w, cases) = good
  BY DEF SimulateSubstep, reported
<1>5. CheckResult(w, cases) = good
  BY <1>1, <1>2 DEF CheckResult, reported
<1>6. (FailedGates(reported) = {}) = good
  BY <1>2 DEF FailedGates, EnabledCases
<1> QED BY <1>3, <1>4, <1>5, <1>6 DEF RunIsJudgedAlike, reported

-----------------------------------------------------------------------------
(* The names of the cases. *)

\* The earlier images with the stem of an image, which its number is counted from.
Before(images, i) == {j \in 1..i - 1 : images[j].stem = images[i].stem}

LEMMA BeforeIsFinite ==
    ASSUME NEW n \in Nat, NEW images, NEW i \in 1..n
    PROVE  /\ IsFiniteSet(Before(images, i)) /\ Cardinality(Before(images, i)) \in Nat
           /\ Cardinality(Before(images, i)) < n
<1>1. i - 1 \in Nat /\ i - 1 < n /\ Before(images, i) \in SUBSET (1..i - 1)
  BY DEF Before
<1>2. IsFiniteSet(1..i - 1) /\ Cardinality(1..i - 1) = i - 1
  BY <1>1, FS_Interval
<1>3. IsFiniteSet(Before(images, i)) /\ Cardinality(Before(images, i)) <= i - 1
  BY <1>1, <1>2, FS_Subset
<1>4. Cardinality(Before(images, i)) \in Nat
  BY <1>3, FS_CardinalityType
<1> QED BY <1>1, <1>3, <1>4

\* Of two images with one stem the later has the higher number.
LEMMA LaterIsHigher ==
    ASSUME NEW n \in Nat, NEW images, NEW i \in 1..n, NEW j \in 1..n, i < j,
           images[i].stem = images[j].stem
    PROVE  Cardinality(Before(images, i)) < Cardinality(Before(images, j))
<1>1. Before(images, i) \in SUBSET Before(images, j)
  BY DEF Before
<1>2. i \in Before(images, j) /\ i \notin Before(images, i)
  BY DEF Before
<1>3. IsFiniteSet(Before(images, j))
  BY BeforeIsFinite
<1>4. /\ Cardinality(Before(images, i)) <= Cardinality(Before(images, j))
      /\ Cardinality(Before(images, i)) # Cardinality(Before(images, j))
  BY <1>1, <1>2, <1>3, FS_Subset
<1> QED BY <1>4, BeforeIsFinite

\* Two images never have cases of one name, if no stem looks like a numbered one.
LEMMA NamesDiffer ==
    ASSUME NEW T, Nat \subseteq T, NEW n \in Nat, NEW images,
           \A k \in 1..n : images[k].stem \in Seq(T),
           \A k, l \in 1..n, m \in 2..n : images[k].stem # Append(images[l].stem, m),
           NEW i \in 1..n, NEW j \in 1..n, i < j
    PROVE  CaseName(images, i) # CaseName(images, j)
<1> DEFINE s == images[i].stem
           t == images[j].stem
<1>1. PICK b \in Nat : b = Cardinality(Before(images, i)) /\ b < n
  BY BeforeIsFinite
<1>2. PICK c \in Nat : c = Cardinality(Before(images, j)) /\ c < n
  BY BeforeIsFinite
<1>3. CaseName(images, i) = IF b = 0 THEN s ELSE Append(s, b + 1)
  BY <1>1 DEF CaseName, Before
<1>4. CaseName(images, j) = IF c = 0 THEN t ELSE Append(t, c + 1)
  BY <1>2 DEF CaseName, Before
<1>5. s \in Seq(T) /\ t \in Seq(T)
  OBVIOUS
<1>6. b + 1 \in T /\ c + 1 \in T
  OBVIOUS
<1>7. s = t => b < c
  BY <1>1, <1>2, LaterIsHigher
<1>8. b # 0 => b + 1 \in 2..n
  BY <1>1
<1>9. c # 0 => c + 1 \in 2..n
  BY <1>2
<1>10. b # 0 => t # Append(s, b + 1)
  BY <1>8
<1>11. c # 0 => s # Append(t, c + 1)
  BY <1>9
<1>12. Append(s, b + 1) = Append(t, c + 1) <=> s = t /\ b + 1 = c + 1
  <2>1. \A u, v \in Seq(T), d, e \in T : Append(u, d) = Append(v, e) <=> u = v /\ d = e
    BY AppendInjective
  <2> HIDE DEF s, t
  <2> QED BY <1>5, <1>6, <2>1
<1> HIDE DEF s, t
<1>13. CASE b = 0 /\ c = 0
  BY <1>3, <1>4, <1>7, <1>13
<1>14. CASE b # 0 /\ c = 0
  BY <1>3, <1>4, <1>10, <1>14
<1>15. CASE b = 0 /\ c # 0
  BY <1>3, <1>4, <1>11, <1>15
<1>16. CASE b # 0 /\ c # 0
  <2>1. b < c => b + 1 # c + 1
    OBVIOUS
  <2> QED BY <1>3, <1>4, <1>7, <1>12, <1>16, <2>1
<1> QED BY <1>13, <1>14, <1>15, <1>16

LEMMA NumberedAreDistinct ==
    ASSUME NEW T, Nat \subseteq T, NEW images, NEW n \in Nat, DOMAIN images = 1..n,
           \A i \in 1..n : images[i].stem \in Seq(T),
           Len(images) = n
    PROVE  NamesAreDistinct(images)
<1> DEFINE stems == {images[i].stem : i \in DOMAIN images}
           numbered == {Append(s, k) : s \in stems, k \in 2..Len(images)}
           names == NamesOf(Cases(images))
<1>0. (stems \cap numbered = {} => Cardinality(names) = Len(Cases(images))) => NamesAreDistinct(images)
  BY ONLY SMTT(60) DEF NamesAreDistinct
<1> SUFFICES ASSUME stems \cap numbered = {} PROVE Cardinality(names) = Len(Cases(images))
  <2> HIDE DEF stems, numbered, names
  <2> QED BY <1>0
<1>1. CASE images = <<>>
  <2>1. Cases(images) = <<[name |-> <<"default">>, sha |-> ""]>>
    BY <1>1 DEF Cases
  <2>2. names = {<<"default">>}
    <3> DEFINE c == <<[name |-> <<"default">>, sha |-> ""]>>
    <3>1. DOMAIN c = {1}
      OBVIOUS
    <3> DEFINE d == <<"default">>
    <3>2. c[1].name = d
      OBVIOUS
    <3> HIDE DEF c, d
    <3>3. NamesOf(c) = {d}
      BY <3>1, <3>2 DEF NamesOf
    <3> QED BY <2>1, <3>3 DEF c, d
  <2>3. Len(Cases(images)) = 1
    <3>1. Len(<<[name |-> <<"default">>, sha |-> ""]>>) = 1
      OBVIOUS
    <3> QED BY <2>1, <3>1
  <2> QED BY <2>2, <2>3, FS_Singleton
<1>2. CASE images # <<>>
  <2>1. Cases(images) = [i \in 1..n |-> [name |-> CaseName(images, i), sha |-> images[i].sha]]
    BY <1>2 DEF Cases
  <2>2. Len(Cases(images)) = n
    BY <2>1
  <2>3. names = {CaseName(images, i) : i \in 1..n}
    BY <2>1, SMTT(60) DEF NamesOf
  <2>4. \A k, l \in 1..n, m \in 2..n : images[k].stem # Append(images[l].stem, m)
    <3> SUFFICES ASSUME NEW k \in 1..n, NEW l \in 1..n, NEW m \in 2..n,
                        images[k].stem = Append(images[l].stem, m)
                 PROVE  FALSE
      OBVIOUS
    <3>1. images[k].stem \in stems /\ images[l].stem \in stems
      OBVIOUS
    <3> HIDE DEF stems
    <3>2. Append(images[l].stem, m) \in numbered
      BY <3>1, SMTT(60)
    <3> HIDE DEF numbered
    <3>3. images[k].stem \in numbered
      BY <3>1, <3>2
    <3> QED BY <3>1, <3>3
  <2>5. \A i, j \in 1..n : i < j => CaseName(images, i) # CaseName(images, j)
    BY <2>4, NamesDiffer, ZenonT(60)
  <2>6. \A i, j \in 1..n : i # j => CaseName(images, i) # CaseName(images, j)
    BY <2>5
  <2> DEFINE f == [i \in 1..n |-> CaseName(images, i)]
  <2>7. f \in Bijection(1..n, names)
    <3> HIDE DEF names
    <3>1. f \in [1..n -> names]
      BY <2>3
    <3>2. \A i, j \in 1..n : f[i] = f[j] => i = j
      BY <2>6
    <3>3. \A y \in names : \E i \in 1..n : f[i] = y
      BY <2>3
    <3> QED BY <3>1, <3>2, <3>3 DEF Bijection, Injection, Surjection, IsInjective
  <2>8. IsFiniteSet(1..n) /\ Cardinality(1..n) = n
    BY FS_Interval
  <2>9. ExistsBijection(1..n, names)
    BY <2>7 DEF ExistsBijection
  <2>10. Cardinality(names) = n
    BY <2>8, <2>9, FS_Bijection
  <2> QED BY <2>2, <2>10
<1> QED BY <1>1, <1>2

\* Each image of a run has a case of its own, which the reports find by its name,
\* however often a stem is repeated, as long as no stem looks like a numbered one
\* (_sim_cases_from_images).
THEOREM CasesAreDistinct ==
    ASSUME NEW T, Nat \subseteq T, NEW U, NEW images \in Seq([stem : Seq(T), sha : U])
    PROVE  NamesAreDistinct(images)
<1>1. Len(images) \in Nat /\ DOMAIN images = 1..Len(images)
  OBVIOUS
<1>2. \A i \in 1..Len(images) : images[i] \in [stem : Seq(T), sha : U]
  BY ElementOfSeq
<1>3. \A i \in 1..Len(images) : images[i].stem \in Seq(T)
  BY <1>2
<1> QED BY <1>1, <1>3, NumberedAreDistinct

-----------------------------------------------------------------------------
(* The merge of manifests. *)

Added(entries, e) ==
    LET same == {i \in DOMAIN entries : entries[i].id = e.id}
    IN CASE e.id = "" -> entries
         [] e.id # "" /\ same = {} -> Append(entries, e)
         [] OTHER -> [i \in DOMAIN entries |-> IF i \in same THEN e ELSE entries[i]]

Identified(e) == e.id # ""

\* Of the first c entries, the i-th is the last one with its id.
IsLast(all, c, i) == Identified(all[i]) /\ \A j \in 1..c : all[j].id = all[i].id => j <= i

\* The first c entries were merged, b of them built in.
MergedFirst(r, c, all, E, b) ==
    /\ r \in Seq(E) /\ Len(r) >= b
    /\ \A x \in 1..Len(r) : \E i \in 1..c : IsLast(all, c, i) /\ r[x] = all[i]
    /\ \A i \in 1..c : Identified(all[i]) => \E x \in 1..Len(r) : r[x].id = all[i].id
    /\ \A x, y \in 1..Len(r) : r[x].id = r[y].id => x = y
    /\ \A i \in 1..b : r[i].id = all[i].id

\* What becomes of the entries r with e.
AddedTo(s, r, e, E) ==
    /\ s \in Seq(E)
    /\ ~Identified(e) => s = r
    /\ Identified(e) /\ (\A x \in 1..Len(r) : r[x].id # e.id) => s = Append(r, e)
    /\ Identified(e) /\ (\E x \in 1..Len(r) : r[x].id = e.id) =>
          /\ Len(s) = Len(r)
          /\ \A x \in 1..Len(r) : s[x] = IF r[x].id = e.id THEN e ELSE r[x]

LEMMA AddedIs ==
    ASSUME NEW E, NEW r \in Seq(E), NEW e \in E
    PROVE  AddedTo(Added(r, e), r, e, E)
<1>1. DOMAIN r = 1..Len(r) /\ Len(r) \in Nat /\ \A i \in 1..Len(r) : r[i] \in E
  BY LenProperties, ElementOfSeq
<1>2. PICK same : same = {i \in DOMAIN r : r[i].id = e.id}
  OBVIOUS
<1>3. PICK put : put = [i \in DOMAIN r |-> IF i \in same THEN e ELSE r[i]]
  OBVIOUS
<1>4. put \in [1..Len(r) -> E]
  BY <1>1, <1>3
<1>5. put \in Seq(E) /\ Len(put) = Len(r)
  BY <1>1, <1>4, SeqDef
<1>6. \A x \in 1..Len(r) : put[x] = IF r[x].id = e.id THEN e ELSE r[x]
  BY <1>1, <1>2, <1>3
<1>7. PICK more : more = Append(r, e) /\ more \in Seq(E)
  BY AppendProperties
<1>8. PICK s : s = Added(r, e)
  OBVIOUS
<1>9. /\ ~Identified(e) => s = r
      /\ Identified(e) /\ same = {} => s = more
      /\ Identified(e) /\ same # {} => s = put
  BY <1>2, <1>3, <1>7, <1>8, Zenon DEF Added, Identified
<1>10. same = {} <=> \A x \in 1..Len(r) : r[x].id # e.id
  BY <1>1, <1>2
<1>11. AddedTo(s, r, e, E)
  BY <1>5, <1>6, <1>7, <1>9, <1>10 DEF AddedTo
<1> QED BY <1>8, <1>11

LEMMA MergedStep ==
    ASSUME NEW E, NEW all \in Seq(E), NEW b \in Nat, NEW c \in 1..Len(all), b < c,
           NEW r, MergedFirst(r, c - 1, all, E, b)
    PROVE  MergedFirst(Added(r, all[c]), c, all, E, b)
<1>0. PICK e, s : e = all[c] /\ s = Added(r, e)
  OBVIOUS
<1>1. /\ r \in Seq(E) /\ Len(r) \in Nat /\ Len(r) >= b
      /\ \A x \in 1..Len(r) : \E i \in 1..c - 1 : IsLast(all, c - 1, i) /\ r[x] = all[i]
      /\ \A i \in 1..c - 1 : Identified(all[i]) => \E x \in 1..Len(r) : r[x].id = all[i].id
      /\ \A x, y \in 1..Len(r) : r[x].id = r[y].id => x = y
      /\ \A i \in 1..b : r[i].id = all[i].id
  BY LenProperties DEF MergedFirst
<1>2. e \in E /\ c \in Nat /\ c >= 1
  BY <1>0, LenProperties, ElementOfSeq
<1>3. /\ s \in Seq(E)
      /\ ~Identified(e) => s = r
      /\ Identified(e) /\ (\A x \in 1..Len(r) : r[x].id # e.id) => s = Append(r, e)
      /\ Identified(e) /\ (\E x \in 1..Len(r) : r[x].id = e.id) =>
            /\ Len(s) = Len(r)
            /\ \A x \in 1..Len(r) : s[x] = IF r[x].id = e.id THEN e ELSE r[x]
  <2>1. AddedTo(s, r, e, E)
    BY <1>0, <1>1, <1>2, AddedIs
  <2> QED BY <2>1 DEF AddedTo
<1>4. ASSUME NEW i \in 1..c - 1, IsLast(all, c - 1, i), all[i].id # e.id
      PROVE  i \in 1..c /\ IsLast(all, c, i)
  <2>1. i \in 1..c /\ \A j \in 1..c : j \in 1..c - 1 \/ j = c
    BY <1>2
  <2> QED BY <1>0, <1>4, <2>1 DEF IsLast
<1>5. Identified(e) => c \in 1..c /\ IsLast(all, c, c)
  BY <1>0, <1>2 DEF IsLast
<1>6. \A i \in 1..c : i \in 1..c - 1 \/ i = c
  BY <1>2
<1>7. CASE ~Identified(e)
  <2>1. \A x \in 1..Len(r) : \E i \in 1..c : IsLast(all, c, i) /\ r[x] = all[i]
    <3> SUFFICES ASSUME NEW x \in 1..Len(r) PROVE \E i \in 1..c : IsLast(all, c, i) /\ r[x] = all[i]
      OBVIOUS
    <3>1. PICK i \in 1..c - 1 : IsLast(all, c - 1, i) /\ r[x] = all[i]
      BY <1>1
    <3>2. Identified(all[i])
      BY <3>1 DEF IsLast
    <3>3. all[i].id # e.id
      BY <1>7, <3>2, Zenon DEF Identified
    <3>4. i \in 1..c /\ IsLast(all, c, i)
      BY <1>4, <3>1, <3>3
    <3> QED BY <3>1, <3>4
  <2>2. \A i \in 1..c : Identified(all[i]) => \E x \in 1..Len(r) : r[x].id = all[i].id
    BY <1>0, <1>1, <1>6, <1>7
  <2>3. MergedFirst(r, c, all, E, b)
    BY <1>1, <2>1, <2>2 DEF MergedFirst
  <2> QED BY <1>0, <1>3, <1>7, <2>3
<1>8. CASE Identified(e) /\ \A x \in 1..Len(r) : r[x].id # e.id
  <2>1. s = Append(r, e)
    BY <1>3, <1>8
  <2>2. /\ Len(s) = Len(r) + 1 /\ s[Len(r) + 1] = e
        /\ \A x \in 1..Len(r) : s[x] = r[x]
    <3>1. Append(r, e) \in Seq(E) /\ Len(Append(r, e)) = Len(r) + 1 /\ Append(r, e)[Len(r) + 1] = e
          /\ \A x \in 1..Len(r) : Append(r, e)[x] = r[x]
      BY <1>1, <1>2, AppendProperties
    <3> QED BY <2>1, <3>1
  <2>a. Len(r) \in Nat /\ Len(r) >= b /\ Len(s) = Len(r) + 1
    BY <1>1, <2>2
  <2>3. (\A x \in 1..Len(s) : x \in 1..Len(r) \/ x = Len(r) + 1) /\ Len(r) + 1 \in 1..Len(s)
        /\ (\A x \in 1..Len(r) : x \in 1..Len(s)) /\ Len(s) >= b /\ \A i \in 1..b : i \in 1..Len(r)
    BY <2>a
  <2>4. ASSUME NEW x \in 1..Len(s) PROVE \E i \in 1..c : IsLast(all, c, i) /\ s[x] = all[i]
    <3>1. CASE x = Len(r) + 1
      BY <1>0, <1>5, <1>8, <2>2, <3>1
    <3>2. CASE x \in 1..Len(r)
      <4>1. PICK i \in 1..c - 1 : IsLast(all, c - 1, i) /\ r[x] = all[i]
        BY <1>1, <3>2
      <4>2. all[i].id # e.id
        BY <1>8, <3>2, <4>1
      <4>3. i \in 1..c /\ IsLast(all, c, i)
        BY <1>4, <4>1, <4>2
      <4> QED BY <2>2, <3>2, <4>1, <4>3
    <3> QED BY <2>3, <3>1, <3>2
  <2>5. ASSUME NEW i \in 1..c, Identified(all[i]) PROVE \E x \in 1..Len(s) : s[x].id = all[i].id
    <3>1. CASE i = c
      BY <1>0, <2>2, <2>3, <3>1
    <3>2. CASE i \in 1..c - 1
      <4>1. PICK x \in 1..Len(r) : r[x].id = all[i].id
        BY <1>1, <2>5, <3>2
      <4> QED BY <2>2, <2>3, <4>1
    <3> QED BY <1>6, <3>1, <3>2
  <2>6. ASSUME NEW x \in 1..Len(s), NEW y \in 1..Len(s), s[x].id = s[y].id PROVE x = y
    <3>1. CASE x \in 1..Len(r) /\ y \in 1..Len(r)
      BY <1>1, <2>2, <2>6, <3>1
    <3>2. CASE x = Len(r) + 1 /\ y \in 1..Len(r)
      BY <1>8, <2>2, <2>6, <3>2
    <3>3. CASE x \in 1..Len(r) /\ y = Len(r) + 1
      BY <1>8, <2>2, <2>6, <3>3
    <3> QED BY <2>3, <3>1, <3>2, <3>3
  <2>7. \A i \in 1..b : s[i].id = all[i].id
    BY <1>1, <2>2, <2>3
  <2>8. MergedFirst(s, c, all, E, b)
    BY <1>3, <2>3, <2>4, <2>5, <2>6, <2>7 DEF MergedFirst
  <2> QED BY <1>0, <2>8
<1>9. CASE Identified(e) /\ \E x \in 1..Len(r) : r[x].id = e.id
  <2>1. /\ Len(s) = Len(r)
        /\ \A x \in 1..Len(r) : s[x] = IF r[x].id = e.id THEN e ELSE r[x]
    BY <1>3, <1>9
  <2>2. \A x \in 1..Len(r) : s[x].id = r[x].id
    BY <2>1
  <2>4. ASSUME NEW x \in 1..Len(r) PROVE \E i \in 1..c : IsLast(all, c, i) /\ s[x] = all[i]
    <3>1. CASE r[x].id = e.id
      <4>1. s[x] = e
        BY <2>1, <3>1
      <4> QED BY <1>0, <1>5, <1>9, <4>1
    <3>2. CASE r[x].id # e.id
      <4>1. PICK i \in 1..c - 1 : IsLast(all, c - 1, i) /\ r[x] = all[i]
        BY <1>1
      <4>2. i \in 1..c /\ IsLast(all, c, i)
        BY <1>4, <3>2, <4>1
      <4> QED BY <2>1, <3>2, <4>1, <4>2
    <3> QED BY <3>1, <3>2
  <2>5. ASSUME NEW i \in 1..c, Identified(all[i]) PROVE \E x \in 1..Len(r) : s[x].id = all[i].id
    <3>1. CASE i = c
      BY <1>0, <1>9, <2>2, <3>1
    <3>2. CASE i \in 1..c - 1
      BY <1>1, <2>2, <2>5, <3>2
    <3> QED BY <1>6, <3>1, <3>2
  <2>6. \A x, y \in 1..Len(r) : s[x].id = s[y].id => x = y
    BY <1>1, <2>2
  <2>7. \A i \in 1..b : s[i].id = all[i].id
    <3>a. Len(r) \in Nat /\ Len(r) >= b
      BY <1>1
    <3>1. \A i \in 1..b : i \in 1..Len(r)
      BY <3>a
    <3> QED BY <1>1, <2>2, <3>1
  <2>8. MergedFirst(s, c, all, E, b)
    BY <1>1, <1>3, <2>1, <2>4, <2>5, <2>6, <2>7 DEF MergedFirst
  <2> QED BY <1>0, <2>8
<1> QED BY <1>7, <1>8, <1>9

\* The entries after so many manifests.
Merges(It, builtin, manifests) ==
    /\ It[1..0] = builtin /\ Merge(builtin, manifests) = It[1..Len(manifests)]
    /\ \A i \in 1..Len(manifests) : It[1..i] = Added(It[1..i - 1], manifests[i])

LEMMA MergeRuns ==
    ASSUME NEW E, NEW builtin \in Seq(E), NEW manifests \in Seq(E)
    PROVE  \E It : Merges(It, builtin, manifests)
<1> DEFINE n == Len(manifests)
           Y == Seq(E)
           step == [p \in Y \X (1..n) |-> Added(p[1], manifests[p[2]])]
           It == CHOOSE iter : iter = [s \in SUBSET DOMAIN manifests |->
                     IF s = {} THEN builtin ELSE Added(iter[s \ {Max(s)}], manifests[Max(s)])]
<1>1. n \in Nat /\ DOMAIN manifests = 1..n /\ \A i \in 1..n : manifests[i] \in E
  BY LenProperties, ElementOfSeq
<1>2. Merge(builtin, manifests) = It[DOMAIN manifests]
  BY Zenon DEF Merge, FoldLeft, MapThenFoldSet, Added
<1> HIDE DEF n, It
<1>3. ASSUME NEW r \in Y, NEW e \in E PROVE Added(r, e) \in Y
  <2>1. AddedTo(Added(r, e), r, e, E)
    BY AddedIs
  <2> QED BY <2>1 DEF AddedTo
<1>4. PICK iter : Folds(iter, n, Y, builtin, step)
  <2>1. step \in [Y \X (1..n) -> Y] /\ builtin \in Y
    BY <1>1, <1>3
  <2> HIDE DEF step, Y
  <2> QED BY <1>1, <2>1, Fold
<1>5. iter = [s \in SUBSET DOMAIN manifests |->
                IF s = {} THEN builtin ELSE Added(iter[s \ {Max(s)}], manifests[Max(s)])]
  <2>1. ASSUME NEW s \in SUBSET (1..n), s # {}
        PROVE  iter[s] = Added(iter[s \ {Max(s)}], manifests[Max(s)])
    <3>1. Max(s) \in 1..n
      BY <1>1, <2>1, MaxIs
    <3>2. iter[s \ {Max(s)}] \in Y
      BY <1>4 DEF Folds
    <3> HIDE DEF Y
    <3> QED BY <1>4, <2>1, <3>1, <3>2 DEF Folds
  <2> HIDE DEF step, Y
  <2> QED BY <1>1, <1>4, <2>1 DEF Folds
<1>6. It = [s \in SUBSET DOMAIN manifests |->
                IF s = {} THEN builtin ELSE Added(It[s \ {Max(s)}], manifests[Max(s)])]
  BY <1>5 DEF It
<1>7. It[1..0] = builtin
  <2>1. 1..0 = {} /\ 1..0 \in SUBSET DOMAIN manifests
    OBVIOUS
  <2> QED BY <1>6, <2>1
<1>8. ASSUME NEW i \in 1..n PROVE It[1..i] = Added(It[1..i - 1], manifests[i])
  <2>1. 1..i \in SUBSET DOMAIN manifests /\ 1..i # {} /\ Max(1..i) = i /\ (1..i) \ {i} = 1..i - 1
    <3>1. i \in 1..i /\ 1..i \in SUBSET DOMAIN manifests /\ i \in Nat \ {0}
      BY <1>1
    <3> QED BY <3>1, MaxOfRange
  <2> QED BY <1>6, <2>1
<1>9. Merges(It, builtin, manifests)
  BY <1>1, <1>2, <1>7, <1>8 DEF n, Merges
<1> QED BY <1>9

\* However many manifests there are, and whichever ids they repeat or leave out,
\* each id has one entry, that of the last manifest, and the built-in entries keep
\* their places (_load_entries).
THEOREM LastManifestsCount ==
    ASSUME NEW E, NEW builtin \in Seq(E), NEW manifests \in Seq(E),
           \A i \in DOMAIN builtin : Identified(builtin[i]),
           \A i, j \in DOMAIN builtin : builtin[i].id = builtin[j].id => i = j
    PROVE  LastManifestCounts(builtin, manifests)
<1>0. PICK b, m, all : b = Len(builtin) /\ m = Len(manifests) /\ all = builtin \o manifests
  OBVIOUS
<1>a. b \in Nat /\ m \in Nat /\ DOMAIN builtin = 1..b
  BY <1>0, LenProperties
<1>b. all \in Seq(E) /\ Len(all) = b + m
      /\ \A i \in 1..b + m : all[i] = IF i <= b THEN builtin[i] ELSE manifests[i - b]
  BY <1>0, ConcatProperties
<1>1. /\ DOMAIN all = 1..b + m
      /\ (\A i \in 1..b : all[i] = builtin[i]) /\ \A i \in 1..m : all[b + i] = manifests[i]
  <2>1. \A i \in 1..b : i \in 1..b + m /\ i <= b
    BY <1>a
  <2>2. \A i \in 1..m : b + i \in 1..b + m /\ ~(b + i <= b) /\ (b + i) - b = i
    BY <1>a
  <2>3. DOMAIN all = 1..b + m
    BY <1>b, LenProperties
  <2> QED BY <1>b, <2>1, <2>2, <2>3
<1>c. (\A i \in 1..b : Identified(builtin[i])) /\ \A i, j \in 1..b : builtin[i].id = builtin[j].id => i = j
  <2>1. \A i \in 1..b : Identified(builtin[i])
    BY <1>a, Zenon
  <2>2. \A i, j \in 1..b : builtin[i].id = builtin[j].id => i = j
    BY <1>a, Zenon
  <2> QED BY <2>1, <2>2
<1>2. PICK It : Merges(It, builtin, manifests)
  BY MergeRuns
<1>d. /\ It[1..0] = builtin /\ Merge(builtin, manifests) = It[1..m]
      /\ \A i \in 1..m : It[1..i] = Added(It[1..i - 1], manifests[i])
  BY <1>0, <1>2 DEF Merges
<1> DEFINE T == {k \in 0..m : MergedFirst(It[1..k], b + k, all, E, b)}
<1>3. 0 \in T
  <2>1. ASSUME NEW i \in 1..b PROVE IsLast(all, b, i)
    <3>1. \A j \in 1..b : all[j].id = all[i].id => j = i
      BY <1>1, <1>c
    <3>2. \A j \in 1..b : j = i => j <= i
      BY <1>a
    <3> QED BY <1>1, <1>c, <3>1, <3>2 DEF IsLast
  <2>2. \A x \in 1..b : \E i \in 1..b : IsLast(all, b, i) /\ builtin[x] = all[i]
    BY <1>1, <2>1
  <2>3. b >= b
    BY <1>a
  <2>4. MergedFirst(builtin, b, all, E, b)
    BY <1>0, <1>1, <1>c, <2>2, <2>3 DEF MergedFirst
  <2>5. b + 0 = b /\ 0 \in 0..m
    BY <1>a
  <2> QED BY <1>d, <2>4, <2>5
<1>4. ASSUME NEW k \in 1..m, k - 1 \in T PROVE k \in T
  <2>1. MergedFirst(It[1..k - 1], (b + k) - 1, all, E, b)
    <3>1. b + (k - 1) = (b + k) - 1
      BY <1>a
    <3> QED BY <1>4, <3>1
  <2>2. b + k \in 1..Len(all) /\ b < b + k /\ k \in 0..m
    BY <1>a, <1>b
  <2>3. MergedFirst(Added(It[1..k - 1], all[b + k]), b + k, all, E, b)
    BY <1>a, <1>b, <2>1, <2>2, MergedStep
  <2> QED BY <1>1, <1>d, <2>2, <2>3
<1>5. m \in T
  <2> HIDE DEF T
  <2>1. 0..m \subseteq T
    BY <1>a, <1>3, <1>4, StepByStep
  <2> QED BY <1>a, <2>1
<1>6. PICK r, c : r = Merge(builtin, manifests) /\ c = b + m
  OBVIOUS
<1>e. MergedFirst(r, c, all, E, b)
  BY <1>5, <1>6, <1>d
<1>7. /\ r \in Seq(E) /\ Len(r) >= b /\ Len(r) \in Nat /\ DOMAIN r = 1..Len(r)
      /\ \A x \in 1..Len(r) : \E i \in 1..c : IsLast(all, c, i) /\ r[x] = all[i]
      /\ \A i \in 1..c : Identified(all[i]) => \E x \in 1..Len(r) : r[x].id = all[i].id
      /\ \A x, y \in 1..Len(r) : r[x].id = r[y].id => x = y
      /\ \A i \in 1..b : r[i].id = all[i].id
  BY <1>e, LenProperties DEF MergedFirst
<1>8. c \in Nat /\ DOMAIN all = 1..c
  BY <1>1, <1>6, <1>a
<1>f. PICK ids : ids = {e.id : e \in Elements(all)} \ {""}
  OBVIOUS
<1>g. ids = {all[i].id : i \in {k \in 1..c : Identified(all[k])}}
  <2>1. Elements(all) = {all[i] : i \in 1..c}
    BY <1>8 DEF Elements
  <2> QED BY <1>f, <2>1, Zenon DEF Identified
<1>h. ids = {r[x].id : x \in 1..Len(r)}
  <2>1. ASSUME NEW x \in 1..Len(r) PROVE r[x].id \in ids
    <3>1. PICK i \in 1..c : IsLast(all, c, i) /\ r[x] = all[i]
      BY <1>7
    <3> QED BY <1>g, <3>1 DEF IsLast
  <2>2. ASSUME NEW i \in 1..c, Identified(all[i]) PROVE all[i].id \in {r[x].id : x \in 1..Len(r)}
    BY <1>7, <2>2
  <2> QED BY <1>g, <2>1, <2>2, ZenonT(60)
<1>9. {e.id : e \in Elements(r)} = ids
  <2>1. Elements(r) = {r[x] : x \in 1..Len(r)}
    BY <1>7 DEF Elements
  <2> QED BY <1>h, <2>1
<1>10. Len(r) = Cardinality(ids)
  <2> DEFINE f == [x \in 1..Len(r) |-> r[x].id]
  <2>2. f \in [1..Len(r) -> ids] /\ (\A x, y \in 1..Len(r) : f[x] = f[y] => x = y)
        /\ \A d \in ids : \E x \in 1..Len(r) : f[x] = d
    BY <1>7, <1>h
  <2> HIDE DEF f
  <2>3. f \in Bijection(1..Len(r), ids)
    BY <2>2, Fun_IsBij
  <2>4. ExistsBijection(1..Len(r), ids)
    BY <2>3, Fun_ExistsBij
  <2>5. IsFiniteSet(1..Len(r)) /\ Cardinality(1..Len(r)) = Len(r)
    <3>1. PICK l \in Nat : l = Len(r)
      BY <1>7
    <3>2. IsFiniteSet(1..l) /\ Cardinality(1..l) = l
      BY FS_Interval
    <3> QED BY <3>1, <3>2, Zenon
  <2> QED BY <2>4, <2>5, FS_Bijection
<1> DEFINE last(id) == CHOOSE i \in DOMAIN all : all[i].id = id /\ \A j \in DOMAIN all :
                                                     all[j].id = id => j <= i
<1>i. ASSUME NEW x \in 1..Len(r) PROVE r[x] = all[last(r[x].id)]
  <2>1. PICK i \in 1..c : IsLast(all, c, i) /\ r[x] = all[i]
    BY <1>7
  <2> DEFINE d == all[i].id
             Latest(k) == all[k].id = d /\ \A j \in DOMAIN all : all[j].id = d => j <= k
  <2>2. i \in DOMAIN all /\ Latest(i)
    BY <1>8, <2>1 DEF IsLast
  <2>3. ASSUME NEW k \in DOMAIN all, Latest(k) PROVE k = i
    <3>1. i <= k /\ k <= i
      BY <2>2, <2>3
    <3> QED BY <1>8, <3>1
  <2>4. last(d) = i
    <3>1. last(d) = CHOOSE k \in DOMAIN all : Latest(k)
      OBVIOUS
    <3> HIDE DEF Latest, last
    <3> QED BY <2>2, <2>3, <3>1
  <2> HIDE DEF last
  <2> QED BY <2>1, <2>4
<1>11. \A e \in Elements(r) : e = all[last(e.id)]
  <2> HIDE DEF last
  <2>1. \A e \in Elements(r) : \E x \in 1..Len(r) : e = r[x]
    BY <1>7 DEF Elements
  <2> QED BY <1>i, <2>1
<1>12. \A i \in DOMAIN builtin : r[i].id = builtin[i].id
  BY <1>1, <1>7, <1>a
<1> QED BY <1>6, <1>0, <1>f, <1>9, <1>10, <1>11, <1>12, Zenon DEF LastManifestCounts

-----------------------------------------------------------------------------
(* _parse_user_cpu_filelist, the third walk. *)

UserStateOf(A) == [todo : Seq(LinesOf(A)), visited : SUBSET Files, files : Seq(Files),
                   missing : SUBSET Files, defines : Seq(A)]

Naming == {"list", "glued", "rtl"}
Nesting == {"list", "glued"}

\* What a line does.
UserReads(p, st, r) ==
    LET line == Head(st.todo) IN
    /\ r.defines = IF line.kind = "define" THEN Append(st.defines, line.arg) ELSE st.defines
    /\ \/ /\ line.kind \in Naming /\ ~Found(p, line.arg)
          /\ r.todo = Tail(st.todo) /\ r.visited = st.visited
          /\ r.files = st.files /\ r.missing = st.missing \cup {line.arg}
       \/ /\ line.kind \in Nesting /\ Found(p, line.arg) /\ line.arg \notin st.visited
          /\ r.todo = p.entries[line.arg] \o Tail(st.todo) /\ r.visited = st.visited \cup {line.arg}
          /\ r.files = st.files /\ r.missing = st.missing
       \/ /\ line.kind = "rtl" /\ Found(p, line.arg)
          /\ r.todo = Tail(st.todo) /\ r.visited = st.visited
          /\ r.files = Append(st.files, line.arg) /\ r.missing = st.missing
       \/ /\ line.kind # "rtl"
          /\ line.kind \in Nesting => Found(p, line.arg) /\ line.arg \in st.visited
          /\ r.todo = Tail(st.todo) /\ r.visited = st.visited
          /\ r.files = st.files /\ r.missing = st.missing

UserSt(todo, visited, files, missing, defines) ==
    [todo |-> todo, visited |-> visited, files |-> files, missing |-> missing, defines |-> defines]

LEMMA UserReadLineIs ==
    ASSUME NEW p, NEW A, IsProject(p, A), NEW st \in UserStateOf(A), st.todo # <<>>
    PROVE  ReadUserLine(p, st) \in UserStateOf(A) /\ UserReads(p, st, ReadUserLine(p, st))
<1>1. PICK a \in Seq(LinesOf(A)), b \in SUBSET Files, c \in Seq(Files), d \in SUBSET Files, e \in Seq(A) :
         st = UserSt(a, b, c, d, e)
  BY DEF UserStateOf, UserSt
<1>2. \A u \in Seq(LinesOf(A)), v \in SUBSET Files, w \in Seq(Files), x \in SUBSET Files, y \in Seq(A) :
         UserSt(u, v, w, x, y) \in UserStateOf(A)
  BY DEF UserStateOf, UserSt
<1>3. st.todo = a /\ st.visited = b /\ st.files = c /\ st.missing = d /\ st.defines = e
  BY <1>1 DEF UserSt
<1>4. PICK line, t : line = Head(st.todo) /\ t = Tail(st.todo)
  OBVIOUS
<1>5. line \in LinesOf(A) /\ t \in Seq(LinesOf(A))
  BY <1>3, <1>4, HeadTailProperties
<1>6. PICK rest : rest = [st EXCEPT !.todo = t]
  OBVIOUS
<1>7. rest = UserSt(t, b, c, d, e)
  BY <1>1, <1>6 DEF UserSt
<1>8. /\ line.kind \in Naming => line.arg \in Files
      /\ line.kind \in {"incdir", "define", "option"} => line.arg \in A
      /\ line.kind \in {"list", "glued", "rtl", "incdir", "define", "option"}
  BY <1>5 DEF LinesOf, Naming
<1>9. rest.todo = t /\ rest.visited = b /\ rest.files = c /\ rest.missing = d /\ rest.defines = e
  BY <1>7 DEF UserSt
<1>10. ReadUserLine(p, st) =
          CASE line.kind \in Naming /\ ~Found(p, line.arg) ->
                    [rest EXCEPT !.missing = rest.missing \cup {line.arg}]
            [] line.kind \in Nesting /\ Found(p, line.arg) /\ line.arg \notin st.visited ->
                    [rest EXCEPT !.visited = rest.visited \cup {line.arg},
                                 !.todo = p.entries[line.arg] \o rest.todo]
            [] line.kind = "rtl" /\ Found(p, line.arg) ->
                    [rest EXCEPT !.files = Append(rest.files, line.arg)]
            [] line.kind = "define" -> [rest EXCEPT !.defines = Append(rest.defines, line.arg)]
            [] OTHER -> rest
  BY ONLY <1>4, <1>6, Zenon DEF ReadUserLine, Naming, Nesting
<1>11. CASE line.kind \in Naming /\ ~Found(p, line.arg)
  <2>1. PICK m : m = d \cup {line.arg}
    OBVIOUS
  <2>2. ReadUserLine(p, st) = [rest EXCEPT !.missing = m]
    <3>1. ~(line.kind \in Nesting /\ Found(p, line.arg) /\ line.arg \notin st.visited)
          /\ ~(line.kind = "rtl" /\ Found(p, line.arg)) /\ line.kind # "define"
      BY <1>11 DEF Naming
    <3> QED BY <1>9, <1>10, <1>11, <2>1, <3>1, Zenon
  <2>3. ReadUserLine(p, st) = UserSt(t, b, c, m, e)
    BY <1>7, <2>2 DEF UserSt
  <2>4. m \in SUBSET Files
    BY <1>8, <1>11, <2>1
  <2>5. ReadUserLine(p, st) \in UserStateOf(A)
    BY <1>2, <1>5, <2>3, <2>4
  <2>6. PICK r : r = ReadUserLine(p, st)
    OBVIOUS
  <2>7. r.todo = t /\ r.visited = b /\ r.files = c /\ r.missing = m /\ r.defines = e
    BY <2>3, <2>6 DEF UserSt
  <2>8. UserReads(p, st, r)
    BY <1>3, <1>4, <1>11, <2>1, <2>7 DEF UserReads, Naming, Nesting
  <2> QED BY <2>5, <2>6, <2>8
<1>12. CASE line.kind \in Nesting /\ Found(p, line.arg) /\ line.arg \notin st.visited
  <2>1. PICK v, u : v = b \cup {line.arg} /\ u = p.entries[line.arg] \o t
    OBVIOUS
  <2>2. ReadUserLine(p, st) = [rest EXCEPT !.visited = v, !.todo = u]
    <3>1. ~(line.kind \in Naming /\ ~Found(p, line.arg)) /\ line.kind # "rtl" /\ line.kind # "define"
      BY <1>12 DEF Nesting
    <3> QED BY <1>9, <1>10, <1>12, <2>1, <3>1, Zenon
  <2>3. ReadUserLine(p, st) = UserSt(u, v, c, d, e)
    BY <1>7, <2>2 DEF UserSt
  <2>4. u \in Seq(LinesOf(A)) /\ v \in SUBSET Files
    <3>0. line.arg \in Files
      BY <1>8, <1>12 DEF Nesting, Naming
    <3>1. p.entries[line.arg] \in Seq(LinesOf(A))
      BY <3>0 DEF IsProject
    <3>2. u \in Seq(LinesOf(A))
      BY <1>5, <2>1, <3>1, ConcatProperties
    <3> QED BY <2>1, <3>0, <3>2
  <2>5. ReadUserLine(p, st) \in UserStateOf(A)
    BY <1>2, <2>3, <2>4
  <2>6. PICK r : r = ReadUserLine(p, st)
    OBVIOUS
  <2>7. r.todo = u /\ r.visited = v /\ r.files = c /\ r.missing = d /\ r.defines = e
    BY <2>3, <2>6 DEF UserSt
  <2>8. UserReads(p, st, r)
    BY <1>3, <1>4, <1>12, <2>1, <2>7 DEF UserReads, Naming, Nesting
  <2> QED BY <2>5, <2>6, <2>8
<1>13. CASE line.kind = "rtl" /\ Found(p, line.arg)
  <2>1. PICK x : x = Append(c, line.arg)
    OBVIOUS
  <2>2. ReadUserLine(p, st) = [rest EXCEPT !.files = x]
    <3>1. ~(line.kind \in Naming /\ ~Found(p, line.arg)) /\ line.kind \notin Nesting /\ line.kind # "define"
      BY <1>13 DEF Nesting
    <3> QED BY <1>9, <1>10, <1>13, <2>1, <3>1, Zenon
  <2>3. ReadUserLine(p, st) = UserSt(t, b, x, d, e)
    BY <1>7, <2>2 DEF UserSt
  <2>4. x \in Seq(Files)
    BY <1>8, <1>13, <2>1, AppendProperties DEF Naming
  <2>5. ReadUserLine(p, st) \in UserStateOf(A)
    BY <1>2, <1>5, <2>3, <2>4
  <2>6. PICK r : r = ReadUserLine(p, st)
    OBVIOUS
  <2>7. r.todo = t /\ r.visited = b /\ r.files = x /\ r.missing = d /\ r.defines = e
    BY <2>3, <2>6 DEF UserSt
  <2>8. UserReads(p, st, r)
    BY <1>3, <1>4, <1>13, <2>1, <2>7 DEF UserReads, Naming, Nesting
  <2> QED BY <2>5, <2>6, <2>8
<1>14. CASE /\ line.kind # "rtl"
            /\ line.kind \in Nesting => Found(p, line.arg) /\ line.arg \in st.visited
  <2>1. PICK y : y = Append(e, line.arg)
    OBVIOUS
  <2>2. ReadUserLine(p, st) = CASE line.kind = "define" -> [rest EXCEPT !.defines = y]
                                [] OTHER -> rest
    <3>1. ~(line.kind \in Naming /\ ~Found(p, line.arg))
          /\ ~(line.kind \in Nesting /\ Found(p, line.arg) /\ line.arg \notin st.visited)
          /\ ~(line.kind = "rtl" /\ Found(p, line.arg))
      BY <1>14 DEF Naming, Nesting
    <3> QED BY <1>9, <1>10, <2>1, <3>1, Zenon
  <2>3. \/ line.kind = "define" /\ ReadUserLine(p, st) = UserSt(t, b, c, d, y)
        \/ line.kind # "define" /\ ReadUserLine(p, st) = UserSt(t, b, c, d, e)
    BY <1>7, <2>2 DEF UserSt
  <2>4. line.kind = "define" => y \in Seq(A)
    BY <1>8, <2>1, AppendProperties
  <2>5. ReadUserLine(p, st) \in UserStateOf(A)
    BY <1>2, <1>5, <2>3, <2>4
  <2>6. PICK r : r = ReadUserLine(p, st)
    OBVIOUS
  <2>7. r.todo = t /\ r.visited = b /\ r.files = c /\ r.missing = d
        /\ r.defines = IF line.kind = "define" THEN y ELSE e
    BY <2>3, <2>6 DEF UserSt
  <2>8. UserReads(p, st, r)
    BY <1>3, <1>4, <1>14, <2>1, <2>7 DEF UserReads
  <2> QED BY <2>5, <2>6, <2>8
<1>15. line.kind \in Naming <=> line.kind \in Nesting \/ line.kind = "rtl"
  BY DEF Naming, Nesting
<1> QED BY <1>11, <1>12, <1>13, <1>14, <1>15

UserStart(p, root) == UserSt(p.entries[root], {root}, <<>>, {}, <<>>)

UserRuns(run, p, A, root) ==
    /\ run \in [0..Fuel(p) -> UserStateOf(A)] /\ run[0] = UserStart(p, root)
    /\ \A i \in 1..Fuel(p) : run[i] = IF run[i - 1].todo = <<>> THEN run[i - 1]
                                      ELSE ReadUserLine(p, run[i - 1])
    /\ UserParse(p, root) = run[Fuel(p)]

LEMMA UserParseRuns ==
    ASSUME NEW p, NEW A, IsProject(p, A), IsFiniteSet(Files), NEW root \in Files
    PROVE  \E run : UserRuns(run, p, A, root)
<1> DEFINE c == Fuel(p)
           X == UserStateOf(A)
           next(st) == IF st.todo = <<>> THEN st ELSE ReadUserLine(p, st)
           step == [q \in (1..c) \X X |-> next(q[2])]
           It == CHOOSE run : run = [n \in 0..c |->
                    IF n = 0 THEN UserStart(p, root)
                    ELSE IF run[n - 1].todo = <<>> THEN run[n - 1] ELSE ReadUserLine(p, run[n - 1])]
<1>1. c \in Nat
  BY FuelIs
<1>2. UserParse(p, root) = It[c]
  BY DEF UserParse, UserStart, UserSt
<1>3. UserStart(p, root) \in X
  <2>1. p.entries[root] \in Seq(LinesOf(A))
    BY DEF IsProject
  <2>2. <<>> \in Seq(Files) /\ <<>> \in Seq(A) /\ {} \in SUBSET Files /\ {root} \in SUBSET Files
    BY EmptySeq
  <2> QED BY <2>1, <2>2 DEF UserStart, UserSt, UserStateOf
<1> HIDE DEF c, It
<1>4. \A st \in X : next(st) \in X
  <2> SUFFICES ASSUME NEW st \in X PROVE next(st) \in X
    OBVIOUS
  <2> QED BY UserReadLineIs
<1> HIDE DEF X
<1>5. step \in [(1..c) \X X -> X] /\ \A i \in 1..c, st \in X : step[<<i, st>>] = next(st)
  BY <1>4
<1> HIDE DEF step
<1>6. PICK g : Recurs(g, c, X, UserStart(p, root), step)
  BY <1>1, <1>3, <1>5, Recursion
<1>7. g = [n \in 0..c |-> IF n = 0 THEN UserStart(p, root) ELSE next(g[n - 1])]
  <2>1. ASSUME NEW i \in 1..c PROVE g[i] = next(g[i - 1])
    <3>1. g[i - 1] \in X /\ g[i] = step[<<i, g[i - 1]>>]
      BY <1>1, <1>6 DEF Recurs
    <3> QED BY <1>5, <3>1
  <2>2. g[0] = UserStart(p, root) /\ g = [n \in 0..c |-> g[n]]
    BY <1>6, Zenon DEF Recurs
  <2>3. \A n \in 0..c : n # 0 => n \in 1..c
    BY <1>1
  <2> HIDE DEF next
  <2> QED BY <1>1, <2>1, <2>2, <2>3
<1>8. It = [n \in 0..c |-> IF n = 0 THEN UserStart(p, root) ELSE next(It[n - 1])]
  BY <1>7, Zenon DEF It
<1>9. /\ It[0] = UserStart(p, root) /\ It = [n \in 0..c |-> It[n]]
      /\ \A i \in 1..c : It[i] = next(It[i - 1])
  <2> HIDE DEF next
  <2> QED BY <1>1, <1>8, SMTT(60)
<1>10. Recurs(It, c, X, UserStart(p, root), step)
  <2>1. ASSUME NEW i \in 1..c, It[i - 1] \in X PROVE It[i] = step[<<i, It[i - 1]>>]
    BY <1>5, <1>9, <2>1
  <2> QED BY <1>1, <1>3, <1>5, <1>9, <2>1, IsRecursion
<1>11. UserRuns(It, p, A, root)
  BY <1>2, <1>9, <1>10 DEF Recurs, UserRuns, X, c
<1> QED BY <1>11

\* The lists that a line opens, in any spelling; of the RTL files only those that are there.
AnyListOf(p, A) == [l \in LinesOf(A) |-> IF l.kind \in Nesting /\ Found(p, l.arg) THEN {l.arg} ELSE {}]

NestedBy(p) == [g \in Files |-> {f \in Files : Found(p, f) /\ \E i \in DOMAIN p.entries[g] :
                                     p.entries[g][i].kind \in Nesting /\ p.entries[g][i].arg = f}]

\* What the lists name that is not there.
MissedIn(p, lines) == {f \in Files : ~Found(p, f) /\ \E l \in lines : l.kind \in Naming /\ l.arg = f}

LEMMA AnyListOfIs ==
    ASSUME NEW p, NEW A, IsProject(p, A)
    PROVE  /\ AnyListOf(p, A) \in [LinesOf(A) -> SUBSET Files]
           /\ \A l \in LinesOf(A) :
                 /\ AnyListOf(p, A)[l] = IF l.kind \in Nesting /\ Found(p, l.arg) THEN {l.arg} ELSE {}
                 /\ l.kind \in Naming => l.arg \in Files
           /\ Opening(Files, p.entries, AnyListOf(p, A)) = NestedBy(p)
<1>1. \A l \in LinesOf(A) : l.kind \in Naming => l.arg \in Files
  BY DEF LinesOf, Naming
<1>2. AnyListOf(p, A) \in [LinesOf(A) -> SUBSET Files]
  BY <1>1 DEF AnyListOf, Naming, Nesting
<1>3. \A l \in LinesOf(A) :
         AnyListOf(p, A)[l] = IF l.kind \in Nesting /\ Found(p, l.arg) THEN {l.arg} ELSE {}
  BY DEF AnyListOf
<1>4. ASSUME NEW g \in Files
      PROVE  UNION {AnyListOf(p, A)[l] : l \in Elements(p.entries[g])} =
             {f \in Files : Found(p, f) /\ \E i \in DOMAIN p.entries[g] :
                 p.entries[g][i].kind \in Nesting /\ p.entries[g][i].arg = f}
  <2>1. PICK s \in Seq(LinesOf(A)) : s = p.entries[g]
    BY DEF IsProject
  <2>2. Elements(s) \in SUBSET LinesOf(A)
    BY ElementsAre
  <2>3. ASSUME NEW f \in Files, Found(p, f), NEW i \in DOMAIN s, s[i].kind \in Nesting, s[i].arg = f
        PROVE  f \in UNION {AnyListOf(p, A)[l] : l \in Elements(s)}
    <3>1. s[i] \in Elements(s)
      BY DEF Elements
    <3>2. f \in AnyListOf(p, A)[s[i]]
      BY <1>3, <2>2, <2>3, <3>1, ZenonT(60)
    <3> QED BY <3>1, <3>2
  <2>4. ASSUME NEW l \in Elements(s), NEW f \in AnyListOf(p, A)[l]
        PROVE  f \in Files /\ Found(p, f) /\ \E i \in DOMAIN s : s[i].kind \in Nesting /\ s[i].arg = f
    <3>1. l.kind \in Nesting /\ Found(p, l.arg) /\ f = l.arg
      BY <1>3, <2>2
    <3>2. l.arg \in Files
      BY <1>1, <2>2, <3>1 DEF Nesting, Naming
    <3>3. \E i \in DOMAIN s : s[i] = l
      BY DEF Elements
    <3> QED BY <3>1, <3>2, <3>3
  <2> QED BY <2>1, <2>3, <2>4
<1>5. Opening(Files, p.entries, AnyListOf(p, A)) = NestedBy(p)
  BY <1>4 DEF Opening, NestedBy
<1> QED BY <1>1, <1>2, <1>3, <1>5

\* A state of this parser after n lines.
UserParsing(st, n, p, A, root) ==
    /\ st \in UserStateOf(A)
    /\ \E read :
          /\ Walked(st.todo, st.visited, read, Files, LinesOf(A), p.entries, AnyListOf(p, A), ListLine(root))
          /\ Elements(st.files) = {f \in Files : Found(p, f) /\ RtlLine(f) \in read}
          /\ st.missing = MissedIn(p, read)
          /\ st.todo = <<>> \/ ToRead(st.todo, st.visited, Files, p.entries) + n <= Fuel(p)

LEMMA UserParsingStarts ==
    ASSUME NEW p, NEW A, IsProject(p, A), IsFiniteSet(Files), NEW root \in Files, Found(p, root),
           UserStart(p, root) \in UserStateOf(A)
    PROVE  UserParsing(UserStart(p, root), 0, p, A, root)
<1>1. PICK st, todo, nil : st = UserStart(p, root) /\ todo = p.entries[root] /\ nil = <<>>
  OBVIOUS
<1>2. st.todo = todo /\ st.visited = {root} /\ st.files = nil /\ st.missing = {}
  BY <1>1 DEF UserStart, UserSt
<1>3. todo \in Seq(LinesOf(A)) /\ p.entries \in [Files -> Seq(LinesOf(A))] /\ ListLine(root) \in LinesOf(A)
  BY <1>1, ListOfIs
<1>4. ListLine(root).kind = "list" /\ ListLine(root).arg = root
  BY DEF ListLine
<1>5. AnyListOf(p, A)[ListLine(root)] = {root}
  <2>1. PICK l \in LinesOf(A) : l = ListLine(root)
    BY <1>3
  <2>2. AnyListOf(p, A)[l] = IF l.kind \in Nesting /\ Found(p, l.arg) THEN {l.arg} ELSE {}
    BY AnyListOfIs
  <2>3. l.kind \in Nesting /\ l.arg = root
    BY <1>4, <2>1 DEF Nesting
  <2> QED BY <2>1, <2>2, <2>3
<1>6. Walked(todo, {root}, {ListLine(root)}, Files, LinesOf(A), p.entries, AnyListOf(p, A), ListLine(root))
  <2>1. Elements(todo) = Elements(p.entries[root])
    BY <1>1
  <2> QED BY <1>3, <1>5, <2>1 DEF Walked
<1>7. Elements(st.files) = {f \in Files : Found(p, f) /\ RtlLine(f) \in {ListLine(root)}}
  <2>1. \A f \in Files : RtlLine(f) # ListLine(root)
    BY DEF RtlLine, ListLine
  <2> QED BY <1>1, <1>2, <2>1 DEF Elements
<1>8. st.missing = MissedIn(p, {ListLine(root)})
  BY <1>2, <1>4 DEF MissedIn
<1>9. ToRead(todo, {root}, Files, p.entries) + 0 <= Fuel(p)
  <2>1. PICK x, y, l, f : /\ x = Cardinality(Unopened(Files, p.entries, {})) /\ l = Len(todo)
                       /\ y = Cardinality(Unopened(Files, p.entries, {root})) /\ f = Fuel(p)
    OBVIOUS
  <2>2. x \in Nat /\ y \in Nat /\ l \in Nat /\ f = 1 + x
    <3>1. x \in Nat /\ Takes(Files, p.entries, {}, root)
      BY <1>3, <2>1, UnopenedIs
    <3>2. y \in Nat
      BY <1>3, <2>1, UnopenedIs
    <3>3. l \in Nat /\ f = 1 + x
      BY <1>3, <2>1, FuelIs, LenProperties
    <3> QED BY <3>1, <3>2, <3>3
  <2>3. x = l + y
    <3>1. Takes(Files, p.entries, {}, root)
      BY <1>3, UnopenedIs
    <3>2. {} \cup {root} = {root}
      OBVIOUS
    <3> QED BY <1>1, <2>1, <3>1, <3>2, Zenon DEF Takes
  <2>4. l + y + 0 <= f
    BY <2>2, <2>3
  <2> QED BY <2>1, <2>4, Zenon DEF ToRead
<1>10. UserParsing(st, 0, p, A, root)
  <2>1. \E read :
          /\ Walked(st.todo, st.visited, read, Files, LinesOf(A), p.entries, AnyListOf(p, A), ListLine(root))
          /\ Elements(st.files) = {f \in Files : Found(p, f) /\ RtlLine(f) \in read}
          /\ st.missing = MissedIn(p, read)
          /\ ToRead(st.todo, st.visited, Files, p.entries) + 0 <= Fuel(p)
    BY <1>2, <1>6, <1>7, <1>8, <1>9
  <2> QED BY <1>1, <2>1 DEF UserParsing
<1> QED BY <1>1, <1>10

LEMMA UserParsingReads ==
    ASSUME NEW p, NEW A, IsProject(p, A), IsFiniteSet(Files), NEW root \in Files, Found(p, root),
           NEW st, NEW n \in 1..Fuel(p), UserParsing(st, n - 1, p, A, root), st.todo # <<>>
    PROVE  UserParsing(ReadUserLine(p, st), n, p, A, root)
<1>1. PICK r : r = ReadUserLine(p, st)
  OBVIOUS
<1>2. r \in UserStateOf(A) /\ UserReads(p, st, r) /\ st \in UserStateOf(A)
  BY <1>1, UserReadLineIs DEF UserParsing
<1>3. st.todo \in Seq(LinesOf(A)) /\ st.visited \in SUBSET Files /\ st.files \in Seq(Files)
  BY <1>2 DEF UserStateOf
<1>4. PICK read :
          /\ Walked(st.todo, st.visited, read, Files, LinesOf(A), p.entries, AnyListOf(p, A), ListLine(root))
          /\ Elements(st.files) = {f \in Files : Found(p, f) /\ RtlLine(f) \in read}
          /\ st.missing = MissedIn(p, read)
          /\ ToRead(st.todo, st.visited, Files, p.entries) + (n - 1) <= Fuel(p)
  BY DEF UserParsing
<1>5. PICK line, L, body, opens, first, todo, opened, u, now, more :
             /\ line = Head(st.todo) /\ L = LinesOf(A) /\ body = p.entries /\ opens = AnyListOf(p, A)
             /\ first = ListLine(root) /\ todo = st.todo /\ opened = st.visited
             /\ u = r.todo /\ now = r.visited /\ more = read \cup {line}
  OBVIOUS
<1>6. line \in L /\ line \in Elements(todo)
  BY <1>3, <1>5, ElementsAre
<1>7. /\ opens \in [L -> SUBSET Files]
      /\ opens[line] = IF line.kind \in Nesting /\ Found(p, line.arg) THEN {line.arg} ELSE {}
      /\ line.kind \in Naming => line.arg \in Files
  BY <1>5, <1>6, AnyListOfIs
<1>8. /\ body \in [Files -> Seq(L)] /\ first \in L
      /\ line.kind = "rtl" => line = RtlLine(line.arg) /\ line.arg \in Files
  BY <1>5, <1>6, ListOfIs
<1>9. ToRead(todo, opened, Files, body) \in Nat /\ Fuel(p) \in Nat
  <2>1. Len(todo) \in Nat /\ Cardinality(Unopened(Files, body, opened)) \in Nat
    BY <1>3, <1>5, <1>8, UnopenedIs, LenProperties
  <2> QED BY <2>1, FuelIs DEF ToRead
<1>a. Walked(todo, opened, read, Files, L, body, opens, first) /\ todo # <<>> /\ line = Head(todo)
      /\ todo \in Seq(L) /\ opened \in SUBSET Files
  BY <1>3, <1>4, <1>5
\* Every line either opens a list or leaves the rest of the lines.
<1>10. CASE line.kind \in Nesting /\ Found(p, line.arg) /\ line.arg \notin st.visited
  <2>0. PICK f : f = line.arg
    BY Zenon
  <2>1. /\ u = body[f] \o Tail(todo) /\ now = opened \cup {f}
        /\ r.files = st.files /\ r.missing = st.missing
    BY <1>2, <1>5, <1>10, <2>0, Zenon DEF UserReads, Nesting
  <2>2. f \in Files /\ f \notin opened /\ opens[line] = {f}
    BY <1>5, <1>7, <1>10, <2>0, Zenon DEF Nesting, Naming
  <2>3. Walked(u, now, more, Files, L, body, opens, first)
    BY <1>5, <1>7, <1>8, <1>a, <2>1, <2>2, WalkOpens, ZenonT(60)
  <2>4. OneLess(todo, opened, u, now, Files, body)
    BY <1>8, <1>a, <2>1, <2>2, OneLessIs
  <2>5. Elements(r.files) = {g \in Files : Found(p, g) /\ RtlLine(g) \in more}
    <3>1. \A g \in Files : RtlLine(g) # line
      BY <1>10 DEF RtlLine, Nesting
    <3> QED BY <1>4, <1>5, <2>1, <3>1
  <2>6. r.missing = MissedIn(p, more)
    BY <1>4, <1>5, <1>10, <2>1 DEF MissedIn
  <2>7. ToRead(u, now, Files, body) + n <= Fuel(p)
    BY <1>4, <1>5, <1>9, <2>4 DEF OneLess
  <2> QED BY <1>1, <1>2, <1>5, <2>3, <2>5, <2>6, <2>7 DEF UserParsing
<1>11. CASE ~(line.kind \in Nesting /\ Found(p, line.arg) /\ line.arg \notin st.visited)
  <2>1. /\ u = Tail(todo) /\ now = opened
        /\ r.files = IF line.kind = "rtl" /\ Found(p, line.arg) THEN Append(st.files, line.arg) ELSE st.files
        /\ r.missing = IF line.kind \in Naming /\ ~Found(p, line.arg)
                       THEN st.missing \cup {line.arg} ELSE st.missing
    BY <1>2, <1>5, <1>11, Zenon DEF UserReads, Nesting, Naming
  <2>2. opens[line] \subseteq opened
    BY <1>5, <1>7, <1>11
  <2>3. Walked(u, now, more, Files, L, body, opens, first)
    BY <1>5, <1>7, <1>8, <1>a, <2>1, <2>2, WalkSkips
  <2>4. OneLess(todo, opened, u, now, Files, body)
    BY <1>8, <1>a, <2>1, OneLessIs
  <2>5. Elements(r.files) = {g \in Files : Found(p, g) /\ RtlLine(g) \in more}
    <3>1. CASE line.kind = "rtl" /\ Found(p, line.arg)
      <4>1. Elements(r.files) = Elements(st.files) \cup {line.arg}
        BY <1>3, <1>8, <2>1, <3>1, ElementsAre
      <4>2. \A g \in Files : RtlLine(g) = line <=> g = line.arg
        BY <1>8, <3>1 DEF RtlLine
      <4> QED BY <1>4, <1>5, <1>8, <3>1, <4>1, <4>2
    <3>2. CASE ~(line.kind = "rtl" /\ Found(p, line.arg))
      <4>1. \A g \in Files : RtlLine(g).kind = "rtl" /\ RtlLine(g).arg = g
        BY DEF RtlLine
      <4>2. \A g \in Files : Found(p, g) => RtlLine(g) # line
        BY <3>2, <4>1
      <4> QED BY <1>4, <1>5, <2>1, <3>2, <4>2
    <3> QED BY <3>1, <3>2
  <2>6. r.missing = MissedIn(p, more)
    <3>1. CASE line.kind \in Naming /\ ~Found(p, line.arg)
      BY <1>4, <1>5, <1>7, <2>1, <3>1 DEF MissedIn
    <3>2. CASE ~(line.kind \in Naming /\ ~Found(p, line.arg))
      BY <1>4, <1>5, <2>1, <3>2 DEF MissedIn
    <3> QED BY <3>1, <3>2
  <2>7. ToRead(u, now, Files, body) + n <= Fuel(p)
    BY <1>4, <1>5, <1>9, <2>4 DEF OneLess
  <2> QED BY <1>1, <1>2, <1>5, <2>3, <2>5, <2>6, <2>7 DEF UserParsing
<1> QED BY <1>10, <1>11

\* What this parser returns.
UserParsedAs(st, p, root) ==
    /\ st.files \in Seq(Files) /\ st.visited \in SUBSET Files
    /\ IsReach(Files, NestedBy(p), {root}, st.visited)
    /\ Elements(st.files) = {f \in RtlIn(p, st.visited) : Found(p, f)}
    /\ st.missing = MissedIn(p, UNION {Elements(p.entries[v]) : v \in st.visited})

LEMMA UserParseIs ==
    ASSUME NEW p, NEW A, IsProject(p, A), IsFiniteSet(Files), NEW root \in Files, Found(p, root)
    PROVE  UserParsedAs(UserParse(p, root), p, root)
<1>1. PICK run : UserRuns(run, p, A, root)
  BY UserParseRuns
<1> DEFINE c == Fuel(p)
           T == {n \in 0..c : UserParsing(run[n], n, p, A, root)}
<1>2. c \in Nat
  BY FuelIs
<1> HIDE DEF c
<1>3. /\ \A n \in 0..c : run[n] \in UserStateOf(A)
      /\ run[0] = UserStart(p, root) /\ UserParse(p, root) = run[c]
      /\ \A i \in 1..c : run[i] = IF run[i - 1].todo = <<>> THEN run[i - 1] ELSE ReadUserLine(p, run[i - 1])
  BY <1>1 DEF UserRuns, c
<1>4. 0 \in T
  <2>1. run[0] \in UserStateOf(A) /\ 0 \in 0..c
    BY <1>2, <1>3
  <2>2. UserParsing(run[0], 0, p, A, root)
    BY <1>3, <2>1, UserParsingStarts
  <2> QED BY <2>1, <2>2
<1>5. ASSUME NEW i \in 1..c, i - 1 \in T PROVE i \in T
  <2>1. PICK st, r : st = run[i - 1] /\ r = run[i]
    OBVIOUS
  <2>2. UserParsing(st, i - 1, p, A, root) /\ i \in 0..c
    BY <1>2, <1>5, <2>1
  <2>3. r = IF st.todo = <<>> THEN st ELSE ReadUserLine(p, st)
    BY <1>3, <2>1
  <2>4. CASE st.todo = <<>>
    <3>1. UserParsing(st, i, p, A, root)
      BY <2>2, <2>4 DEF UserParsing
    <3> QED BY <2>1, <2>2, <2>3, <2>4, <3>1
  <2>5. CASE st.todo # <<>>
    <3>1. UserParsing(r, i, p, A, root)
      BY <2>2, <2>3, <2>5, UserParsingReads DEF c
    <3> QED BY <2>1, <2>2, <3>1
  <2> QED BY <2>4, <2>5
<1>6. c \in T
  <2> HIDE DEF T
  <2>1. 0..c \subseteq T
    BY <1>2, <1>4, <1>5, StepByStep
  <2> QED BY <1>2, <2>1
<1>7. PICK st : st = UserParse(p, root)
  OBVIOUS
<1>8. UserParsing(st, c, p, A, root)
  BY <1>3, <1>6, <1>7
<1>9. /\ st.visited \in SUBSET Files /\ st.files \in Seq(Files) /\ st.todo \in Seq(LinesOf(A))
  BY <1>8 DEF UserParsing, UserStateOf
<1>10. PICK read :
          /\ Walked(st.todo, st.visited, read, Files, LinesOf(A), p.entries, AnyListOf(p, A), ListLine(root))
          /\ Elements(st.files) = {f \in Files : Found(p, f) /\ RtlLine(f) \in read}
          /\ st.missing = MissedIn(p, read)
          /\ st.todo = <<>> \/ ToRead(st.todo, st.visited, Files, p.entries) + c <= c
  BY <1>8 DEF UserParsing, c
<1>11. st.todo = <<>>
  <2> SUFFICES ASSUME st.todo # <<>> PROVE FALSE
    OBVIOUS
  <2>1. Len(st.todo) \in Nat \ {0}
    BY <1>9, EmptySeq
  <2>2. Cardinality(Unopened(Files, p.entries, st.visited)) \in Nat
    BY <1>9, ListOfIs, UnopenedIs
  <2>3. ToRead(st.todo, st.visited, Files, p.entries) \in Nat \ {0}
    BY <2>1, <2>2 DEF ToRead
  <2> QED BY <1>2, <1>10, <2>3
<1>12. PICK L, body, opens, first, opened :
             /\ L = LinesOf(A) /\ body = p.entries /\ opens = AnyListOf(p, A) /\ first = ListLine(root)
             /\ opened = st.visited
  OBVIOUS
<1>13. first.kind = "list" /\ first.arg = root
  BY <1>12 DEF ListLine
<1>14. /\ Walked(<<>>, opened, read, Files, L, body, opens, first)
       /\ body \in [Files -> Seq(L)] /\ opens \in [L -> SUBSET Files] /\ first \in L
       /\ Opening(Files, body, opens) = NestedBy(p)
  BY <1>10, <1>11, <1>12, ListOfIs, AnyListOfIs
<1>15. opens[first] = {root}
  <2>1. opens[first] = IF first.kind \in Nesting /\ Found(p, first.arg) THEN {first.arg} ELSE {}
    BY <1>12, <1>14, AnyListOfIs
  <2>2. first.kind \in Nesting
    BY <1>13 DEF Nesting
  <2> QED BY <1>13, <2>1, <2>2
<1>16. /\ IsReach(Files, Opening(Files, body, opens), opens[first], opened)
       /\ read = {first} \cup UNION {Elements(body[v]) : v \in opened}
  BY <1>14, WalkEnds, SMTT(60)
<1>17. IsReach(Files, NestedBy(p), {root}, st.visited)
  BY <1>12, <1>14, <1>15, <1>16
<1>18. Elements(st.files) = {f \in RtlIn(p, st.visited) : Found(p, f)}
  <2>1. \A f \in Files : RtlLine(f) # first
    BY <1>12 DEF RtlLine, ListLine
  <2> QED BY <1>10, <1>12, <1>16, <2>1 DEF RtlIn, RtlLine, Elements
<1>19. MissedIn(p, read) = MissedIn(p, UNION {Elements(body[v]) : v \in opened})
  BY <1>13, <1>16 DEF MissedIn
<1> QED BY <1>7, <1>9, <1>10, <1>12, <1>17, <1>18, <1>19 DEF UserParsedAs

\* In a project with one root list and none glued to its option, what this walk visits
\* is what prepare reaches, unless something is missing for both.
Plain(p) == \A f \in Reachable(p) : \A i \in DOMAIN p.entries[f] : p.entries[f][i].kind # "glued"

OnePlainRoot(p, root) == Roots(p) = {root} /\ Found(p, root) /\ Plain(p)

LEMMA SameWalk ==
    ASSUME NEW p, NEW A, IsProject(p, A), IsFiniteSet(Files), NEW root \in Files, OnePlainRoot(p, root),
           NEW st, UserParsedAs(st, p, root)
    PROVE  /\ st.missing = {} <=> \A f \in Named(p) \cup Reachable(p) : Found(p, f)
           /\ st.missing = {} => Elements(st.files) = Named(p)
<1>1. PICK V, R : V = st.visited /\ R = Reachable(p)
  OBVIOUS
<1>2. /\ IsReach(Files, NestedBy(p), {root}, V) /\ IsReach(Files, NamedBy(p), {root}, R)
      /\ Named(p) = RtlIn(p, R) /\ Elements(st.files) = {f \in RtlIn(p, V) : Found(p, f)}
      /\ st.missing = MissedIn(p, UNION {Elements(p.entries[v]) : v \in V})
  <2>1. Roots(p) = {root} /\ ~Single(p)
    BY DEF OnePlainRoot, Single
  <2> QED BY <1>1, <2>1, ReachableIs DEF UserParsedAs, Named
<1>3. V \in SUBSET Files /\ R \in SUBSET Files /\ root \in V /\ root \in R
  BY <1>2 DEF IsReach
<1>4. Closed(NestedBy(p), V) /\ Closed(NamedBy(p), R)
  BY <1>2 DEF IsReach
<1>5. \A v \in Files : \A l \in Elements(p.entries[v]) :
         l \in LinesOf(A) /\ (l.kind \in Naming => l.arg \in Files)
         /\ (l.kind = "list" => l = ListLine(l.arg)) /\ (l.kind = "rtl" => l = RtlLine(l.arg))
  <2>1. \A v \in Files : Elements(p.entries[v]) \in SUBSET LinesOf(A)
    <3> SUFFICES ASSUME NEW v \in Files PROVE Elements(p.entries[v]) \in SUBSET LinesOf(A)
      OBVIOUS
    <3>1. p.entries[v] \in Seq(LinesOf(A))
      BY DEF IsProject
    <3> QED BY <3>1, ElementsAre
  <2> QED BY <2>1, ListOfIs, AnyListOfIs
\* Whatever is visited is there and is reached, as no line of what is reached is glued.
<1>6. \A v \in V : Found(p, v)
  <2> DEFINE M == {v \in V : Found(p, v)}
  <2>1. Closed(NestedBy(p), M)
    BY <1>3, <1>4 DEF Closed, NestedBy
  <2>2. {root} \subseteq M /\ M \in SUBSET Files
    BY <1>3 DEF OnePlainRoot
  <2> HIDE DEF M
  <2>3. V \subseteq M
    BY <1>2, <2>1, <2>2 DEF IsReach
  <2> QED BY <2>3 DEF M
<1>8. \A v \in R : \A l \in Elements(p.entries[v]) : l.kind # "glued"
  BY <1>1 DEF OnePlainRoot, Plain, Elements
<1>9. V \subseteq R
  <2> DEFINE M == V \cap R
  <2>1. Closed(NestedBy(p), M)
    <3> SUFFICES ASSUME NEW v \in M, NEW f \in NestedBy(p)[v] PROVE f \in M
      BY DEF Closed
    <3>1. v \in Files /\ v \in V /\ f \in V /\ v \in R
      BY <1>3, <1>4 DEF Closed
    <3>2. PICK i \in DOMAIN p.entries[v] : p.entries[v][i].kind \in Nesting /\ p.entries[v][i].arg = f
      BY <3>1 DEF NestedBy
    <3>3. p.entries[v][i] \in Elements(p.entries[v])
      BY DEF Elements
    <3>4. p.entries[v][i].kind = "list"
      BY <1>8, <3>1, <3>2, <3>3 DEF Nesting
    <3>5. p.entries[v][i] = ListLine(f)
      BY <1>5, <3>1, <3>2, <3>3, <3>4
    <3>6. f \in NamedBy(p)[v]
      BY <1>3, <3>1, <3>5 DEF NamedBy
    <3>7. f \in R
      BY <1>4, <3>6 DEF Closed
    <3> QED BY <3>1, <3>7
  <2>2. {root} \subseteq M /\ M \in SUBSET Files
    BY <1>3
  <2> HIDE DEF M
  <2>3. V \subseteq M
    BY <1>2, <2>1, <2>2 DEF IsReach
  <2> QED BY <2>3 DEF M
<1>10. ASSUME st.missing = {} PROVE V = R /\ \A f \in RtlIn(p, R) \cup R : Found(p, f)
  <2>1. \A v \in V : \A l \in Elements(p.entries[v]) : l.kind \in Naming => Found(p, l.arg)
    BY <1>2, <1>3, <1>5, <1>10 DEF MissedIn
  <2>2. Closed(NamedBy(p), V)
    <3> SUFFICES ASSUME NEW v \in V, NEW f \in NamedBy(p)[v] PROVE f \in V
      BY DEF Closed
    <3>1. f \in Files /\ v \in Files
      BY <1>3 DEF NamedBy
    <3>2. PICK i \in DOMAIN p.entries[v] : p.entries[v][i] = ListLine(f)
      BY <3>1 DEF NamedBy
    <3>3. p.entries[v][i] \in Elements(p.entries[v]) /\ p.entries[v][i].kind = "list" /\ p.entries[v][i].arg = f
      BY <3>2 DEF Elements, ListLine
    <3>4. Found(p, f)
      BY <2>1, <3>3 DEF Naming
    <3>5. f \in NestedBy(p)[v]
      BY <3>1, <3>3, <3>4 DEF NestedBy, Nesting
    <3> QED BY <1>4, <3>5 DEF Closed
  <2>3. R \subseteq V
    BY <1>2, <1>3, <2>2 DEF IsReach
  <2>4. V = R
    BY <1>9, <2>3
  <2>5. ASSUME NEW f \in RtlIn(p, R) PROVE Found(p, f)
    <3>1. PICK g \in R : \E i \in DOMAIN p.entries[g] : p.entries[g][i] = RtlLine(f)
      BY DEF RtlIn, RtlLine
    <3>2. RtlLine(f) \in Elements(p.entries[g]) /\ RtlLine(f).kind = "rtl" /\ RtlLine(f).arg = f
      BY <3>1 DEF Elements, RtlLine
    <3> QED BY <2>1, <2>4, <3>2 DEF Naming
  <2> QED BY <1>6, <2>4, <2>5
<1>11. ASSUME \A f \in RtlIn(p, R) \cup R : Found(p, f) PROVE st.missing = {}
  <2> SUFFICES ASSUME NEW v \in V, NEW l \in Elements(p.entries[v]), l.kind \in Naming PROVE Found(p, l.arg)
    BY <1>2 DEF MissedIn
  <2>1. v \in R /\ v \in Files /\ l.arg \in Files
    BY <1>3, <1>5, <1>9
  <2>2. PICK i \in DOMAIN p.entries[v] : p.entries[v][i] = l
    BY DEF Elements
  <2>3. CASE l.kind = "list"
    <3>1. l = ListLine(l.arg)
      BY <1>5, <2>1, <2>3
    <3>2. l.arg \in NamedBy(p)[v]
      BY <2>1, <2>2, <3>1 DEF NamedBy
    <3>3. l.arg \in R
      BY <1>4, <2>1, <3>2 DEF Closed
    <3> QED BY <1>11, <3>3
  <2>4. CASE l.kind = "rtl"
    <3>1. l = RtlLine(l.arg)
      BY <1>5, <2>1, <2>4
    <3>2. l.arg \in RtlIn(p, R)
      BY <2>1, <2>2, <3>1 DEF RtlIn, RtlLine
    <3> QED BY <1>11, <3>2
  <2> QED BY <1>8, <2>1, <2>3, <2>4 DEF Naming
<1>12. st.missing = {} <=> \A f \in Named(p) \cup Reachable(p) : Found(p, f)
  BY <1>1, <1>2, <1>10, <1>11
<1>13. st.missing = {} => Elements(st.files) = Named(p)
  BY <1>2, <1>10
<1> QED BY <1>12, <1>13

\* A list that has as many elements as places has each of them once.
LEMMA OncePerElement ==
    ASSUME NEW X, NEW s \in Seq(X), Len(s) = Cardinality(Elements(s))
    PROVE  \A i, j \in DOMAIN s : s[i] = s[j] => i = j
<1>1. PICK l, E : l = Len(s) /\ E = Elements(s)
  OBVIOUS
<1>2. l \in Nat /\ DOMAIN s = 1..l /\ E = {s[i] : i \in 1..l} /\ Cardinality(E) = l
  BY <1>1, LenProperties DEF Elements
<1>3. IsFiniteSet(1..l) /\ Cardinality(1..l) = l
  BY <1>2, FS_Interval
<1> DEFINE f == [i \in 1..l |-> s[i]]
<1>4. f \in [1..l -> E] /\ (\A x \in E : \E i \in 1..l : f[i] = x) /\ \A i \in 1..l : f[i] = s[i]
  BY <1>2
<1> HIDE DEF f
<1>5. f \in Surjection(1..l, E)
  BY <1>4, Fun_IsSurj
<1>6. f \in Injection(1..l, E)
  BY <1>2, <1>3, <1>5, FS_SurjSameCardinalityImpliesInj
<1>7. \A i, j \in 1..l : f[i] = f[j] => i = j
  BY <1>6 DEF Injection, IsInjective
<1> QED BY <1>2, <1>4, <1>7

\* Which of the files of a list define the top, if the list names each once.
Defining(p, files) == {f \in Elements(files) : p.defines[f]}

LEMMA DefinitionsAre ==
    ASSUME NEW X, NEW s \in Seq(X), Len(s) = Cardinality(Elements(s)), NEW p
    PROVE  /\ Definitions(p, s) \in Seq(X) /\ Elements(Definitions(p, s)) = Defining(p, s)
           /\ Len(Definitions(p, s)) = Cardinality(Defining(p, s)) /\ IsFiniteSet(Defining(p, s))
<1> DEFINE P == {i \in DOMAIN s : p.defines[s[i]]}
<1>1. DOMAIN s = 1..Len(s) /\ Len(s) \in Nat
  BY LenProperties
<1>2. P \in SUBSET DOMAIN s /\ Definitions(p, s) = Picked(s, P)
  BY DEF Definitions
<1>3. Elements(s) = {s[i] : i \in DOMAIN s}
  BY DEF Elements
<1>4. \A i, j \in DOMAIN s : s[i] = s[j] => i = j
  BY OncePerElement
<1>5. Defining(p, s) = {s[i] : i \in P}
  BY <1>3 DEF Defining
<1>6. \A i \in P : i \in DOMAIN s
  OBVIOUS
<1> HIDE DEF P
<1>7. /\ Picked(s, P) \in Seq(X) /\ Len(Picked(s, P)) = Cardinality(P) /\ IsFiniteSet(P)
      /\ Elements(Picked(s, P)) = {s[i] : i \in P}
  BY <1>2, PickedSeq
<1>8. Cardinality(Defining(p, s)) = Cardinality(P) /\ IsFiniteSet(Defining(p, s))
  <2> DEFINE D == Defining(p, s)
             f == [i \in P |-> s[i]]
  <2>1. f \in [P -> D] /\ (\A i, j \in P : f[i] = f[j] => i = j) /\ \A x \in D : \E i \in P : f[i] = x
    BY <1>4, <1>5, <1>6
  <2> HIDE DEF f, D
  <2>2. f \in Bijection(P, D)
    BY <2>1, Fun_IsBij
  <2>3. ExistsBijection(P, D)
    BY <2>2, Fun_ExistsBij
  <2>4. IsFiniteSet(D) /\ Cardinality(D) = Cardinality(P)
    BY <1>7, <2>3, FS_Bijection
  <2> QED BY <2>4 DEF D
<1> QED BY <1>2, <1>5, <1>7, <1>8

LEMMA OneElement ==
    ASSUME NEW X, NEW s \in Seq(X), NEW t \in Seq(X), Len(s) = 1, Len(t) = 1, Elements(s) = Elements(t)
    PROVE  s[1] = t[1] /\ t # <<>>
<1>1. DOMAIN s = 1..1 /\ DOMAIN t = 1..1
  BY LenProperties
<1>2. t # <<>>
  BY EmptySeq
<1>3. Elements(s) = {s[1]} /\ Elements(t) = {t[1]}
  <2>1. 1..1 = {1}
    OBVIOUS
  <2>2. DOMAIN s = {1} /\ DOMAIN t = {1}
    BY <1>1, <2>1, Zenon
  <2> QED BY <2>2, Zenon DEF Elements
<1>4. \A x, y : {x} = {y} => x = y
  BY Zenon
<1> QED BY <1>2, <1>3, <1>4, Zenon

\* What the number of definitions says.
CountIssues(n) == CASE n = 0 -> {"top_not_found"}
                    [] n > 1 -> {"top_count"}
                    [] OTHER -> {}

LEMMA CountIssuesAre == ASSUME NEW n \in Nat PROVE CountIssues(n) = {} <=> n = 1
BY DEF CountIssues

NamesOfPorts(ports, names) == names = {ports[i].name : i \in DOMAIN ports}

LEMMA NoNames ==
    ASSUME NEW X, NEW ports \in Seq(X), NEW names, NamesOfPorts(ports, names)
    PROVE  names = {} <=> ports = <<>>
<1>1. ports = <<>> <=> DOMAIN ports = {}
  BY EmptySeq, LenProperties
<1> QED BY <1>1 DEF NamesOfPorts

\* A list of the user that validation accepts is one that prepare accepts, for any
\* project whose CPU list is there, in which each file is on one line and no nested
\* list is glued to its option (_validate_user_cpu_filelist_contract,
\* _validate_frontend_cpu_top): the third walk and the first one end alike.
THEOREM ValidatedListsArePrepared ==
    ASSUME NEW p, NEW A, IsProject(p, A), IsFiniteSet(Files),
           p.cpu \in Files, Found(p, p.cpu), p.soc = NoFile,
           NEW X, p.ports \in [Files -> Seq(X)],
           NEW core, core.contract \in Seq(X)
    PROVE  WhatIsValidatedIsPrepared(core, p)
<1>0. PICK q : q = Relocated(p)
  OBVIOUS
<1>a. IsProject(q, A) /\ q.cpu = p.cpu /\ q.soc = NoFile /\ Found(q, p.cpu)
  BY <1>0, RelocatedIs DEF Found
<1>1. PICK u, c, e : u = UserParse(q, p.cpu) /\ c = Collect(q) /\ e = Expected(core.contract)
  OBVIOUS
<1>2. PICK tu, tc : tu = Definitions(p, u.files) /\ tc = Definitions(p, c.rtl)
  OBVIOUS
<1>3. PICK au, ac : au = p.ports[tu[1]] /\ ac = (IF tc = <<>> THEN <<>> ELSE p.ports[tc[1]])
  OBVIOUS
<1> DEFINE w == [kind |-> "cpu_core", required |-> TRUE, identifier |-> TRUE,
                 definitions |-> Len(tc), contract |-> core.contract, actual |-> ac]
<1> SUFFICES ASSUME Len(u.files) = Cardinality(Elements(u.files)),
                    Plain(q), NamesOfPorts(e, core.ports)
             PROVE  UserListIssues(core, p) = {} <=> ~c.failed /\ Verdict(w) \in {"pass", "module_only"}
  BY <1>0, <1>1, <1>2, <1>3 DEF WhatIsValidatedIsPrepared, Plain, NamesOfPorts, Collected
<1>4. OnePlainRoot(q, p.cpu)
  <2>1. Roots(q) = {p.cpu}
    BY <1>a, NoFileAssumption DEF Roots, FirstList
  <2> QED BY <1>a, <2>1 DEF OnePlainRoot
<1>5. UserParsedAs(u, q, p.cpu)
  BY <1>1, <1>a, UserParseIs
<1>6. /\ u.missing = {} <=> \A f \in Named(q) \cup Reachable(q) : Found(q, f)
      /\ u.missing = {} => Elements(u.files) = Named(q)
  BY <1>4, <1>5, <1>a, SameWalk
<1>7. CollectedAs(c, q, A)
  BY <1>1, <1>a, CollectIs
<1>8. u.files \in Seq(Files) /\ c.rtl \in Seq(Files)
  BY <1>5, <1>7 DEF UserParsedAs, CollectedAs
\* The verdicts on one top with ports a.
<1> DEFINE Ok(a) == \/ e = <<>>
                    \/ ~Differs(Compare(e, a))
<1>9. Verdict(w) \in {"pass", "module_only"} <=> Len(tc) = 1 /\ Ok(ac)
  BY <1>1 DEF Verdict
<1>10. UserListIssues(core, p) = {} <=> u.missing = {} /\ Len(tu) = 1 /\ Ok(au)
  <2> DEFINE d == Compare(e, au)
             names == {au[i].name : i \in DOMAIN au}
             count == CountIssues(Len(tu))
             rest == IF count # {} \/ core.ports = {} THEN {}
                     ELSE IF names # core.ports THEN {"ports"}
                     ELSE Code("port_contract", d.mismatches \cap core.ports # {})
  <2>1. UserListIssues(core, p) = Code("rtl_not_found", u.missing # {}) \cup count \cup rest
    BY <1>0, <1>1, <1>2, <1>3 DEF UserListIssues, CountIssues
  <2>2. count = {} <=> Len(tu) = 1
    <3>1. Len(tu) \in Nat
      <4>1. tu \in Seq(Files)
        BY <1>2, <1>8, DefinitionsAre
      <4> QED BY <4>1, LenProperties
    <3> QED BY <3>1, CountIssuesAre
  <2>3. Code("rtl_not_found", u.missing # {}) = {} <=> u.missing = {}
    BY DEF Code
  <2>4. e \in Seq(X)
    <3> DEFINE places == {i \in DOMAIN core.contract :
              core.contract[i].direction \in {"input", "output", "inout"} /\ core.contract[i].width > 0}
    <3>1. e = Picked(core.contract, places) /\ places \in SUBSET DOMAIN core.contract
      BY <1>1 DEF Expected
    <3> HIDE DEF places
    <3> QED BY <3>1, PickedSeq
  <2>5. core.ports = {} <=> e = <<>>
    BY <2>4, NoNames
  <2>6. DOMAIN ByName(e) = core.ports /\ DOMAIN ByName(au) = names
    BY DEF ByName, NamesOfPorts
  <2>7. Differs(d) <=> names # core.ports \/ d.mismatches \cap core.ports # {}
    <3>1. PICK x, y : x = ByName(e) /\ y = ByName(au)
      OBVIOUS
    <3>2. d.missing = DOMAIN x \ DOMAIN y /\ d.extra = DOMAIN y \ DOMAIN x
          /\ d.mismatches = {n \in DOMAIN x \cap DOMAIN y : x[n] # y[n]}
      BY <3>1 DEF Compare
    <3> HIDE DEF d, names
    <3> QED BY <2>6, <3>1, <3>2 DEF Differs
  <2> HIDE DEF count, names, d
  <2>8. Len(tu) = 1 => (rest = {} <=> Ok(au))
    <3>1. Code("port_contract", d.mismatches \cap core.ports # {}) = {} <=> ~(d.mismatches \cap core.ports # {})
      BY DEF Code
    <3> QED BY <2>2, <2>5, <2>7, <3>1 DEF d
  <2> HIDE DEF rest
  <2> QED BY <2>1, <2>2, <2>3, <2>8
<1> HIDE DEF Ok, w
<1>11. CASE u.missing # {}
  <2>1. c.failed
    BY <1>6, <1>7, <1>11 DEF CollectedAs
  <2> QED BY <1>10, <1>11, <2>1
<1>12. CASE u.missing = {} /\ Named(q) = {}
  <2>1. c.failed
    BY <1>7, <1>12 DEF CollectedAs
  <2>2. Len(tu) = 0
    <3>1. Defining(p, u.files) = {}
      BY <1>6, <1>12 DEF Defining
    <3>2. Len(tu) = Cardinality(Defining(p, u.files))
      BY <1>2, <1>8, DefinitionsAre
    <3> QED BY <3>1, <3>2, FS_EmptySet
  <2> QED BY <1>10, <2>1, <2>2
<1>13. CASE u.missing = {} /\ Named(q) # {}
  <2>1. ~c.failed /\ Elements(c.rtl) = Named(q) /\ Len(c.rtl) = Cardinality(Elements(c.rtl))
        /\ Elements(u.files) = Named(q)
    BY <1>6, <1>7, <1>13 DEF CollectedAs
  <2>2. PICK D : D = Defining(p, c.rtl)
    OBVIOUS
  <2>3. D = Defining(p, u.files)
    BY <2>1, <2>2 DEF Defining
  <2>4. /\ tu \in Seq(Files) /\ Elements(tu) = D /\ Len(tu) = Cardinality(D)
        /\ tc \in Seq(Files) /\ Elements(tc) = D /\ Len(tc) = Cardinality(D)
    BY <1>2, <1>8, <2>1, <2>2, <2>3, DefinitionsAre
  <2>5. ASSUME Len(tc) = 1 PROVE au = ac
    <3>1. Len(tu) = 1 /\ Elements(tu) = Elements(tc)
      BY <2>4, <2>5, Zenon
    <3>2. tu[1] = tc[1] /\ tc # <<>>
      BY <2>4, <2>5, <3>1, OneElement, Zenon
    <3> QED BY <1>3, <3>2
  <2> QED BY <1>9, <1>10, <1>13, <2>1, <2>4, <2>5
<1> QED BY <1>11, <1>12, <1>13 DEF w

-----------------------------------------------------------------------------
(* A list without nested lists: its first h lines are options, the rest are *)
(* files, and a walk reads them in their order.                            *)

Flat(L, files, h, A) ==
    /\ L \in Seq(LinesOf(A)) /\ files \in Seq(Files) /\ h \in Nat /\ Len(L) = h + Len(files)
    /\ \A i \in 1..h : L[i].kind \in {"define", "incdir"}
    /\ \A i \in 1..Len(files) : L[h + i] = RtlLine(files[i])

\* k lines of L were read, todo is left and out was collected.
FlatAt(todo, out, k, L, files, h) ==
    /\ k \in 0..Len(L) /\ Len(todo) = Len(L) - k
    /\ \A i \in 1..Len(todo) : todo[i] = L[k + i]
    /\ out \in Seq(Files) /\ Len(out) = IF k <= h THEN 0 ELSE k - h
    /\ \A i \in 1..Len(out) : out[i] = files[i]

\* What comes next: t is left once the next line was read.
FlatStep(todo, t, out, k, L, files, h) ==
    /\ todo # <<>> /\ Head(todo) = L[k + 1]
    /\ k < h => /\ L[k + 1].kind \in {"define", "incdir"}
                /\ FlatAt(t, out, k + 1, L, files, h)
    /\ k >= h => /\ L[k + 1] = RtlLine(files[(k + 1) - h]) /\ files[(k + 1) - h] \in Elements(files)
                 /\ FlatAt(t, Append(out, files[(k + 1) - h]), k + 1, L, files, h)

LEMMA FlatStarts ==
    ASSUME NEW A, NEW L, NEW files, NEW h, Flat(L, files, h, A)
    PROVE  FlatAt(L, <<>>, 0, L, files, h)
<1>1. Len(L) \in Nat /\ h \in Nat
  BY LenProperties DEF Flat
<1>2. <<>> \in Seq(Files) /\ Len(<<>>) = 0
  BY EmptySeq
<1>3. \A i \in 1..Len(L) : L[i] = L[0 + i]
  BY <1>1
<1> QED BY <1>1, <1>2, <1>3 DEF FlatAt

LEMMA FlatReads ==
    ASSUME NEW A, NEW L, NEW files, NEW h, Flat(L, files, h, A),
           NEW todo \in Seq(LinesOf(A)), NEW out, NEW k, FlatAt(todo, out, k, L, files, h), k < Len(L),
           NEW t, t = Tail(todo)
    PROVE  FlatStep(todo, t, out, k, L, files, h)
<1>1. PICK l, m \in Nat : l = Len(L) /\ m = Len(files)
  BY LenProperties DEF Flat
<1>2. l \in Nat /\ m \in Nat /\ h \in Nat /\ l = h + m /\ k \in 0..l /\ k < l /\ k + 1 \in 0..l
  BY <1>1, LenProperties DEF Flat, FlatAt
<1>3. Len(todo) = l - k
  BY <1>1 DEF FlatAt
<1>4. todo # <<>>
  <2>1. Len(todo) # 0
    BY <1>2, <1>3
  <2> QED BY <2>1, EmptySeq
<1>5. /\ Head(todo) = todo[1] /\ Len(t) = Len(todo) - 1
      /\ \A i \in 1..Len(t) : t[i] = todo[i + 1]
  BY <1>4, HeadTailProperties
<1>6. todo[1] = L[k + 1]
  <2>1. 1 \in 1..Len(todo)
    BY <1>2, <1>3
  <2> QED BY <2>1 DEF FlatAt
<1>7. Len(t) = l - (k + 1) /\ \A i \in 1..Len(t) : t[i] = L[(k + 1) + i]
  <2>1. Len(t) = l - (k + 1)
    BY <1>2, <1>3, <1>5
  <2>2. ASSUME NEW i \in 1..Len(t) PROVE t[i] = L[(k + 1) + i]
    <3>1. i + 1 \in 1..Len(todo) /\ k + (i + 1) = (k + 1) + i
      BY <1>2, <1>3, <2>1
    <3>2. todo[i + 1] = L[k + (i + 1)]
      BY <3>1 DEF FlatAt
    <3> QED BY <1>5, <3>1, <3>2
  <2> QED BY <2>1, <2>2
<1>8. /\ out \in Seq(Files) /\ Len(out) = IF k <= h THEN 0 ELSE k - h
      /\ \A i \in 1..Len(out) : out[i] = files[i]
  BY DEF FlatAt
<1>9. ASSUME k < h
      PROVE  L[k + 1].kind \in {"define", "incdir"} /\ FlatAt(t, out, k + 1, L, files, h)
  <2>1. k + 1 \in 1..h
    BY <1>2, <1>9
  <2>2. L[k + 1].kind \in {"define", "incdir"}
    BY <2>1 DEF Flat
  <2>3. Len(out) = IF k + 1 <= h THEN 0 ELSE (k + 1) - h
    BY <1>2, <1>8, <1>9
  <2> QED BY <1>1, <1>2, <1>7, <1>8, <2>2, <2>3 DEF FlatAt
<1>10. ASSUME k >= h
       PROVE  /\ L[k + 1] = RtlLine(files[(k + 1) - h]) /\ files[(k + 1) - h] \in Elements(files)
              /\ FlatAt(t, Append(out, files[(k + 1) - h]), k + 1, L, files, h)
  <2>1. PICK j : j = (k + 1) - h
    OBVIOUS
  <2>2. j \in 1..m /\ h + j = k + 1 /\ Len(out) = j - 1 /\ j - 1 \in Nat
    BY <1>2, <1>8, <1>10, <2>1
  <2>3. L[k + 1] = RtlLine(files[j])
    BY <1>1, <2>2 DEF Flat
  <2>4. files \in Seq(Files) /\ DOMAIN files = 1..m
    BY <1>1, LenProperties DEF Flat
  <2>5. files[j] \in Elements(files) /\ files[j] \in Files
    BY <1>1, <2>2, <2>4, ElementOfSeq DEF Elements
  <2>6. PICK f, a : f = files[j] /\ a = Append(out, f)
    OBVIOUS
  <2>7. a \in Seq(Files) /\ Len(a) = Len(out) + 1 /\ (\A i \in 1..Len(out) : a[i] = out[i]) /\ a[Len(out) + 1] = f
    BY <1>8, <2>5, <2>6, AppendProperties
  <2>8. Len(a) = j
    BY <2>2, <2>7
  <2>9. \A i \in 1..Len(a) : a[i] = files[i]
    <3>1. \A i \in 1..j : i \in 1..(j - 1) \/ i = j
      BY <2>2
    <3>2. (j - 1) + 1 = j
      BY <2>2
    <3> QED BY <1>8, <2>2, <2>6, <2>7, <2>8, <3>1, <3>2
  <2>10. Len(a) = IF k + 1 <= h THEN 0 ELSE (k + 1) - h
    BY <1>2, <1>10, <2>1, <2>8
  <2>11. FlatAt(t, a, k + 1, L, files, h)
    BY <1>1, <1>2, <1>7, <2>7, <2>9, <2>10 DEF FlatAt
  <2> QED BY <2>1, <2>3, <2>5, <2>6, <2>11
<1>11. k < h \/ k >= h
  BY <1>2
<1> QED BY <1>4, <1>5, <1>6, <1>9, <1>10, <1>11 DEF FlatStep

LEMMA FlatEnds ==
    ASSUME NEW A, NEW L, NEW files, NEW h, Flat(L, files, h, A),
           NEW todo \in Seq(LinesOf(A)), NEW out, FlatAt(todo, out, Len(L), L, files, h)
    PROVE  todo = <<>> /\ out = files
<1>1. PICK l, m \in Nat : l = Len(L) /\ m = Len(files)
  BY LenProperties DEF Flat
<1>2. l \in Nat /\ m \in Nat /\ h \in Nat /\ l = h + m
  BY <1>1, LenProperties DEF Flat
<1>3. Len(todo) = l - l
  BY <1>1 DEF FlatAt
<1>4. todo = <<>>
  <2>1. Len(todo) = 0
    BY <1>2, <1>3
  <2> QED BY <2>1, EmptySeq
<1>5. /\ out \in Seq(Files) /\ Len(out) = (IF l <= h THEN 0 ELSE l - h)
      /\ \A i \in 1..Len(out) : out[i] = files[i]
  BY <1>1 DEF FlatAt
<1>6. Len(out) = m
  BY <1>2, <1>5
<1>7. files \in Seq(Files)
  BY DEF Flat
<1>8. out = files
  BY <1>1, <1>5, <1>6, <1>7, SeqEqual
<1> QED BY <1>4, <1>8


\* A line of such a list, read by prepare and by the validation.
LEMMA FlatReadLine ==
    ASSUME NEW p, NEW A, IsProject(p, A), NEW L, NEW files, NEW h, Flat(L, files, h, A),
           \A f \in Elements(files) : Found(p, f),
           NEW st \in StateOf(A), NEW k, FlatAt(st.todo, st.rtl, k, L, files, h), k < Len(L),
           NEW r, r = ReadLine(p, st)
    PROVE  st.todo # <<>> /\ r \in StateOf(A) /\ FlatAt(r.todo, r.rtl, k + 1, L, files, h)
<1>1. PICK todo, out, t : todo = st.todo /\ out = st.rtl /\ t = Tail(todo)
  OBVIOUS
<1>2. todo \in Seq(LinesOf(A))
  BY <1>1 DEF StateOf
<1>3. FlatAt(todo, out, k, L, files, h)
  BY <1>1
<1>4. /\ todo # <<>> /\ Head(todo) = L[k + 1]
      /\ k < h => /\ L[k + 1].kind \in {"define", "incdir"}
                  /\ FlatAt(t, out, k + 1, L, files, h)
      /\ k >= h => /\ L[k + 1] = RtlLine(files[(k + 1) - h]) /\ files[(k + 1) - h] \in Elements(files)
                   /\ FlatAt(t, Append(out, files[(k + 1) - h]), k + 1, L, files, h)
  <2>1. FlatStep(todo, t, out, k, L, files, h)
    BY <1>1, <1>2, <1>3, FlatReads
  <2> QED BY <2>1 DEF FlatStep
<1>5. r \in StateOf(A) /\ Reads(p, st, r)
  BY <1>1, <1>4, ReadLineIs
<1>6. PICK line : line = Head(st.todo) /\ line = L[k + 1]
  BY <1>1, <1>4
<1>7. CASE k < h
  <2>1. line.kind \in {"define", "incdir"}
    BY <1>4, <1>6, <1>7, Zenon
  <2>2. r.todo = t /\ r.rtl = out
    BY <1>1, <1>5, <1>6, <2>1, Zenon DEF Reads
  <2> QED BY <1>1, <1>4, <1>5, <1>7, <2>2
<1>8. CASE k >= h
  <2>1. PICK f : f = files[(k + 1) - h]
    OBVIOUS
  <2>2. line.kind = "rtl" /\ line.arg = f /\ Found(p, f)
    BY <1>4, <1>6, <1>8, <2>1 DEF RtlLine
  <2>3. r.todo = t /\ r.rtl = Append(out, f)
    BY <1>1, <1>5, <1>6, <2>2, Zenon DEF Reads
  <2> QED BY <1>1, <1>4, <1>5, <1>8, <2>1, <2>3
<1>9. k < h \/ k >= h
  <2>1. k \in Nat /\ h \in Nat
    BY LenProperties DEF Flat, FlatAt
  <2> QED BY <2>1
<1> QED BY <1>7, <1>8, <1>9

\* The macros that the first k lines define.
IsDefine(l, a) == l.kind = "define" /\ l.arg = a
DefinedBy(L, k, A) == {a \in A : \E i \in 1..k : IsDefine(L[i], a)}

LEMMA FlatReadUserLine ==
    ASSUME NEW p, NEW A, IsProject(p, A), NEW L, NEW files, NEW h, Flat(L, files, h, A),
           \A f \in Elements(files) : Found(p, f),
           NEW st \in UserStateOf(A), NEW k, FlatAt(st.todo, st.files, k, L, files, h), k < Len(L),
           Elements(st.defines) = DefinedBy(L, k, A),
           NEW r, r = ReadUserLine(p, st)
    PROVE  /\ st.todo # <<>> /\ r \in UserStateOf(A) /\ FlatAt(r.todo, r.files, k + 1, L, files, h)
           /\ Elements(r.defines) = DefinedBy(L, k + 1, A)
<1>1. PICK todo, out, t, ds, rs : /\ todo = st.todo /\ out = st.files /\ t = Tail(todo) /\ ds = st.defines
                              /\ rs = r.defines
  OBVIOUS
<1>2. todo \in Seq(LinesOf(A)) /\ ds \in Seq(A)
  BY <1>1 DEF UserStateOf
<1>3. FlatAt(todo, out, k, L, files, h)
  BY <1>1
<1>4. /\ todo # <<>> /\ Head(todo) = L[k + 1]
      /\ k < h => /\ L[k + 1].kind \in {"define", "incdir"}
                  /\ FlatAt(t, out, k + 1, L, files, h)
      /\ k >= h => /\ L[k + 1] = RtlLine(files[(k + 1) - h]) /\ files[(k + 1) - h] \in Elements(files)
                   /\ FlatAt(t, Append(out, files[(k + 1) - h]), k + 1, L, files, h)
  <2>1. FlatStep(todo, t, out, k, L, files, h)
    BY <1>1, <1>2, <1>3, FlatReads
  <2> QED BY <2>1 DEF FlatStep
<1>5. r \in UserStateOf(A) /\ UserReads(p, st, r)
  BY <1>1, <1>4, UserReadLineIs
<1>6. PICK line : line = Head(st.todo) /\ line = L[k + 1]
  BY <1>1, <1>4
<1>7. line \in LinesOf(A)
  BY <1>1, <1>2, <1>4, <1>6, HeadTailProperties
<1>8. k \in Nat /\ h \in Nat
  BY LenProperties DEF Flat, FlatAt
<1>9. Elements(rs) = DefinedBy(L, k + 1, A)
  <2>1. rs = IF line.kind = "define" THEN Append(ds, line.arg) ELSE ds
    BY <1>1, <1>5, <1>6, Zenon DEF UserReads
  <2>2. line.kind = "define" => line.arg \in A
    BY <1>7 DEF LinesOf
  <2>3. line.kind = "define" => Elements(rs) = Elements(ds) \cup {line.arg}
    <3>1. \A x \in A : Elements(Append(ds, x)) = Elements(ds) \cup {x}
      BY <1>2, ElementsAre
    <3> QED BY <2>1, <2>2, <3>1
  <2>4. Elements(rs) = Elements(ds) \cup {a \in A : IsDefine(line, a)}
    BY <2>1, <2>2, <2>3 DEF IsDefine
  <2>5. DefinedBy(L, k + 1, A) = DefinedBy(L, k, A) \cup {a \in A : IsDefine(line, a)}
    <3>1. \A i \in 1..k + 1 : i \in 1..k \/ i = k + 1
      BY <1>8
    <3>2. (\A i \in 1..k : i \in 1..k + 1) /\ k + 1 \in 1..k + 1
      BY <1>8
    <3> QED BY <1>6, <3>1, <3>2 DEF DefinedBy
  <2> QED BY <1>1, <2>4, <2>5, Zenon
<1>10. CASE k < h
  <2>1. line.kind \in {"define", "incdir"}
    BY <1>4, <1>6, <1>10, Zenon
  <2>2. r.todo = t /\ r.files = out
    BY <1>1, <1>5, <1>6, <2>1, Zenon DEF UserReads, Naming, Nesting
  <2> QED BY <1>1, <1>4, <1>5, <1>9, <1>10, <2>2
<1>11. CASE k >= h
  <2>1. PICK f : f = files[(k + 1) - h]
    OBVIOUS
  <2>2. line.kind = "rtl" /\ line.arg = f /\ Found(p, f)
    BY <1>4, <1>6, <1>11, <2>1 DEF RtlLine
  <2>3. r.todo = t /\ r.files = Append(out, f)
    BY <1>1, <1>5, <1>6, <2>2, Zenon DEF UserReads, Naming, Nesting
  <2> QED BY <1>1, <1>4, <1>5, <1>9, <1>11, <2>1, <2>3
<1> QED BY <1>8, <1>10, <1>11


\* What prepare and the validation make of a list that is the only one.
LEMMA FlatIsParsed ==
    ASSUME NEW p, NEW A, IsProject(p, A), IsFiniteSet(Files), NEW list \in Files, Found(p, list),
           NEW L, L = p.entries[list], NEW files, NEW h, Flat(L, files, h, A),
           \A f \in Elements(files) : Found(p, f)
    PROVE  Parse(p, list).rtl = files
<1>1. PICK run : Runs(run, p, A, list)
  BY ParseRuns
<1>2. PICK c, l : c = Fuel(p) /\ l = Len(L)
  OBVIOUS
<1>3. c \in Nat /\ l \in Nat /\ c >= 1 + l
  <2>1. PICK x, y : x = Cardinality(Unopened(Files, p.entries, {}))
                    /\ y = Cardinality(Unopened(Files, p.entries, {} \cup {list}))
    OBVIOUS
  <2>2. p.entries \in [Files -> Seq(LinesOf(A))]
    BY DEF IsProject
  <2>3. x \in Nat /\ Takes(Files, p.entries, {}, list)
    BY <2>1, <2>2, UnopenedIs
  <2>4. y \in Nat
    BY <2>1, <2>2, UnopenedIs
  <2>5. x = l + y
    BY <1>2, <2>1, <2>3 DEF Takes
  <2>6. c = 1 + x /\ c \in Nat
    BY <1>2, <2>1, FuelIs
  <2>7. l \in Nat
    BY <1>2, LenProperties DEF Flat
  <2> QED BY <2>3, <2>4, <2>5, <2>6, <2>7
<1> DEFINE read(n) == IF n - 1 <= l THEN n - 1 ELSE l
           T == {n \in 0..c : n = 0 \/ FlatAt(run[n].todo, run[n].rtl, read(n), L, files, h)}
<1>4. 0 \in T
  BY <1>3
<1>5. ASSUME NEW n \in 0..(c - 1), n \in T PROVE n + 1 \in T
  <2>1. n \in 0..c /\ n + 1 \in 1..c /\ n + 1 \in 0..c /\ (n + 1) - 1 = n
    BY <1>3
  <2>2. PICK st \in StateOf(A) : st = run[n]
    BY <1>2, <1>1, <2>1 DEF Runs
  <2>3. PICK r : r = run[n + 1]
    OBVIOUS
  <2>4. r = IF st.todo = <<>> THEN st ELSE ReadLine(p, st)
    BY <1>1, <1>2, <2>1, <2>2, <2>3 DEF Runs
  <2>5. FlatAt(r.todo, r.rtl, read(n + 1), L, files, h)
    <3>1. CASE n = 0
      <4>1. st = Start(list)
        BY <1>1, <2>2, <3>1 DEF Runs
      <4>2. st.todo = <<ListLine(list)>> /\ st.visited = {} /\ st.rtl = <<>>
        BY <4>1, Zenon DEF Start, Nothing
      <4>3. st.todo # <<>> /\ Head(st.todo) = ListLine(list) /\ Tail(st.todo) = <<>>
        BY <4>2
      <4>4. ReadLine(p, st) = r /\ Reads(p, st, r)
        BY <2>4, <4>3, ReadLineIs
      <4>5. ListLine(list).kind = "list" /\ ListLine(list).arg = list
        BY DEF ListLine
      <4>6. r.todo = L \o <<>> /\ r.rtl = <<>>
        BY <4>2, <4>3, <4>4, <4>5 DEF Reads
      <4>7. r.todo = L
        <5>1. L \in Seq(LinesOf(A))
          BY DEF Flat
        <5> QED BY <4>6, <5>1, ConcatEmptySeq
      <4>8. FlatAt(L, <<>>, 0, L, files, h)
        BY FlatStarts
      <4>9. read(n + 1) = 0
        BY <1>3, <3>1
      <4> HIDE DEF read
      <4> QED BY <4>6, <4>7, <4>8, <4>9
    <3>2. CASE n # 0
      <4>1. PICK k : k = read(n)
        OBVIOUS
      <4>2. FlatAt(st.todo, st.rtl, k, L, files, h)
        BY <2>2, <3>2, <4>1, <1>5
      <4>3. k \in Nat /\ (k < l => read(n + 1) = k + 1) /\ (~(k < l) => k = l /\ read(n + 1) = l)
        BY <1>3, <2>1, <3>2, <4>1
      <4>4. CASE k < l
        <5>1. PICK q : q = ReadLine(p, st)
          OBVIOUS
        <5>2. st.todo # <<>> /\ FlatAt(q.todo, q.rtl, k + 1, L, files, h)
          BY <1>2, <4>2, <4>4, <5>1, FlatReadLine
        <5>3. r = q
          BY <2>4, <5>1, <5>2
        <5> HIDE DEF read
        <5> QED BY <4>3, <4>4, <5>2, <5>3
      <4>5. CASE ~(k < l)
        <5>1. st.todo \in Seq(LinesOf(A))
          BY DEF StateOf
        <5>2. FlatAt(st.todo, st.rtl, Len(L), L, files, h)
          BY <1>2, <4>2, <4>3, <4>5
        <5>3. st.todo = <<>>
          BY <5>1, <5>2, FlatEnds
        <5>4. r = st
          BY <2>4, <5>3
        <5> HIDE DEF read
        <5> QED BY <1>2, <4>3, <4>5, <5>2, <5>4
      <4> QED BY <4>4, <4>5
    <3> QED BY <3>1, <3>2
  <2> HIDE DEF read
  <2> QED BY <2>1, <2>3, <2>5
<1> HIDE DEF T
<1>6. c \in T
  BY <1>3, <1>4, <1>5, StepByStep
<1>7. PICK st \in StateOf(A) : st = run[c] /\ st = Parse(p, list)
  BY <1>1, <1>2, <1>3 DEF Runs
<1>8. FlatAt(st.todo, st.rtl, Len(L), L, files, h)
  <2>1. c # 0 /\ read(c) = l
    BY <1>3
  <2> QED BY <1>2, <1>6, <1>7, <2>1 DEF T
<1>9. st.todo \in Seq(LinesOf(A))
  BY DEF StateOf
<1> QED BY <1>7, <1>8, <1>9, FlatEnds


UserReadAs(u, files, L, A) == u.files = files /\ Elements(u.defines) = DefinedBy(L, Len(L), A)

LEMMA FlatIsUserParsed ==
    ASSUME NEW p, NEW A, IsProject(p, A), IsFiniteSet(Files), NEW list \in Files,
           NEW L, L = p.entries[list], NEW files, NEW h, Flat(L, files, h, A),
           \A f \in Elements(files) : Found(p, f)
    PROVE  UserReadAs(UserParse(p, list), files, L, A)
<1>1. PICK run : UserRuns(run, p, A, list)
  BY UserParseRuns
<1>2. PICK c, l : c = Fuel(p) /\ l = Len(L)
  OBVIOUS
<1>3. c \in Nat /\ l \in Nat /\ c >= 1 + l
  <2>1. PICK x, y : x = Cardinality(Unopened(Files, p.entries, {}))
                    /\ y = Cardinality(Unopened(Files, p.entries, {} \cup {list}))
    OBVIOUS
  <2>2. p.entries \in [Files -> Seq(LinesOf(A))]
    BY DEF IsProject
  <2>3. x \in Nat /\ Takes(Files, p.entries, {}, list)
    BY <2>1, <2>2, UnopenedIs
  <2>4. y \in Nat
    BY <2>1, <2>2, UnopenedIs
  <2>5. x = l + y
    BY <1>2, <2>1, <2>3 DEF Takes
  <2>6. c = 1 + x /\ c \in Nat
    BY <1>2, <2>1, FuelIs
  <2>7. l \in Nat
    BY <1>2, LenProperties DEF Flat
  <2> QED BY <2>3, <2>4, <2>5, <2>6, <2>7
<1> DEFINE read(n) == IF n <= l THEN n ELSE l
           T == {n \in 0..c : /\ FlatAt(run[n].todo, run[n].files, read(n), L, files, h)
                              /\ Elements(run[n].defines) = DefinedBy(L, read(n), A)}
<1>4. 0 \in T
  <2>1. PICK st, nil : st = run[0] /\ nil = <<>>
    OBVIOUS
  <2>2. st.todo = L /\ st.files = nil /\ st.defines = nil
    BY <1>1, <2>1 DEF UserRuns, UserStart, UserSt
  <2>3. FlatAt(L, nil, 0, L, files, h)
    BY <2>1, FlatStarts
  <2>4. Elements(nil) = {} /\ DefinedBy(L, 0, A) = {}
    BY <2>1 DEF Elements, DefinedBy
  <2>5. read(0) = 0 /\ 0 \in 0..c
    BY <1>3
  <2> HIDE DEF read
  <2> QED BY <2>1, <2>2, <2>3, <2>4, <2>5
<1>5. ASSUME NEW n \in 0..(c - 1), n \in T PROVE n + 1 \in T
  <2>1. n \in 0..c /\ n + 1 \in 1..c /\ n + 1 \in 0..c /\ (n + 1) - 1 = n
    BY <1>3
  <2>2. PICK st \in UserStateOf(A) : st = run[n]
    BY <1>2, <1>1, <2>1 DEF UserRuns
  <2>3. PICK r : r = run[n + 1]
    OBVIOUS
  <2>4. r = IF st.todo = <<>> THEN st ELSE ReadUserLine(p, st)
    BY <1>1, <1>2, <2>1, <2>2, <2>3 DEF UserRuns
  <2>5. PICK k : k = read(n)
    OBVIOUS
  <2>6. FlatAt(st.todo, st.files, k, L, files, h) /\ Elements(st.defines) = DefinedBy(L, k, A)
    BY <2>2, <2>5, <1>5
  <2>7. k \in Nat /\ (k < l => read(n + 1) = k + 1) /\ (~(k < l) => k = l /\ read(n + 1) = l)
    BY <1>3, <2>1, <2>5
  <2> HIDE DEF read
  <2>8. FlatAt(r.todo, r.files, read(n + 1), L, files, h) /\ Elements(r.defines) = DefinedBy(L, read(n + 1), A)
    <3>1. CASE k < l
      <4>1. PICK q : q = ReadUserLine(p, st)
        OBVIOUS
      <4>2. /\ st.todo # <<>> /\ FlatAt(q.todo, q.files, k + 1, L, files, h)
            /\ Elements(q.defines) = DefinedBy(L, k + 1, A)
        BY <1>2, <2>6, <3>1, <4>1, FlatReadUserLine
      <4>3. r = q
        BY <2>4, <4>1, <4>2
      <4> QED BY <2>7, <3>1, <4>2, <4>3
    <3>2. CASE ~(k < l)
      <4>1. st.todo \in Seq(LinesOf(A))
        BY DEF UserStateOf
      <4>2. FlatAt(st.todo, st.files, Len(L), L, files, h)
        BY <1>2, <2>6, <2>7, <3>2
      <4>3. st.todo = <<>>
        BY <4>1, <4>2, FlatEnds
      <4>4. r = st
        BY <2>4, <4>3
      <4> QED BY <2>6, <2>7, <3>2, <4>4
    <3> QED BY <3>1, <3>2
  <2> QED BY <2>1, <2>3, <2>8
<1> HIDE DEF T
<1>6. c \in T
  BY <1>3, <1>4, <1>5, StepByStep
<1>7. PICK st \in UserStateOf(A) : st = run[c] /\ st = UserParse(p, list)
  BY <1>1, <1>2, <1>3 DEF UserRuns
<1>8. FlatAt(st.todo, st.files, Len(L), L, files, h) /\ Elements(st.defines) = DefinedBy(L, Len(L), A)
  <2>1. read(c) = l
    BY <1>3
  <2> QED BY <1>2, <1>6, <1>7, <2>1 DEF T
<1>9. st.todo \in Seq(LinesOf(A))
  BY DEF UserStateOf
<1>10. st.files = files
  BY <1>8, <1>9, FlatEnds
<1> QED BY <1>7, <1>8, <1>10 DEF UserReadAs

\* What the service writes: such a list of the selected files, that defines the macro
\* exactly if it was asked to and a selected file has the adapter.
Generated(L, sources, adapters, enable, A) ==
    \E h : /\ Flat(L, Unique(sources), h, A)
           /\ "ECOS_DIFFTEST" \in DefinedBy(L, Len(L), A) <=>
                  enable /\ Elements(sources) \cap adapters # {}

LEMMA TwoLines == ASSUME NEW X, NEW d \in X, NEW x \in X PROVE <<d>> \o <<x>> = <<d, x>>
<1>1. <<d>> \in Seq(X) /\ <<x>> \in Seq(X) /\ Len(<<d>>) = 1 /\ Len(<<x>>) = 1
  OBVIOUS
<1>2. /\ <<d>> \o <<x>> \in Seq(X) /\ Len(<<d>> \o <<x>>) = 2
      /\ \A i \in 1..2 : (<<d>> \o <<x>>)[i] = IF i <= 1 THEN <<d>>[i] ELSE <<x>>[i - 1]
  BY <1>1, ConcatProperties
<1>3. <<d, x>> \in Seq(X) /\ Len(<<d, x>>) = 2 /\ <<d, x>>[1] = d /\ <<d, x>>[2] = x
  OBVIOUS
<1>4. \A i \in 1..2 : (<<d>> \o <<x>>)[i] = <<d, x>>[i]
  BY <1>2, <1>3
<1> QED BY <1>2, <1>3, <1>4, SeqEqual

LEMMA GeneratedIs ==
    ASSUME NEW A, "ECOS_DIFFTEST" \in A, "." \in A,
           NEW sources \in Seq(Files), NEW adapters, NEW enable \in BOOLEAN
    PROVE  Generated(GeneratedList(sources, adapters, enable), sources, adapters, enable, A)
<1>1. PICK files \in Seq(Files) : files = Unique(sources) /\ Elements(files) = Elements(sources)
  BY UniqueIs
<1>2. PICK d, x, t : /\ d = [kind |-> "define", arg |-> t] /\ x = [kind |-> "incdir", arg |-> "."]
                     /\ t = "ECOS_DIFFTEST"
  OBVIOUS
<1>3. /\ d \in LinesOf(A) /\ x \in LinesOf(A)
      /\ d.kind \in {"define", "incdir"} /\ x.kind \in {"define", "incdir"}
      /\ IsDefine(d, t) /\ \A a \in A : ~IsDefine(x, a)
  BY <1>2 DEF LinesOf, IsDefine
<1> DEFINE asked == enable /\ \E i \in DOMAIN files : files[i] \in adapters
<1>4. PICK first : first = IF asked THEN <<d>> ELSE <<>>
  OBVIOUS
<1>5. PICK rtl : rtl = [i \in DOMAIN files |-> RtlLine(files[i])]
  OBVIOUS
<1>6. PICK L : L = (first \o <<x>>) \o rtl
  OBVIOUS
<1>7. GeneratedList(sources, adapters, enable) = L
  BY <1>1, <1>2, <1>4, <1>5, <1>6, Zenon DEF GeneratedList, RtlLine
<1>8. asked <=> enable /\ Elements(sources) \cap adapters # {}
  BY <1>1 DEF Elements
<1> HIDE DEF asked
<1>0. PICK head, h : head = first \o <<x>> /\ h = IF asked THEN 2 ELSE 1
  OBVIOUS
<1>9. /\ h \in {1, 2} /\ head \in Seq(LinesOf(A)) /\ Len(head) = h
      /\ head[h] = x /\ (h = 2 => head[1] = d) /\ (asked <=> h = 2)
  <2>1. CASE asked
    <3>1. first = <<d>>
      BY <1>4, <2>1
    <3>2. head = <<d, x>>
      BY <1>0, <1>3, <3>1, TwoLines
    <3>3. <<d, x>> \in Seq(LinesOf(A)) /\ Len(<<d, x>>) = 2 /\ <<d, x>>[2] = x /\ <<d, x>>[1] = d
      BY <1>3
    <3>4. h = 2
      BY <1>0, <2>1
    <3> QED BY <2>1, <3>2, <3>3, <3>4
  <2>2. CASE ~asked
    <3>1. first = <<>>
      BY <1>4, <2>2
    <3>2. head = <<x>>
      BY <1>0, <3>1
    <3>3. <<x>> \in Seq(LinesOf(A)) /\ Len(<<x>>) = 1 /\ <<x>>[1] = x
      BY <1>3
    <3>4. h = 1
      BY <1>0, <2>2
    <3> QED BY <2>2, <3>2, <3>3, <3>4
  <2> QED BY <2>1, <2>2
<1>10. PICK m \in Nat : m = Len(files) /\ DOMAIN files = 1..m /\ \A i \in 1..m : files[i] \in Files
  BY LenProperties, ElementOfSeq
<1>11. /\ rtl \in Seq(LinesOf(A)) /\ Len(rtl) = m /\ \A i \in 1..m : rtl[i] = RtlLine(files[i])
  <2>1. \A i \in 1..m : RtlLine(files[i]) \in LinesOf(A)
    BY <1>10 DEF RtlLine, LinesOf
  <2>2. rtl \in [1..m -> LinesOf(A)]
    BY <1>5, <1>10, <2>1
  <2>3. rtl \in Seq(LinesOf(A))
    BY <1>10, <2>2, SeqDef
  <2>4. Len(rtl) = m
    BY <1>10, <2>2, <2>3, LenProperties
  <2> QED BY <1>5, <1>10, <2>3, <2>4
<1>12. /\ L \in Seq(LinesOf(A)) /\ Len(L) = h + m
       /\ (\A i \in 1..h : L[i] = head[i]) /\ (\A i \in 1..m : L[h + i] = rtl[i])
  <2>1. L = head \o rtl
    BY <1>0, <1>6
  <2>2. /\ L \in Seq(LinesOf(A)) /\ Len(L) = h + m
        /\ \A i \in 1..h + m : L[i] = IF i <= h THEN head[i] ELSE rtl[i - h]
    BY <1>9, <1>11, <2>1, ConcatProperties
  <2>3. \A i \in 1..h : i \in 1..h + m /\ i <= h
    BY <1>9, <1>10
  <2>4. \A i \in 1..m : h + i \in 1..h + m /\ ~(h + i <= h) /\ (h + i) - h = i
    BY <1>9, <1>10
  <2> QED BY <2>2, <2>3, <2>4
<1>13. \A i \in 1..h : L[i] = x \/ (L[i] = d /\ asked)
  <2>1. \A i \in 1..h : i = h \/ (i = 1 /\ h = 2)
    BY <1>9
  <2> QED BY <1>9, <1>12, <2>1
<1>14. Flat(L, files, h, A)
  <2>1. \A i \in 1..h : L[i].kind \in {"define", "incdir"}
    BY <1>3, <1>13
  <2>2. h \in Nat
    BY <1>9
  <2> QED BY <1>10, <1>11, <1>12, <2>1, <2>2 DEF Flat
<1>15. asked => t \in DefinedBy(L, Len(L), A)
  <2> SUFFICES ASSUME asked PROVE t \in DefinedBy(L, Len(L), A)
    OBVIOUS
  <2>1. L[1] = d
    BY <1>9, <1>12
  <2>2. 1 \in 1..Len(L)
    BY <1>9, <1>10, <1>12
  <2> QED BY <1>2, <1>3, <2>1, <2>2 DEF DefinedBy
<1>16. ~asked => t \notin DefinedBy(L, Len(L), A)
  <2> SUFFICES ASSUME ~asked PROVE \A i \in 1..Len(L) : ~IsDefine(L[i], t)
    BY DEF DefinedBy
  <2> TAKE i \in 1..Len(L)
  <2>1. CASE i \in 1..h
    BY <1>2, <1>3, <1>13, <2>1
  <2>2. CASE i \notin 1..h
    <3>1. i - h \in 1..m /\ h + (i - h) = i
      BY <1>9, <1>10, <1>12, <2>2
    <3>2. L[i] = RtlLine(files[i - h])
      BY <1>11, <1>12, <3>1
    <3>3. \A f : ~IsDefine(RtlLine(f), t)
      BY DEF RtlLine, IsDefine
    <3> QED BY <3>2, <3>3
  <2> QED BY <2>1, <2>2
<1>17. t \in DefinedBy(L, Len(L), A) <=> enable /\ Elements(sources) \cap adapters # {}
  BY <1>8, <1>15, <1>16
<1> QED BY <1>1, <1>2, <1>7, <1>14, <1>17, Zenon DEF Generated


\* The records of projects.
ProjectsOf(A) == [cpu : Files \cup {NoFile}, soc : Files \cup {NoFile}, input : Files \cup {NoFile},
                  verilog : Files \cup {NoFile}, generic : BOOLEAN,
                  at : [Files -> {"here", "moved", "absent"}], copy : [Files -> Files],
                  entries : [Files -> Seq(LinesOf(A))]]

ProjectOf(cpu, soc, input, verilog, generic, at, copy, entries) ==
    [cpu |-> cpu, soc |-> soc, input |-> input, verilog |-> verilog, generic |-> generic,
     at |-> at, copy |-> copy, entries |-> entries]

WrittenAs(w, p, list, L, A) == IsProject(w, A) /\ w.entries[list] = L /\ w.at = p.at

LEMMA ProjectIs ==
    ASSUME NEW c, NEW s, NEW i, NEW v, NEW g, NEW a, NEW y, NEW e, NEW b, NEW list
    PROVE  /\ [ProjectOf(c, s, i, v, g, a, y, e) EXCEPT !.entries = b] = ProjectOf(c, s, i, v, g, a, y, b)
           /\ [ProjectOf(c, s, i, v, g, a, y, e) EXCEPT !.cpu = list] = ProjectOf(list, s, i, v, g, a, y, e)
BY DEF ProjectOf

LEMMA ProjectHasFields ==
    ASSUME NEW c, NEW s, NEW i, NEW v, NEW g, NEW a, NEW y, NEW e
    PROVE  HasFields(ProjectOf(c, s, i, v, g, a, y, e))
BY DEF HasFields, ProjectOf

LEMMA WrittenIs ==
    ASSUME NEW A, NEW p \in ProjectsOf(A), NEW list \in Files, NEW L \in Seq(LinesOf(A))
    PROVE  WrittenAs([p EXCEPT !.entries[list] = L, !.cpu = list], p, list, L, A)
<1>1. PICK c \in Files \cup {NoFile}, s \in Files \cup {NoFile}, i \in Files \cup {NoFile},
           v \in Files \cup {NoFile}, g \in BOOLEAN,
           a \in [Files -> {"here", "moved", "absent"}], y \in [Files -> Files], e \in [Files -> Seq(LinesOf(A))] :
         p = ProjectOf(c, s, i, v, g, a, y, e)
  BY DEF ProjectsOf, ProjectOf
<1>2. PICK b : b = [e EXCEPT ![list] = L]
  OBVIOUS
<1>3. b \in [Files -> Seq(LinesOf(A))] /\ b[list] = L
  BY <1>2
<1>4. p.entries = e /\ p.at = a
  BY <1>1 DEF ProjectOf
<1>5. PICK q, w : q = ProjectOf(c, s, i, v, g, a, y, b) /\ w = ProjectOf(list, s, i, v, g, a, y, b)
  OBVIOUS
<1>6. [p EXCEPT !.entries[list] = L] = q
  <2>1. [p EXCEPT !.entries[list] = L] = [p EXCEPT !.entries = [p.entries EXCEPT ![list] = L]]
    BY <1>1 DEF ProjectOf
  <2>2. [p EXCEPT !.entries = b] = q
    <3>1. [ProjectOf(c, s, i, v, g, a, y, e) EXCEPT !.entries = b] = ProjectOf(c, s, i, v, g, a, y, b)
      BY ProjectIs
    <3> QED BY <1>1, <1>5, <3>1, Zenon
  <2> QED BY <1>2, <1>4, <2>1, <2>2, Zenon
<1>7. [p EXCEPT !.entries[list] = L, !.cpu = list] = w
  <2>1. [q EXCEPT !.cpu = list] = w
    <3>1. [ProjectOf(c, s, i, v, g, a, y, b) EXCEPT !.cpu = list] = ProjectOf(list, s, i, v, g, a, y, b)
      BY ProjectIs
    <3> QED BY <1>5, <3>1, Zenon
  <2>2. [p EXCEPT !.entries[list] = L, !.cpu = list] = [[p EXCEPT !.entries[list] = L] EXCEPT !.cpu = list]
    BY <1>1 DEF ProjectOf
  <2> QED BY <1>6, <2>1, <2>2, Zenon
<1>8. /\ w.cpu = list /\ w.soc = s /\ w.input = i /\ w.verilog = v /\ w.at = a /\ w.copy = y /\ w.entries = b
  BY <1>5 DEF ProjectOf
<1>9. WrittenAs(w, p, list, L, A)
  <2>1. HasFields(w)
    BY <1>5, ProjectHasFields
  <2> QED BY <1>3, <1>4, <1>8, <2>1 DEF WrittenAs, IsProject
<1> QED BY <1>7, <1>9

\* A list of files that are all there is read as it is written.
LEMMA FlatStays ==
    ASSUME NEW p, NEW A, IsProject(p, A), NEW list \in Files, NEW L, L = p.entries[list],
           NEW files, NEW h, Flat(L, files, h, A), \A f \in Elements(files) : Found(p, f)
    PROVE  Relocated(p).entries[list] = L
<1>1. PICK r : r = Relocated(p).entries[list]
  OBVIOUS
<1>2. r = [i \in DOMAIN L |-> Redirected(p, L[i])]
  <2>1. r = AllRedirected(p)[list]
    BY <1>1, RelocatedIs
  <2> QED BY <2>1, Zenon DEF AllRedirected
<1>3. L \in Seq(LinesOf(A)) /\ files \in Seq(Files) /\ h \in Nat /\ Len(L) = h + Len(files)
  BY DEF Flat
<1>4. L = [i \in DOMAIN L |-> L[i]]
  BY <1>3
<1>5. ASSUME NEW i \in DOMAIN L PROVE Redirected(p, L[i]) = L[i]
  <2>1. i \in 1..Len(L) /\ Len(files) \in Nat
    BY <1>3, LenProperties
  <2>2. CASE i <= h
    <3>1. L[i].kind \in {"define", "incdir"}
      BY <1>3, <2>1, <2>2 DEF Flat
    <3> QED BY <3>1 DEF Redirected
  <2>3. CASE i > h
    <3>1. PICK k \in 1..Len(files) : k = i - h
      BY <1>3, <2>1, <2>3
    <3>2. L[i] = RtlLine(files[k])
      BY <1>3, <2>1, <3>1 DEF Flat
    <3>3. files[k] \in Elements(files)
      BY <1>3, <3>1, LenProperties DEF Elements
    <3>4. Resolved(p, files[k]) = files[k]
      BY <3>3 DEF Found, Resolved
    <3> QED BY <3>2, <3>4 DEF Redirected, RtlLine
  <2> QED BY <1>3, <2>1, <2>2, <2>3
<1> QED BY <1>1, <1>2, <1>4, <1>5

\* A list that the service writes for a user's selection is read back as that selection
\* by prepare and by the validation, each file once, and says that the CPU supports
\* difftest exactly if it was asked to and the files do, for any selection of files that
\* are there (write_generated_rtl_filelist, _parse_sv_filelist,
\* _parse_user_cpu_filelist, cpu_filelist_supports_difftest).
THEOREM GeneratedListsAreReadBack ==
    ASSUME NEW A, "ECOS_DIFFTEST" \in A, "." \in A, IsFiniteSet(Files),
           NEW p \in ProjectsOf(A), NEW list \in Files, Found(p, list),
           NEW sources \in Seq(Files), \A f \in Elements(sources) : Found(p, f),
           NEW adapters, NEW enable \in BOOLEAN
    PROVE  GeneratedListIsReadBack(p, list, sources, adapters, enable)
<1>1. PICK L, w, files : /\ L = GeneratedList(sources, adapters, enable) /\ files = Unique(sources)
                         /\ w = [p EXCEPT !.entries[list] = L, !.cpu = list]
  OBVIOUS
<1>2. PICK h : /\ Flat(L, files, h, A)
               /\ "ECOS_DIFFTEST" \in DefinedBy(L, Len(L), A) <=>
                      enable /\ Elements(sources) \cap adapters # {}
  <2>1. Generated(L, sources, adapters, enable, A)
    BY <1>1, GeneratedIs
  <2> QED BY <1>1, <2>1 DEF Generated
<1>3. IsProject(w, A) /\ w.entries[list] = L /\ w.at = p.at
  <2>1. L \in Seq(LinesOf(A))
    BY <1>2 DEF Flat
  <2>2. WrittenAs([p EXCEPT !.entries[list] = L, !.cpu = list], p, list, L, A)
    BY <2>1, WrittenIs
  <2> QED BY <1>1, <2>2 DEF WrittenAs
<1>4. Elements(files) = Elements(sources)
  BY <1>1, UniqueIs
<1>5. PICK x : x = Relocated(w)
  OBVIOUS
<1>6. Found(w, list) /\ \A f \in Elements(files) : Found(w, f)
  BY <1>3, <1>4 DEF Found
<1>7. /\ IsProject(x, A) /\ x.entries[list] = L
      /\ Found(x, list) /\ \A f \in Elements(files) : Found(x, f)
  <2>1. IsProject(x, A) /\ x.at = w.at
    BY <1>3, <1>5, RelocatedIs
  <2>2. x.entries[list] = L
    BY <1>2, <1>3, <1>5, <1>6, FlatStays
  <2> QED BY <1>6, <2>1, <2>2 DEF Found
<1>8. Parse(x, list).rtl = files
  BY <1>2, <1>7, FlatIsParsed
<1>9. PICK u : u = UserParse(x, list)
  OBVIOUS
<1>10. u.files = files /\ Elements(u.defines) = DefinedBy(L, Len(L), A)
  <2>1. UserReadAs(u, files, L, A)
    BY <1>2, <1>7, <1>9, FlatIsUserParsed
  <2> QED BY <2>1 DEF UserReadAs
<1>11. ListSupportsDifftest(w, list, adapters) <=> enable /\ Elements(sources) \cap adapters # {}
  <2>1. ListSupportsDifftest(w, list, adapters) <=>
           Found(w, list) /\ "ECOS_DIFFTEST" \in Elements(u.defines) /\ Elements(u.files) \cap adapters # {}
    BY <1>5, <1>9 DEF ListSupportsDifftest
  <2> QED BY <1>2, <1>4, <1>6, <1>10, <2>1
<1> QED BY <1>1, <1>5, <1>8, <1>9, <1>10, <1>11, Zenon DEF GeneratedListIsReadBack

-----------------------------------------------------------------------------
(* Entries of manifests. *)

\* The form in which MCRules has them.
ManifestsFormed(m) == /\ \E E : m.builtin \in Seq(E) /\ m.manifests \in Seq(E)
                      /\ \A i \in DOMAIN m.builtin : Identified(m.builtin[i])
                      /\ \A i, j \in DOMAIN m.builtin : m.builtin[i].id = m.builtin[j].id => i = j

LEMMA GivenAre ==
    \A given \in {<<>>, <<"a">>, <<"a", "b">>} :
        given \in Seq({"a", "b"}) /\ \A i, j \in DOMAIN given : given[i] = given[j] => i = j
<1>1. <<>> \in Seq({"a", "b"}) /\ \A i, j \in DOMAIN <<>> : <<>>[i] = <<>>[j] => i = j
  OBVIOUS
<1>2. <<"a">> \in Seq({"a", "b"}) /\ \A i, j \in DOMAIN <<"a">> : <<"a">>[i] = <<"a">>[j] => i = j
  OBVIOUS
<1>3. <<"a", "b">> \in Seq({"a", "b"})
      /\ \A i, j \in DOMAIN <<"a", "b">> : <<"a", "b">>[i] = <<"a", "b">>[j] => i = j
  OBVIOUS
<1> QED BY <1>1, <1>2, <1>3, Zenon

LEMMA IsAList ==
    ASSUME NEW I, NEW s \in Seq(I), NEW r, r = [i \in DOMAIN s |-> r[i]], NEW E, Elements(r) \subseteq E
    PROVE  r \in Seq(E)
<1>1. DOMAIN s = 1..Len(s) /\ Len(s) \in Nat
  BY LenProperties
<1>2. DOMAIN r = 1..Len(s) /\ \A i \in 1..Len(s) : r[i] \in E
  BY <1>1 DEF Elements
<1>3. r \in [1..Len(s) -> E]
  BY <1>1, <1>2
<1> QED BY <1>1, <1>3, SeqDef

LEMMA EntriesAreFormed ==
    ASSUME NEW given \in {<<>>, <<"a">>, <<"a", "b">>}, NEW ids \in Seq({"a", "b", "c", ""})
    PROVE  ManifestsFormed([builtin |-> [i \in DOMAIN given |-> [id |-> given[i], version |-> 0]],
                            manifests |-> [i \in DOMAIN ids |-> [id |-> ids[i], version |-> i]]])
<1>2. PICK builtin, manifests : /\ builtin = [i \in DOMAIN given |-> [id |-> given[i], version |-> 0]]
                                /\ manifests = [i \in DOMAIN ids |-> [id |-> ids[i], version |-> i]]
  BY Zenon
<1>3. PICK m : m = [builtin |-> builtin, manifests |-> manifests]
  BY Zenon
<1>5. m.builtin = builtin /\ m.manifests = manifests
  BY ONLY <1>3
<1>6. /\ given \in Seq({"a", "b"}) /\ \A i, j \in DOMAIN given : given[i] = given[j] => i = j
  BY GivenAre
<1>7. ids \in Seq({"a", "b", "c", ""})
  OBVIOUS
<1> DEFINE E == Elements(builtin) \cup Elements(manifests)
<1>8. builtin \in Seq(E) /\ DOMAIN builtin = DOMAIN given /\ \A i \in DOMAIN given : builtin[i].id = given[i]
  <2>1. builtin = [i \in DOMAIN given |-> builtin[i]] /\ DOMAIN builtin = DOMAIN given
    BY <1>2
  <2>2. builtin \in Seq(E)
    BY ONLY <1>6, <2>1, IsAList
  <2>3. ASSUME NEW i \in DOMAIN given PROVE builtin[i].id = given[i]
    <3>1. PICK x, e : x = given[i] /\ e = builtin[i]
      OBVIOUS
    <3>2. e = [id |-> x, version |-> 0]
      BY <1>2, <3>1
    <3>3. e.id = x
      BY ONLY <3>2
    <3> QED BY <3>1, <3>3, Zenon
  <2> QED BY <2>1, <2>2, <2>3
<1>9. manifests \in Seq(E)
  <2>1. manifests = [i \in DOMAIN ids |-> manifests[i]]
    BY <1>2
  <2> QED BY ONLY <1>7, <2>1, IsAList
<1>10. \A i \in DOMAIN builtin : Identified(builtin[i])
  <2>1. \A i \in DOMAIN given : given[i] \in {"a", "b"}
    <3>1. PICK s \in Seq({"a", "b"}) : s = given
      BY <1>6
    <3>2. (\A i \in 1..Len(s) : s[i] \in {"a", "b"}) /\ DOMAIN s = 1..Len(s)
      BY ONLY ElementOfSeq, LenProperties, <3>1
    <3> QED BY <3>1, <3>2, Zenon
  <2>2. \A x \in {"a", "b"} : x # ""
    OBVIOUS
  <2> QED BY <1>8, <2>1, <2>2, Zenon DEF Identified
<1>11. \A i, j \in DOMAIN builtin : builtin[i].id = builtin[j].id => i = j
  BY <1>6, <1>8, Zenon
<1> HIDE DEF E
<1>12. ManifestsFormed(m)
  BY <1>5, <1>8, <1>9, <1>10, <1>11, Zenon DEF ManifestsFormed
<1> QED BY <1>2, <1>3, <1>12, Zenon
=============================================================================
