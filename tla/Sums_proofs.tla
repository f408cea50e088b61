----------------------------- MODULE Sums_proofs -----------------------------
(***************************************************************************)
(* Induction over the natural numbers, stated for sets instead of          *)
(* predicates so that it can be cited, and what follows from it for        *)
(* recursive functions and for sums.                                       *)
(***************************************************************************)
EXTENDS Sums, WellFoundedInduction, SequenceTheorems, TLAPS

(* A set of natural numbers has a smallest one.                            *)
LessThan == {ss \in Nat \X Nat : ss[1] < ss[2]}

LEMMA SmallestNumber ==
    ASSUME NEW T, T \subseteq Nat, T # {}
    PROVE  \E x \in T : \A y \in T : x <= y
<1>1. IsWellFoundedOn(LessThan, Nat)
  BY NatLessThanWellFounded DEF OpToRel, LessThan
<1>2. PICK x \in T : \A y \in T : <<y, x>> \notin LessThan
  BY <1>1, WFMin
<1>3. \A y \in T : ~(y < x)
  <2>1. SUFFICES ASSUME NEW y \in T, y < x PROVE <<y, x>> \in LessThan
    BY <1>2
  <2>2. y \in Nat /\ x \in Nat
    OBVIOUS
  <2> QED
    BY <2>1, <2>2 DEF LessThan
<1>4. \A y \in T : y \in Nat /\ x \in Nat
  OBVIOUS
<1> QED
  BY <1>3, <1>4

(* Induction: a set that has 0 and the successor of each of its members up *)
(* to n has all numbers up to n.                                           *)
LEMMA SetInduction ==
    ASSUME NEW n \in Nat, NEW T,
           0 \in T,
           \A k \in 1 .. n : k - 1 \in T => k \in T
    PROVE  \A k \in 0 .. n : k \in T
<1> DEFINE Bad == {k \in 0 .. n : k \notin T}
<1> SUFFICES ASSUME Bad # {} PROVE FALSE
  OBVIOUS
<1>1. PICK x \in Bad : \A y \in Bad : x <= y
  <2>1. Bad \subseteq Nat
    OBVIOUS
  <2> HIDE DEF Bad
  <2> QED
    BY <2>1, SmallestNumber
<1>2. x \in 1 .. n /\ x \notin T
  OBVIOUS
<1>3. x - 1 \in T
  BY <1>1, <1>2
<1> QED
  BY <1>2, <1>3

(* What the k-th step of a recursion makes of a value of V.                *)
Steps(V) == [Nat -> [V -> V]]

(* The functions on 0 .. n that begin with a and go on as G says.          *)
Recursion(V, a, G, n) ==
    {f \in [0 .. n -> V] : f[0] = a /\ \A k \in 1 .. n : f[k] = G[k][f[k - 1]]}

(* There is one.                                                           *)
LEMMA RecursionExists ==
    ASSUME NEW V, NEW a \in V, NEW G \in Steps(V), NEW n \in Nat
    PROVE  Recursion(V, a, G, n) # {}
<1> DEFINE Good(f, m) ==
        f = [k \in 0 .. m |-> IF k = 0 THEN a ELSE G[k][f[k - 1]]]
           T == {m \in Nat : \E f \in [0 .. m -> V] : Good(f, m)}
<1> USE DEF Steps
<1>1. 0 \in T
  <2> DEFINE f0 == [k \in 0 .. 0 |-> a]
  <2>1. f0 \in [0 .. 0 -> V] /\ Good(f0, 0)
    OBVIOUS
  <2> QED
    BY <2>1
<1>2. ASSUME NEW m \in 1 .. n, m - 1 \in T PROVE m \in T
  <2>1. PICK f \in [0 .. m - 1 -> V] : Good(f, m - 1)
    BY <1>2
  <2> DEFINE h == [k \in 0 .. m |-> IF k = m THEN G[m][f[m - 1]] ELSE f[k]]
  <2>2. m - 1 \in 0 .. m - 1 /\ f[m - 1] \in V /\ G[m] \in [V -> V]
    OBVIOUS
  <2>3. h \in [0 .. m -> V]
    BY <2>2
  <2>4. ASSUME NEW k \in 0 .. m
        PROVE  h[k] = IF k = 0 THEN a ELSE G[k][h[k - 1]]
    <3>1. CASE k = m
      <4>1. m - 1 \in 0 .. m /\ m - 1 # m /\ m # 0 /\ m \in 0 .. m
        OBVIOUS
      <4>2. h[m - 1] = f[m - 1] /\ h[m] = G[m][f[m - 1]]
        BY <4>1
      <4> HIDE DEF h
      <4> QED
        BY <3>1, <4>1, <4>2
    <3>2. CASE k # m
      <4>1. k \in 0 .. m - 1 /\ h[k] = f[k]
        BY <3>2
      <4>2. CASE k = 0
        BY <2>1, <4>1, <4>2
      <4>3. CASE k # 0
        <5>1. k - 1 \in 0 .. m - 1 /\ k - 1 # m /\ k - 1 \in 0 .. m
          BY <4>1, <4>3
        <5>2. h[k - 1] = f[k - 1]
          BY <5>1
        <5>3. f[k] = G[k][f[k - 1]]
          BY <2>1, <4>1, <4>3
        <5> QED
          BY <4>1, <4>3, <5>2, <5>3
      <4> QED
        BY <4>2, <4>3
    <3> QED
      BY <3>1, <3>2
  <2>5. Good(h, m)
    BY <2>4
  <2> HIDE DEF h, Good
  <2> QED
    BY <2>3, <2>5
<1>3. n \in T
  <2> HIDE DEF T
  <2>1. \A k \in 0 .. n : k \in T
    BY <1>1, <1>2, SetInduction
  <2> QED
    BY <2>1
<1>4. PICK f \in [0 .. n -> V] : Good(f, n)
  BY <1>3
<1>5. f[0] = a
  BY <1>4
<1>6. ASSUME NEW k \in 1 .. n PROVE f[k] = G[k][f[k - 1]]
  BY <1>4
<1>7. f \in Recursion(V, a, G, n)
  BY <1>5, <1>6 DEF Recursion
<1> QED
  BY <1>7

---------------------------------------------------------------------------
(* The running total is what its recursive definition says.                *)
LEMMA TotalFacts ==
    ASSUME NEW g \in Seq(Nat)
    PROVE  /\ RunningTotal(g) \in [0 .. Len(g) -> Nat]
           /\ RunningTotal(g)[0] = 0
           /\ \A k \in 1 .. Len(g) :
                 RunningTotal(g)[k] = RunningTotal(g)[k - 1] + g[k]
<1> DEFINE n == Len(g)
           s == RunningTotal(g)
           G == [k \in Nat |-> [x \in Nat |-> x + (IF k \in 1 .. n THEN g[k] ELSE 0)]]
<1>1. n \in Nat /\ \A k \in 1 .. n : g[k] \in Nat
  OBVIOUS
<1>2. G \in Steps(Nat)
  BY <1>1 DEF Steps
<1>3. PICK f \in [0 .. n -> Nat] :
         f[0] = 0 /\ \A k \in 1 .. n : f[k] = G[k][f[k - 1]]
  <2> HIDE DEF G, n
  <2>1. Recursion(Nat, 0, G, n) # {}
    BY <1>1, <1>2, RecursionExists, 0 \in Nat, Zenon
  <2> QED
    BY <2>1 DEF Recursion
<1>4. f = [k \in 0 .. n |-> IF k = 0 THEN 0 ELSE f[k - 1] + g[k]]
  <2>1. ASSUME NEW k \in 1 .. n PROVE G[k][f[k - 1]] = f[k - 1] + g[k]
    <3>1. f[k - 1] \in Nat /\ k \in Nat
      OBVIOUS
    <3> QED
      BY <3>1
  <2>2. ASSUME NEW k \in 0 .. n
        PROVE  f[k] = IF k = 0 THEN 0 ELSE f[k - 1] + g[k]
    <3> HIDE DEF G
    <3>1. k # 0 => k \in 1 .. n
      BY <1>1
    <3> QED
      BY <1>3, <2>1, <3>1
  <2> QED
    BY <1>3, <2>2
<1>5. s = [k \in 0 .. n |-> IF k = 0 THEN 0 ELSE s[k - 1] + g[k]]
  BY <1>4 DEF RunningTotal
<1> HIDE DEF s
<1>6. s[0] = 0 /\ \A k \in 1 .. n : s[k] = s[k - 1] + g[k]
  BY <1>1, <1>5
<1>7. \A k \in 0 .. n : s[k] \in Nat
  <2> DEFINE T == {k \in 0 .. n : s[k] \in Nat}
  <2>1. 0 \in T
    BY <1>1, <1>6
  <2>2. \A k \in 1 .. n : k - 1 \in T => k \in T
    BY <1>1, <1>6
  <2>3. \A k \in 0 .. n : k \in T
    <3> HIDE DEF T
    <3> QED
      BY <1>1, <2>1, <2>2, SetInduction
  <2> QED
    BY <2>3
<1>8. s \in [0 .. n -> Nat]
  BY <1>5, <1>7
<1> QED
  BY <1>6, <1>8 DEF s

(* ... and nothing else is.                                                *)
LEMMA TotalUnique ==
    ASSUME NEW g \in Seq(Nat), NEW f,
           f[0] = 0,
           \A k \in 1 .. Len(g) : f[k] = f[k - 1] + g[k]
    PROVE  \A k \in 0 .. Len(g) : RunningTotal(g)[k] = f[k]
<1> DEFINE s == RunningTotal(g)
           T == {k \in 0 .. Len(g) : s[k] = f[k]}
<1>1. Len(g) \in Nat
  OBVIOUS
<1>2. s[0] = 0 /\ \A k \in 1 .. Len(g) : s[k] = s[k - 1] + g[k]
  BY TotalFacts
<1> HIDE DEF s
<1>3. 0 \in T
  BY <1>1, <1>2
<1>4. \A k \in 1 .. Len(g) : k - 1 \in T => k \in T
  BY <1>1, <1>2
<1>5. \A k \in 0 .. Len(g) : k \in T
  <2> HIDE DEF T
  <2> QED
    BY <1>1, <1>3, <1>4, SetInduction
<1> QED
  BY <1>5 DEF s

(* Adding more does not make less.                                         *)
LEMMA TotalGrows ==
    ASSUME NEW g \in Seq(Nat), NEW j \in 0 .. Len(g), NEW k \in 0 .. Len(g), j <= k
    PROVE  RunningTotal(g)[j] <= RunningTotal(g)[k]
<1> DEFINE s == RunningTotal(g)
           T == {m \in Nat : j <= m /\ m <= Len(g) => s[j] <= s[m]}
<1>1. Len(g) \in Nat
  OBVIOUS
<1>2. /\ \A m \in 1 .. Len(g) : s[m] = s[m - 1] + g[m] /\ g[m] \in Nat
      /\ \A m \in 0 .. Len(g) : s[m] \in Nat
  <2>1. s \in [0 .. Len(g) -> Nat] /\ \A m \in 1 .. Len(g) : s[m] = s[m - 1] + g[m]
    BY TotalFacts
  <2> HIDE DEF s
  <2>2. \A m \in 1 .. Len(g) : g[m] \in Nat
    OBVIOUS
  <2> QED
    BY <2>1, <2>2
<1> HIDE DEF s
<1>3. 0 \in T
  BY <1>1, <1>2
<1>4. ASSUME NEW m \in 1 .. Len(g), m - 1 \in T PROVE m \in T
  <2>1. CASE j <= m - 1
    BY <1>1, <1>2, <1>4, <2>1
  <2>2. CASE ~(j <= m - 1)
    BY <1>1, <1>2, <2>2
  <2> QED
    BY <2>1, <2>2
<1>5. k \in T
  <2> HIDE DEF T
  <2> QED
    BY <1>1, <1>3, <1>4, SetInduction
<1> QED
  BY <1>1, <1>5 DEF s

(* Numbers that are at least 1 add up to at least as many as there are.    *)
LEMMA TotalAtLeast ==
    ASSUME NEW g \in Seq(Nat), \A k \in 1 .. Len(g) : g[k] >= 1
    PROVE  Total(g) \in Nat /\ Total(g) >= Len(g)
<1> DEFINE s == RunningTotal(g)
           T == {m \in 0 .. Len(g) : s[m] >= m}
<1>1. /\ Len(g) \in Nat /\ s[0] = 0
      /\ \A m \in 1 .. Len(g) : s[m] = s[m - 1] + g[m]
      /\ s \in [0 .. Len(g) -> Nat]
  BY TotalFacts
<1> HIDE DEF s
<1>2. \A m \in 0 .. Len(g) : s[m] \in Nat
  BY <1>1
<1>3. 0 \in T
  BY <1>1
<1>4. ASSUME NEW m \in 1 .. Len(g), m - 1 \in T PROVE m \in T
  <2>1. g[m] \in Nat /\ g[m] >= 1 /\ s[m] = s[m - 1] + g[m] /\ s[m - 1] >= m - 1
    BY <1>1, <1>4
  <2>2. s[m - 1] \in Nat /\ m \in 0 .. Len(g)
    BY <1>1, <1>2
  <2> QED
    BY <2>1, <2>2
<1>5. \A m \in 0 .. Len(g) : m \in T
  <2> HIDE DEF T
  <2> QED
    BY <1>1, <1>3, <1>4, SetInduction
<1> QED
  BY <1>1, <1>2, <1>5 DEF s, Total
=============================================================================
