--------------------------- MODULE UThread_proofs ---------------------------
(***************************************************************************)
(* The semaphore of the thread library counts and no thread is lost, for   *)
(* every number of threads and every initial value, whatever becomes of    *)
(* the queues.                                                             *)
(***************************************************************************)
EXTENDS UThread, Sums_proofs, FiniteSetTheorems

---------------------------------------------------------------------------
(* Walking along a list.                                                   *)
MaxWalk == Cardinality(Thread)

Links == [Thread -> Pointer]

(* A walk along the links is as long as there are threads.                 *)
LEMMA MaxWalkType == IsFiniteSet(Thread) /\ MaxWalk \in Nat
  BY ThreadAssumption, FS_CardinalityType DEF MaxWalk

(* It begins at the head and follows the links until there is none.        *)
LEMMA WalkFacts ==
    ASSUME NEW nx \in Links, NEW h \in Pointer
    PROVE  /\ \A k \in 0 .. MaxWalk : Walk(nx, h)[k] \in Pointer
           /\ Walk(nx, h)[0] = h
           /\ \A k \in 1 .. MaxWalk :
                 Walk(nx, h)[k] = IF Walk(nx, h)[k - 1] = NULL THEN NULL
                                  ELSE nx[Walk(nx, h)[k - 1]]
<1> DEFINE n == MaxWalk
           follow == [x \in Pointer |-> IF x = NULL THEN NULL ELSE nx[x]]
           G == [k \in Nat |-> follow]
           w == Walk(nx, h)
<1>1. n \in Nat
  BY MaxWalkType
<1>2. follow \in [Pointer -> Pointer]
  BY DEF Pointer, Links
<1>3. G \in Steps(Pointer)
  <2> HIDE DEF follow
  <2> QED
    BY <1>2 DEF Steps
<1>4. PICK f \in [0 .. n -> Pointer] :
         f[0] = h /\ \A k \in 1 .. n : f[k] = G[k][f[k - 1]]
  <2> HIDE DEF G, n
  <2>1. Recursion(Pointer, h, G, n) # {}
    BY <1>1, <1>3, RecursionExists, Zenon
  <2> QED
    BY <2>1 DEF Recursion
<1>5. ASSUME NEW k \in 1 .. n
      PROVE  f[k] = IF f[k - 1] = NULL THEN NULL ELSE nx[f[k - 1]]
  <2>1. f[k - 1] \in Pointer /\ k \in Nat
    BY <1>1
  <2> QED
    BY <1>4, <2>1
<1>6. f = [k \in 0 .. n |->
              IF k = 0 THEN h ELSE IF f[k - 1] = NULL THEN NULL ELSE nx[f[k - 1]]]
  <2> HIDE DEF G, n
  <2>1. ASSUME NEW k \in 0 .. n
        PROVE  f[k] = IF k = 0 THEN h
                      ELSE IF f[k - 1] = NULL THEN NULL ELSE nx[f[k - 1]]
    <3>1. k # 0 => k \in 1 .. n
      BY <1>1
    <3> QED
      BY <1>4, <1>5, <3>1
  <2> QED
    BY <2>1
<1>7. w = [k \in 0 .. n |->
              IF k = 0 THEN h ELSE IF w[k - 1] = NULL THEN NULL ELSE nx[w[k - 1]]]
  BY <1>6 DEF Walk, MaxWalk
<1> HIDE DEF w, n, G, follow
<1>8. /\ w[0] = h
      /\ \A k \in 1 .. n : w[k] = IF w[k - 1] = NULL THEN NULL ELSE nx[w[k - 1]]
  BY <1>1, <1>7
<1>9. \A k \in 0 .. n : w[k] \in Pointer
  <2> DEFINE T == {k \in 0 .. n : w[k] \in Pointer}
  <2>1. 0 \in T
    BY <1>1, <1>8
  <2>2. \A k \in 1 .. n : k - 1 \in T => k \in T
    <3> SUFFICES ASSUME NEW k \in 1 .. n, k - 1 \in T PROVE k \in T
      OBVIOUS
    <3>1. w[k - 1] \in Pointer /\ k \in 0 .. n
      BY <1>1
    <3> QED
      BY <1>8, <3>1 DEF Pointer, Links
  <2>3. \A k \in 0 .. n : k \in T
    <3> HIDE DEF T
    <3> QED
      BY <1>1, <2>1, <2>2, SetInduction
  <2> QED
    BY <2>3
<1> QED
  BY <1>8, <1>9 DEF w, n

---------------------------------------------------------------------------
(* Members: what can be reached from the head.                             *)
Closed(nx, S) == \A x \in S : nx[x] = NULL \/ nx[x] \in S

(* Members are threads, the head is one of them.                           *)
LEMMA MembersType ==
    ASSUME NEW nx \in Links, NEW h \in Pointer
    PROVE  /\ Members(nx, h) \subseteq Thread
           /\ h # NULL => h \in Members(nx, h)
<1>1. /\ \A k \in 0 .. MaxWalk : Walk(nx, h)[k] \in Pointer
      /\ Walk(nx, h)[0] = h
      /\ 0 \in 0 .. MaxWalk
  BY WalkFacts, MaxWalkType
<1> QED
  BY <1>1 DEF Members, MaxWalk, Pointer

(* A walk that has come back somewhere goes round from there.              *)
LEMMA WalkRepeats ==
    ASSUME NEW nx \in Links, NEW h \in Pointer,
           NEW i \in 0 .. MaxWalk, NEW j \in 0 .. MaxWalk, i < j,
           Walk(nx, h)[i] = Walk(nx, h)[j]
    PROVE  Walk(nx, h)[MaxWalk - (j - i)] = Walk(nx, h)[MaxWalk]
<1> DEFINE w == Walk(nx, h)
           n == MaxWalk
           T == {m \in Nat : j + m <= n => w[i + m] = w[j + m]}
<1>1. n \in Nat
  BY MaxWalkType
<1>2. \A k \in 1 .. n : w[k] = IF w[k - 1] = NULL THEN NULL ELSE nx[w[k - 1]]
  BY WalkFacts
<1>3. w[i] = w[j]
  OBVIOUS
<1> HIDE DEF w, n
<1>4. 0 \in T
  BY <1>1, <1>3 DEF n
<1>5. \A m \in 1 .. n : m - 1 \in T => m \in T
  <2> SUFFICES ASSUME NEW m \in 1 .. n, m - 1 \in T, j + m <= n
               PROVE  w[i + m] = w[j + m]
    BY <1>1
  <2>1. i + m \in 1 .. n /\ j + m \in 1 .. n
    BY <1>1 DEF n
  <2>2. w[i + (m - 1)] = w[j + (m - 1)]
    BY <1>1
  <2>3. (i + m) - 1 = i + (m - 1) /\ (j + m) - 1 = j + (m - 1)
    BY <1>1
  <2> QED
    BY <1>2, <2>1, <2>2, <2>3
<1>6. \A m \in 0 .. n : m \in T
  <2> HIDE DEF T
  <2> QED
    BY <1>1, <1>4, <1>5, SetInduction
<1>7. n - j \in 0 .. n /\ j + (n - j) = n /\ i + (n - j) = n - (j - i)
  BY <1>1 DEF n
<1>8. w[i + (n - j)] = w[j + (n - j)]
  BY <1>1, <1>6, <1>7
<1> QED
  BY <1>7, <1>8 DEF w, n

(* The links lead from a member to a member: one walk of as many steps as  *)
(* there are threads meets them all.                                       *)
LEMMA MembersClosed ==
    ASSUME NEW nx \in Links, NEW h \in Pointer
    PROVE  Closed(nx, Members(nx, h))
<1> DEFINE w == Walk(nx, h)
           n == MaxWalk
           M == Members(nx, h)
<1>1. n \in Nat /\ IsFiniteSet(Thread) /\ n = Cardinality(Thread)
  BY MaxWalkType DEF MaxWalk
<1>2. /\ \A k \in 0 .. n : w[k] \in Pointer
      /\ \A k \in 1 .. n : w[k] = IF w[k - 1] = NULL THEN NULL ELSE nx[w[k - 1]]
  BY WalkFacts
<1>3. M = {w[k] : k \in 0 .. n} \ {NULL}
  BY DEF Members, MaxWalk
<1> HIDE DEF w, n, M
<1>4. ASSUME NEW k \in 0 .. n, w[k] # NULL PROVE nx[w[k]] = NULL \/ nx[w[k]] \in M
  <2>1. CASE k < n
    <3>1. k + 1 \in 1 .. n /\ (k + 1) - 1 = k /\ k + 1 \in 0 .. n
      BY <1>1, <2>1
    <3>2. w[k + 1] = nx[w[k]]
      BY <1>2, <1>4, <3>1
    <3> QED
      BY <1>3, <3>1, <3>2
  <2>2. CASE k = n
    <3>1. \A m \in 0 .. n : w[m] # NULL
      <4> DEFINE T == {m \in Nat : m <= n => w[n - m] # NULL}
      <4>1. 0 \in T
        BY <1>1, <1>4, <2>2
      <4>2. \A m \in 1 .. n : m - 1 \in T => m \in T
        <5> SUFFICES ASSUME NEW m \in 1 .. n, m - 1 \in T, w[n - m] = NULL
                     PROVE  FALSE
          BY <1>1
        <5>1. n - (m - 1) \in 1 .. n /\ (n - (m - 1)) - 1 = n - m
          BY <1>1
        <5>2. w[n - (m - 1)] = NULL
          BY <1>2, <5>1
        <5> QED
          BY <1>1, <5>2
      <4>3. \A m \in 0 .. n : m \in T
        <5> HIDE DEF T
        <5> QED
          BY <1>1, <4>1, <4>2, SetInduction
      <4>4. ASSUME NEW m \in 0 .. n PROVE w[m] # NULL
        <5>1. n - m \in 0 .. n /\ n - (n - m) = m
          BY <1>1
        <5>2. n - m \in T
          BY <4>3, <5>1
        <5> QED
          BY <1>1, <5>1, <5>2
      <4> QED
        BY <4>4
    <3> DEFINE f == [m \in 0 .. n |-> w[m]]
    <3>2. f \in [0 .. n -> Thread]
      BY <1>2, <3>1 DEF Pointer
    <3>3. IsFiniteSet(0 .. n) /\ Cardinality(0 .. n) = n + 1
      BY <1>1, FS_Interval
    <3>4. \E i, j \in 0 .. n : i # j /\ f[i] = f[j]
      <4> HIDE DEF f
      <4>1. Cardinality(Thread) < Cardinality(0 .. n)
        BY <1>1, <3>3
      <4> QED
        BY <1>1, <3>2, <3>3, <4>1, FS_PigeonHole
    <3>5. PICK i \in 0 .. n, j \in 0 .. n : i < j /\ w[i] = w[j]
      BY <1>1, <3>4
    <3>6. w[n - (j - i)] = w[n]
      BY <3>5, WalkRepeats DEF w, n
    <3>7. /\ n - (j - i) \in 0 .. n /\ (n - (j - i)) + 1 \in 1 .. n
          /\ ((n - (j - i)) + 1) - 1 = n - (j - i)
          /\ (n - (j - i)) + 1 \in 0 .. n
      BY <1>1, <3>5
    <3>8. w[(n - (j - i)) + 1] = nx[w[n]]
      BY <1>2, <1>4, <2>2, <3>6, <3>7
    <3> QED
      BY <1>3, <2>2, <3>7, <3>8
  <2> QED
    BY <1>1, <2>1, <2>2
<1> QED
  BY <1>3, <1>4 DEF Closed, M

(* Nothing else is a member.                                               *)
LEMMA MembersLeast ==
    ASSUME NEW nx \in Links, NEW h \in Pointer, NEW S,
           Closed(nx, S), h = NULL \/ h \in S
    PROVE  Members(nx, h) \subseteq S
<1> DEFINE w == Walk(nx, h)
           n == MaxWalk
           T == {k \in 0 .. n : w[k] = NULL \/ w[k] \in S}
<1>1. /\ n \in Nat /\ w[0] = h
      /\ \A k \in 1 .. n : w[k] = IF w[k - 1] = NULL THEN NULL ELSE nx[w[k - 1]]
  BY MaxWalkType, WalkFacts
<1> HIDE DEF w, n
<1>2. 0 \in T
  BY <1>1
<1>3. \A k \in 1 .. n : k - 1 \in T => k \in T
  BY <1>1 DEF Closed
<1>4. \A k \in 0 .. n : k \in T
  <2> HIDE DEF T
  <2> QED
    BY <1>1, <1>2, <1>3, SetInduction
<1>5. Members(nx, h) = {w[k] : k \in 0 .. n} \ {NULL}
  BY DEF Members, MaxWalk, w, n
<1> QED
  BY <1>4, <1>5

(* The last tcb of a list that is no circle.                               *)
LEMMA LastFacts ==
    ASSUME NEW nx \in Links, NEW h \in Thread, ~Circular(nx, h)
    PROVE  LastOf(nx, h) \in Members(nx, h) /\ nx[LastOf(nx, h)] = NULL
<1> DEFINE w == Walk(nx, h)
           n == MaxWalk
           T == {k \in 0 .. n : w[k] = NULL}
<1>1. /\ n \in Nat /\ w[0] = h
      /\ \A k \in 1 .. n : w[k] = IF w[k - 1] = NULL THEN NULL ELSE nx[w[k - 1]]
  BY MaxWalkType, WalkFacts DEF Pointer
<1>2. w[n] = NULL
  BY DEF Circular, MaxWalk
<1>3. Members(nx, h) = {w[k] : k \in 0 .. n} \ {NULL}
  BY DEF Members, MaxWalk
<1> HIDE DEF w, n
<1>4. PICK k \in T : \A m \in T : k <= m
  <2>1. T \subseteq Nat /\ T # {}
    BY <1>1, <1>2
  <2> HIDE DEF T
  <2> QED
    BY <2>1, SmallestNumber
<1>5. k \in 1 .. n
  BY <1>1, ThreadAssumption
<1>6. k - 1 \in 0 .. n /\ w[k - 1] # NULL
  BY <1>1, <1>4, <1>5
<1>7. nx[w[k - 1]] = NULL
  BY <1>1, <1>5, <1>6
<1> QED
  BY <1>3, <1>6, <1>7 DEF LastOf

---------------------------------------------------------------------------
(* What addQueue and delQueue make of the members of any list.             *)

(* Links that are only added to keep every member of every list.           *)
LEMMA MembersGrow ==
    ASSUME NEW nx \in Links, NEW l \in Links, NEW h \in Pointer,
           \A x \in Thread : nx[x] = NULL \/ l[x] = nx[x]
    PROVE  Members(nx, h) \subseteq Members(l, h)
<1> DEFINE S == Members(l, h)
<1>1. S \subseteq Thread /\ (h = NULL \/ h \in S)
  BY MembersType
<1>2. Closed(l, S)
  BY MembersClosed
<1> HIDE DEF S
<1>3. Closed(nx, S)
  BY <1>1, <1>2 DEF Closed
<1> QED
  BY <1>1, <1>3, MembersLeast DEF S

(* Cutting the link of t leaves the members of a list in two lists.        *)
LEMMA MembersCut ==
    ASSUME NEW nx \in Links, NEW h \in Pointer, NEW t \in Thread
    PROVE  LET l == [nx EXCEPT ![t] = NULL]
           IN  /\ l \in Links
               /\ Members(nx, h) \subseteq Members(l, h) \cup Members(l, nx[t])
<1> DEFINE l == [nx EXCEPT ![t] = NULL]
           S == Members(l, h) \cup Members(l, nx[t])
<1>1. /\ l \in Links /\ nx[t] \in Pointer
      /\ \A x \in Thread : l[x] = IF x = t THEN NULL ELSE nx[x]
  BY DEF Links, Pointer
<1> HIDE DEF l
<1>2. /\ Members(l, h) \subseteq Thread /\ (h = NULL \/ h \in Members(l, h))
      /\ Members(l, nx[t]) \subseteq Thread
      /\ (nx[t] = NULL \/ nx[t] \in Members(l, nx[t]))
  BY <1>1, MembersType
<1>3. Closed(l, Members(l, h)) /\ Closed(l, Members(l, nx[t]))
  BY <1>1, MembersClosed
<1>4. Closed(nx, S)
  BY <1>1, <1>2, <1>3 DEF Closed
<1>5. h = NULL \/ h \in S
  BY <1>2
<1>6. Members(nx, h) \subseteq S
  <2> HIDE DEF S
  <2> QED
    BY <1>4, <1>5, MembersLeast
<1> QED
  BY <1>1, <1>6 DEF l

(* A list of one.                                                          *)
LEMMA MembersOne ==
    ASSUME NEW nx \in Links, NEW h \in Pointer, h # NULL => nx[h] \in {NULL, h}
    PROVE  Members(nx, h) \subseteq {h}
<1>1. CASE h = NULL
  <2>1. Closed(nx, {})
    BY DEF Closed
  <2> QED
    BY <1>1, <2>1, MembersLeast
<1>2. CASE h # NULL
  <2>1. Closed(nx, {h}) /\ h \in {h}
    BY <1>2 DEF Closed
  <2> QED
    BY <2>1, MembersLeast
<1> QED
  BY <1>1, <1>2

(* delQueue loses nobody but the tcb it returns, from any list.            *)
LEMMA DelKeeps ==
    ASSUME NEW nx \in Links, NEW h \in Thread
    PROVE  /\ DelLinks(nx, h) \in Links /\ DelHead(nx, h) \in Pointer
           /\ DelLinks(nx, h)[h] = NULL
           /\ \A x \in Thread : DelLinks(nx, h)[x] = NULL \/ DelLinks(nx, h)[x] = nx[x]
           /\ Members(nx, h) \subseteq
                 {h} \cup Members(DelLinks(nx, h), DelHead(nx, h))
           /\ \A s \in Pointer :
                 Members(nx, s) \subseteq Members(DelLinks(nx, h), s) \cup
                                          Members(DelLinks(nx, h), DelHead(nx, h))
<1> DEFINE l == [nx EXCEPT ![h] = NULL]
<1>1. h # NULL /\ h \in Pointer
  BY ThreadAssumption DEF Pointer
<1>2. DelLinks(nx, h) = l /\ DelHead(nx, h) = nx[h]
  BY <1>1 DEF DelLinks, DelHead
<1>3. l \in Links /\ nx[h] \in Pointer /\ l[h] = NULL
      /\ \A x \in Thread : l[x] = NULL \/ l[x] = nx[x]
  BY DEF Links, Pointer
<1>4. \A s \in Pointer : Members(nx, s) \subseteq Members(l, s) \cup Members(l, nx[h])
  BY MembersCut
<1> HIDE DEF l
<1>5. Members(l, h) \subseteq {h}
  BY <1>1, <1>3, MembersOne
<1> QED
  BY <1>1, <1>2, <1>3, <1>4, <1>5

(* addQueue loses nobody from any list if the item has no link, and the    *)
(* item becomes a member.                                                  *)
LEMMA AddKeeps ==
    ASSUME NEW nx \in Links, NEW h \in Pointer, NEW t \in Thread,
           ~AddHangs(nx, h, t), h = NULL => nx[t] = NULL
    PROVE  /\ AddLinks(nx, h, t) \in Links /\ AddHead(h, t) \in Thread
           /\ \A x \in Thread : nx[x] = NULL \/ AddLinks(nx, h, t)[x] = nx[x]
           /\ \A x \in Thread : x # t => AddLinks(nx, h, t)[x] \in {nx[x], t}
           /\ AddLinks(nx, h, t)[t] \in {nx[t], t}
           /\ \A s \in Pointer : Members(nx, s) \subseteq Members(AddLinks(nx, h, t), s)
           /\ t \in Members(AddLinks(nx, h, t), AddHead(h, t))
<1> DEFINE l == AddLinks(nx, h, t)
           g == AddHead(h, t)
<1>1. t # NULL /\ t \in Pointer
  BY ThreadAssumption DEF Pointer
<1>2. CASE h = NULL
  <2>1. l = [nx EXCEPT ![t] = NULL] /\ g = t
    BY <1>1, <1>2 DEF AddLinks, AddHead
  <2>2. l = nx
    BY <1>2, <2>1 DEF Links
  <2>3. t \in Members(nx, t)
    BY <1>1, MembersType
  <2> QED
    BY <1>2, <2>1, <2>2, <2>3
<1>3. CASE h # NULL
  <2>1. h \in Thread /\ ~Circular(nx, h)
    BY <1>1, <1>3 DEF Pointer, AddHangs
  <2> DEFINE last == LastOf(nx, h)
  <2>2. last \in Members(nx, h) /\ nx[last] = NULL /\ last \in Thread
    BY <2>1, LastFacts, MembersType DEF Pointer
  <2>3. l = [nx EXCEPT ![last] = t] /\ g = h
    BY <1>1, <1>3 DEF AddLinks, AddHead
  <2> HIDE DEF last
  <2>4. /\ l \in Links
        /\ \A x \in Thread : l[x] = IF x = last THEN t ELSE nx[x]
    BY <1>1, <2>2, <2>3 DEF Links
  <2> HIDE DEF l, g
  <2>5. \A x \in Thread : nx[x] = NULL \/ l[x] = nx[x]
    BY <2>2, <2>4
  <2>6. \A s \in Pointer : Members(nx, s) \subseteq Members(l, s)
    BY <2>4, <2>5, MembersGrow
  <2>7. last \in Members(l, h)
    BY <2>2, <2>6
  <2>8. t \in Members(l, h)
    <3>1. Closed(l, Members(l, h)) /\ l[last] = t
      BY <2>2, <2>4, MembersClosed
    <3> QED
      BY <1>1, <2>7, <3>1 DEF Closed
  <2> QED
    BY <2>1, <2>3, <2>4, <2>5, <2>6, <2>8 DEF l, g
<1> QED
  BY <1>2, <1>3

---------------------------------------------------------------------------
(* The numbers up to m are m.                                              *)
LEMMA IntervalSize ==
    ASSUME NEW m \in Nat
    PROVE  IsFiniteSet(1 .. m) /\ Cardinality(1 .. m) = m
<1>1. 1 \in Int /\ m \in Int /\ (1 > m => m = 0)
  OBVIOUS
<1>2. IsFiniteSet(1 .. m) /\ Cardinality(1 .. m) = IF 1 > m THEN 0 ELSE m - 1 + 1
  BY <1>1, FS_Interval
<1> QED
  BY <1>1, <1>2

(* The queues as long as nobody spoils them: from the head h the links     *)
(* lead along the sequence q and no further, and meet no tcb twice.        *)
IsList(nx, h, q) ==
    /\ q \in Seq(Thread)
    /\ \A i, j \in 1 .. Len(q) : q[i] = q[j] => i = j
    /\ h = IF q = <<>> THEN NULL ELSE q[1]
    /\ \A i \in 1 .. Len(q) : nx[q[i]] = IF i < Len(q) THEN q[i + 1] ELSE NULL

Elements(q) == {q[i] : i \in 1 .. Len(q)}

(* The walk along a plain list visits its threads in order.                *)
LEMMA ListWalk ==
    ASSUME NEW nx \in Links, NEW h, NEW q, IsList(nx, h, q)
    PROVE  /\ h \in Pointer /\ Len(q) \in Nat /\ Len(q) <= MaxWalk
           /\ \A k \in 0 .. MaxWalk :
                 Walk(nx, h)[k] = IF k < Len(q) THEN q[k + 1] ELSE NULL
<1> DEFINE w == Walk(nx, h)
           n == MaxWalk
           m == Len(q)
<1>1. /\ m \in Nat /\ n \in Nat /\ IsFiniteSet(Thread)
      /\ \A i \in 1 .. m : q[i] \in Thread
  BY MaxWalkType DEF IsList
<1>2. h \in Pointer
  BY DEF IsList, Pointer
<1>3. m <= n
  <2> DEFINE f == [i \in 1 .. m |-> q[i]]
  <2>1. f \in Injection(1 .. m, Thread)
    BY <1>1 DEF IsList, Injection, IsInjective
  <2>2. Cardinality(1 .. m) = m
    BY <1>1, IntervalSize
  <2> HIDE DEF f
  <2> QED
    BY <1>1, <2>1, <2>2, FS_Injection DEF MaxWalk
<1>4. /\ w[0] = h
      /\ \A k \in 1 .. n : w[k] = IF w[k - 1] = NULL THEN NULL ELSE nx[w[k - 1]]
  BY <1>2, WalkFacts
<1> HIDE DEF w, n
<1> DEFINE T == {k \in 0 .. n : w[k] = IF k < m THEN q[k + 1] ELSE NULL}
<1>5. 0 \in T
  <2>1. m > 0 <=> q # <<>>
    BY DEF IsList
  <2> QED
    BY <1>1, <1>4, <2>1 DEF IsList
<1>6. ASSUME NEW k \in 1 .. n, k - 1 \in T PROVE k \in T
  <2>1. w[k - 1] = IF k - 1 < m THEN q[(k - 1) + 1] ELSE NULL
    BY <1>6
  <2>2. CASE k - 1 < m
    <3>1. k \in 1 .. m /\ (k - 1) + 1 = k
      BY <1>1, <2>2
    <3>2. w[k - 1] = q[k] /\ q[k] # NULL
      BY <1>1, <2>1, <2>2, <3>1, ThreadAssumption
    <3>3. w[k] = nx[q[k]]
      BY <1>4, <3>2
    <3> QED
      BY <1>1, <3>1, <3>3 DEF IsList
  <2>3. CASE ~(k - 1 < m)
    BY <1>1, <1>4, <2>1, <2>3
  <2> QED
    BY <2>2, <2>3
<1>7. \A k \in 0 .. n : k \in T
  <2> HIDE DEF T
  <2> QED
    BY <1>1, <1>5, <1>6, SetInduction
<1> QED
  BY <1>1, <1>2, <1>3, <1>7 DEF w, n

(* Of such a queue the operators of the model say what one expects.        *)
LEMMA ListOperators ==
    ASSUME NEW nx \in Links, NEW h, NEW q, IsList(nx, h, q)
    PROVE  /\ h \in Pointer
           /\ Members(nx, h) = Elements(q)
           /\ ~Circular(nx, h)
           /\ q # <<>> => LastOf(nx, h) = q[Len(q)]
           /\ Listing(nx, h) = q
<1> DEFINE w == Walk(nx, h)
           n == MaxWalk
           m == Len(q)
<1>1. /\ h \in Pointer /\ m \in Nat /\ m <= n /\ n \in Nat
      /\ \A k \in 0 .. n : w[k] = IF k < m THEN q[k + 1] ELSE NULL
      /\ \A i \in 1 .. m : q[i] \in Thread
      /\ NULL \notin Thread
  BY ListWalk, MaxWalkType, ThreadAssumption DEF IsList
<1>2. Members(nx, h) = {w[k] : k \in 0 .. n} \ {NULL}
  BY DEF Members, MaxWalk
<1>3. ~Circular(nx, h) <=> w[n] = NULL
  BY DEF Circular, MaxWalk
<1>4. Listing(nx, h) = [k \in 1 .. Cardinality(Members(nx, h)) |-> w[k - 1]]
  BY DEF Listing
<1> HIDE DEF w, n
<1>5. ~Circular(nx, h)
  BY <1>1, <1>3
<1>6. Members(nx, h) = Elements(q)
  <2>1. ASSUME NEW i \in 1 .. m PROVE q[i] \in Members(nx, h)
    <3>1. i - 1 \in 0 .. n /\ i - 1 < m /\ (i - 1) + 1 = i
      BY <1>1
    <3>2. w[i - 1] = q[i] /\ q[i] # NULL
      BY <1>1, <3>1
    <3> QED
      BY <1>2, <3>1, <3>2
  <2>2. ASSUME NEW k \in 0 .. n, w[k] # NULL PROVE w[k] \in Elements(q)
    <3>1. k < m /\ w[k] = q[k + 1]
      BY <1>1, <2>2
    <3>2. k + 1 \in 1 .. m
      BY <1>1, <3>1
    <3> QED
      BY <3>1, <3>2 DEF Elements
  <2> QED
    BY <1>2, <2>1, <2>2 DEF Elements
<1>7. ASSUME q # <<>> PROVE LastOf(nx, h) = q[m]
  <2>1. m \in 1 .. m
    BY <1>1, <1>7 DEF IsList
  <2>2. q[m] \in Members(nx, h) /\ nx[q[m]] = NULL
    BY <1>1, <1>6, <2>1 DEF IsList, Elements
  <2>3. ASSUME NEW t \in Members(nx, h), nx[t] = NULL PROVE t = q[m]
    <3>1. PICK i \in 1 .. m : t = q[i]
      BY <1>6 DEF Elements
    <3>2. CASE i < m
      <4>1. nx[t] = q[i + 1] /\ i + 1 \in 1 .. m
        BY <1>1, <3>1, <3>2 DEF IsList
      <4> QED
        BY <1>1, <2>3, <4>1
    <3> QED
      BY <1>1, <3>1, <3>2
  <2> QED
    BY <2>2, <2>3 DEF LastOf
<1>8. Cardinality(Elements(q)) = m
  <2> DEFINE f == [i \in 1 .. m |-> q[i]]
  <2>1. f \in Bijection(1 .. m, Elements(q))
    BY DEF IsList, Bijection, Injection, IsInjective, Surjection, Elements
  <2>2. IsFiniteSet(1 .. m) /\ Cardinality(1 .. m) = m
    BY <1>1, IntervalSize
  <2> HIDE DEF f
  <2>3. ExistsBijection(1 .. m, Elements(q))
    BY <2>1 DEF ExistsBijection
  <2> QED
    BY <2>2, <2>3, FS_Bijection
<1>9. Listing(nx, h) = q
  <2>1. Listing(nx, h) = [k \in 1 .. m |-> w[k - 1]]
    BY <1>4, <1>6, <1>8
  <2>2. ASSUME NEW k \in 1 .. m PROVE w[k - 1] = q[k]
    <3>1. k - 1 \in 0 .. n /\ k - 1 < m /\ (k - 1) + 1 = k
      BY <1>1
    <3> QED
      BY <1>1, <3>1
  <2>3. q = [k \in 1 .. m |-> q[k]]
    BY DEF IsList
  <2> QED
    BY <2>1, <2>2, <2>3
<1> QED
  BY <1>1, <1>5, <1>6, <1>7, <1>9

(* addQueue appends to such a queue, and changes no other link.            *)
LEMMA AddToList ==
    ASSUME NEW nx \in Links, NEW h, NEW q, IsList(nx, h, q),
           NEW t \in Thread, t \notin Elements(q), nx[t] = NULL
    PROVE  /\ ~AddHangs(nx, h, t)
           /\ AddLinks(nx, h, t) \in Links
           /\ IsList(AddLinks(nx, h, t), AddHead(h, t), Append(q, t))
           /\ \A x \in Thread : x \notin Elements(q) => AddLinks(nx, h, t)[x] = nx[x]
<1> DEFINE l == AddLinks(nx, h, t)
           g == AddHead(h, t)
           r == Append(q, t)
           m == Len(q)
<1>1. /\ t # NULL /\ m \in Nat /\ q \in Seq(Thread)
      /\ \A i \in 1 .. m : q[i] \in Thread /\ q[i] # t /\ q[i] \in Elements(q)
  BY ThreadAssumption DEF IsList, Elements
<1>2. ~AddHangs(nx, h, t)
  BY ListOperators DEF AddHangs
<1>3. /\ r \in Seq(Thread) /\ Len(r) = m + 1 /\ r # <<>>
      /\ \A i \in 1 .. m : r[i] = q[i]
      /\ r[m + 1] = t
  <2>1. /\ r \in Seq(Thread) /\ Len(r) = m + 1
        /\ \A i \in 1 .. m : r[i] = q[i]
        /\ r[m + 1] = t
    BY <1>1
  <2> HIDE DEF r
  <2>2. r # <<>>
    BY <1>1, <2>1
  <2> QED
    BY <2>1, <2>2
<1>4. \A i \in 1 .. m + 1 : i \in 1 .. m \/ i = m + 1
  BY <1>1
<1> HIDE DEF r
<1>5. \A i, j \in 1 .. m + 1 : r[i] = r[j] => i = j
  BY <1>1, <1>3, <1>4 DEF IsList
<1>6. CASE q = <<>>
  <2>1. h = NULL /\ m = 0
    BY <1>6 DEF IsList
  <2>2. l = [nx EXCEPT ![t] = NULL] /\ g = t
    BY <1>1, <2>1 DEF AddLinks, AddHead
  <2>3. l = nx
    BY <2>2 DEF Links
  <2> HIDE DEF l, g
  <2>4. IsList(l, g, r)
    BY <1>3, <1>5, <2>1, <2>2, <2>3 DEF IsList
  <2> QED
    BY <1>2, <2>3, <2>4 DEF l, g, r
<1>7. CASE q # <<>>
  <2>1. m \in 1 .. m /\ h = q[1] /\ 1 \in 1 .. m
    BY <1>1, <1>7 DEF IsList
  <2>2. h # NULL /\ LastOf(nx, h) = q[m]
    BY <1>1, <1>7, <2>1, ListOperators, ThreadAssumption
  <2>3. l = [nx EXCEPT ![q[m]] = t] /\ g = h
    BY <1>1, <2>2 DEF AddLinks, AddHead
  <2>4. /\ l \in Links
        /\ \A x \in Thread : l[x] = IF x = q[m] THEN t ELSE nx[x]
    BY <1>1, <2>1, <2>3 DEF Links, Pointer
  <2> HIDE DEF l, g
  <2>5. \A x \in Thread : x \notin Elements(q) => l[x] = nx[x]
    BY <1>1, <2>1, <2>4
  <2>6. ASSUME NEW i \in 1 .. m + 1
        PROVE  l[r[i]] = IF i < m + 1 THEN r[i + 1] ELSE NULL
    <3>1. CASE i = m + 1
      BY <1>1, <1>3, <2>5, <3>1
    <3>2. CASE i = m
      BY <1>1, <1>3, <2>1, <2>4, <3>2
    <3>3. CASE i \in 1 .. m /\ i # m
      <4>1. i + 1 \in 1 .. m /\ i < m /\ r[i + 1] = q[i + 1] /\ r[i] = q[i]
        BY <1>1, <1>3, <3>3
      <4>2. nx[q[i]] = q[i + 1] /\ q[i] # q[m]
        BY <1>1, <2>1, <3>3, <4>1 DEF IsList
      <4> QED
        BY <1>1, <2>4, <3>3, <4>1, <4>2
    <3> QED
      BY <1>4, <3>1, <3>2, <3>3
  <2>7. IsList(l, g, r)
    BY <1>3, <1>5, <2>1, <2>3, <2>6 DEF IsList
  <2> QED
    BY <1>2, <2>4, <2>5, <2>7 DEF l, g, r
<1> QED
  BY <1>6, <1>7

(* delQueue takes the first one off, and changes no other link.            *)
LEMMA DelFromList ==
    ASSUME NEW nx \in Links, NEW h, NEW q, IsList(nx, h, q), q # <<>>
    PROVE  /\ h = Head(q) /\ h \in Elements(q) /\ h \in Thread
           /\ DelLinks(nx, h) \in Links
           /\ IsList(DelLinks(nx, h), DelHead(nx, h), Tail(q))
           /\ DelLinks(nx, h)[h] = NULL
           /\ \A x \in Thread : x # h => DelLinks(nx, h)[x] = nx[x]
           /\ Elements(Tail(q)) = Elements(q) \ {h}
<1> DEFINE l == DelLinks(nx, h)
           g == DelHead(nx, h)
           r == Tail(q)
           m == Len(q)
<1>1. /\ m \in Nat /\ q \in Seq(Thread) /\ 1 \in 1 .. m
      /\ \A i \in 1 .. m : q[i] \in Thread
      /\ \A i, j \in 1 .. m : q[i] = q[j] => i = j
      /\ \A i \in 1 .. m : nx[q[i]] = IF i < m THEN q[i + 1] ELSE NULL
      /\ h = q[1]
  BY DEF IsList
<1>2. h = Head(q) /\ h \in Elements(q) /\ h \in Thread /\ h # NULL
  BY <1>1, ThreadAssumption DEF Elements
<1>3. l = [nx EXCEPT ![h] = NULL] /\ g = nx[h]
  BY <1>2 DEF DelLinks, DelHead
<1>4. /\ l \in Links /\ l[h] = NULL
      /\ \A x \in Thread : x # h => l[x] = nx[x]
  BY <1>2, <1>3 DEF Links, Pointer
<1>5. /\ r \in Seq(Thread) /\ Len(r) = m - 1
      /\ \A i \in 1 .. m - 1 : r[i] = q[i + 1]
  BY <1>1
<1>6. r = <<>> <=> m = 1
  BY <1>1, <1>5
<1> HIDE DEF l, g, r, m
<1>7. \A i \in 1 .. m - 1 : i + 1 \in 1 .. m /\ i + 1 # 1
  BY <1>1
<1>8. \A i, j \in 1 .. m - 1 : r[i] = r[j] => i = j
  <2> SUFFICES ASSUME NEW i \in 1 .. m - 1, NEW j \in 1 .. m - 1, r[i] = r[j]
               PROVE  i = j
    OBVIOUS
  <2>1. i + 1 = j + 1
    BY <1>1, <1>5, <1>7
  <2> QED
    BY <1>1, <2>1
<1>9. g = IF r = <<>> THEN NULL ELSE r[1]
  BY <1>1, <1>3, <1>5, <1>6
<1>10. ASSUME NEW i \in 1 .. m - 1
       PROVE  l[r[i]] = IF i < m - 1 THEN r[i + 1] ELSE NULL
  <2>1. r[i] = q[i + 1] /\ q[i + 1] # h /\ q[i + 1] \in Thread
    BY <1>1, <1>5, <1>7
  <2>2. l[r[i]] = IF i + 1 < m THEN q[(i + 1) + 1] ELSE NULL
    BY <1>1, <1>4, <1>7, <2>1
  <2>3. CASE i < m - 1
    <3>1. i + 1 \in 1 .. m - 1 /\ i + 1 < m
      BY <1>1, <2>3
    <3> QED
      BY <1>5, <2>2, <2>3, <3>1
  <2>4. CASE ~(i < m - 1)
    <3>1. ~(i + 1 < m)
      BY <1>1, <2>4
    <3> QED
      BY <2>2, <2>4, <3>1
  <2> QED
    BY <2>3, <2>4
<1>11. IsList(l, g, r)
  BY <1>5, <1>8, <1>9, <1>10 DEF IsList
<1>12. Elements(r) = Elements(q) \ {h}
  <2>1. ASSUME NEW i \in 1 .. m, q[i] # h PROVE q[i] \in Elements(r)
    <3>1. i - 1 \in 1 .. m - 1 /\ (i - 1) + 1 = i
      BY <1>1, <2>1
    <3> QED
      BY <1>5, <3>1 DEF Elements
  <2>2. ASSUME NEW i \in 1 .. m - 1 PROVE r[i] \in Elements(q) /\ r[i] # h
    <3>1. r[i] = q[i + 1] /\ i + 1 \in 1 .. m /\ i + 1 # 1
      BY <1>5, <1>7
    <3> QED
      BY <1>1, <3>1 DEF Elements, m
  <2>3. Elements(q) = {q[i] : i \in 1 .. m}
    BY DEF Elements, m
  <2>4. Elements(r) = {r[i] : i \in 1 .. m - 1}
    BY <1>5 DEF Elements
  <2> QED
    BY <2>1, <2>2, <2>3, <2>4
<1> QED
  BY <1>2, <1>4, <1>11, <1>12 DEF l, g, r

---------------------------------------------------------------------------
(* addQueue and delQueue leave a pointer in the head and pointers in the   *)
(* links.                                                                  *)
LEMMA QueueTypes ==
    ASSUME NEW nx \in [Thread -> Pointer], NEW h \in Pointer, NEW t \in Pointer
    PROVE  /\ AddHead(h, t) \in Pointer
           /\ AddLinks(nx, h, t) \in [Thread -> Pointer]
           /\ DelHead(nx, h) \in Pointer
           /\ DelLinks(nx, h) \in [Thread -> Pointer]
<1>1. NULL \in Pointer /\ (h # NULL => h \in Thread)
  BY DEF Pointer
<1>2. AddHead(h, t) \in Pointer
  BY DEF AddHead
<1>3. AddLinks(nx, h, t) \in [Thread -> Pointer]
  BY <1>1 DEF AddLinks
<1>4. DelHead(nx, h) \in Pointer
  BY <1>1 DEF DelHead
<1>5. DelLinks(nx, h) \in [Thread -> Pointer]
  BY <1>1 DEF DelLinks
<1> QED
  BY <1>2, <1>3, <1>4, <1>5

QueueTypesOK ==
    /\ next \in [Thread -> Pointer]
    /\ thread_queue \in Pointer
    /\ curr_thread \in Pointer
    /\ hung \in BOOLEAN

(* The same for yield, from whatever links and whatever first thread.      *)
LEMMA YieldTypes ==
    ASSUME QueueTypesOK,
           NEW nx \in [Thread -> Pointer], NEW q \in Pointer,
           YieldWith(nx, q)
    PROVE  QueueTypesOK'
<1> USE DEF QueueTypesOK
<1>1. CASE AddHangs(nx, q, curr_thread)
  BY <1>1 DEF YieldWith
<1>2. CASE ~AddHangs(nx, q, curr_thread)
  <2> DEFINE h == AddHead(q, curr_thread)
             l == AddLinks(nx, q, curr_thread)
  <2>1. h \in Pointer /\ l \in [Thread -> Pointer]
    BY QueueTypes
  <2>2. DelHead(l, h) \in Pointer /\ DelLinks(l, h) \in [Thread -> Pointer]
    BY <2>1, QueueTypes
  <2>3. /\ curr_thread' = h
        /\ thread_queue' = DelHead(l, h)
        /\ next' = DelLinks(l, h)
        /\ hung' = hung
    BY <1>2 DEF YieldWith
  <2> QED
    BY <2>1, <2>2, <2>3
<1> QED
  BY <1>1, <1>2

(* The counter of the semaphore, the threads inside and their number.      *)
Counted == TypeOK /\ SemaphoreCounts

(* The counting invariant holds at the start.                              *)
LEMMA InitCounted == Init => Counted
<1> SUFFICES ASSUME Init PROVE Counted
  OBVIOUS
<1>1. TypeOK
  <2>1. Len(Creation) \in Nat
    BY CreationAssumption
  <2>2. g_tid \in 1 .. Len(Creation) + 1
    BY <2>1 DEF Init
  <2>3. counter \in 0 .. SemValue
    BY SemAssumption DEF Init
  <2> QED
    BY <2>2, <2>3 DEF Init, TypeOK, Pointer
<1>2. Inside = {}
  BY DEF Init, Inside
<1>3. SemaphoreCounts
  BY <1>2, FS_EmptySet, SemAssumption DEF Init, SemaphoreCounts
<1> QED
  BY <1>1, <1>3 DEF Counted

(* A thread that enters takes one from the counter.                        *)
LEMMA TakeCounted ==
    ASSUME Counted, NEW t \in Thread, P_Take(t)
    PROVE  Counted'
<1> USE DEF Counted
<1>1. Inside' = Inside \cup {t} /\ t \notin Inside
  BY DEF P_Take, Inside, TypeOK
<1>2. IsFiniteSet(Inside)
  BY ThreadAssumption, FS_Subset DEF Inside
<1>3. Cardinality(Inside') = Cardinality(Inside) + 1
  BY <1>1, <1>2, FS_AddElement
<1>4. TypeOK'
  BY SemAssumption DEF TypeOK, P_Take, queues
<1>5. Cardinality(Inside) \in Nat
  BY <1>2, FS_CardinalityType
<1>6. counter' = counter - 1 /\ counter \in Nat
  BY SemAssumption DEF P_Take, TypeOK
<1>7. SemaphoreCounts'
  BY <1>3, <1>5, <1>6, SemAssumption DEF SemaphoreCounts
<1> QED
  BY <1>4, <1>7

(* A thread that waits changes neither.                                    *)
LEMMA WaitCounted ==
    ASSUME Counted, NEW t \in Thread, P_Wait(t)
    PROVE  Counted'
<1> USE DEF Counted
<1>1. Inside' = Inside
  BY DEF P_Wait, Inside, TypeOK
<1>2. QueueTypesOK
  BY DEF TypeOK, QueueTypesOK
<1>3. t \in Pointer /\ sem_q \in Pointer
  BY DEF Pointer, TypeOK
<1>4. AddHead(sem_q, t) \in Pointer /\ AddLinks(next, sem_q, t) \in [Thread -> Pointer]
  BY <1>2, <1>3, QueueTypes DEF QueueTypesOK
<1>5. QueueTypesOK' /\ sem_q' \in Pointer
  <2>1. CASE AddHangs(next, sem_q, t)
    BY <1>2, <1>3, <2>1 DEF P_Wait, QueueTypesOK
  <2>2. CASE ~AddHangs(next, sem_q, t)
    BY <1>2, <1>4, <2>2, YieldTypes DEF P_Wait, QueueTypesOK
  <2> QED
    BY <2>1, <2>2
<1>6. TypeOK'
  BY <1>5 DEF P_Wait, TypeOK, QueueTypesOK
<1>7. SemaphoreCounts'
  BY <1>1 DEF SemaphoreCounts, P_Wait
<1> QED
  BY <1>6, <1>7

(* A thread that leaves gives one back, whoever is made runnable.          *)
LEMMA VCounted ==
    ASSUME Counted, NEW t \in Thread, V(t)
    PROVE  Counted'
<1> USE DEF Counted
<1>1. Inside' = Inside \ {t} /\ t \in Inside
  BY DEF V, Inside, TypeOK
<1>2. IsFiniteSet(Inside)
  BY ThreadAssumption, FS_Subset DEF Inside
<1>3. Cardinality(Inside') = Cardinality(Inside) - 1
  BY <1>1, <1>2, FS_RemoveElement
<1>4. Cardinality(Inside) \in Nat /\ Cardinality(Inside') \in Nat
  BY <1>1, <1>2, FS_CardinalityType, FS_Subset
<1>5. counter' = counter + 1 /\ counter \in Nat
  BY SemAssumption DEF V, TypeOK
<1>6. SemaphoreCounts' /\ counter' \in 0 .. SemValue
  BY <1>3, <1>4, <1>5, SemAssumption DEF SemaphoreCounts
<1>7. QueueTypesOK' /\ sem_q' \in Pointer
  <2> DEFINE l == DelLinks(next, sem_q)
  <2>1. QueueTypesOK /\ sem_q \in Pointer
    BY DEF TypeOK, QueueTypesOK
  <2>2. l \in [Thread -> Pointer] /\ DelHead(next, sem_q) \in Pointer
    BY <2>1, QueueTypes DEF QueueTypesOK
  <2>3. /\ AddLinks(l, thread_queue, sem_q) \in [Thread -> Pointer]
        /\ AddHead(thread_queue, sem_q) \in Pointer
    BY <2>1, <2>2, QueueTypes DEF QueueTypesOK
  <2>4. CASE counter' >= 1 /\ AddHangs(l, thread_queue, sem_q)
    BY <2>1, <2>2, <2>4 DEF V, QueueTypesOK
  <2>5. CASE counter' >= 1 /\ ~AddHangs(l, thread_queue, sem_q)
    BY <2>1, <2>2, <2>3, <2>5, YieldTypes DEF V
  <2>6. CASE ~(counter' >= 1)
    BY <2>1, <2>6, YieldTypes DEF V, QueueTypesOK
  <2> QED
    BY <2>4, <2>5, <2>6
<1>8. TypeOK'
  BY <1>6, <1>7 DEF V, TypeOK, QueueTypesOK
<1> QED
  BY <1>6, <1>8

(* yield, create_thread and run have nothing to do with the semaphore.     *)
LEMMA OtherCounted ==
    ASSUME Counted, (\E t \in Thread : yield(t)) \/ Main \/ Spin
    PROVE  Counted'
<1> USE DEF Counted
<1>1. QueueTypesOK /\ NULL \in Pointer
  BY DEF TypeOK, QueueTypesOK, Pointer
<1>2. CASE \E t \in Thread : yield(t)
  <2>1. QueueTypesOK'
    BY <1>1, <1>2, YieldTypes DEF yield, QueueTypesOK
  <2> QED
    BY <1>2, <2>1 DEF yield, TypeOK, QueueTypesOK, SemaphoreCounts, Inside
<1>3. CASE create_thread
  <2>1. Creation[g_tid] \in Pointer
    BY <1>3, CreationAssumption DEF create_thread, TypeOK, Pointer
  <2>2. next' \in [Thread -> Pointer] /\ thread_queue' \in Pointer
    BY <1>1, <1>3, <2>1, QueueTypes DEF create_thread, QueueTypesOK
  <2>3. g_tid' \in 1 .. Len(Creation) + 1
    BY <1>3, CreationAssumption DEF create_thread, TypeOK
  <2> QED
    BY <1>3, <2>2, <2>3 DEF create_thread, TypeOK, SemaphoreCounts, Inside
<1>4. CASE run
  <2>1. next' \in [Thread -> Pointer] /\ thread_queue' \in Pointer
    BY <1>1, <1>4, QueueTypes DEF run, QueueTypesOK
  <2> QED
    BY <1>4, <2>1 DEF run, TypeOK, SemaphoreCounts, Inside
<1>5. CASE Spin
  BY <1>5 DEF Spin, vars, TypeOK, SemaphoreCounts, Inside
<1> QED
  BY <1>2, <1>3, <1>4, <1>5 DEF Main

(* Every call of the library preserves it.                                 *)
LEMMA StepCounted == Counted /\ [Next]_vars => Counted'
<1> SUFFICES ASSUME Counted, [Next]_vars PROVE Counted'
  OBVIOUS
<1>1. CASE UNCHANGED vars
  BY <1>1 DEF vars, Counted, TypeOK, SemaphoreCounts, Inside
<1>2. CASE Next
  BY <1>2, TakeCounted, WaitCounted, VCounted, OtherCounted DEF Next, Call
<1> QED
  BY <1>1, <1>2

(* While nobody is inside the counter has its first value.                 *)
LEMMA EmptyInside == Counted /\ Inside = {} => counter = SemValue
<1> SUFFICES ASSUME Counted, Inside = {} PROVE counter = SemValue
  OBVIOUS
<1>1. Cardinality(Inside) = 0
  BY FS_EmptySet
<1>2. counter + Cardinality(Inside) = SemValue /\ counter \in 0 .. SemValue
  BY DEF Counted, TypeOK, SemaphoreCounts
<1> QED
  BY <1>1, <1>2

---------------------------------------------------------------------------
(* Type correctness of the thread library.                                 *)
THEOREM TypeCorrect == Spec => []TypeOK
<1>1. Counted => TypeOK
  BY DEF Counted
<1> QED
  BY InitCounted, StepCounted, <1>1, PTL DEF Spec

(* The semaphore lets in as many threads as its value says, and its        *)
(* counter is right, even when addQueue and delQueue tangle the queues.    *)
THEOREM Counts == Spec => []SemaphoreCounts
<1>1. Counted => SemaphoreCounts
  BY DEF Counted
<1> QED
  BY InitCounted, StepCounted, <1>1, PTL DEF Spec

---------------------------------------------------------------------------
(* No thread is lost.  While main creates the threads the queue is a plain *)
(* list of them.  Afterwards the links may serve two queues, and all that  *)
(* remains is that the running thread has none.                            *)
Created == {Creation[i] : i \in 1 .. g_tid - 1}

CreationPhase ==
    /\ IsList(next, thread_queue, SubSeq(Creation, 1, g_tid - 1))
    /\ sem_q = NULL
    /\ ~hung
    /\ \A t \in Thread \ Created : next[t] = NULL

RunningPhase ==
    /\ g_tid = Len(Creation) + 1
    /\ ~hung => next[curr_thread] = NULL

QueueInv ==
    /\ TypeOK
    /\ IF curr_thread = NULL THEN CreationPhase ELSE RunningPhase
    /\ NoThreadLost

(* yield loses nobody, from whatever links P or V left behind.             *)
LEMMA YieldKeeps ==
    ASSUME curr_thread \in Thread,
           NEW nx \in Links, NEW q \in Pointer, NEW s \in Pointer, NEW C,
           C \subseteq {curr_thread} \cup Members(nx, q) \cup Members(nx, s),
           q = NULL => nx[curr_thread] \in {NULL, curr_thread},
           YieldWith(nx, q)
    PROVE  /\ curr_thread' \in Thread
           /\ ~hung' =>
                 /\ next'[curr_thread'] = NULL
                 /\ C \subseteq {curr_thread'} \cup Members(next', thread_queue')
                                               \cup Members(next', s)
<1> DEFINE c == curr_thread
           h == AddHead(q, c)
           l == AddLinks(nx, q, c)
<1>1. c \in Thread /\ c # NULL /\ c \in Pointer
  BY ThreadAssumption DEF Pointer
<1>2. CASE AddHangs(nx, q, c)
  BY <1>2 DEF YieldWith
<1>3. CASE ~AddHangs(nx, q, c)
  <2>1. /\ curr_thread' = h
        /\ thread_queue' = DelHead(l, h)
        /\ next' = DelLinks(l, h)
    BY <1>3 DEF YieldWith
  <2>2. /\ l \in Links /\ h \in Thread
        /\ C \subseteq Members(l, h) \cup Members(l, s)
    <3>1. CASE q = NULL
      <4>1. l = [nx EXCEPT ![c] = NULL] /\ h = c
        BY <1>1, <3>1 DEF AddLinks, AddHead
      <4>2. nx[c] \in {NULL, c} /\ nx[c] \in Pointer
        BY <1>1, <3>1 DEF Links
      <4>3. /\ l \in Links
            /\ Members(nx, s) \subseteq Members(l, s) \cup Members(l, nx[c])
        BY <1>1, <4>1, MembersCut
      <4> HIDE DEF l, h, c
      <4>4. c \in Members(l, c)
        BY <1>1, <4>3, MembersType
      <4>5. Members(l, nx[c]) \subseteq Members(l, c)
        <5>1. CASE nx[c] = c
          BY <5>1
        <5>2. CASE nx[c] = NULL
          <6>1. Closed(l, {})
            BY DEF Closed
          <6>2. Members(l, nx[c]) \subseteq {}
            BY <4>2, <4>3, <5>2, <6>1, MembersLeast
          <6> QED
            BY <6>2
        <5> QED
          BY <4>2, <5>1, <5>2
      <4>6. Members(nx, q) \subseteq {}
        <5>1. Closed(nx, {})
          BY DEF Closed
        <5> QED
          BY <3>1, <5>1, MembersLeast
      <4> QED
        BY <1>1, <4>1, <4>3, <4>4, <4>5, <4>6 DEF c
    <3>2. CASE q # NULL
      <4>1. /\ l \in Links /\ h \in Thread
            /\ \A x \in Pointer : Members(nx, x) \subseteq Members(l, x)
            /\ c \in Members(l, h)
        BY <1>1, <1>3, <3>2, AddKeeps
      <4>2. h = q
        BY <3>2 DEF AddHead
      <4> HIDE DEF l, h, c
      <4>3. Members(nx, q) \subseteq Members(l, h) /\ Members(nx, s) \subseteq Members(l, s)
        BY <4>1, <4>2
      <4> QED
        BY <4>1, <4>3 DEF c
    <3> QED
      BY <3>1, <3>2
  <2> HIDE DEF l, h
  <2>3. /\ DelLinks(l, h)[h] = NULL
        /\ Members(l, h) \subseteq {h} \cup Members(DelLinks(l, h), DelHead(l, h))
        /\ Members(l, s) \subseteq Members(DelLinks(l, h), s) \cup
                                   Members(DelLinks(l, h), DelHead(l, h))
    BY <2>2, DelKeeps
  <2> QED
    BY <2>1, <2>2, <2>3
<1> QED
  BY <1>2, <1>3

(* P puts the running thread, which has no link, into the queue of the     *)
(* semaphore; its link may now lead to itself.                             *)
LEMMA P_WaitKeeps ==
    ASSUME QueueInv, NEW t \in Thread, P_Wait(t)
    PROVE  /\ curr_thread' \in Thread
           /\ ~hung' => next'[curr_thread'] = NULL /\ NoThreadLost'
<1>1. /\ t = curr_thread /\ curr_thread \in Thread /\ curr_thread # NULL /\ ~hung
      /\ next \in Links /\ sem_q \in Pointer /\ thread_queue \in Pointer
      /\ g_tid' = g_tid
  BY ThreadAssumption DEF P_Wait, Runs, QueueInv, TypeOK, Links
<1>2. /\ next[t] = NULL
      /\ Created \subseteq {t} \cup Members(next, thread_queue) \cup Members(next, sem_q)
  BY <1>1 DEF QueueInv, RunningPhase, NoThreadLost, Created
<1>3. CASE AddHangs(next, sem_q, t)
  BY <1>1, <1>3 DEF P_Wait
<1>4. CASE ~AddHangs(next, sem_q, t)
  <2> DEFINE nx == AddLinks(next, sem_q, t)
             s == AddHead(sem_q, t)
  <2>1. sem_q' = s /\ YieldWith(nx, thread_queue)
    BY <1>4 DEF P_Wait
  <2>2. /\ nx \in Links /\ s \in Thread /\ nx[t] \in {NULL, t}
        /\ \A x \in Pointer : Members(next, x) \subseteq Members(nx, x)
    BY <1>1, <1>2, <1>4, AddKeeps
  <2>3. sem_q = NULL \/ s = sem_q
    BY DEF AddHead
  <2>4. Members(next, NULL) \subseteq {}
    <3>1. Closed(next, {}) /\ NULL \in Pointer
      BY DEF Closed, Pointer
    <3> QED
      BY <1>1, <3>1, MembersLeast
  <2> HIDE DEF nx, s
  <2>5. Created \subseteq {curr_thread} \cup Members(nx, thread_queue) \cup Members(nx, s)
    BY <1>1, <1>2, <2>2, <2>3, <2>4
  <2>6. s \in Pointer
    BY <2>2 DEF Pointer
  <2>7. /\ curr_thread' \in Thread
        /\ ~hung' =>
              /\ next'[curr_thread'] = NULL
              /\ Created \subseteq {curr_thread'} \cup Members(next', thread_queue')
                                                  \cup Members(next', s)
    BY <1>1, <2>1, <2>2, <2>5, <2>6, YieldKeeps
  <2> QED
    BY <1>1, <2>1, <2>7 DEF NoThreadLost, Created
<1> QED
  BY <1>3, <1>4

(* V moves a thread from one queue to the other before it yields.          *)
LEMMA V_Keeps ==
    ASSUME QueueInv, NEW t \in Thread, V(t)
    PROVE  /\ curr_thread' \in Thread
           /\ ~hung' => next'[curr_thread'] = NULL /\ NoThreadLost'
<1>1. /\ t = curr_thread /\ curr_thread \in Thread /\ curr_thread # NULL /\ ~hung
      /\ next \in Links /\ sem_q \in Pointer /\ thread_queue \in Pointer
      /\ g_tid' = g_tid /\ counter' >= 1
  BY ThreadAssumption, SemAssumption DEF V, Runs, QueueInv, TypeOK, Links
<1>2. /\ next[t] = NULL
      /\ Created \subseteq {t} \cup Members(next, thread_queue) \cup Members(next, sem_q)
  BY <1>1 DEF QueueInv, RunningPhase, NoThreadLost, Created
<1> DEFINE w == sem_q
           l == DelLinks(next, w)
           s == DelHead(next, w)
           q == thread_queue
           nx == AddLinks(l, q, w)
           r == AddHead(q, w)
<1>3. sem_q' = s
  BY <1>1 DEF V
<1>4. CASE AddHangs(l, q, w)
  BY <1>1, <1>4 DEF V
<1>5. CASE ~AddHangs(l, q, w)
  <2>1. YieldWith(nx, r)
    BY <1>1, <1>5 DEF V
  <2>2. /\ nx \in Links /\ r \in Pointer /\ s \in Pointer
        /\ r = NULL => nx[t] \in {NULL, t}
        /\ Created \subseteq {t} \cup Members(nx, r) \cup Members(nx, s)
    <3>1. CASE w = NULL
      <4>1. l = next /\ s = NULL /\ nx = next /\ r = q
        BY <3>1 DEF DelLinks, DelHead, AddLinks, AddHead
      <4> QED
        BY <1>1, <1>2, <3>1, <4>1 DEF Pointer
    <3>2. CASE w # NULL
      <4>1. w \in Thread
        BY <1>1, <3>2 DEF Pointer
      <4>2. /\ l \in Links /\ s \in Pointer /\ l[w] = NULL
            /\ Members(next, w) \subseteq {w} \cup Members(l, s)
            /\ Members(next, q) \subseteq Members(l, q) \cup Members(l, s)
        BY <1>1, <4>1, DelKeeps
      <4> HIDE DEF l, s
      <4>3. /\ nx \in Links /\ r \in Thread
            /\ \A x \in Pointer : Members(l, x) \subseteq Members(nx, x)
            /\ w \in Members(nx, r)
        BY <1>1, <1>5, <4>1, <4>2, AddKeeps
      <4>4. Members(l, q) \subseteq Members(nx, r)
        <5>1. CASE q = NULL
          <6>1. Closed(l, {})
            BY DEF Closed
          <6>2. Members(l, q) \subseteq {}
            BY <1>1, <4>2, <5>1, <6>1, MembersLeast
          <6> QED
            BY <6>2
        <5>2. CASE q # NULL
          BY <1>1, <4>3, <5>2 DEF AddHead
        <5> QED
          BY <5>1, <5>2
      <4>5. r \in Pointer /\ r # NULL
        BY <4>3, ThreadAssumption DEF Pointer
      <4>6. Members(l, s) \subseteq Members(nx, s)
        BY <4>2, <4>3
      <4> HIDE DEF nx, r, q, w
      <4>7. Created \subseteq {t} \cup Members(nx, r) \cup Members(nx, s)
        BY <1>2, <4>2, <4>3, <4>4, <4>6 DEF q, w
      <4> QED
        BY <4>2, <4>3, <4>5, <4>7
    <3> QED
      BY <3>1, <3>2
  <2> HIDE DEF nx, r, s
  <2>3. /\ curr_thread' \in Thread
        /\ ~hung' =>
              /\ next'[curr_thread'] = NULL
              /\ Created \subseteq {curr_thread'} \cup Members(next', thread_queue')
                                                  \cup Members(next', s)
    BY <1>1, <2>1, <2>2, YieldKeeps
  <2> QED
    BY <1>1, <1>3, <2>3 DEF NoThreadLost, Created
<1> QED
  BY <1>4, <1>5

(* create_thread appends a new thread to the list.                         *)
LEMMA FirstThreads ==
    ASSUME NEW n \in 0 .. Len(Creation)
    PROVE  /\ SubSeq(Creation, 1, n) \in Seq(Thread)
           /\ Len(SubSeq(Creation, 1, n)) = n
           /\ \A i \in 1 .. n : SubSeq(Creation, 1, n)[i] = Creation[i]
           /\ Elements(SubSeq(Creation, 1, n)) = {Creation[i] : i \in 1 .. n}
<1>1. Creation \in Seq(Thread) /\ Len(Creation) \in Nat
  BY CreationAssumption
<1>2. /\ SubSeq(Creation, 1, n) \in Seq(Thread)
      /\ Len(SubSeq(Creation, 1, n)) = n
      /\ \A i \in 1 .. n : SubSeq(Creation, 1, n)[i] = Creation[i]
  BY <1>1
<1> QED
  BY <1>2 DEF Elements

(* create_thread appends to a plain list.                                  *)
LEMMA CreateKeeps ==
    ASSUME QueueInv, create_thread
    PROVE  CreationPhase' /\ NoThreadLost' /\ curr_thread' = NULL
<1> DEFINE n == g_tid - 1
           t == Creation[g_tid]
           q == SubSeq(Creation, 1, n)
<1>1. /\ curr_thread = NULL /\ curr_thread' = NULL /\ CreationPhase
      /\ next \in Links /\ g_tid' = g_tid + 1 /\ g_tid <= Len(Creation)
      /\ g_tid \in 1 .. Len(Creation) + 1
      /\ sem_q' = sem_q /\ hung' = hung
      /\ thread_queue' = AddHead(thread_queue, t)
      /\ next' = AddLinks(next, thread_queue, t)
  BY DEF QueueInv, TypeOK, create_thread, Links
<1>2. /\ Creation \in Seq(Thread) /\ Len(Creation) \in Nat
      /\ \A i, j \in 1 .. Len(Creation) : Creation[i] = Creation[j] => i = j
  BY CreationAssumption
<1>3. /\ n \in 0 .. Len(Creation) /\ n + 1 \in 0 .. Len(Creation)
      /\ g_tid \in 1 .. Len(Creation) /\ n + 1 = g_tid
  BY <1>1, <1>2
<1>4. Elements(q) = Created
  BY <1>3, FirstThreads DEF Created
<1>5. t \in Thread /\ t \notin Created
  <2>1. \A i \in 1 .. n : i \in 1 .. Len(Creation) /\ i # g_tid
    BY <1>2, <1>3
  <2> QED
    BY <1>2, <1>3, <2>1 DEF Created
<1>6. IsList(next, thread_queue, q) /\ next[t] = NULL
  BY <1>1, <1>5 DEF CreationPhase
<1>7. /\ next' \in Links
      /\ IsList(next', thread_queue', Append(q, t))
      /\ \A x \in Thread : x \notin Created => next'[x] = next[x]
  <2> HIDE DEF q, t
  <2> QED
    BY <1>1, <1>4, <1>5, <1>6, AddToList
<1>8. Append(q, t) = SubSeq(Creation, 1, g_tid)
  BY <1>2, <1>3
<1>9. g_tid' - 1 = g_tid
  BY <1>1, <1>3
<1> HIDE DEF q, t, n
<1>10. Created' = {Creation[i] : i \in 1 .. g_tid}
  BY <1>9 DEF Created
<1>11. Created \subseteq Created'
  <2>1. \A i \in 1 .. g_tid - 1 : i \in 1 .. g_tid
    BY <1>3
  <2> QED
    BY <1>10, <2>1 DEF Created
<1>12. CreationPhase'
  <2>1. \A x \in Thread \ Created' : next'[x] = NULL
    BY <1>1, <1>7, <1>11 DEF CreationPhase
  <2> QED
    BY <1>1, <1>7, <1>8, <1>9, <2>1 DEF CreationPhase
<1>13. Members(next', thread_queue') = Created'
  <2>1. g_tid \in 0 .. Len(Creation)
    BY <1>2, <1>3
  <2>2. Elements(SubSeq(Creation, 1, g_tid)) = Created'
    BY <1>10, <2>1, FirstThreads
  <2> QED
    BY <1>7, <1>8, <2>2, ListOperators
<1> QED
  BY <1>1, <1>12, <1>13 DEF NoThreadLost, Created

(* run takes the first thread off the queue.                               *)
LEMMA RunKeeps ==
    ASSUME QueueInv, run
    PROVE  curr_thread' \in Thread /\ RunningPhase' /\ NoThreadLost'
<1> DEFINE h == thread_queue
           q == SubSeq(Creation, 1, g_tid - 1)
<1>1. /\ curr_thread = NULL /\ CreationPhase
      /\ next \in Links /\ g_tid' = g_tid /\ g_tid > Len(Creation)
      /\ g_tid \in 1 .. Len(Creation) + 1
      /\ sem_q' = sem_q /\ hung' = hung /\ sem_q = NULL /\ ~hung
      /\ curr_thread' = h /\ thread_queue' = DelHead(next, h)
      /\ next' = DelLinks(next, h)
  BY DEF QueueInv, TypeOK, run, Links, CreationPhase
<1>2. Len(Creation) \in Nat /\ Len(Creation) > 0 /\ Creation \in Seq(Thread)
  BY CreationAssumption
<1>3. g_tid = Len(Creation) + 1 /\ g_tid - 1 \in 0 .. Len(Creation)
  BY <1>1, <1>2
<1>4. IsList(next, h, q) /\ q # <<>>
  <2>1. Len(q) > 0
    BY <1>2, <1>3, FirstThreads
  <2>2. Len(<<>>) = 0
    OBVIOUS
  <2> QED
    BY <1>1, <2>1, <2>2 DEF CreationPhase
<1>5. h \in Thread /\ next'[h] = NULL
  <2> HIDE DEF q
  <2> QED
    BY <1>1, <1>4, DelFromList
<1>6. Created \subseteq {NULL} \cup Members(next, h) \cup Members(next, NULL)
  BY <1>1 DEF QueueInv, NoThreadLost, Created
<1>7. Members(next, NULL) \subseteq {}
  <2>1. Closed(next, {}) /\ NULL \in Pointer
    BY DEF Closed, Pointer
  <2> QED
    BY <1>1, <2>1, MembersLeast
<1>8. Created \subseteq Thread /\ NULL \notin Thread
  <2>1. \A i \in 1 .. g_tid - 1 : i \in 1 .. Len(Creation)
    BY <1>3
  <2> QED
    BY <2>1, <1>2, ThreadAssumption DEF Created
<1>9. Members(next, h) \subseteq {h} \cup Members(next', thread_queue')
  BY <1>1, <1>5, DelKeeps
<1>10. NoThreadLost'
  BY <1>1, <1>6, <1>7, <1>8, <1>9 DEF NoThreadLost, Created
<1> QED
  BY <1>1, <1>3, <1>5, <1>10 DEF RunningPhase

(* The invariant holds at the start.                                       *)
LEMMA QueueInvInit == Init => QueueInv
<1> SUFFICES ASSUME Init PROVE QueueInv
  OBVIOUS
<1>1. TypeOK
  BY InitCounted DEF Counted
<1>2. Created = {}
  BY DEF Init, Created
<1>3. SubSeq(Creation, 1, g_tid - 1) = <<>>
  BY CreationAssumption DEF Init
<1>4. IsList(next, thread_queue, <<>>)
  BY DEF IsList, Init
<1> QED
  BY <1>1, <1>2, <1>3, <1>4 DEF QueueInv, CreationPhase, NoThreadLost, Created, Init

(* Every call of the library keeps hold of every thread.                   *)
LEMMA QueueInvNext == QueueInv /\ [Next]_vars /\ TypeOK' => QueueInv'
<1> SUFFICES ASSUME QueueInv, [Next]_vars, TypeOK' PROVE QueueInv'
  OBVIOUS
<1>1. CASE create_thread
  BY <1>1, CreateKeeps DEF QueueInv
<1>2. CASE run
  BY <1>2, RunKeeps, ThreadAssumption DEF QueueInv
<1>3. ASSUME NEW t \in Thread, Runs(t)
      PROVE  /\ curr_thread \in Thread /\ curr_thread # NULL /\ RunningPhase
             /\ next \in Links /\ thread_queue \in Pointer /\ sem_q \in Pointer
             /\ next[curr_thread] = NULL
             /\ Created \subseteq {curr_thread} \cup Members(next, thread_queue)
                                                \cup Members(next, sem_q)
  <2>1. curr_thread \in Thread /\ curr_thread # NULL /\ ~hung
    BY <1>3, ThreadAssumption DEF Runs
  <2> QED
    BY <2>1 DEF QueueInv, TypeOK, Links, RunningPhase, NoThreadLost, Created
<1>4. ASSUME NEW t \in Thread, yield(t) PROVE QueueInv'
  <2>1. Runs(t) /\ YieldWith(next, thread_queue) /\ g_tid' = g_tid /\ sem_q' = sem_q
    BY <1>4 DEF yield
  <2>2. /\ curr_thread' \in Thread
        /\ ~hung' =>
              /\ next'[curr_thread'] = NULL
              /\ Created \subseteq {curr_thread'} \cup Members(next', thread_queue')
                                                  \cup Members(next', sem_q)
    BY <1>3, <2>1, YieldKeeps
  <2> QED
    BY <1>3, <2>1, <2>2, ThreadAssumption
       DEF QueueInv, RunningPhase, NoThreadLost, Created
<1>5. ASSUME NEW t \in Thread, P_Wait(t) PROVE QueueInv'
  <2>1. Runs(t) /\ g_tid' = g_tid
    BY <1>5 DEF P_Wait
  <2>2. /\ curr_thread' \in Thread
        /\ ~hung' => next'[curr_thread'] = NULL /\ NoThreadLost'
    BY <1>5, P_WaitKeeps
  <2> QED
    BY <1>3, <2>1, <2>2, ThreadAssumption
       DEF QueueInv, RunningPhase, NoThreadLost
<1>6. ASSUME NEW t \in Thread, V(t) PROVE QueueInv'
  <2>1. Runs(t) /\ g_tid' = g_tid
    BY <1>6 DEF V
  <2>2. /\ curr_thread' \in Thread
        /\ ~hung' => next'[curr_thread'] = NULL /\ NoThreadLost'
    BY <1>6, V_Keeps
  <2> QED
    BY <1>3, <2>1, <2>2, ThreadAssumption
       DEF QueueInv, RunningPhase, NoThreadLost
<1>7. ASSUME UNCHANGED <<queues, g_tid, sem_q>> PROVE QueueInv'
  BY <1>7
     DEF queues, QueueInv, CreationPhase, RunningPhase, NoThreadLost, Created
<1>8. ASSUME NEW t \in Thread, P_Take(t) PROVE QueueInv'
  BY <1>7, <1>8 DEF P_Take
<1>9. CASE Spin \/ UNCHANGED vars
  BY <1>7, <1>9 DEF Spin, vars, queues
<1> QED
  BY <1>1, <1>2, <1>4, <1>5, <1>6, <1>8, <1>9 DEF Next, Main, Call

(* However P and V tangle the queues, a thread that was created is the     *)
(* running one or is still reached from the head of a queue, as long as    *)
(* addQueue returns.                                                       *)
THEOREM NobodyIsLost == Spec => []NoThreadLost
<1>1. Counted => TypeOK
  BY DEF Counted
<1>2. QueueInv => NoThreadLost
  BY DEF QueueInv
<1> QED
  BY InitCounted, StepCounted, QueueInvInit, QueueInvNext, <1>1, <1>2, PTL DEF Spec
=============================================================================
