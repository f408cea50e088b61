-------------------------- MODULE BitDecoder_proofs --------------------------
(***************************************************************************)
(* What holds of the decoder for every file, every size of a byte and of   *)
(* the three types, and whatever is on the stack and behind the block.     *)
(***************************************************************************)
EXTENDS BitDecoder, Sums_proofs

---------------------------------------------------------------------------
(* Quotients and remainders.                                               *)
LEMMA Quotient ==
  ASSUME NEW a \in Nat, NEW l \in Nat, NEW m \in Nat, l < m
  PROVE  /\ (a * m + l) \div m = a
         /\ (a * m + l) % m = l
  OBVIOUS

(* A binary digit added at the end of a number.                            *)
LEMMA Halves ==
  ASSUME NEW n \in Nat, NEW d \in Nat, d < 2
  PROVE  /\ (2 * n + d) % 2 = d
         /\ \A p \in Nat : p > 0 => (2 * n + d) \div (2 * p) = n \div p
<1>1. (2 * n + d) % 2 = d /\ (2 * n + d) \div 2 = n
  OBVIOUS
<1>2. ASSUME NEW p \in Nat, p > 0
      PROVE  (2 * n + d) \div (2 * p) = n \div p
  <2>1. PICK v \in Nat : v = 2 * n + d
    OBVIOUS
  <2>2. v \div (2 * p) = (v \div 2) \div p
    BY <1>2
  <2> QED
    BY <1>1, <2>1, <2>2
<1> QED
  BY <1>1, <1>2

(* The remainder of v, taken digit by digit.                               *)
LEMMA NextDigit ==
  ASSUME NEW v \in Nat, NEW p \in Nat, NEW q \in Nat, p > 0, q > 0
  PROVE  v % (p * q) = (v % p) + ((v \div p) % q) * p
<1>1. v % (p * q) = (v % p) + p * ((v \div p) % q)
  OBVIOUS
<1>2. (v \div p) % q \in Nat
  OBVIOUS
<1>3. \A x \in Nat : p * x = x * p
  OBVIOUS
<1> QED
  BY <1>1, <1>2, <1>3

(* Products of numbers.                                                    *)
LEMMA Times ==
  ASSUME NEW x \in Nat, NEW y \in Nat, NEW z \in Nat
  PROVE  /\ x * y \in Nat
         /\ x * y = y * x
         /\ (x + 1) * z = x * z + z
         /\ x <= y => x * z <= y * z
         /\ x < y => x * z + z <= y * z
         /\ x > 0 /\ y > 0 => x * y > 0
         /\ x * (y * z) = (x * y) * z
<1>1. x * y \in Nat /\ x * y = y * x /\ (x + 1) * z = x * z + z
  OBVIOUS
<1>2. x <= y => x * z <= y * z
  OBVIOUS
<1>3. x < y => x * z + z <= y * z
  OBVIOUS
<1>4. x > 0 /\ y > 0 => x * y > 0
  OBVIOUS
<1>5. x * (y * z) = (x * y) * z
  OBVIOUS
<1> QED
  BY <1>1, <1>2, <1>3, <1>4, <1>5

---------------------------------------------------------------------------
(* The sizes of the types.                                                 *)
LEMMA Sizes ==
  /\ MaxWidth \in Nat /\ MaxWidth > 0
  /\ MaxBits \in Nat /\ MaxBits > 0 /\ MaxBits = BYTE * MaxWidth
  /\ BYTE \in Nat /\ BYTE > 0 /\ BYTE <= MaxBits
  /\ \A k \in Flags :
        /\ Width(k) \in Nat /\ Width(k) > 0 /\ Width(k) <= MaxWidth
        /\ MaxWidth % Width(k) = 0
        /\ Bits(k) \in Nat /\ Bits(k) > 0 /\ Bits(k) <= MaxBits
        /\ Bits(k) = BYTE * Width(k)
<1>1. MaxWidth \in Nat /\ MaxWidth > 0 /\ BYTE \in Nat /\ BYTE > 0
  BY TypeAssumption, ByteAssumption DEF MaxWidth
<1>2. MaxBits \in Nat /\ MaxBits > 0 /\ BYTE <= MaxBits
  BY <1>1, Times DEF MaxBits
<1>3. ASSUME NEW k \in Flags
      PROVE  /\ Width(k) \in Nat /\ Width(k) > 0 /\ Width(k) <= MaxWidth
             /\ MaxWidth % Width(k) = 0
             /\ Bits(k) \in Nat /\ Bits(k) > 0 /\ Bits(k) <= MaxBits
  <2>1. TypeOf[k] \in {"char", "int", "double"}
    BY DEF Flags, TypeOf
  <2>2. Width(k) \in Nat /\ Width(k) > 0 /\ MaxWidth % Width(k) = 0
    BY <2>1, TypeAssumption, WidthAssumption DEF Width, MaxWidth
  <2>3. Width(k) <= MaxWidth
    BY <1>1, <2>2
  <2>4. \A w, x, b \in Nat : w > 0 /\ w <= x /\ b > 0 => b * w \in Nat /\ b * w > 0 /\ b * w <= b * x
    OBVIOUS
  <2> QED
    BY <1>1, <2>2, <2>3, <2>4 DEF Bits, MaxBits
<1> QED
  BY <1>1, <1>2, <1>3 DEF MaxBits, Bits

(* The powers of two.                                                      *)
LEMMA PowerFacts ==
  /\ \A k \in 0 .. MaxBits : Power[k] \in Nat /\ Power[k] > 0
  /\ Power[0] = 1
  /\ \A k \in 1 .. MaxBits : Power[k] = 2 * Power[k - 1]
<1> DEFINE n == MaxBits
           s == Power
           G == [k \in Nat |-> [x \in Nat |-> 2 * x]]
<1>1. n \in Nat
  BY Sizes
<1>2. G \in Steps(Nat)
  BY DEF Steps
<1>3. PICK p \in [0 .. n -> Nat] :
         p[0] = 1 /\ \A k \in 1 .. n : p[k] = G[k][p[k - 1]]
  <2> HIDE DEF G, n
  <2>1. Recursion(Nat, 1, G, n) # {}
    BY <1>1, <1>2, RecursionExists, 1 \in Nat, Zenon
  <2> QED
    BY <2>1 DEF Recursion
<1>4. p = [k \in 0 .. n |-> IF k = 0 THEN 1 ELSE 2 * p[k - 1]]
  <2> HIDE DEF n
  <2>1. ASSUME NEW k \in 1 .. n PROVE p[k] = 2 * p[k - 1]
    <3>1. p[k - 1] \in Nat /\ k \in Nat
      BY <1>1
    <3> QED
      BY <1>3, <3>1
  <2> QED
    BY <1>1, <1>3, <2>1
<1>5. s = [k \in 0 .. n |-> IF k = 0 THEN 1 ELSE 2 * s[k - 1]]
  BY <1>4 DEF Power
<1> HIDE DEF s, n
<1>6. s[0] = 1 /\ \A k \in 1 .. n : s[k] = 2 * s[k - 1]
  BY <1>1, <1>5
<1>7. \A k \in 0 .. n : s[k] \in Nat /\ s[k] > 0
  <2> DEFINE T == {k \in 0 .. n : s[k] \in Nat /\ s[k] > 0}
  <2>1. 0 \in T
    BY <1>1, <1>6
  <2>2. \A k \in 1 .. n : k - 1 \in T => k \in T
    BY <1>1, <1>6
  <2>3. \A k \in 0 .. n : k \in T
    <3> HIDE DEF T
    <3> QED
      BY <1>1, <2>1, <2>2, SetInduction
  <2> QED
    BY <2>3
<1> QED
  BY <1>6, <1>7 DEF s, n

(* Powers multiply when their exponents add up.                            *)
LEMMA PowerAdds ==
  ASSUME NEW a \in Nat, NEW b \in Nat, a + b <= MaxBits
  PROVE  Power[a + b] = Power[a] * Power[b]
<1> DEFINE T == {k \in 0 .. b : Power[a + k] = Power[a] * Power[k]}
<1>1. MaxBits \in Nat
  BY Sizes
<1>2. 0 \in T
  BY <1>1, PowerFacts
<1>3. ASSUME NEW k \in 1 .. b, k - 1 \in T PROVE k \in T
  <2>1. Power[a + k] = 2 * Power[a + (k - 1)] /\ Power[k] = 2 * Power[k - 1]
    BY <1>1, PowerFacts
  <2>2. Power[a] \in Nat /\ Power[k - 1] \in Nat
    BY <1>1, PowerFacts
  <2>3. \A x, y \in Nat : 2 * (x * y) = x * (2 * y)
    OBVIOUS
  <2>4. Power[a + (k - 1)] = Power[a] * Power[k - 1]
    BY <1>3
  <2>5. Power[a + k] = Power[a] * Power[k]
    BY <2>1, <2>2, <2>3, <2>4
  <2> QED
    BY <2>5
<1>4. b \in T
  <2> HIDE DEF T
  <2> QED
    BY <1>2, <1>3, SetInduction
<1> QED
  BY <1>4

(* A greater exponent does not make less.                                  *)
LEMMA PowerGrows ==
  ASSUME NEW a \in Nat, NEW b \in Nat, a <= b, b <= MaxBits
  PROVE  Power[a] <= Power[b]
<1>1. b - a \in Nat /\ MaxBits \in Nat
  BY Sizes
<1>2. Power[a + (b - a)] = Power[a] * Power[b - a]
  BY <1>1, PowerAdds
<1>3. a + (b - a) = b
  OBVIOUS
<1>4. Power[a] \in Nat /\ Power[b - a] \in Nat /\ Power[b - a] > 0
  BY <1>1, PowerFacts
<1>5. \A x, y \in Nat : y > 0 => x <= x * y
  OBVIOUS
<1> QED
  BY <1>2, <1>3, <1>4, <1>5
---------------------------------------------------------------------------
(* A pass of the loop of stringToBit.                                      *)
Shifted(str, size, k, x) ==
    LET sum == (x + (str[k] % 2)) % Power[MaxBits]
    IN  IF k = size THEN sum ELSE (sum * 2) % Power[MaxBits]

(* A pass leaves a number behind.                                          *)
LEMMA ShiftedType ==
  ASSUME NEW str, NEW size, NEW k, NEW x \in Nat, str[k] \in Nat
  PROVE  Shifted(str, size, k, x) \in Nat
<1>1. Power[MaxBits] \in Nat /\ Power[MaxBits] > 0
  BY Sizes, PowerFacts
<1> DEFINE P == Power[MaxBits]
           sum == (x + (str[k] % 2)) % P
<1> HIDE DEF P
<1>2. x + (str[k] % 2) \in Nat
  OBVIOUS
<1>3. sum \in Nat
  BY <1>1, <1>2 DEF P
<1> HIDE DEF sum
<1>4. (sum * 2) % P \in Nat
  BY <1>1, <1>3 DEF P
<1> QED
  BY <1>3, <1>4 DEF Shifted, P, sum

(* stringToBit is the result of its passes.                                *)
LEMMA StringSteps ==
  ASSUME NEW str, NEW size \in 1 .. MaxBits, \A c \in 1 .. size : str[c] \in Nat
  PROVE  \E res \in [0 .. size -> Nat] :
            /\ res[0] = 0
            /\ \A k \in 1 .. size : res[k] = Shifted(str, size, k, res[k - 1])
            /\ stringToBit(str, size) = res[size]
<1> DEFINE F(r) == [k \in 0 .. size |->
                       IF k = 0 THEN 0
                       ELSE LET sum == (r[k - 1] + (str[k] % 2)) % Power[MaxBits]
                            IN  IF k = size THEN sum ELSE (sum * 2) % Power[MaxBits]]
           s == CHOOSE r : r = F(r)
           G == [k \in Nat |-> [x \in Nat |->
                   IF k \in 1 .. size THEN Shifted(str, size, k, x) ELSE 0]]
<1>1. size \in Nat /\ size > 0
  BY Sizes
<1>2. G \in Steps(Nat)
  <2>1. ASSUME NEW k \in Nat, NEW x \in Nat
        PROVE  (IF k \in 1 .. size THEN Shifted(str, size, k, x) ELSE 0) \in Nat
    BY ShiftedType
  <2> QED
    BY <2>1 DEF Steps
<1>3. PICK p \in [0 .. size -> Nat] :
         p[0] = 0 /\ \A k \in 1 .. size : p[k] = G[k][p[k - 1]]
  <2> HIDE DEF G
  <2>1. Recursion(Nat, 0, G, size) # {}
    BY <1>1, <1>2, RecursionExists, 0 \in Nat, Zenon
  <2> QED
    BY <2>1 DEF Recursion
<1>4. ASSUME NEW k \in 1 .. size PROVE p[k] = Shifted(str, size, k, p[k - 1])
  <2>1. p[k - 1] \in Nat /\ k \in Nat
    BY <1>1
  <2> QED
    BY <1>3, <2>1
<1>5. p = F(p)
  <2>1. ASSUME NEW k \in 0 .. size PROVE p[k] = F(p)[k]
    <3>1. k # 0 => k \in 1 .. size
      BY <1>1
    <3> QED
      BY <1>3, <1>4, <3>1 DEF Shifted
  <2> QED
    BY <2>1
<1>6. s = F(s)
  <2> HIDE DEF F
  <2> QED
    BY <1>5
<1>7. stringToBit(str, size) = s[size]
  BY DEF stringToBit
<1> HIDE DEF s
<1>8. s[0] = 0 /\ \A k \in 1 .. size : s[k] = Shifted(str, size, k, s[k - 1])
  BY <1>1, <1>6 DEF Shifted
<1> HIDE DEF F
<1>9. \A k \in 0 .. size : s[k] \in Nat
  <2> DEFINE T == {k \in 0 .. size : s[k] \in Nat}
  <2>1. 0 \in T
    BY <1>1, <1>8
  <2>2. \A k \in 1 .. size : k - 1 \in T => k \in T
    BY <1>1, <1>8, ShiftedType
  <2>3. \A k \in 0 .. size : k \in T
    <3> HIDE DEF T
    <3> QED
      BY <1>1, <2>1, <2>2, SetInduction
  <2> QED
    BY <2>3
<1>10. s \in [0 .. size -> Nat]
  BY <1>6, <1>9 DEF F
<1> QED
  BY <1>7, <1>8, <1>10

(* Only the first size characters matter.                                  *)
LEMMA SameString ==
  ASSUME NEW size \in 1 .. MaxBits, NEW str, NEW other,
         \A c \in 1 .. size : str[c] \in Nat /\ other[c] = str[c]
  PROVE  stringToBit(other, size) = stringToBit(str, size)
<1>1. PICK r \in [0 .. size -> Nat] :
            /\ r[0] = 0
            /\ \A k \in 1 .. size : r[k] = Shifted(str, size, k, r[k - 1])
            /\ stringToBit(str, size) = r[size]
  BY StringSteps
<1>2. PICK o \in [0 .. size -> Nat] :
            /\ o[0] = 0
            /\ \A k \in 1 .. size : o[k] = Shifted(other, size, k, o[k - 1])
            /\ stringToBit(other, size) = o[size]
  BY StringSteps
<1>3. size \in Nat
  BY Sizes
<1> DEFINE T == {k \in 0 .. size : r[k] = o[k]}
<1>4. 0 \in T
  BY <1>1, <1>2, <1>3
<1>5. ASSUME NEW k \in 1 .. size, k - 1 \in T PROVE k \in T
  <2>1. r[k - 1] = o[k - 1] /\ str[k] = other[k]
    BY <1>5
  <2>2. r[k] = Shifted(str, size, k, r[k - 1]) /\ o[k] = Shifted(other, size, k, o[k - 1])
    BY <1>1, <1>2
  <2>3. Shifted(str, size, k, r[k - 1]) = Shifted(other, size, k, o[k - 1])
    BY <2>1 DEF Shifted
  <2> QED
    BY <1>3, <2>2, <2>3
<1>6. size \in T
  <2> HIDE DEF T
  <2>1. \A k \in 0 .. size : k \in T
    BY <1>3, <1>4, <1>5, SetInduction
  <2> QED
    BY <1>3, <2>1
<1> QED
  BY <1>1, <1>2, <1>6

---------------------------------------------------------------------------
(* The binary digits of u are the lowest bits of the first n members of    *)
(* str, the most significant one first.                                    *)
Digits(u, str, n) ==
    /\ u \in Nat /\ u < Power[n]
    /\ \A b \in 1 .. n : (u \div Power[n - b]) % 2 = str[b] % 2

(* One digit more.                                                         *)
LEMMA MoreDigits ==
  ASSUME NEW n \in 1 .. MaxBits, NEW str, str[n] \in Nat, NEW u, Digits(u, str, n - 1)
  PROVE  Digits(2 * u + (str[n] % 2), str, n)
<1> DEFINE d == str[n] % 2
           v == 2 * u + d
<1>1. d \in Nat /\ d < 2 /\ u \in Nat
  BY DEF Digits
<1>2. n \in Nat /\ n > 0 /\ MaxBits \in Nat
  BY Sizes
<1> HIDE DEF d
<1>3. v \in Nat /\ v < Power[n]
  <2>1. Power[n] = 2 * Power[n - 1] /\ Power[n - 1] \in Nat /\ u < Power[n - 1]
    BY <1>2, PowerFacts DEF Digits
  <2> QED
    BY <1>1, <2>1
<1>4. ASSUME NEW b \in 1 .. n PROVE (v \div Power[n - b]) % 2 = str[b] % 2
  <2>1. CASE b = n
    <3>1. Power[n - b] = 1
      BY <1>2, <2>1, PowerFacts
    <3>2. v \div 1 = v
      BY <1>3
    <3>3. v % 2 = d
      BY <1>1, Halves
    <3> QED
      BY <2>1, <3>1, <3>2, <3>3 DEF d
  <2>2. CASE b < n
    <3> DEFINE p == Power[n - 1 - b]
    <3>1. n - b \in 1 .. MaxBits /\ n - b - 1 = n - 1 - b
      BY <1>2, <2>2
    <3>2. Power[n - b] = 2 * p /\ p \in Nat /\ p > 0
      BY <1>2, <3>1, PowerFacts
    <3> HIDE DEF p
    <3>3. v \div (2 * p) = u \div p
      BY <1>1, <3>2, Halves
    <3>4. (u \div p) % 2 = str[b] % 2
      BY <1>2, <2>2 DEF Digits, p
    <3> QED
      BY <3>2, <3>3, <3>4
  <2> QED
    BY <1>2, <2>1, <2>2
<1> HIDE DEF v
<1>5. Digits(v, str, n)
  BY <1>3, <1>4 DEF Digits
<1> QED
  BY <1>5 DEF v, d

(* What stringToBit computes: nothing is lost in 64 bits.                  *)
LEMMA StringToBit ==
  ASSUME NEW str, NEW size \in 1 .. MaxBits, \A c \in 1 .. size : str[c] \in Nat
  PROVE  Digits(stringToBit(str, size), str, size)
<1>1. PICK r \in [0 .. size -> Nat] :
            /\ r[0] = 0
            /\ \A k \in 1 .. size : r[k] = Shifted(str, size, k, r[k - 1])
            /\ stringToBit(str, size) = r[size]
  BY StringSteps
<1>2. size \in Nat /\ size > 0 /\ MaxBits \in Nat
  BY Sizes
<1> DEFINE P == Power[MaxBits]
           T == {k \in 0 .. size :
                    \E u : Digits(u, str, k) /\ r[k] = IF k = size THEN u ELSE u * 2}
<1>3. P \in Nat /\ P > 0
  BY Sizes, PowerFacts
<1> HIDE DEF P
<1>4. 0 \in T
  <2>1. Digits(0, str, 0)
    BY PowerFacts DEF Digits
  <2>2. 0 * 2 = 0 /\ 0 \in 0 .. size /\ 0 # size
    BY <1>2
  <2> QED
    BY <1>1, <2>1, <2>2
<1>5. ASSUME NEW k \in 1 .. size, k - 1 \in T PROVE k \in T
  <2>1. k - 1 # size /\ k \in 1 .. MaxBits /\ k \in Nat
    BY <1>2
  <2>2. PICK u : Digits(u, str, k - 1) /\ r[k - 1] = u * 2
    BY <1>5, <2>1
  <2> DEFINE v == 2 * u + (str[k] % 2)
  <2>3. Digits(v, str, k)
    BY <2>1, <2>2, MoreDigits
  <2>4. u \in Nat /\ str[k] % 2 \in Nat
    BY <2>2 DEF Digits
  <2>5. r[k - 1] + (str[k] % 2) = v
    BY <2>2, <2>4
  <2> HIDE DEF v
  <2>6. v \in Nat /\ v < Power[k] /\ Power[k] <= P
    BY <1>2, <2>1, <2>3, PowerGrows DEF Digits, P
  <2>7. v % P = v
    <3>1. \A x \in Nat : x < P => x % P = x
      BY <1>3
    <3>2. Power[k] \in Nat
      BY <1>2, <2>1, PowerFacts
    <3>3. v < P
      BY <1>3, <2>6, <3>2
    <3> QED
      BY <2>6, <3>1, <3>3
  <2>8. r[k] = IF k = size THEN v % P ELSE ((v % P) * 2) % P
    BY <1>1, <2>5 DEF Shifted, P
  <2>9. k # size => (v * 2) % P = v * 2
    <3>1. ASSUME k # size PROVE v * 2 < P
      <4>1. k + 1 \in 1 .. MaxBits
        BY <1>2, <3>1
      <4>2. Power[k + 1] = 2 * Power[k] /\ Power[k + 1] <= P /\ Power[k] \in Nat
        <5>1. (k + 1) - 1 = k
          BY <2>1
        <5>2. Power[k + 1] = 2 * Power[k] /\ Power[k] \in Nat
          BY <1>2, <2>1, <4>1, <5>1, PowerFacts
        <5>3. Power[k + 1] <= Power[MaxBits]
          BY <1>2, <2>1, <4>1, PowerGrows
        <5> QED
          BY <5>2, <5>3 DEF P
      <4> QED
        BY <1>3, <2>6, <4>2
    <3>2. v * 2 \in Nat
      BY <2>6
    <3>3. \A x \in Nat : x < P => x % P = x
      BY <1>3
    <3> QED
      BY <3>1, <3>2, <3>3
  <2>10. r[k] = IF k = size THEN v ELSE v * 2
    BY <2>7, <2>8, <2>9
  <2> QED
    BY <2>3, <2>10
<1>6. size \in T
  <2> HIDE DEF T
  <2>1. \A k \in 0 .. size : k \in T
    BY <1>2, <1>4, <1>5, SetInduction
  <2> QED
    BY <1>2, <2>1
<1> QED
  BY <1>1, <1>6
---------------------------------------------------------------------------
(* Byte j of the number v, and an element of the memory m that is v.       *)
ByteOf(v, j) == (v \div Power[BYTE * j]) % Power[BYTE]
Holds(m, k, e, v) ==
    \A j \in 0 .. Width(k) - 1 : m[e * Width(k) + j] = ByteOf(v, j)

(* The remainder of a number is put together from its bytes.               *)
LEMMA ByteOfFacts ==
  ASSUME NEW k \in Flags, NEW v \in Nat, NEW j \in 0 .. Width(k) - 1
  PROVE  /\ ByteOf(v, j) \in Nat
         /\ v % Power[BYTE * (j + 1)] = (v % Power[BYTE * j]) + ByteOf(v, j) * Power[BYTE * j]
<1>1. /\ BYTE \in Nat /\ BYTE > 0 /\ MaxBits \in Nat /\ BYTE <= MaxBits
      /\ Width(k) \in Nat /\ Bits(k) = BYTE * Width(k) /\ Bits(k) <= MaxBits
      /\ Bits(k) \in Nat
  BY Sizes
<1>2. j \in Nat /\ j + 1 \in Nat /\ j + 1 <= Width(k)
  BY <1>1
<1>3. /\ BYTE * j \in Nat /\ BYTE * (j + 1) \in Nat
      /\ BYTE * (j + 1) = BYTE * j + BYTE
      /\ BYTE * (j + 1) <= BYTE * Width(k)
  <2>1. \A b, x, y \in Nat : /\ b * x \in Nat /\ b * (x + 1) \in Nat
                             /\ b * (x + 1) = b * x + b
                             /\ x <= y => b * x <= b * y
    OBVIOUS
  <2> QED
    BY <1>1, <1>2, <2>1
<1> DEFINE p == Power[BYTE * j]
           q == Power[BYTE]
<1>4. p \in Nat /\ p > 0 /\ q \in Nat /\ q > 0
  BY <1>1, <1>3, PowerFacts
<1>5. Power[BYTE * (j + 1)] = p * q
  BY <1>1, <1>3, PowerAdds
<1> HIDE DEF p, q
<1>6. (v \div p) % q \in Nat
  BY <1>4
<1>7. v % (p * q) = (v % p) + ((v \div p) % q) * p
  BY <1>4, NextDigit
<1> QED
  BY <1>5, <1>6, <1>7 DEF ByteOf, p, q

(* A pass of the sum in Load.                                              *)
LEMMA LoadHeld ==
  ASSUME NEW k \in Flags, NEW e \in Nat, NEW v \in Nat, v < Power[Bits(k)],
         NEW m, Holds(m, k, e, v)
  PROVE  Load(m, k, e) = v
<1> DEFINE W == Width(k)
           F(s) == [j \in 0 .. W |->
                       IF j = 0 THEN 0
                       ELSE s[j - 1] + m[e * W + j - 1] * Power[BYTE * (j - 1)]]
           t == CHOOSE s : s = F(s)
           p == [j \in 0 .. W |-> v % Power[BYTE * j]]
<1>1. /\ W \in Nat /\ W > 0 /\ BYTE \in Nat /\ Bits(k) = BYTE * W
      /\ Bits(k) \in Nat /\ Bits(k) <= MaxBits /\ MaxBits \in Nat
  BY Sizes
<1> HIDE DEF W
<1>2. Load(m, k, e) = t[W]
  BY DEF Load, W
<1>3. Power[0] = 1 /\ BYTE * 0 = 0 /\ v % 1 = 0
  BY <1>1, PowerFacts
<1>4. ASSUME NEW j \in 1 .. W
      PROVE  /\ m[e * W + j - 1] = ByteOf(v, j - 1)
             /\ v % Power[BYTE * j]
                  = (v % Power[BYTE * (j - 1)])
                       + m[e * W + j - 1] * Power[BYTE * (j - 1)]
  <2>1. j - 1 \in 0 .. Width(k) - 1 /\ (j - 1) + 1 = j
    BY <1>1 DEF W
  <2>2. m[e * W + (j - 1)] = ByteOf(v, j - 1)
    BY <2>1 DEF Holds, W
  <2>3. e * W + (j - 1) = e * W + j - 1
    <3>1. e * W \in Nat
      BY <1>1, Times
    <3> QED
      BY <1>1, <3>1
  <2>4. v % Power[BYTE * ((j - 1) + 1)]
          = (v % Power[BYTE * (j - 1)]) + ByteOf(v, j - 1) * Power[BYTE * (j - 1)]
    BY <2>1, ByteOfFacts
  <2> QED
    BY <2>1, <2>2, <2>3, <2>4
<1>5. p = F(p)
  <2>1. ASSUME NEW j \in 0 .. W PROVE p[j] = F(p)[j]
    <3>1. CASE j = 0
      BY <1>1, <1>3, <3>1
    <3>2. CASE j # 0
      <4>1. j \in 1 .. W /\ j - 1 \in 0 .. W
        BY <1>1, <3>2
      <4>2. p[j] = v % Power[BYTE * j] /\ p[j - 1] = v % Power[BYTE * (j - 1)]
        BY <4>1
      <4>3. F(p)[j] = p[j - 1] + m[e * W + j - 1] * Power[BYTE * (j - 1)]
        BY <3>2
      <4> HIDE DEF p, F
      <4> QED
        BY <1>4, <4>1, <4>2, <4>3
    <3> QED
      BY <3>1, <3>2
  <2> QED
    BY <2>1
<1>6. t = F(t)
  <2> HIDE DEF F
  <2> QED
    BY <1>5
<1> HIDE DEF t
<1>7. t[0] = 0 /\ \A j \in 1 .. W :
         t[j] = t[j - 1] + m[e * W + j - 1] * Power[BYTE * (j - 1)]
  <2>1. \A j \in 0 .. W : t[j] = F(t)[j]
    <3> HIDE DEF F
    <3> QED
      BY <1>6
  <2>2. F(t)[0] = 0 /\ 0 \in 0 .. W
    BY <1>1
  <2>3. ASSUME NEW j \in 1 .. W
        PROVE  t[j] = t[j - 1] + m[e * W + j - 1] * Power[BYTE * (j - 1)]
    <3>1. j \in 0 .. W /\ j # 0
      BY <1>1
    <3>2. F(t)[j] = t[j - 1] + m[e * W + j - 1] * Power[BYTE * (j - 1)]
      BY <3>1, Zenon
    <3> QED
      BY <2>1, <3>1, <3>2
  <2> QED
    BY <2>1, <2>2, <2>3
<1> HIDE DEF F
<1> DEFINE T == {j \in 0 .. W : t[j] = v % Power[BYTE * j]}
<1>8. 0 \in T
  BY <1>1, <1>3, <1>7
<1>9. ASSUME NEW j \in 1 .. W, j - 1 \in T PROVE j \in T
  <2>1. t[j - 1] = v % Power[BYTE * (j - 1)]
    BY <1>9
  <2>2. t[j] = v % Power[BYTE * j]
    BY <1>4, <1>7, <2>1
  <2> QED
    BY <1>1, <2>2
<1>10. W \in T
  <2> HIDE DEF T
  <2>1. \A j \in 0 .. W : j \in T
    BY <1>1, <1>8, <1>9, SetInduction
  <2> QED
    BY <1>1, <2>1
<1>11. v % Power[Bits(k)] = v
  <2>1. Power[Bits(k)] \in Nat
    BY <1>1, PowerFacts
  <2> QED
    BY <2>1
<1> QED
  BY <1>1, <1>2, <1>10, <1>11

---------------------------------------------------------------------------
(* The bytes of an element.                                                *)
LEMMA Place ==
  ASSUME NEW w \in Nat, NEW e \in Nat, NEW j \in 0 .. w - 1
  PROVE  /\ e * w \in Nat
         /\ e * w + j \in e * w .. e * w + w - 1
         /\ (e * w + j) - e * w = j
         /\ \A x \in Nat : x # e => e * w + j \notin x * w .. x * w + w - 1
         /\ \A n \in Nat : e < n => e * w + j < n * w
<1>1. e * w \in Nat
  BY Times
<1>2. ASSUME NEW n \in Nat, e < n PROVE e * w + j < n * w
  <2>1. e * w + w <= n * w /\ n * w \in Nat
    BY <1>2, Times
  <2> QED
    BY <1>1, <2>1
<1>3. ASSUME NEW x \in Nat, x # e PROVE e * w + j \notin x * w .. x * w + w - 1
  <2>1. x * w \in Nat
    BY Times
  <2>2. CASE e < x
    BY <1>1, <1>2, <2>1, <2>2
  <2>3. CASE x < e
    <3>1. x * w + w <= e * w
      BY <2>3, Times
    <3> QED
      BY <1>1, <2>1, <3>1
  <2> QED
    BY <1>3, <2>2, <2>3
<1> QED
  BY <1>1, <1>2, <1>3

(* What Store does: element e is v, the others and all other bytes stay.   *)
LEMMA StoreFacts ==
  ASSUME NEW k \in Flags, NEW e \in Nat, NEW v \in Nat,
         NEW n \in Nat, e * Width(k) + Width(k) <= n,
         NEW m \in [0 .. n - 1 -> Nat \cup {HEAP}]
  PROVE  /\ Store(m, k, e, v) \in [0 .. n - 1 -> Nat \cup {HEAP}]
         /\ Holds(Store(m, k, e, v), k, e, v)
         /\ \A x \in Nat, u \in Nat :
               x # e /\ x * Width(k) + Width(k) <= n /\ Holds(m, k, x, u)
                   => Holds(Store(m, k, e, v), k, x, u)
         /\ \A a \in 0 .. n - 1 :
               a \notin e * Width(k) .. e * Width(k) + Width(k) - 1
                   => Store(m, k, e, v)[a] = m[a]
<1> DEFINE W == Width(k)
           s == Store(m, k, e, v)
<1>1. W \in Nat /\ W > 0
  BY Sizes
<1>2. s = [a \in 0 .. n - 1 |->
             IF a \in e * W .. e * W + W - 1 THEN ByteOf(v, a - e * W) ELSE m[a]]
  BY DEF Store, ByteOf
<1> HIDE DEF s
<1>3. ASSUME NEW a \in 0 .. n - 1, a \in e * W .. e * W + W - 1
      PROVE  ByteOf(v, a - e * W) \in Nat
  <2> HIDE DEF W
  <2>1. a - e * W \in 0 .. W - 1
    <3>1. e * W \in Nat
      BY <1>1, Times
    <3> QED
      BY <1>1, <1>3, <3>1
  <2> QED
    BY <2>1, ByteOfFacts DEF W
<1>4. s \in [0 .. n - 1 -> Nat \cup {HEAP}]
  BY <1>2, <1>3
<1>5. ASSUME NEW x \in Nat, x * W + W <= n, NEW j \in 0 .. W - 1
      PROVE  /\ x * W + j \in 0 .. n - 1
             /\ x = e => s[x * W + j] = ByteOf(v, j)
             /\ x # e => s[x * W + j] = m[x * W + j]
  <2> HIDE DEF W
  <2>1. /\ x * W \in Nat /\ e * W \in Nat
        /\ x * W + j \in x * W .. x * W + W - 1
        /\ (x * W + j) - x * W = j
        /\ x # e => x * W + j \notin e * W .. e * W + W - 1
    BY <1>1, Place
  <2>2. x * W + j \in 0 .. n - 1
    BY <1>1, <1>5, <2>1
  <2> QED
    BY <1>2, <2>1, <2>2
<1>6. Holds(s, k, e, v)
  BY <1>5 DEF Holds
<1>7. ASSUME NEW x \in Nat, NEW u \in Nat, x # e, x * W + W <= n, Holds(m, k, x, u)
      PROVE  Holds(s, k, x, u)
  BY <1>5, <1>7 DEF Holds
<1>8. \A a \in 0 .. n - 1 : a \notin e * W .. e * W + W - 1 => s[a] = m[a]
  BY <1>2
<1> QED
  BY <1>4, <1>6, <1>7, <1>8 DEF s
---------------------------------------------------------------------------
(* The elements that a file has of the type of flag k, and element e of    *)
(* them as a number.                                                       *)
Count(file, k) == (Len(file) \div BYTE) \div Width(k)
Number(file, k, e) ==
    stringToBit([c \in 1 .. Bits(k) |-> file[e * Bits(k) + c]], Bits(k))

(* A file that is accepted consists of whole elements of every type.       *)
LEMMA WholeElements ==
  ASSUME NEW file \in Inputs, Len(file) % MaxBits = 0, NEW k \in Flags
  PROVE  /\ Count(file, k) \in Nat
         /\ Len(file) = Count(file, k) * Bits(k)
         /\ Len(file) \div BYTE = Count(file, k) * Width(k)
         /\ Len(file) \div BYTE \in Nat
         /\ Len(file) \div Bits(k) = Count(file, k)
<1> DEFINE W == Width(k)
           X == MaxWidth
           L == Len(file)
<1>1. /\ W \in Nat /\ W > 0 /\ X \in Nat /\ X > 0 /\ X % W = 0
      /\ BYTE \in Nat /\ BYTE > 0 /\ MaxBits = BYTE * X
      /\ Bits(k) = BYTE * W /\ Bits(k) \in Nat /\ Bits(k) > 0
      /\ MaxBits \in Nat /\ MaxBits > 0
  BY Sizes
<1>2. L \in Nat
  BY InputAssumption
<1> HIDE DEF W, X, L
<1>3. PICK d \in Nat : L = d * MaxBits
  <2>1. \A x, y \in Nat : y > 0 /\ x % y = 0 => x = (x \div y) * y /\ x \div y \in Nat
    OBVIOUS
  <2> QED
    BY <1>1, <1>2, <2>1 DEF L
<1>4. PICK g \in Nat : X = g * W
  <2>1. \A x, y \in Nat : y > 0 /\ x % y = 0 => x = (x \div y) * y /\ x \div y \in Nat
    OBVIOUS
  <2>2. X = (X \div W) * W /\ X \div W \in Nat
    BY <1>1, <2>1
  <2> QED
    BY <2>2
<1>5. PICK h \in Nat : h = d * g
  BY Times
<1>6. L = h * Bits(k) /\ L = (h * W) * BYTE
  <2>1. \A b, w \in Nat : d * (b * (g * w)) = (d * g) * (b * w)
    <3>1. \A b, w, y, z \in Nat : y * (b * (z * w)) = (y * z) * (b * w)
      OBVIOUS
    <3> QED
      BY <3>1
  <2>2. \A b, w \in Nat : h * (b * w) = (h * w) * b
    OBVIOUS
  <2> QED
    BY <1>1, <1>3, <1>4, <1>5, <2>1, <2>2
<1>7. h * W \in Nat
  BY <1>1, Times
<1>8. \A a, m \in Nat : m > 0 => (a * m) \div m = a
  OBVIOUS
<1>9. L \div BYTE = h * W /\ L \div Bits(k) = h /\ (h * W) \div W = h
  BY <1>1, <1>6, <1>7, <1>8
<1>10. Count(file, k) = h
  BY <1>9 DEF Count, W, L
<1> QED
  BY <1>6, <1>7, <1>9, <1>10 DEF L, W

(* The characters of an element are characters of the file.                *)
LEMMA CountGrows ==
  ASSUME NEW file \in Inputs, Len(file) % MaxBits = 0, NEW k \in Flags,
         NEW e \in 0 .. Count(file, k) - 1, NEW c \in 1 .. Bits(k)
  PROVE  /\ e * Bits(k) \in Nat
         /\ (e + 1) * Bits(k) = e * Bits(k) + Bits(k)
         /\ e * Bits(k) + Bits(k) <= Len(file)
         /\ e * Bits(k) + c \in 1 .. Len(file)
         /\ file[e * Bits(k) + c] \in Nat
<1>1. /\ Bits(k) \in Nat /\ Count(file, k) \in Nat /\ Len(file) = Count(file, k) * Bits(k)
      /\ file \in Seq(Nat) /\ Len(file) \in Nat
  BY Sizes, WholeElements, InputAssumption
<1>2. e \in Nat /\ e < Count(file, k)
  BY <1>1
<1>3. /\ e * Bits(k) \in Nat /\ (e + 1) * Bits(k) = e * Bits(k) + Bits(k)
      /\ e * Bits(k) + Bits(k) <= Len(file)
  <2> DEFINE b == Bits(k)
             n == Count(file, k)
  <2>1. b \in Nat /\ n \in Nat
    BY <1>1
  <2> HIDE DEF b, n
  <2>2. e * b \in Nat /\ (e + 1) * b = e * b + b /\ e * b + b <= n * b
    BY <1>2, <2>1, Times DEF n
  <2> QED
    BY <1>1, <2>2 DEF b, n
<1>4. e * Bits(k) + c \in 1 .. Len(file)
  BY <1>1, <1>3
<1>5. file[e * Bits(k) + c] \in Nat
  BY <1>1, <1>4
<1> QED
  BY <1>3, <1>4, <1>5

(* The digits of an element are the characters of the file.                *)
LEMMA NumberFacts ==
  ASSUME NEW file \in Inputs, Len(file) % MaxBits = 0, NEW k \in Flags,
         NEW e \in 0 .. Count(file, k) - 1
  PROVE  /\ Number(file, k, e) \in Nat
         /\ Number(file, k, e) < Power[Bits(k)]
         /\ \A b \in 1 .. Bits(k) :
               (Number(file, k, e) \div Power[Bits(k) - b]) % 2
                  = file[e * Bits(k) + b] % 2
         /\ \A str : (\A c \in 1 .. Bits(k) : str[c] = file[e * Bits(k) + c])
               => stringToBit(str, Bits(k)) = Number(file, k, e)
<1> DEFINE s == [c \in 1 .. Bits(k) |-> file[e * Bits(k) + c]]
<1>1. Bits(k) \in 1 .. MaxBits
  BY Sizes
<1>2. \A c \in 1 .. Bits(k) : s[c] \in Nat /\ s[c] = file[e * Bits(k) + c]
  BY CountGrows
<1>3. Number(file, k, e) = stringToBit(s, Bits(k))
  BY DEF Number
<1> HIDE DEF s
<1>4. Digits(stringToBit(s, Bits(k)), s, Bits(k))
  BY <1>1, <1>2, StringToBit
<1>5. ASSUME NEW str, \A c \in 1 .. Bits(k) : str[c] = file[e * Bits(k) + c]
      PROVE  stringToBit(str, Bits(k)) = Number(file, k, e)
  BY <1>1, <1>2, <1>3, <1>5, SameString
<1>6. /\ Number(file, k, e) \in Nat /\ Number(file, k, e) < Power[Bits(k)]
      /\ \A b \in 1 .. Bits(k) :
            (Number(file, k, e) \div Power[Bits(k) - b]) % 2 = file[e * Bits(k) + b] % 2
  BY <1>2, <1>3, <1>4 DEF Digits
<1> QED
  BY <1>5, <1>6

---------------------------------------------------------------------------
(* The loop of readFile after n passes: where it is in the file, what the  *)
(* last pass has read, and what the elements are.  One pass more than      *)
(* there are elements stores the last one again.                           *)
LoopOK(file, k, p, str, m, n) ==
    /\ Len(file) % MaxBits = 0
    /\ n <= Count(file, k) + 1
    /\ p = IF n <= Count(file, k) THEN n * Bits(k) ELSE Len(file)
    /\ n \in 1 .. Count(file, k) =>
          \A c \in 1 .. Bits(k) : str[c] = file[(n - 1) * Bits(k) + c]
    /\ \A e \in 0 .. Count(file, k) - 1 : e < n => Holds(m, k, e, Number(file, k, e))
    /\ n > Count(file, k) /\ Count(file, k) > 0 =>
          Holds(m, k, Count(file, k), Number(file, k, Count(file, k) - 1))
    /\ \A a \in Len(file) \div BYTE .. Len(file) \div BYTE + MaxWidth - 1 :
          n <= Count(file, k) \/ a >= Len(file) \div BYTE + Width(k) => m[a] = HEAP
(* The array tmpStr after an fread of got characters.                      *)
ReadInto(str, file, p, got) ==
    [c \in 1 .. MaxBits |-> IF c <= got THEN file[p + c] ELSE str[c]]

(* A pass of the loop.                                                     *)
LEMMA NextElement ==
  ASSUME NEW file \in Inputs, NEW k \in Flags, NEW n \in Nat, NEW p,
         NEW str \in [1 .. MaxBits -> Nat],
         NEW m \in [0 .. Len(file) \div BYTE + MaxWidth - 1 -> Nat \cup {HEAP}],
         LoopOK(file, k, p, str, m, n), n <= Count(file, k),
         NEW got, got = IF Bits(k) <= Len(file) - p THEN Bits(k) ELSE Len(file) - p,
         NEW now, now = ReadInto(str, file, p, got),
         NEW next, next = Store(m, k, n, stringToBit(now, Bits(k)))
  PROVE  /\ now \in [1 .. MaxBits -> Nat]
         /\ next \in [0 .. Len(file) \div BYTE + MaxWidth - 1 -> Nat \cup {HEAP}]
         /\ p + got \in 0 .. Len(file)
         /\ got < Bits(k) <=> n = Count(file, k)
         /\ LoopOK(file, k, p + got, now, next, n + 1)
<1> DEFINE B == Bits(k)
           W == Width(k)
           L == Len(file)
           X == L \div BYTE
           E == Count(file, k)
           v == stringToBit(now, B)
           num(e) == Number(file, k, e)
<1>1. /\ B \in Nat /\ B > 0 /\ B <= MaxBits /\ MaxBits \in Nat
      /\ W \in Nat /\ W > 0 /\ W <= MaxWidth /\ MaxWidth \in Nat
  BY Sizes
<1>2. L % MaxBits = 0
  BY DEF LoopOK
<1>3. /\ E \in Nat /\ L = E * B /\ X = E * W /\ X \in Nat /\ L \in Nat
      /\ file \in Seq(Nat)
  BY <1>2, WholeElements, InputAssumption
<1>4. p = n * B
  BY DEF LoopOK
<1> DEFINE nB == n * B
           mB == (n + 1) * B
           nW == n * W
<1>a. /\ got = IF B <= L - p THEN B ELSE L - p
      /\ n <= E
  OBVIOUS
<1>b. /\ nB \in Nat /\ mB = nB + B
      /\ n < E => nB + B <= L
      /\ n = E => nB = L
  <2> HIDE DEF B, E, L
  <2> QED
    BY <1>1, <1>3, Times
<1>c. /\ nW \in Nat
      /\ n < E => nW + W <= X
      /\ n = E => nW = X
      /\ \A e \in Nat : e < E => e * W + W <= X
  <2> HIDE DEF W, E, X
  <2> QED
    BY <1>1, <1>3, Times
<1> HIDE DEF nB, mB, nW
<1>5. /\ n < E => got = B /\ p + got = mB
      /\ n = E => got = 0 /\ p + got = L
      /\ p \in Nat /\ p + got \in 0 .. L
  <2>1. p = nB
    BY <1>4 DEF nB
  <2>2. n < E \/ n = E
    BY <1>3, <1>a
  <2>3. L \in Nat /\ E \in Nat /\ B \in Nat /\ B > 0
    BY <1>1, <1>3
  <2> HIDE DEF B, E, L
  <2>4. CASE n < E
    <3>1. n # E /\ nB + B <= L
      BY <1>b, <2>3, <2>4
    <3> QED
      BY <1>a, <1>b, <2>1, <2>3, <3>1
  <2>5. CASE n = E
    <3>1. ~(n < E) /\ nB = L
      BY <1>b, <2>3, <2>5
    <3> QED
      BY <1>a, <1>b, <2>1, <2>3, <3>1
  <2> QED
    BY <2>2, <2>4, <2>5
<1>6. got < B <=> n = E
  <2>1. n < E \/ n = E
    BY <1>3
  <2> HIDE DEF B, E
  <2> QED
    BY <1>1, <1>3, <1>5, <2>1
<1>7. ASSUME NEW c \in 1 .. MaxBits
      PROVE  /\ now[c] \in Nat
             /\ n < E /\ c <= B => now[c] = file[n * B + c]
             /\ n = E => now[c] = str[c]
  <2>1. now[c] = IF c <= got THEN file[p + c] ELSE str[c]
    BY DEF ReadInto
  <2> HIDE DEF B, E, L
  <2>2. CASE n < E
    <3>1. c <= B => /\ now[c] = file[n * B + c]
                    /\ n \in 0 .. E - 1 /\ c \in 1 .. B
      BY <1>1, <1>3, <1>4, <1>5, <2>1, <2>2
    <3>2. c <= B => file[n * B + c] \in Nat
      BY <1>2, <3>1, CountGrows DEF B, L, E
    <3>3. ~(c <= B) => now[c] \in Nat
      BY <1>5, <2>1, <2>2
    <3> QED
      BY <1>3, <2>2, <3>1, <3>2, <3>3
  <2>3. CASE n = E
    <3>1. ~(c <= got)
      BY <1>1, <1>5, <2>3
    <3> QED
      BY <1>3, <2>1, <2>3, <3>1
  <2>4. n < E \/ n = E
    BY <1>3 DEF E
  <2> QED
    BY <2>2, <2>3, <2>4
<1>8. now \in [1 .. MaxBits -> Nat]
  BY <1>7 DEF ReadInto
<1>9. v \in Nat
  <2>1. B \in 1 .. MaxBits /\ \A c \in 1 .. B : now[c] \in Nat
    BY <1>1, <1>7
  <2> HIDE DEF B
  <2>2. Digits(v, now, B)
    BY <2>1, StringToBit
  <2> QED
    BY <2>2 DEF Digits
<1>10. /\ n < E => v = num(n)
       /\ n = E /\ E > 0 => v = num(E - 1)
  <2>1. ASSUME n < E PROVE v = num(n)
    <3>1. n \in 0 .. E - 1
      BY <1>3, <2>1
    <3>2. \A c \in 1 .. B : now[c] = file[n * B + c]
      BY <1>1, <1>7, <2>1
    <3> QED
      BY <1>2, <3>1, <3>2, NumberFacts
  <2>2. ASSUME n = E, E > 0 PROVE v = num(E - 1)
    <3>1. E - 1 \in 0 .. E - 1
      BY <1>3, <2>2
    <3>2. \A c \in 1 .. B : str[c] = file[(n - 1) * B + c]
      BY <1>3, <2>2 DEF LoopOK
    <3>3. \A c \in 1 .. B : now[c] = file[(E - 1) * B + c]
      BY <1>1, <1>7, <2>2, <3>2
    <3> QED
      BY <1>2, <3>1, <3>3, NumberFacts
  <2> QED
    BY <2>1, <2>2
<1> DEFINE N == X + MaxWidth
<1>11. /\ N \in Nat /\ nW + W <= N
       /\ \A e \in Nat : e < E => e * W + W <= N
  <2>1. n < E \/ n = E
    BY <1>3, <1>a
  <2>2. \A e \in Nat : e * W + W \in Nat
    <3> HIDE DEF W
    <3> QED
      BY <1>1, Times
  <2>3. \A y \in Nat : y <= X => y <= N
    BY <1>1, <1>3
  <2> HIDE DEF W, E, X
  <2>4. N \in Nat /\ nW + W <= N
    BY <1>1, <1>3, <1>c, <2>1
  <2> HIDE DEF N
  <2> QED
    BY <1>c, <2>2, <2>3, <2>4
<1>12. /\ next \in [0 .. N - 1 -> Nat \cup {HEAP}]
       /\ Holds(next, k, n, v)
       /\ \A x \in Nat, u \in Nat :
             x # n /\ x * W + W <= N /\ Holds(m, k, x, u) => Holds(next, k, x, u)
       /\ \A a \in 0 .. N - 1 : a \notin n * W .. n * W + W - 1 => next[a] = m[a]
  <2>1. m \in [0 .. N - 1 -> Nat \cup {HEAP}] /\ next = Store(m, k, n, v)
    <3>1. N - 1 = X + MaxWidth - 1
      <4> HIDE DEF X
      <4> QED
        BY <1>1, <1>3
    <3> HIDE DEF N
    <3> QED
      BY <3>1
  <2>2. n * Width(k) + Width(k) <= N
    BY <1>11 DEF nW
  <2> HIDE DEF v, N
  <2>3. N \in Nat
    BY <1>11
  <2>4. m \in [0 .. N - 1 -> Nat \cup {HEAP}]
    BY <2>1
  <2>5. next = Store(m, k, n, v)
    BY <2>1
  <2>6. Store(m, k, n, v) \in [0 .. N - 1 -> Nat \cup {HEAP}]
    BY ONLY <1>9, <2>2, <2>3, <2>4, k \in Flags, n \in Nat, StoreFacts, SMT
  <2>7. Holds(Store(m, k, n, v), k, n, v)
    BY ONLY <1>9, <2>2, <2>3, <2>4, k \in Flags, n \in Nat, StoreFacts, SMT
  <2>8. ASSUME NEW x \in Nat, NEW u \in Nat,
               x # n, x * Width(k) + Width(k) <= N, Holds(m, k, x, u)
        PROVE  Holds(Store(m, k, n, v), k, x, u)
    BY ONLY <1>9, <2>2, <2>3, <2>4, <2>8, k \in Flags, n \in Nat,
            x \in Nat, u \in Nat, StoreFacts, SMT
  <2>9. ASSUME NEW a \in 0 .. N - 1,
               a \notin n * Width(k) .. n * Width(k) + Width(k) - 1
        PROVE  Store(m, k, n, v)[a] = m[a]
    BY <2>4, <2>9 DEF Store
  <2> QED
    BY ONLY <2>5, <2>6, <2>7, <2>8, <2>9, Zenon DEF W
<1> HIDE DEF B, W, L, X, E, v, num, N
<1>13. \A e \in 0 .. E - 1 : e < n + 1 => Holds(next, k, e, num(e))
  <2> SUFFICES ASSUME NEW e \in 0 .. E - 1, e < n + 1 PROVE Holds(next, k, e, num(e))
    OBVIOUS
  <2>1. num(e) \in Nat
    BY <1>2, NumberFacts DEF num, E, L
  <2>2. e \in Nat /\ e < E
    BY <1>3
  <2>3. CASE e = n
    BY <1>10, <1>12, <2>2, <2>3
  <2>4. CASE e # n
    <3>1. e < n
      BY <2>2, <2>4
    <3>2. Holds(m, k, e, num(e))
      BY <3>1 DEF LoopOK, E, num
    <3> QED
      BY <1>11, <1>12, <2>1, <2>2, <2>4, <3>2
  <2> QED
    BY <2>3, <2>4
<1>14. n + 1 > E /\ E > 0 => Holds(next, k, E, num(E - 1))
  <2>1. n <= E
    BY DEF E
  <2> QED
    BY <1>3, <1>10, <1>12, <2>1
<1>15. ASSUME NEW a \in X .. X + MaxWidth - 1, n + 1 <= E \/ a >= X + W
       PROVE  next[a] = HEAP
  <2>1. n <= E
    BY DEF E
  <2>2. a \in 0 .. N - 1 /\ a \notin nW .. nW + W - 1
    <3>1. CASE n + 1 <= E
      <4>1. nW + W <= X /\ nW \in Nat
        BY <1>3, <1>c, <3>1
      <4> QED
        BY <1>1, <1>3, <4>1 DEF N
    <3>2. CASE a >= X + W
      <4>1. nW <= X /\ nW \in Nat
        BY <1>1, <1>3, <1>c, <2>1
      <4> QED
        BY <1>1, <1>3, <3>2, <4>1 DEF N
    <3> QED
      BY <1>15, <3>1, <3>2
  <2>3. m[a] = HEAP
    BY <1>15, <2>1 DEF LoopOK, X, L, E
  <2> QED
    BY <1>12, <2>2, <2>3 DEF nW
<1>16. p + got = IF n + 1 <= E THEN (n + 1) * B ELSE L
  <2>1. n <= E
    BY DEF E
  <2> QED
    BY <1>3, <1>5, <2>1 DEF mB
<1>17. n + 1 \in 1 .. E => \A c \in 1 .. B : now[c] = file[((n + 1) - 1) * B + c]
  <2>1. (n + 1) - 1 = n
    OBVIOUS
  <2> QED
    BY <1>1, <1>3, <1>7, <2>1
<1>18. LoopOK(file, k, p + got, now, next, n + 1)
  <2>1. n + 1 <= E + 1
    BY <1>3 DEF E
  <2> QED
    BY <1>2, <1>13, <1>14, <1>15, <1>16, <1>17, <2>1 DEF LoopOK, B, W, L, X, E, num
<1>19. next \in [0 .. Len(file) \div BYTE + MaxWidth - 1 -> Nat \cup {HEAP}]
  <2>1. next \in [0 .. N - 1 -> Nat \cup {HEAP}]
    BY <1>12
  <2>2. N - 1 = X + MaxWidth - 1
    BY <1>1, <1>3 DEF N
  <2> QED
    BY <2>1, <2>2 DEF X, L
<1>20. p + got \in 0 .. Len(file) /\ (got < Bits(k) <=> n = Count(file, k))
  BY <1>5, <1>6 DEF L, B, E
<1> QED
  BY <1>8, <1>18, <1>19, <1>20
---------------------------------------------------------------------------
(* A number of a signed type says the same as its bits.                    *)
LEMMA SignedFacts ==
  ASSUME NEW k \in Flags, NEW v \in Nat, v < Power[Bits(k)],
         NEW x, x = Signed(k, v)
  PROVE  /\ x \in Int
         /\ v = IF x < 0 THEN x + Power[Bits(k)] ELSE x
         /\ IsSigned(k) => (x < 0 <=> (v \div Power[Bits(k) - 1]) % 2 = 1)
<1> DEFINE P == Power[Bits(k)]
           h == Power[Bits(k) - 1]
<1>1. P = 2 * h /\ h \in Nat /\ h > 0
  <2>1. Bits(k) \in 1 .. MaxBits /\ MaxBits \in Nat
    BY Sizes
  <2> QED
    BY <2>1, PowerFacts
<1>2. x = IF IsSigned(k) /\ v >= h THEN v - P ELSE v
  BY DEF Signed
<1>3. v < P
  OBVIOUS
<1> HIDE DEF P, h
<1>4. CASE IsSigned(k) /\ v >= h
  <2>1. x = v - P /\ x < 0
    BY <1>1, <1>2, <1>3, <1>4
  <2>2. (v \div h) % 2 = 1
    <3>1. v = 1 * h + (v - h) /\ v - h \in Nat /\ v - h < h
      BY <1>1, <1>3, <1>4
    <3>2. (1 * h + (v - h)) \div h = 1
      BY <1>1, <3>1, Quotient
    <3> QED
      BY <3>1, <3>2
  <2> QED
    BY <1>1, <2>1, <2>2 DEF P, h
<1>5. CASE ~(IsSigned(k) /\ v >= h)
  <2>1. x = v /\ ~(x < 0)
    BY <1>2, <1>5
  <2>2. v < h => v \div h = 0
    BY <1>1
  <2>3. 0 % 2 = 0
    OBVIOUS
  <2>4. IsSigned(k) => (v \div h) % 2 # 1
    BY <1>1, <1>5, <2>2, <2>3
  <2> QED
    BY <2>1, <2>4 DEF P, h
<1> QED
  BY <1>4, <1>5

---------------------------------------------------------------------------
(* What printResult shows of a file as numbers of the type of flag k.      *)
Numbers(file, k) == [e \in 1 .. Count(file, k) |-> Signed(k, Number(file, k, e - 1))]

(* A list of as many integers as the file has elements.                    *)
LEMMA NumbersFacts ==
  ASSUME NEW file \in Inputs, Len(file) % MaxBits = 0, NEW k \in Flags
  PROVE  /\ Numbers(file, k) \in Seq(Int)
         /\ Len(Numbers(file, k)) = Count(file, k)
<1>1. Count(file, k) \in Nat
  BY WholeElements
<1>2. ASSUME NEW e \in 1 .. Count(file, k)
      PROVE  Signed(k, Number(file, k, e - 1)) \in Int
  <2>1. e - 1 \in 0 .. Count(file, k) - 1
    BY <1>1
  <2>2. Number(file, k, e - 1) \in Nat /\ Number(file, k, e - 1) < Power[Bits(k)]
    BY <2>1, NumberFacts
  <2> QED
    BY <2>2, SignedFacts
<1> QED
  BY <1>1, <1>2 DEF Numbers

(* At the end of the loop the memory is that.                              *)
LEMMA LoadsNumbers ==
  ASSUME NEW file \in Inputs, NEW k \in Flags, NEW p, NEW str, NEW m, NEW n \in Nat,
         LoopOK(file, k, p, str, m, n), n > Count(file, k)
  PROVE  [e \in 1 .. Count(file, k) |-> Signed(k, Load(m, k, e - 1))] = Numbers(file, k)
<1>1. Len(file) % MaxBits = 0
  BY DEF LoopOK
<1>2. Count(file, k) \in Nat
  BY <1>1, WholeElements
<1>3. ASSUME NEW e \in 1 .. Count(file, k)
      PROVE  Load(m, k, e - 1) = Number(file, k, e - 1)
  <2>1. e - 1 \in 0 .. Count(file, k) - 1 /\ e - 1 < n /\ e - 1 \in Nat
    BY <1>2
  <2>2. Holds(m, k, e - 1, Number(file, k, e - 1))
    BY <2>1 DEF LoopOK
  <2>3. Number(file, k, e - 1) \in Nat /\ Number(file, k, e - 1) < Power[Bits(k)]
    BY <1>1, <2>1, NumberFacts
  <2> QED
    BY <2>1, <2>2, <2>3, LoadHeld
<1> QED
  BY <1>3 DEF Numbers

---------------------------------------------------------------------------
(* The invariant.                                                          *)
LoopInv ==
    stage = "loop" =>
        /\ LoopOK(input, flag, pos, tmpStr, memory, i)
        /\ eof <=> i > Count(input, flag)

ShownInv ==
    /\ stage \in {"readFile", "loop"} => flag \in Flags /\ Len(shown) = flag - 1
    /\ Len(shown) <= 7
    /\ Len(shown) > 0 => Len(input) % MaxBits = 0
    /\ \A k \in 1 .. Len(shown) : shown[k] = Numbers(input, k)

DecoderInv == DecoderTypeOK /\ ShownInv /\ LoopInv

(* The invariant holds at the start,                                       *)
LEMMA DecoderInitInv == DecoderInit => DecoderInv
<1> SUFFICES ASSUME DecoderInit PROVE DecoderInv
  OBVIOUS
<1>1. Len(input) \in Nat
  BY InputAssumption DEF DecoderInit
<1>2. tmpStr \in [1 .. MaxBits -> Nat]
  BY StackAssumption DEF DecoderInit, MaxBits, MaxWidth
<1>3. DecoderTypeOK
  <2>1. input \in Inputs /\ flag \in 1 .. 8 /\ pos \in 0 .. Len(input) /\ i \in Nat
    BY <1>1 DEF DecoderInit
  <2>2. eof \in BOOLEAN /\ heap \in {"ok", "corrupt"} /\ stage = "readFile"
    BY DEF DecoderInit
  <2>3. shown \in Seq(Seq(Int))
    BY DEF DecoderInit
  <2> QED
    BY <1>2, <2>1, <2>2, <2>3 DEF DecoderTypeOK
<1>4. ShownInv
  BY DEF DecoderInit, ShownInv, Flags
<1> QED
  BY <1>3, <1>4 DEF DecoderInit, DecoderInv, LoopInv

(* ... when a file is rejected,                                            *)
LEMMA WrongLengthInv ==
  ASSUME DecoderInv, WrongLength PROVE DecoderInv'
<1>1. DecoderTypeOK'
  BY DEF DecoderInv, DecoderTypeOK, WrongLength
<1>2. ShownInv'
  BY DEF DecoderInv, ShownInv, WrongLength
<1> QED
  BY <1>1, <1>2 DEF DecoderInv, LoopInv, WrongLength

(* ... when the block is allocated,                                        *)
LEMMA AllocateInv ==
  ASSUME DecoderInv, Allocate PROVE DecoderInv'
<1>1. /\ input \in Inputs /\ Len(input) % MaxBits = 0 /\ Len(input) \in Nat
      /\ flag \in Flags /\ fileSize = Len(input) \div BYTE
      /\ input' = input /\ flag' = flag /\ i' = 0 /\ pos' = 0 /\ ~eof' /\ stage' = "loop"
      /\ heap' = heap /\ shown' = shown
  BY InputAssumption DEF DecoderInv, DecoderTypeOK, ShownInv, Allocate, fileSize
<1>2. tmpStr' \in [1 .. MaxBits -> Nat]
  BY StackAssumption DEF Allocate, MaxBits, MaxWidth
<1>3. /\ memory' = [a \in 0 .. fileSize + MaxWidth - 1 |-> IF a < fileSize THEN 0 ELSE HEAP]
      /\ fileSize \in Nat /\ MaxWidth \in Nat /\ Count(input, flag) \in Nat
      /\ Bits(flag) \in Nat
  BY <1>1, WholeElements, Sizes DEF Allocate
<1>4. memory' \in [0 .. fileSize + MaxWidth - 1 -> Nat \cup {HEAP}]
  BY <1>3
<1>5. fileSize' = fileSize
  BY <1>1 DEF fileSize
<1>6. DecoderTypeOK'
  <2>1. /\ flag \in 1 .. 8 /\ heap \in {"ok", "corrupt"} /\ shown \in Seq(Seq(Int))
        /\ eof' \in BOOLEAN
    BY DEF DecoderInv, DecoderTypeOK, Allocate
  <2>2. pos' \in 0 .. Len(input) /\ i' \in Nat
    BY <1>1
  <2> QED
    BY <1>1, <1>2, <1>4, <1>5, <2>1, <2>2 DEF DecoderTypeOK
<1>7. ShownInv'
  BY <1>1 DEF DecoderInv, ShownInv, Allocate
<1>8. \A a \in Len(input) \div BYTE .. Len(input) \div BYTE + MaxWidth - 1 :
         memory'[a] = HEAP
  BY <1>1, <1>3
<1>9. LoopOK(input, flag, 0, tmpStr', memory', 0)
  <2>1. 0 * Bits(flag) = 0
    BY <1>3
  <2>2. 0 \notin 1 .. Count(input, flag) /\ ~(0 > Count(input, flag))
    BY <1>3
  <2>3. \A e \in 0 .. Count(input, flag) - 1 : ~(e < 0)
    BY <1>3
  <2> QED
    BY <1>1, <1>3, <1>8, <2>1, <2>2, <2>3 DEF LoopOK
<1>10. LoopInv'
  BY <1>1, <1>3, <1>9 DEF LoopInv
<1> QED
  BY <1>6, <1>7, <1>10 DEF DecoderInv
(* ... after a pass of the loop,                                           *)
LEMMA ReadElementInv ==
  ASSUME DecoderInv, ReadElement PROVE DecoderInv'
<1> DEFINE left == Len(input) - pos
           got == IF Bits(flag) <= left THEN Bits(flag) ELSE left
<1>1. /\ input \in Inputs /\ flag \in Flags /\ i \in Nat /\ ~eof /\ stage = "loop"
      /\ tmpStr \in [1 .. MaxBits -> Nat]
      /\ memory \in [0 .. Len(input) \div BYTE + MaxWidth - 1 -> Nat \cup {HEAP}]
      /\ heap \in {"ok", "corrupt"} /\ shown \in Seq(Seq(Int)) /\ flag \in 1 .. 8
  BY DEF DecoderInv, DecoderTypeOK, ShownInv, ReadElement, fileSize
<1>2. /\ input' = input /\ flag' = flag /\ shown' = shown /\ stage' = stage
      /\ i' = i + 1
      /\ pos' = pos + got
      /\ eof' = (eof \/ got < Bits(flag))
      /\ tmpStr' = [c \in 1 .. MaxBits |-> IF c <= got THEN input[pos + c] ELSE tmpStr[c]]
      /\ memory' = Store(memory, flag, i, stringToBit(tmpStr', Bits(flag)))
  BY <1>1 DEF ReadElement, fread1
<1>3. heap' \in {"ok", "corrupt"}
  BY <1>1 DEF ReadElement
<1>4. PICK n \in Nat : n = i
  BY <1>1
<1>5. /\ LoopOK(input, flag, pos, tmpStr, memory, i) /\ (eof <=> i > Count(input, flag))
      /\ Len(input) % MaxBits = 0
  BY <1>1 DEF DecoderInv, LoopInv, LoopOK
<1>6. Count(input, flag) \in Nat /\ Bits(flag) \in Nat
  BY <1>1, <1>5, WholeElements, Sizes
<1>7. i <= Count(input, flag)
  BY <1>1, <1>5, <1>6
<1> HIDE DEF left
<1>8. PICK g : g = got
  OBVIOUS
<1>9. g = IF Bits(flag) <= Len(input) - pos THEN Bits(flag) ELSE Len(input) - pos
  BY <1>8 DEF left
<1> HIDE DEF got
<1>10. PICK now : now = tmpStr'
  OBVIOUS
<1>11. PICK next : next = memory'
  OBVIOUS
<1>12. /\ now = ReadInto(tmpStr, input, pos, g)
       /\ next = Store(memory, flag, i, stringToBit(now, Bits(flag)))
  BY <1>2, <1>8, <1>10, <1>11 DEF ReadInto
<1>13. /\ now \in [1 .. MaxBits -> Nat]
       /\ next \in [0 .. Len(input) \div BYTE + MaxWidth - 1 -> Nat \cup {HEAP}]
       /\ pos + g \in 0 .. Len(input)
       /\ g < Bits(flag) <=> i = Count(input, flag)
       /\ LoopOK(input, flag, pos + g, now, next, i + 1)
  BY ONLY <1>1, <1>5, <1>7, <1>9, <1>12, NextElement, SMT
<1>14. DecoderTypeOK'
  <2>1. fileSize' = Len(input) \div BYTE
    BY <1>2 DEF fileSize
  <2>2. i' \in Nat /\ pos' \in 0 .. Len(input)
    BY <1>1, <1>2, <1>8, <1>13
  <2>3. memory' \in [0 .. fileSize' + MaxWidth - 1 -> Nat \cup {HEAP}]
    BY <1>11, <1>13, <2>1
  <2>4. eof' \in BOOLEAN
    BY <1>2
  <2>5. tmpStr' \in [1 .. MaxBits -> Nat]
    BY <1>10, <1>13
  <2> QED
    BY <1>1, <1>2, <1>3, <2>2, <2>3, <2>4, <2>5 DEF DecoderTypeOK
<1>15. ShownInv'
  BY <1>2 DEF DecoderInv, ShownInv
<1>16. LoopInv'
  <2>1. LoopOK(input, flag, pos', tmpStr', memory', i')
    BY <1>2, <1>8, <1>10, <1>11, <1>13
  <2>2. eof' <=> i' > Count(input, flag)
    <3>1. i + 1 > Count(input, flag) <=> i = Count(input, flag)
      BY <1>1, <1>6, <1>7
    <3> QED
      BY <1>1, <1>2, <1>8, <1>13, <3>1
  <2> QED
    BY <1>2, <2>1, <2>2 DEF LoopInv
<1> QED
  BY <1>14, <1>15, <1>16 DEF DecoderInv

(* What printResult and AbortInFree show.                                  *)
LEMMA PrintedInv ==
  ASSUME DecoderInv, stage = "loop", eof, Printed
  PROVE  /\ shown' = Append(shown, Numbers(input, flag))
         /\ Len(input) % MaxBits = 0
         /\ Numbers(input, flag) \in Seq(Int)
         /\ shown' \in Seq(Seq(Int))
         /\ Len(shown') = flag
         /\ \A k \in 1 .. Len(shown') : shown'[k] = Numbers(input, k)
<1>1. /\ input \in Inputs /\ flag \in Flags /\ i \in Nat /\ shown \in Seq(Seq(Int))
      /\ Len(shown) = flag - 1
  BY DEF DecoderInv, DecoderTypeOK, ShownInv
<1>2. /\ LoopOK(input, flag, pos, tmpStr, memory, i) /\ i > Count(input, flag)
      /\ Len(input) % MaxBits = 0
  BY DEF DecoderInv, LoopInv, LoopOK
<1>3. Elements(flag) = Count(input, flag)
  BY DEF Elements, fileSize, Count
<1>4. [e \in 1 .. Count(input, flag) |-> Signed(flag, Load(memory, flag, e - 1))]
        = Numbers(input, flag)
  BY <1>1, <1>2, LoadsNumbers
<1>5. shown' = Append(shown, Numbers(input, flag))
  BY <1>3, <1>4 DEF Printed
<1>6. Numbers(input, flag) \in Seq(Int)
  BY <1>1, <1>2, NumbersFacts
<1>7. PICK new \in Seq(Int) : new = Numbers(input, flag)
  BY <1>6
<1>8. /\ Append(shown, new) \in Seq(Seq(Int))
      /\ Len(Append(shown, new)) = flag
      /\ \A k \in 1 .. flag - 1 : Append(shown, new)[k] = shown[k]
      /\ Append(shown, new)[flag] = new
  <2>1. flag \in Nat /\ flag > 0
    BY <1>1 DEF Flags
  <2>2. /\ Append(shown, new) \in Seq(Seq(Int))
        /\ Len(Append(shown, new)) = Len(shown) + 1
        /\ \A k \in 1 .. Len(shown) : Append(shown, new)[k] = shown[k]
        /\ Append(shown, new)[Len(shown) + 1] = new
    BY ONLY <1>1, <1>7, AppendProperties, SMT
  <2> QED
    BY <1>1, <2>1, <2>2
<1>9. \A k \in 1 .. Len(shown) : shown[k] = Numbers(input, k)
  BY DEF DecoderInv, ShownInv
<1>10. \A k \in 1 .. flag : shown'[k] = Numbers(input, k)
  <2>1. flag \in Nat /\ flag > 0
    BY <1>1 DEF Flags
  <2> QED
    BY <1>1, <1>5, <1>7, <1>8, <1>9, <2>1
<1> QED
  BY <1>2, <1>5, <1>6, <1>7, <1>8, <1>10

(* ... when a type has been shown,                                         *)
LEMMA PrintResultInv ==
  ASSUME DecoderInv, printResult PROVE DecoderInv'
<1>1. /\ stage = "loop" /\ eof /\ Printed /\ input' = input /\ flag' = flag + 1
      /\ pos' = pos /\ eof' = eof /\ tmpStr' = tmpStr /\ i' = i /\ heap' = heap
      /\ stage' = IF flag = 7 THEN "exit 0" ELSE "readFile"
  BY DEF printResult
<1>2. flag \in Flags
  BY <1>1 DEF DecoderInv, ShownInv
<1>3. /\ Len(input) % MaxBits = 0 /\ shown' \in Seq(Seq(Int)) /\ Len(shown') = flag
      /\ \A k \in 1 .. Len(shown') : shown'[k] = Numbers(input, k)
  BY <1>1, PrintedInv
<1>4. flag' \in 1 .. 8 /\ flag' - 1 = flag /\ (stage' = "readFile" => flag' \in Flags)
  <2>1. flag' \in 1 .. 8 /\ flag' - 1 = flag /\ (flag # 7 => flag' \in Flags)
    <3>1. flag' = flag + 1 /\ flag \in 1 .. 7
      BY <1>1, <1>2 DEF Flags
    <3> QED
      BY ONLY <3>1, SMT DEF Flags
  <2>2. stage' = "readFile" => flag # 7
    BY <1>1
  <2> QED
    BY <2>1, <2>2
<1>5. stage' # "loop" /\ stage' \in {"readFile", "exit 0"}
  BY <1>1
<1>6. DecoderTypeOK'
  <2>1. /\ input \in Inputs /\ pos \in 0 .. Len(input) /\ eof \in BOOLEAN
        /\ tmpStr \in [1 .. MaxBits -> Nat] /\ i \in Nat /\ heap \in {"ok", "corrupt"}
    BY DEF DecoderInv, DecoderTypeOK
  <2>2. /\ input' \in Inputs /\ pos' \in 0 .. Len(input') /\ eof' \in BOOLEAN
        /\ tmpStr' \in [1 .. MaxBits -> Nat] /\ i' \in Nat /\ heap' \in {"ok", "corrupt"}
    BY <1>1, <2>1
  <2> QED
    BY <1>3, <1>4, <1>5, <2>2 DEF DecoderTypeOK
<1>7. ShownInv'
  <2>1. Len(shown') <= 7
    BY <1>2, <1>3 DEF Flags
  <2> QED
    BY <1>1, <1>3, <1>4, <1>5, <2>1 DEF ShownInv
<1> QED
  BY <1>5, <1>6, <1>7 DEF DecoderInv, LoopInv

(* ... and when the allocator aborts the program.                          *)
LEMMA AbortInv ==
  ASSUME DecoderInv, AbortInFree \/ AbortInMalloc PROVE DecoderInv'
<1>1. /\ input' = input /\ flag' = flag /\ pos' = pos /\ eof' = eof
      /\ tmpStr' = tmpStr /\ i' = i /\ heap' = heap /\ stage' = "aborted"
  BY DEF AbortInFree, AbortInMalloc
<1>2. /\ shown' \in Seq(Seq(Int)) /\ Len(shown') <= 7
      /\ Len(shown') > 0 => Len(input) % MaxBits = 0
      /\ \A k \in 1 .. Len(shown') : shown'[k] = Numbers(input, k)
  <2>1. CASE AbortInFree
    <3>1. stage = "loop" /\ eof /\ Printed
      BY <2>1 DEF AbortInFree
    <3>2. flag <= 7
      BY <3>1 DEF DecoderInv, ShownInv, Flags
    <3> QED
      BY <3>1, <3>2, PrintedInv
  <2>2. CASE AbortInMalloc
    BY <2>2 DEF AbortInMalloc, DecoderInv, DecoderTypeOK, ShownInv
  <2> QED
    BY <2>1, <2>2
<1>3. DecoderTypeOK'
  <2>1. /\ input \in Inputs /\ pos \in 0 .. Len(input) /\ eof \in BOOLEAN /\ flag \in 1 .. 8
        /\ tmpStr \in [1 .. MaxBits -> Nat] /\ i \in Nat /\ heap \in {"ok", "corrupt"}
    BY DEF DecoderInv, DecoderTypeOK
  <2>2. /\ input' \in Inputs /\ pos' \in 0 .. Len(input') /\ eof' \in BOOLEAN
        /\ flag' \in 1 .. 8
        /\ tmpStr' \in [1 .. MaxBits -> Nat] /\ i' \in Nat /\ heap' \in {"ok", "corrupt"}
    BY <1>1, <2>1
  <2> QED
    BY <1>1, <1>2, <2>2 DEF DecoderTypeOK
<1>4. ShownInv'
  BY <1>1, <1>2 DEF ShownInv
<1> QED
  BY <1>1, <1>3, <1>4 DEF DecoderInv, LoopInv

(* The invariant is one.                                                   *)
THEOREM DecoderInvariance == DecoderSpec => []DecoderInv
<1>1. DecoderInit => DecoderInv
  BY DecoderInitInv
<1>2. DecoderInv /\ [DecoderNext]_decoder => DecoderInv'
  <2> SUFFICES ASSUME DecoderInv, [DecoderNext]_decoder PROVE DecoderInv'
    OBVIOUS
  <2>1. CASE WrongLength
    BY <2>1, WrongLengthInv
  <2>2. CASE Allocate
    BY <2>2, AllocateInv
  <2>3. CASE ReadElement
    BY <2>3, ReadElementInv
  <2>4. CASE printResult
    BY <2>4, PrintResultInv
  <2>5. CASE AbortInFree \/ AbortInMalloc
    BY <2>5, AbortInv
  <2>6. CASE UNCHANGED decoder
    <3>1. DecoderTypeOK'
      BY <2>6 DEF DecoderInv, DecoderTypeOK, decoder, fileSize
    <3>2. ShownInv'
      BY <2>6 DEF DecoderInv, ShownInv, decoder
    <3>3. LoopInv'
      BY <2>6 DEF DecoderInv, LoopInv, decoder
    <3> QED
      BY <3>1, <3>2, <3>3 DEF DecoderInv
  <2> QED
    BY <2>1, <2>2, <2>3, <2>4, <2>5, <2>6 DEF DecoderNext
<1> QED
  BY <1>1, <1>2, PTL DEF DecoderSpec

(* The types of the variables: in particular, only bytes of elements and   *)
(* of the allocator are ever in the block.                                 *)
THEOREM DecoderTypeCorrect == DecoderSpec => []DecoderTypeOK
<1>1. DecoderInv => DecoderTypeOK
  BY DEF DecoderInv
<1> QED
  BY <1>1, DecoderInvariance, PTL

(* The pass of readFile's loop that finds the end of the file stores one   *)
(* element behind the block, a copy of the last one, and no pass more.     *)
THEOREM OneBehind == DecoderSpec => []OneElementBehind
<1>1. ASSUME DecoderInv, stage = "loop"
      PROVE  /\ \A a \in fileSize + Width(flag) .. fileSize + MaxWidth - 1 :
                   memory[a] = HEAP
             /\ eof /\ fileSize > 0 =>
                   Load(memory, flag, Elements(flag))
                      = Load(memory, flag, Elements(flag) - 1)
  <2> DEFINE E == Count(input, flag)
  <2>1. /\ input \in Inputs /\ flag \in Flags /\ i \in Nat
        /\ LoopOK(input, flag, pos, tmpStr, memory, i) /\ (eof => i > E)
        /\ Len(input) % MaxBits = 0
    BY <1>1 DEF DecoderInv, DecoderTypeOK, ShownInv, LoopInv, LoopOK
  <2>2. /\ E \in Nat /\ fileSize = E * Width(flag) /\ fileSize \in Nat
        /\ Width(flag) \in Nat /\ Width(flag) > 0 /\ MaxWidth \in Nat
    BY <2>1, WholeElements, Sizes DEF fileSize
  <2>3. Elements(flag) = E
    BY DEF Elements, fileSize, Count
  <2>4. ASSUME NEW a \in fileSize + Width(flag) .. fileSize + MaxWidth - 1
        PROVE  memory[a] = HEAP
    <3>1. a \in fileSize .. fileSize + MaxWidth - 1 /\ a >= fileSize + Width(flag)
      <4> HIDE DEF E
      <4>1. \A x, w, m \in Nat : \A b \in x + w .. x + m - 1 :
               b \in x .. x + m - 1 /\ b >= x + w
        OBVIOUS
      <4> QED
        BY <2>2, <2>4, <4>1
    <3> QED
      BY <2>1, <3>1 DEF LoopOK, fileSize
  <2>5. ASSUME eof, fileSize > 0
        PROVE  Load(memory, flag, E) = Load(memory, flag, E - 1)
    <3>1. E > 0
      <4>1. 0 * Width(flag) = 0
        BY <2>2
      <4> HIDE DEF E
      <4> QED
        BY <2>2, <2>5, <4>1
    <3> DEFINE v == Number(input, flag, E - 1)
    <3>2. E - 1 \in 0 .. E - 1 /\ E - 1 \in Nat /\ i > E /\ E - 1 < i
      BY <2>1, <2>2, <2>5, <3>1
    <3>3. v \in Nat /\ v < Power[Bits(flag)]
      BY <2>1, <3>2, NumberFacts
    <3>4. Holds(memory, flag, E, v) /\ Holds(memory, flag, E - 1, v)
      BY <2>1, <3>1, <3>2 DEF LoopOK
    <3> HIDE DEF v
    <3>5. Load(memory, flag, E) = v /\ Load(memory, flag, E - 1) = v
      BY <2>1, <2>2, <3>2, <3>3, <3>4, LoadHeld
    <3> QED
      BY <3>5
  <2> QED
    BY <2>3, <2>4, <2>5
<1>2. DecoderInv => OneElementBehind
  BY <1>1 DEF OneElementBehind
<1> QED
  BY <1>2, DecoderInvariance, PTL

(* What printResult shows is what the file says: the binary digits of      *)
(* element e are the characters that stand for it, for every type.         *)
THEOREM ShowsTheFile == DecoderSpec => []ShowsTheBits
<1>1. ASSUME DecoderInv, NEW k \in 1 .. Len(shown)
      PROVE  /\ Len(shown[k]) = Len(input) \div Bits(k)
             /\ \A e \in 1 .. Len(shown[k]) :
                   LET v == shown[k][e]
                       u == IF v < 0 THEN v + Power[Bits(k)] ELSE v
                   IN  /\ u \in 0 .. Power[Bits(k)] - 1
                       /\ IsSigned(k) =>
                             (v < 0 <=> input[(e - 1) * Bits(k) + 1] % 2 = 1)
                       /\ \A b \in 1 .. Bits(k) :
                             (u \div Power[Bits(k) - b]) % 2
                                = input[(e - 1) * Bits(k) + b] % 2
  <2>1. /\ input \in Inputs /\ Len(shown) <= 7 /\ Len(shown) \in Nat
        /\ shown[k] = Numbers(input, k)
    <3>1. shown \in Seq(Seq(Int)) /\ input \in Inputs
      BY <1>1 DEF DecoderInv, DecoderTypeOK
    <3>2. Len(shown) <= 7 /\ shown[k] = Numbers(input, k)
      BY <1>1 DEF DecoderInv, ShownInv
    <3> QED
      BY <3>1, <3>2
  <2>2. k \in Flags /\ Len(input) % MaxBits = 0
    BY <1>1, <2>1 DEF DecoderInv, ShownInv, Flags
  <2>3. /\ Count(input, k) \in Nat /\ Len(shown[k]) = Count(input, k)
        /\ Len(input) \div Bits(k) = Count(input, k)
    BY <2>1, <2>2, WholeElements, NumbersFacts
  <2>4. ASSUME NEW e \in 1 .. Count(input, k), NEW v, v = shown[k][e],
               NEW u, u = IF v < 0 THEN v + Power[Bits(k)] ELSE v
        PROVE  /\ u \in 0 .. Power[Bits(k)] - 1
               /\ IsSigned(k) => (v < 0 <=> input[(e - 1) * Bits(k) + 1] % 2 = 1)
               /\ \A b \in 1 .. Bits(k) :
                     (u \div Power[Bits(k) - b]) % 2 = input[(e - 1) * Bits(k) + b] % 2
    <3>1. e - 1 \in 0 .. Count(input, k) - 1
      BY <2>3
    <3>2. PICK w : w = Number(input, k, e - 1)
      OBVIOUS
    <3>3. /\ w \in Nat /\ w < Power[Bits(k)]
          /\ \A b \in 1 .. Bits(k) :
                (w \div Power[Bits(k) - b]) % 2 = input[(e - 1) * Bits(k) + b] % 2
      BY <2>1, <2>2, <3>1, <3>2, NumberFacts
    <3>4. v = Signed(k, w)
      BY <2>1, <2>4, <3>2 DEF Numbers
    <3>5. /\ w = IF v < 0 THEN v + Power[Bits(k)] ELSE v
          /\ IsSigned(k) => (v < 0 <=> (w \div Power[Bits(k) - 1]) % 2 = 1)
      BY ONLY <2>2, <3>3, <3>4, SignedFacts, SMT
    <3>6. u = w
      BY <2>4, <3>5
    <3>7. Bits(k) \in Nat /\ 1 \in 1 .. Bits(k) /\ Power[Bits(k)] \in Nat
      BY <2>2, Sizes, PowerFacts
    <3>8. u \in 0 .. Power[Bits(k)] - 1
      BY <3>3, <3>6, <3>7
    <3> QED
      BY <3>3, <3>5, <3>6, <3>7, <3>8
  <2> QED
    BY <2>3, <2>4
<1>2. DecoderInv => ShowsTheBits
  BY <1>1 DEF ShowsTheBits
<1> QED
  BY <1>2, DecoderInvariance, PTL
=============================================================================
